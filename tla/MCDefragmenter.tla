-------------------------- MODULE MCDefragmenter --------------------------
(* Model-checking instance of Defragmenter: symmetry over request ids.      *)
EXTENDS Defragmenter, TLC

ReqSymmetry == Permutations(Reqs)
=============================================================================
