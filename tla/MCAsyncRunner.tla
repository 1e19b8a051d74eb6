--------------------------- MODULE MCAsyncRunner ---------------------------
(* Instances of AsyncRunner for TLC: prompts of one token, or of two that      *)
(* chunked prefill may split.                                                  *)
EXTENDS AsyncRunner

CONSTANTS r1, r2, r3

Short  == [r \in Reqs |-> 1]
R2Two  == [r \in Reqs |-> IF r = r2 THEN 2 ELSE 1]
=============================================================================
