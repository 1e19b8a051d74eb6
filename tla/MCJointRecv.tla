---------------------------- MODULE MCJointRecv -----------------------------
(* Instances of JointRecv for TLC: requests whose last block is full or not.   *)
EXTENDS JointRecv

CONSTANTS r1, r2, r3

Mixed == [r \in Reqs |-> CASE r = r1 -> 1 [] r = r2 -> 2 [] OTHER -> 3]
=============================================================================
