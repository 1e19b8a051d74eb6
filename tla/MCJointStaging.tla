--------------------------- MODULE MCJointStaging ---------------------------
(* Instances of JointStaging for TLC: requests of one or two slots, prefilled  *)
(* in one or two chunks, that end with their prefill or decode on.             *)
EXTENDS JointStaging

CONSTANTS r1, r2, r3

TwoSlots   == [r \in Reqs |-> IF r = r1 THEN 1 ELSE 2]
AllTwo     == [r \in Reqs |-> 2]
AllOne     == [r \in Reqs |-> 1]
R2Chunked  == [r \in Reqs |-> IF r = r2 THEN 2 ELSE 1]
R3Decodes  == [r \in Reqs |-> IF r = r3 THEN 1 ELSE 0]
R2Decodes  == [r \in Reqs |-> IF r = r2 THEN 1 ELSE 0]
NoDecode   == [r \in Reqs |-> 0]
=============================================================================
