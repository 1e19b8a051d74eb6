--------------------------- MODULE MCModelRunner ---------------------------
(* Instances of ModelRunner for TLC: prompts of one token, or of several that  *)
(* chunked prefill may split.                                                  *)
EXTENDS ModelRunner

CONSTANTS r1, r2, r3

Short  == [r \in Reqs |-> 1]
Long   == [r \in Reqs |-> 2]
R2Long == [r \in Reqs |-> IF r = r2 THEN 3 ELSE 1]
R2Two  == [r \in Reqs |-> IF r = r2 THEN 2 ELSE 1]
Mixed  == [r \in Reqs |-> IF r = r2 THEN 3 ELSE 2]

(* The batch is sound in every state of a step: rows are their requests' own   *)
(* (_update_states, condense, swap_states), and in the order sampling assumes  *)
(* (_get_prompts_and_decodes).                                                 *)
RowsOwn == TypeOK /\ RowsMatch /\ PartitionHolds
=============================================================================
