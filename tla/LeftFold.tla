------------------------------ MODULE LeftFold ------------------------------
(***************************************************************************)
(* A loop over a sequence: the state after the last element when each one   *)
(* takes the state to Step(state, element).  Written as a recursive         *)
(* function, so that it can be proved about (module SequenceFacts).          *)
(***************************************************************************)
EXTENDS Integers, Sequences

CONSTANT Step(_, _)

Fold(base, s) ==
  LET after[i \in 0..Len(s)] == IF i = 0 THEN base ELSE Step(after[i - 1], s[i])
  IN  after[Len(s)]
=============================================================================
