--------------------------- MODULE SequenceLoops ----------------------------
(***************************************************************************)
(* Operators on sequences that the community modules define by recursion   *)
(* over an operator, written as loops that can be proved about (module     *)
(* SequenceFacts).                                                         *)
(***************************************************************************)
EXTENDS Integers, Sequences

(* Sequences one after the other.                                           *)
Concat(s, t) == s \o t

Joined == INSTANCE LeftFold WITH Step <- Concat

Flat(ss) == Joined!Fold(<<>>, ss)

(* The sum of a sequence of numbers.                                        *)
Plus(x, y) == x + y

Summing == INSTANCE LeftFold WITH Step <- Plus

SumOf(s) == Summing!Fold(0, s)

(* The elements of a sequence that are in a set, in their order.            *)
OnlyIn(s, K) == Flat([i \in 1..Len(s) |-> IF s[i] \in K THEN <<s[i]>> ELSE <<>>])
=============================================================================
