----------------------------- MODULE SlotLease -----------------------------
(***************************************************************************)
(* What a pool of KV staging slots promises its users, on either side of a *)
(* prefill/decode transfer: a request holds either no slot or all it needs,*)
(* no slot has two holders, and the slots of a request stay its own, the   *)
(* same ones, for as long as a transfer is using them.                     *)
(***************************************************************************)
EXTENDS Naturals, FiniteSets

CONSTANTS Reqs, Slots, Need

VARIABLES
  held,   \* held[r]: the slots reserved for r
  inUse   \* requests whose slots a transfer is reading or writing

vars == <<held, inUse>>

Exclusive(h) == \A q, r \in Reqs : q # r => h[q] \cap h[r] = {}

Init ==
  /\ held = [r \in Reqs |-> {}]
  /\ inUse = {}

(* One step of the pool's owner may serve several requests.                 *)
Keeps(r) == held'[r] = held[r]
Reserves(r) == held[r] = {} /\ held'[r] \subseteq Slots /\ Cardinality(held'[r]) = Need[r]
Returns(r) == held[r] # {} /\ held'[r] = {} /\ r \notin inUse \intersect inUse'

Next ==
  /\ \A r \in Reqs : Keeps(r) \/ Reserves(r) \/ Returns(r)
  /\ Exclusive(held')
  /\ \A r \in inUse' : held'[r] # {}

Spec == Init /\ [][Next]_vars
=============================================================================
