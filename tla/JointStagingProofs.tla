------------------------- MODULE JointStagingProofs -------------------------
(***************************************************************************)
(* Theorems about JointStaging for every set of requests, every pool size, *)
(* every need and every length of prefill and decode.                      *)
(***************************************************************************)
EXTENDS JointStaging, FiniteSetTheorems, TLAPS

INSTANCE SequenceFacts WITH Step <- Concat  \* facts about sequences and finite sets

DrainingFacts  == INSTANCE SequenceFacts WITH Step <- TrySave
SavingFacts    == INSTANCE SequenceFacts WITH Step <- SaveScheduled
FinishingFacts == INSTANCE SequenceFacts WITH Step <- EndRequest
ReleasingFacts == INSTANCE SequenceFacts WITH Step <- FreeStagingSlots

(* SetToSeq lists a finite set, every element once.                           *)
LEMMA Listing ==
  ASSUME NEW S, IsFiniteSet(S)
  PROVE  /\ SetToSeq(S) \in Seq(S) /\ Len(SetToSeq(S)) = Cardinality(S) /\ Cardinality(S) \in Nat
         /\ IsInjective(SetToSeq(S)) /\ Range(SetToSeq(S)) = S
<1>1. SetToSeq(S) \in [1..Cardinality(S) -> S] /\ IsInjective(SetToSeq(S))
  BY Listable DEF SetToSeq
<1>2. QED BY <1>1, Listed

(* So does every member of SetToSeqs.                                         *)
LEMMA Listings ==
  ASSUME NEW S, IsFiniteSet(S), NEW s \in SetToSeqs(S)
  PROVE  s \in Seq(S) /\ IsInjective(s) /\ Range(s) = S
<1>1. s \in [1..Cardinality(S) -> S] /\ \A i, j \in 1..Cardinality(S) : i # j => s[i] # s[j]
  BY DEF SetToSeqs
<1>2. IsInjective(s)
  BY <1>1 DEF IsInjective
<1>3. QED BY <1>1, <1>2, Listed

(* Popping a list reverses what it takes.                                      *)
LEMMA Reversed == ASSUME NEW s PROVE Reverse(s) = Backwards(s)
  BY DEF Reverse, Backwards

-----------------------------------------------------------------------------
Connectors ==
  [staging_free : Seq(Slots), staging_by_req : [Reqs -> Seq(Slots)],
   deferred_saves : Seq([req : Reqs, blocks : Seq(Nat)]),
   reqs_need_save : SUBSET Reqs, partial_reqs : [Reqs -> Seq(Nat)],
   reqs_need_send : SUBSET Reqs, reqs_in_batch : SUBSET Reqs,
   reqs_not_processed : SUBSET Reqs]

(* The free list and the reservations list every slot once.                    *)
Pool(c) ==
  /\ IsInjective(c.staging_free)
  /\ \A r \in Reqs : /\ IsInjective(c.staging_by_req[r])
                     /\ Range(c.staging_by_req[r]) \cap Range(c.staging_free) = {}
  /\ \A q, r \in Reqs : q # r => Range(c.staging_by_req[q]) \cap Range(c.staging_by_req[r]) = {}
  /\ \A s \in Slots : s \in Range(c.staging_free) \/ \E r \in Reqs : s \in Range(c.staging_by_req[r])

Pools == {c \in Connectors : Pool(c)}

(* What the allocator does to the pool: nothing, or Need[r] slots move.        *)
LEMMA AllocFacts ==
  ASSUME NEW c \in Pools, NEW r \in Reqs
  PROVE  \/ /\ AllocStagingSlots(c, r) = c
            /\ c.staging_by_req[r] # <<>> \/ Len(c.staging_free) < Need[r]
         \/ /\ c.staging_by_req[r] = <<>>
            /\ \E front, back \in Seq(Slots) :
                 /\ AllocStagingSlots(c, r) = [c EXCEPT !.staging_by_req[r] = back, !.staging_free = front]
                 /\ Len(front) = Len(c.staging_free) - Need[r] /\ Len(back) = Need[r]
                 /\ IsInjective(front) /\ IsInjective(back)
                 /\ Range(front) \cap Range(back) = {}
                 /\ Range(front) \union Range(back) = Range(c.staging_free)
<1> DEFINE free == c.staging_free
           rest == Len(free) - Need[r]
<1>1. free \in Seq(Slots) /\ IsInjective(free) /\ Need[r] \in Nat \ {0} /\ Len(free) \in Nat
  BY ConstantsAssumption DEF Pools, Pool, Connectors
<1>2. CASE c.staging_by_req[r] # <<>> \/ rest < 0
  <2>1. AllocStagingSlots(c, r) = c
    BY <1>2 DEF AllocStagingSlots
  <2>2. rest < 0 => Len(free) < Need[r]
    BY <1>1
  <2>3. QED BY <1>2, <2>1, <2>2
<1>3. CASE ~ (c.staging_by_req[r] # <<>> \/ rest < 0)
  <2> DEFINE front == SubSeq(free, 1, rest)
             back  == Reverse(SubSeq(free, rest + 1, rest + Need[r]))
  <2>1. Need[r] \in 1..Len(free)
    BY <1>1, <1>3
  <2>2. AllocStagingSlots(c, r) = [c EXCEPT !.staging_by_req[r] = back, !.staging_free = front]
    BY <1>3 DEF AllocStagingSlots
  <2> HIDE DEF free
  <2>3. /\ front \in Seq(Slots) /\ back \in Seq(Slots)
        /\ Len(front) = rest /\ Len(back) = Need[r]
        /\ IsInjective(front) /\ IsInjective(back)
        /\ Range(front) \cap Range(back) = {}
        /\ Range(front) \union Range(back) = Range(free)
    BY <1>1, <2>1, Taking, Reversed
  <2>4. QED
    <3> HIDE DEF front, back
    <3>1. QED BY <1>3, <2>2, <2>3 DEF free
<1>4. QED BY <1>2, <1>3

LEMMA AllocPool ==
  ASSUME NEW c \in Pools, NEW r \in Reqs
  PROVE  /\ AllocStagingSlots(c, r) \in Pools
         /\ \A q \in Reqs : q # r => AllocStagingSlots(c, r).staging_by_req[q] = c.staging_by_req[q]
         /\ \/ AllocStagingSlots(c, r).staging_by_req[r] = c.staging_by_req[r]
            \/ /\ c.staging_by_req[r] = <<>>
               /\ Len(AllocStagingSlots(c, r).staging_by_req[r]) = Need[r]
<1> DEFINE a == AllocStagingSlots(c, r)
<1>1. CASE a = c
  BY <1>1
<1>2. CASE a # c
  <2>1. PICK front \in Seq(Slots), back \in Seq(Slots) :
          /\ a = [c EXCEPT !.staging_by_req[r] = back, !.staging_free = front]
          /\ Len(back) = Need[r]
          /\ IsInjective(front) /\ IsInjective(back)
          /\ Range(front) \cap Range(back) = {}
          /\ Range(front) \union Range(back) = Range(c.staging_free)
    <3>1. ~ (a = c /\ (c.staging_by_req[r] # <<>> \/ Len(c.staging_free) < Need[r]))
      BY <1>2
    <3>2. QED BY <3>1, AllocFacts, ZenonT(30)
  <2>2. c.staging_by_req[r] = <<>>
    BY <1>2, AllocFacts
  <2> HIDE DEF a
  <2>3. /\ a \in Connectors /\ c \in Connectors
        /\ a.staging_free = front /\ a.staging_by_req[r] = back
        /\ \A q \in Reqs : q # r => a.staging_by_req[q] = c.staging_by_req[q]
    BY <2>1 DEF Pools, Connectors
  <2>4. Pool(a)
    <3>1. IsInjective(a.staging_free)
      BY <2>1, <2>3
    <3>2. ASSUME NEW q \in Reqs
          PROVE  /\ IsInjective(a.staging_by_req[q])
                 /\ Range(a.staging_by_req[q]) \cap Range(a.staging_free) = {}
      <4>1. CASE q = r
        BY <2>1, <2>3, <4>1
      <4>2. CASE q # r
        <5>1. /\ IsInjective(c.staging_by_req[q])
              /\ Range(c.staging_by_req[q]) \cap Range(c.staging_free) = {}
          BY DEF Pools, Pool
        <5>2. QED BY <2>1, <2>3, <4>2, <5>1
      <4>3. QED BY <4>1, <4>2
    <3>3. ASSUME NEW p \in Reqs, NEW q \in Reqs, p # q
          PROVE  Range(a.staging_by_req[p]) \cap Range(a.staging_by_req[q]) = {}
      <4>1. /\ Range(c.staging_by_req[p]) \cap Range(c.staging_by_req[q]) = {}
            /\ Range(c.staging_by_req[p]) \cap Range(c.staging_free) = {}
            /\ Range(c.staging_by_req[q]) \cap Range(c.staging_free) = {}
        BY <3>3 DEF Pools, Pool
      <4>2. CASE p = r
        BY <2>1, <2>3, <3>3, <4>1, <4>2
      <4>3. CASE q = r
        BY <2>1, <2>3, <3>3, <4>1, <4>3
      <4>4. CASE p # r /\ q # r
        BY <2>3, <4>1, <4>4
      <4>5. QED BY <4>2, <4>3, <4>4
    <3>4. ASSUME NEW s \in Slots
          PROVE  s \in Range(a.staging_free) \/ \E q \in Reqs : s \in Range(a.staging_by_req[q])
      <4>1. CASE s \in Range(c.staging_free)
        BY <2>1, <2>3, <4>1
      <4>2. CASE s \notin Range(c.staging_free)
        <5>1. PICK q \in Reqs : s \in Range(c.staging_by_req[q])
          BY <4>2 DEF Pools, Pool
        <5>2. q # r
          BY <2>2, <5>1 DEF Range
        <5>3. QED BY <2>3, <5>1, <5>2
      <4>3. QED BY <4>1, <4>2
    <3>5. QED BY <3>1, <3>2, <3>3, <3>4 DEF Pool
  <2>5. QED BY <2>1, <2>2, <2>3, <2>4 DEF Pools, a
<1>3. QED BY <1>1, <1>2

LEMMA FreePool ==
  ASSUME NEW c \in Pools, NEW r \in Reqs
  PROVE  /\ FreeStagingSlots(c, r) \in Pools
         /\ FreeStagingSlots(c, r).staging_by_req = [c.staging_by_req EXCEPT ![r] = <<>>]
<1> DEFINE a == FreeStagingSlots(c, r)
           mine == c.staging_by_req[r]
           free == c.staging_free
<1>1. /\ c \in Connectors /\ free \in Seq(Slots) /\ mine \in Seq(Slots)
      /\ IsInjective(free) /\ IsInjective(mine) /\ Range(free) \cap Range(mine) = {}
  BY DEF Pools, Pool, Connectors
<1>2. free \o mine \in Seq(Slots) /\ IsInjective(free \o mine)
      /\ Range(free \o mine) = Range(free) \union Range(mine)
  <2> HIDE DEF free, mine
  <2>1. QED BY <1>1, Joining
<1>3. a = [c EXCEPT !.staging_free = free \o mine, !.staging_by_req[r] = <<>>]
  BY DEF FreeStagingSlots
<1>4. /\ a \in Connectors /\ a.staging_free = free \o mine
      /\ a.staging_by_req = [c.staging_by_req EXCEPT ![r] = <<>>]
      /\ a.staging_by_req[r] = <<>>
      /\ \A q \in Reqs : q # r => a.staging_by_req[q] = c.staging_by_req[q]
  <2>1. <<>> \in Seq(Slots)
    OBVIOUS
  <2> DEFINE joined == free \o mine
  <2>2. joined \in Seq(Slots) /\ a = [c EXCEPT !.staging_free = joined, !.staging_by_req[r] = <<>>]
    BY <1>2, <1>3
  <2> HIDE DEF joined, a, free, mine
  <2>3. /\ a \in Connectors /\ a.staging_free = joined
        /\ a.staging_by_req = [c.staging_by_req EXCEPT ![r] = <<>>]
        /\ a.staging_by_req[r] = <<>>
        /\ \A q \in Reqs : q # r => a.staging_by_req[q] = c.staging_by_req[q]
    BY <1>1, <2>1, <2>2 DEF Connectors
  <2>4. QED BY <2>3 DEF joined
<1>5. Pool(a)
  <2> HIDE DEF a
  <2>1. /\ Range(<<>>) = {} /\ IsInjective(<<>>)
    BY DEF Range, IsInjective
  <2>2. ASSUME NEW q \in Reqs
        PROVE  /\ IsInjective(a.staging_by_req[q])
               /\ Range(a.staging_by_req[q]) \cap Range(a.staging_free) = {}
    <3>1. CASE q = r
      BY <1>4, <2>1, <3>1
    <3>2. CASE q # r
      <4>1. /\ IsInjective(c.staging_by_req[q])
            /\ Range(c.staging_by_req[q]) \cap Range(free) = {}
            /\ Range(c.staging_by_req[q]) \cap Range(mine) = {}
        BY <3>2 DEF Pools, Pool
      <4>2. QED BY <1>2, <1>4, <3>2, <4>1
    <3>3. QED BY <3>1, <3>2
  <2>3. ASSUME NEW p \in Reqs, NEW q \in Reqs, p # q
        PROVE  Range(a.staging_by_req[p]) \cap Range(a.staging_by_req[q]) = {}
    <3>1. CASE p = r \/ q = r
      BY <1>4, <2>1, <3>1
    <3>2. CASE p # r /\ q # r
      <4>1. Range(c.staging_by_req[p]) \cap Range(c.staging_by_req[q]) = {}
        BY <2>3 DEF Pools, Pool
      <4>2. QED BY <1>4, <3>2, <4>1
    <3>3. QED BY <3>1, <3>2
  <2>4. ASSUME NEW s \in Slots
        PROVE  s \in Range(a.staging_free) \/ \E q \in Reqs : s \in Range(a.staging_by_req[q])
    <3>1. CASE s \in Range(free) \/ s \in Range(mine)
      BY <1>2, <1>4, <3>1
    <3>2. CASE ~ (s \in Range(free) \/ s \in Range(mine))
      <4>1. PICK q \in Reqs : s \in Range(c.staging_by_req[q])
        BY <3>2 DEF Pools, Pool
      <4>2. q # r
        BY <3>2, <4>1
      <4>3. QED BY <1>4, <4>1, <4>2
    <3>3. QED BY <3>1, <3>2
  <2>5. QED BY <1>2, <1>4, <2>2, <2>3, <2>4 DEF Pool
<1>6. QED BY <1>4, <1>5 DEF Pools

-----------------------------------------------------------------------------
(* The rest of the connector's operations.                                     *)
Deferrals == [req : Reqs, blocks : Seq(Nat)]

(* A connector whose pool is that of c0, but for requests that found slots.    *)
From(c0) ==
  {c \in Pools : \A r \in Reqs : \/ c.staging_by_req[r] = c0.staging_by_req[r]
                                 \/ /\ c0.staging_by_req[r] = <<>>
                                    /\ Len(c.staging_by_req[r]) = Need[r]}

(* A connector with the pool of another one.                                    *)
LEMMA SamePool ==
  ASSUME NEW c0, NEW c \in From(c0), NEW d \in Connectors,
         d.staging_free = c.staging_free, d.staging_by_req = c.staging_by_req
  PROVE  d \in From(c0)
<1>1. Pool(d)
  BY DEF From, Pools, Pool
<1>2. QED BY <1>1 DEF From, Pools

LEMMA DeferType ==
  ASSUME NEW c \in Connectors, NEW e \in Deferrals
  PROVE  /\ Defer(c, e) \in Connectors
         /\ Defer(c, e).staging_free = c.staging_free
         /\ Defer(c, e).staging_by_req = c.staging_by_req
<1> DEFINE saves == c.deferred_saves
           again == [i \in DOMAIN saves |-> IF saves[i].req = e.req THEN e ELSE saves[i]]
           more  == Append(saves, e)
<1>1. saves \in Seq(Deferrals)
  BY DEF Connectors, Deferrals
<1>2. again \in Seq(Deferrals) /\ more \in Seq(Deferrals)
  <2> HIDE DEF saves
  <2>1. again \in [1..Len(saves) -> Deferrals] /\ Len(saves) \in Nat
    BY <1>1
  <2>2. again \in Seq(Deferrals)
    <3> HIDE DEF again
    <3>1. QED BY <2>1
  <2>3. QED BY <1>1, <2>2
<1>3. \E q \in Seq(Deferrals) : Defer(c, e) = [c EXCEPT !.deferred_saves = q]
  <2>1. \/ Defer(c, e) = [c EXCEPT !.deferred_saves = again]
        \/ Defer(c, e) = [c EXCEPT !.deferred_saves = more]
    BY DEF Defer
  <2> HIDE DEF again, more
  <2>2. QED BY <1>2, <2>1
<1>4. QED BY <1>3 DEF Connectors, Deferrals

LEMMA WithoutDeferredType ==
  ASSUME NEW c \in Connectors, NEW r \in Reqs
  PROVE  /\ WithoutDeferred(c, r) \in Connectors
         /\ WithoutDeferred(c, r).staging_free = c.staging_free
         /\ WithoutDeferred(c, r).staging_by_req = c.staging_by_req
<1> DEFINE K == {e \in Range(c.deferred_saves) : e.req # r}
           q == OnlyIn(c.deferred_saves, K)
<1>1. c.deferred_saves \in Seq(Deferrals)
  BY DEF Connectors, Deferrals
<1>2. q \in Seq(Deferrals)
  <2>1. q \in Seq(Deferrals \cap K)
    <3> HIDE DEF K
    <3>1. QED BY <1>1, OnlyInType
  <2> HIDE DEF q, K
  <2>2. QED BY <2>1
<1>3. WithoutDeferred(c, r) = [c EXCEPT !.deferred_saves = q]
  BY DEF WithoutDeferred
<1> HIDE DEF q
<1>4. QED BY <1>2, <1>3 DEF Connectors, Deferrals

(* Reserving slots in a connector that stems from c0.                          *)
LEMMA AllocFrom ==
  ASSUME NEW c0, NEW c \in From(c0), NEW r \in Reqs
  PROVE  /\ AllocStagingSlots(c, r) \in From(c0)
         /\ AllocStagingSlots(c, r) \in Connectors
<1> DEFINE a == AllocStagingSlots(c, r)
<1>1. /\ a \in Pools
      /\ \A q \in Reqs : q # r => a.staging_by_req[q] = c.staging_by_req[q]
      /\ \/ a.staging_by_req[r] = c.staging_by_req[r]
         \/ c.staging_by_req[r] = <<>> /\ Len(a.staging_by_req[r]) = Need[r]
  BY AllocPool DEF From
<1>2. Need[r] # 0 /\ Len(<<>>) = 0
  BY ConstantsAssumption
<1> HIDE DEF a
<1>3. ASSUME NEW q \in Reqs
      PROVE  \/ a.staging_by_req[q] = c0.staging_by_req[q]
             \/ c0.staging_by_req[q] = <<>> /\ Len(a.staging_by_req[q]) = Need[q]
  <2>1. \/ c.staging_by_req[q] = c0.staging_by_req[q]
        \/ c0.staging_by_req[q] = <<>> /\ Len(c.staging_by_req[q]) = Need[q]
    BY DEF From
  <2>2. QED BY <1>1, <1>2, <2>1
<1>4. a \in Connectors
  BY <1>1 DEF Pools
<1>5. QED BY <1>1, <1>3, <1>4 DEF From, a

(* One turn of the loop over the deferred saves.                               *)
Building(c0) == [conn : From(c0), save : Saves]

LEMMA TrySaveBuilding ==
  ASSUME NEW c0, NEW p \in Building(c0), NEW e \in Deferrals
  PROVE  TrySave(p, e) \in Building(c0)
<1> DEFINE c == AllocStagingSlots(p.conn, e.req)
           entry == [slots |-> c.staging_by_req[e.req], blocks |-> e.blocks]
<1>1. e.req \in Reqs /\ e.blocks \in Seq(Nat) /\ p.conn \in From(c0) /\ p.save \in Saves
  BY DEF Building, Deferrals
<1>2. c \in From(c0) /\ c \in Connectors
  BY <1>1, AllocFrom
<1>3. Defer(c, e) \in From(c0)
  <2> HIDE DEF c
  <2>1. QED BY <1>2, DeferType, SamePool
<1>4. entry \in [slots : Seq(Slots), blocks : Seq(Nat)]
  <2> HIDE DEF c
  <2>1. c.staging_by_req[e.req] \in Seq(Slots)
    BY <1>1, <1>2 DEF Connectors
  <2>2. QED BY <1>1, <2>1
<1>5. [p.save EXCEPT ![e.req] = entry] \in Saves
  <2> HIDE DEF entry
  <2>1. QED BY <1>1, <1>4 DEF Saves
<1>6. [p EXCEPT !.conn = Defer(c, e)] \in Building(c0)
  <2>1. ASSUME NEW d \in From(c0) PROVE [p EXCEPT !.conn = d] \in Building(c0)
    BY DEF Building
  <2>2. QED BY <1>3, <2>1
<1>7. [conn |-> c, save |-> [p.save EXCEPT ![e.req] = entry]] \in Building(c0)
  <2> HIDE DEF c, entry
  <2>1. QED BY <1>2, <1>5 DEF Building
<1>8. \/ TrySave(p, e) = [p EXCEPT !.conn = Defer(c, e)]
      \/ TrySave(p, e) = [conn |-> c, save |-> [p.save EXCEPT ![e.req] = entry]]
  BY DEF TrySave
<1>9. QED BY <1>6, <1>7, <1>8

(* The state before the loop over the deferred saves.                          *)
LEMMA DrainBase ==
  ASSUME NEW c \in Pools
  PROVE  LET d == [c EXCEPT !.deferred_saves = <<>>]
         IN  /\ [conn |-> d, save |-> NoSave] \in Building(c)
             /\ d.staging_by_req = c.staging_by_req /\ d.partial_reqs = c.partial_reqs
             /\ d.reqs_need_save = c.reqs_need_save /\ d.deferred_saves = <<>>
             /\ c.deferred_saves \in Seq(Deferrals) /\ Len(c.deferred_saves) \in Nat
<1> DEFINE d == [c EXCEPT !.deferred_saves = <<>>]
<1>1. c \in Connectors /\ c \in From(c)
  BY DEF Pools, From
<1>2. /\ d \in Connectors /\ d.staging_free = c.staging_free /\ d.staging_by_req = c.staging_by_req
      /\ d.partial_reqs = c.partial_reqs /\ d.reqs_need_save = c.reqs_need_save
      /\ d.deferred_saves = <<>>
  <2>1. ASSUME NEW t \in Seq(Deferrals), NEW x, x = [c EXCEPT !.deferred_saves = t]
        PROVE  /\ x \in Connectors /\ x.staging_free = c.staging_free
               /\ x.staging_by_req = c.staging_by_req /\ x.partial_reqs = c.partial_reqs
               /\ x.reqs_need_save = c.reqs_need_save /\ x.deferred_saves = t
    BY <1>1, <2>1 DEF Connectors, Deferrals
  <2>2. <<>> \in Seq(Deferrals)
    OBVIOUS
  <2>3. QED BY <2>1, <2>2, ZenonT(30)
<1>3. c.deferred_saves \in Seq(Deferrals) /\ Len(c.deferred_saves) \in Nat
  <2>1. c.deferred_saves \in Seq(Deferrals)
    BY <1>1 DEF Connectors, Deferrals
  <2>2. QED BY <2>1
<1> HIDE DEF d
<1>4. d \in From(c) /\ NoSave \in Saves
  BY <1>1, <1>2, SamePool DEF NoSave, Saves
<1>5. [conn |-> d, save |-> NoSave] \in Building(c)
  BY <1>4 DEF Building
<1>6. QED BY <1>2, <1>3, <1>5 DEF d

(* The loop over the deferred saves.                                           *)
LEMMA DrainBuilding ==
  ASSUME NEW c \in Pools
  PROVE  DrainDeferred(c) \in Building(c)
<1> DEFINE d == [c EXCEPT !.deferred_saves = <<>>]
           base == [conn |-> d, save |-> NoSave]
           s == c.deferred_saves
<1>1. s \in Seq(Deferrals) /\ Len(s) \in Nat
  BY DrainBase
<1>2. base \in Building(c)
  BY DrainBase
<1>3. \A i \in 1..Len(s), x \in Building(c) : TrySave(x, s[i]) \in Building(c)
  <2> HIDE DEF s
  <2>1. \A i \in 1..Len(s) : s[i] \in Deferrals
    BY <1>1
  <2>2. QED BY <2>1, TrySaveBuilding
<1>4. DrainingFacts!Fold(base, s) \in Building(c)
  <2> HIDE DEF base, s
  <2>1. QED BY <1>1, <1>2, <1>3, DrainingFacts!FoldInvariant
<1>5. QED BY <1>4 DEF DrainDeferred, Draining!Fold, DrainingFacts!Fold

(* One turn of the loop over the scheduled requests.                            *)
Rows == [req : Reqs, withBlocks : BOOLEAN, done : BOOLEAN]

LEMMA SaveScheduledBuilding ==
  ASSUME epoch \in [Reqs -> Nat], NEW c0, NEW p \in Building(c0), NEW e \in Rows
  PROVE  SaveScheduled(p, e) \in Building(c0)
<1> DEFINE r == e.req
           blocks == Append(p.conn.partial_reqs[r], epoch[r])
           q == [p EXCEPT !.conn.partial_reqs[r] = blocks]
           tried == TrySave(q, [req |-> r, blocks |-> blocks])
           saved == [tried EXCEPT !.conn.reqs_need_save = @ \ {r}, !.conn.partial_reqs[r] = <<>>]
<1>1. r \in Reqs /\ p.conn \in Connectors /\ p.conn \in From(c0) /\ p.save \in Saves
  BY DEF Rows, Building, From, Pools
<1>2. blocks \in Seq(Nat)
  BY <1>1 DEF Connectors
<1>3. ASSUME NEW b \in Seq(Nat), NEW x \in Building(c0)
      PROVE  [x EXCEPT !.conn.partial_reqs[r] = b] \in Building(c0)
  <2> DEFINE d == [x.conn EXCEPT !.partial_reqs[r] = b]
  <2>1. x.conn \in From(c0) /\ x.conn \in Connectors
    BY DEF Building, From, Pools
  <2>2. d \in Connectors /\ d.staging_free = x.conn.staging_free /\ d.staging_by_req = x.conn.staging_by_req
    BY <1>1, <2>1 DEF Connectors
  <2>3. d \in From(c0)
    <3> HIDE DEF d
    <3>1. QED BY <2>1, <2>2, SamePool
  <2>4. [x EXCEPT !.conn.partial_reqs[r] = b] = [x EXCEPT !.conn = d]
    OBVIOUS
  <2> HIDE DEF d
  <2>5. QED BY <2>3, <2>4 DEF Building
<1>4. q \in Building(c0)
  <2> HIDE DEF blocks
  <2>1. QED BY <1>2, <1>3
<1>5. tried \in Building(c0)
  <2>1. [req |-> r, blocks |-> blocks] \in Deferrals
    <3> HIDE DEF r, blocks
    <3>1. QED BY <1>1, <1>2 DEF Deferrals
  <2> HIDE DEF q, r, blocks
  <2>2. QED BY <1>4, <2>1, TrySaveBuilding
<1>6. saved \in Building(c0)
  <2> DEFINE d == [tried.conn EXCEPT !.reqs_need_save = @ \ {r}]
             x == [tried EXCEPT !.conn = d]
  <2> HIDE DEF tried
  <2>1. tried.conn \in From(c0) /\ tried.conn \in Connectors
    BY <1>5 DEF Building, From, Pools
  <2>2. d \in Connectors /\ d.staging_free = tried.conn.staging_free /\ d.staging_by_req = tried.conn.staging_by_req
    <3> HIDE DEF r
    <3>1. QED BY <1>1, <2>1 DEF Connectors
  <2>3. d \in From(c0)
    <3> HIDE DEF d
    <3>1. QED BY <2>1, <2>2, SamePool
  <2>4. x \in Building(c0)
    <3> HIDE DEF d
    <3>1. QED BY <1>5, <2>3 DEF Building
  <2>5. <<>> \in Seq(Nat)
    OBVIOUS
  <2>6. [x EXCEPT !.conn.partial_reqs[r] = <<>>] \in Building(c0)
    <3> HIDE DEF x
    <3>1. QED BY <1>3, <2>4, <2>5
  <2>7. saved = [x EXCEPT !.conn.partial_reqs[r] = <<>>]
    BY <1>5 DEF Building
  <2>8. QED BY <2>6, <2>7
<1>7. SaveScheduled(p, e) \in {p, q, saved}
  BY DEF SaveScheduled
<1> HIDE DEF q, saved
<1>8. QED BY <1>4, <1>6, <1>7

(* build_connector_meta.                                                       *)
Metas == [save : Saves, send : SUBSET Reqs, batch : SUBSET Reqs, dropped : SUBSET Reqs]

LEMMA BuildFrom ==
  ASSUME epoch \in [Reqs -> Nat], NEW c \in Pools, NEW order \in Seq(Reqs), NEW withBlocks, NEW done
  PROVE  /\ BuildConnectorMeta(c, order, withBlocks, done).conn \in From(c)
         /\ BuildConnectorMeta(c, order, withBlocks, done).meta \in Metas
<1> DEFINE rows  == [i \in DOMAIN order |-> [req |-> order[i], withBlocks |-> order[i] \in withBlocks,
                                           done |-> order[i] \in done]]
           saved == Saving!Fold(DrainDeferred(c), rows)
           conn1 == [saved.conn EXCEPT !.reqs_need_send = {}, !.reqs_in_batch = {},
                                       !.reqs_not_processed = {}]
           meta  == [save |-> saved.save, send |-> c.reqs_need_send, batch |-> c.reqs_in_batch,
                     dropped |-> c.reqs_not_processed]
<1>1. rows \in Seq(Rows) /\ Len(rows) \in Nat
  <2> DEFINE l == Len(order)
  <2>1. l \in Nat /\ DOMAIN order = 1..l /\ \A i \in 1..l : order[i] \in Reqs
    OBVIOUS
  <2> HIDE DEF l
  <2>2. rows \in [1..l -> Rows]
    BY <2>1 DEF Rows
  <2> HIDE DEF rows
  <2>3. rows \in Seq(Rows)
    BY <2>1, <2>2
  <2>4. QED BY <2>3
<1>2. DrainDeferred(c) \in Building(c)
  BY DrainBuilding
<1>3. \A i \in 1..Len(rows), x \in Building(c) : SaveScheduled(x, rows[i]) \in Building(c)
  <2> HIDE DEF rows
  <2>1. \A i \in 1..Len(rows) : rows[i] \in Rows
    BY <1>1
  <2>2. QED BY <2>1, SaveScheduledBuilding
<1>4. saved \in Building(c)
  <2> HIDE DEF rows
  <2>1. SavingFacts!Fold(DrainDeferred(c), rows) \in Building(c)
    BY <1>1, <1>2, <1>3, SavingFacts!FoldInvariant
  <2>2. QED BY <2>1 DEF Saving!Fold, SavingFacts!Fold
<1> HIDE DEF saved
<1>5. saved.conn \in From(c) /\ saved.conn \in Connectors /\ saved.save \in Saves /\ c \in Connectors
  BY <1>4 DEF Building, From, Pools
<1>6. /\ conn1 \in Connectors /\ conn1.staging_free = saved.conn.staging_free
      /\ conn1.staging_by_req = saved.conn.staging_by_req
  BY <1>5 DEF Connectors
<1>7. conn1 \in From(c)
  <2> HIDE DEF conn1
  <2>1. QED BY <1>5, <1>6, SamePool
<1>8. meta \in Metas
  BY <1>5 DEF Metas, Connectors
<1>9. BuildConnectorMeta(c, order, withBlocks, done) = [conn |-> conn1, meta |-> meta]
  BY DEF BuildConnectorMeta, saved
<1> HIDE DEF conn1, meta
<1>10. QED BY <1>7, <1>8, <1>9

(* One turn of the loop over the requests that a step ends.                     *)
Ends == [req : Reqs, stopped : BOOLEAN, capped : BOOLEAN]

LEMMA EndRequestFrom ==
  ASSUME NEW c0, NEW c \in From(c0), NEW e \in Ends
  PROVE  EndRequest(c, e) \in From(c0)
<1> DEFINE r == e.req
           a == AllocStagingSlots(c, r)
           w == WithoutDeferred(a, r)
           stopped == [c EXCEPT !.reqs_not_processed = @ \union {r}, !.reqs_need_save = @ \ {r},
                                !.partial_reqs[r] = <<>>]
           offered == [a EXCEPT !.reqs_need_send = @ \union {r}]
           failed  == [w EXCEPT !.reqs_not_processed = @ \union {r}]
<1>1. r \in Reqs /\ c \in Connectors
  BY DEF Ends, From, Pools
<1>2. a \in From(c0) /\ a \in Connectors
  BY <1>1, AllocFrom
<1>3. w \in Connectors /\ w.staging_free = a.staging_free /\ w.staging_by_req = a.staging_by_req
  <2> HIDE DEF a
  <2>1. QED BY <1>1, <1>2, WithoutDeferredType
<1>4. stopped \in From(c0)
  <2>1. /\ stopped \in Connectors /\ stopped.staging_free = c.staging_free
        /\ stopped.staging_by_req = c.staging_by_req
    <3>1. ASSUME NEW t \in Seq(Nat), NEW x,
                 x = [c EXCEPT !.reqs_not_processed = @ \union {r}, !.reqs_need_save = @ \ {r},
                               !.partial_reqs[r] = t]
          PROVE  /\ x \in Connectors /\ x.staging_free = c.staging_free
                 /\ x.staging_by_req = c.staging_by_req
      <4> HIDE DEF r
      <4>1. QED BY <1>1, <3>1 DEF Connectors
    <3>2. <<>> \in Seq(Nat)
      OBVIOUS
    <3>3. QED BY <3>1, <3>2
  <2> HIDE DEF stopped
  <2>2. QED BY <2>1, SamePool
<1>5. offered \in From(c0)
  <2>1. /\ offered \in Connectors /\ offered.staging_free = a.staging_free
        /\ offered.staging_by_req = a.staging_by_req
    <3> HIDE DEF a, r
    <3>1. QED BY <1>1, <1>2 DEF Connectors
  <2> HIDE DEF offered, a
  <2>2. QED BY <1>2, <2>1, SamePool
<1>6. failed \in From(c0)
  <2>1. /\ failed \in Connectors /\ failed.staging_free = a.staging_free
        /\ failed.staging_by_req = a.staging_by_req
    <3> HIDE DEF a, w, r
    <3>1. QED BY <1>1, <1>3 DEF Connectors
  <2> HIDE DEF failed, a
  <2>2. QED BY <1>2, <2>1, SamePool
<1>7. EndRequest(c, e) \in {c, stopped, offered, failed}
  BY DEF EndRequest, FinishStopped, FinishCapped
<1> HIDE DEF stopped, offered, failed
<1>8. QED BY <1>4, <1>5, <1>6, <1>7

LEMMA FinishFrom ==
  ASSUME NEW c \in Pools, NEW s \in Seq(Ends)
  PROVE  Finishing!Fold(c, s) \in From(c)
<1>1. c \in From(c) /\ Len(s) \in Nat /\ \A i \in 1..Len(s) : s[i] \in Ends
  BY DEF From
<1>2. \A i \in 1..Len(s), x \in From(c) : EndRequest(x, s[i]) \in From(c)
  BY <1>1, EndRequestFrom
<1>3. FinishingFacts!Fold(c, s) \in From(c)
  BY <1>1, <1>2, FinishingFacts!FoldInvariant
<1>4. QED BY <1>3 DEF Finishing!Fold, FinishingFacts!Fold

(* The slots of finished_sending's requests return to the free list.            *)
Freed(c0, sent) ==
  {c \in Pools : \A r \in Reqs : \/ c.staging_by_req[r] = c0.staging_by_req[r]
                                 \/ c.staging_by_req[r] = <<>> /\ r \in sent}

LEMMA ReleaseFreed ==
  ASSUME NEW c \in Pools, NEW sent \in SUBSET Reqs
  PROVE  Releasing!Fold(c, SetToSeq(sent)) \in Freed(c, sent)
<1> DEFINE s == SetToSeq(sent)
<1>1. s \in Seq(sent) /\ Len(s) \in Nat
  <2>1. IsFiniteSet(sent)
    BY ConstantsAssumption, FS_Subset
  <2>2. QED BY <2>1, Listing
<1> HIDE DEF s
<1>2. c \in Freed(c, sent)
  BY DEF Freed
<1>3. ASSUME NEW i \in 1..Len(s), NEW x \in Freed(c, sent)
      PROVE  FreeStagingSlots(x, s[i]) \in Freed(c, sent)
  <2> DEFINE r == s[i]
  <2>1. r \in Reqs /\ r \in sent
    BY <1>1
  <2> HIDE DEF r
  <2>2. x \in Pools /\ x.staging_by_req \in [Reqs -> Seq(Slots)]
    BY DEF Freed, Pools, Connectors
  <2>3. /\ FreeStagingSlots(x, r) \in Pools
        /\ FreeStagingSlots(x, r).staging_by_req = [x.staging_by_req EXCEPT ![r] = <<>>]
    BY <2>1, <2>2, FreePool
  <2>4. \A q \in Reqs : \/ FreeStagingSlots(x, r).staging_by_req[q] = c.staging_by_req[q]
                        \/ FreeStagingSlots(x, r).staging_by_req[q] = <<>> /\ q \in sent
    BY <2>1, <2>2, <2>3 DEF Freed
  <2>5. FreeStagingSlots(x, r) \in Freed(c, sent)
    BY <2>3, <2>4 DEF Freed
  <2>6. QED BY <2>5 DEF r
<1>4. ReleasingFacts!Fold(c, s) \in Freed(c, sent)
  BY <1>1, <1>2, <1>3, ReleasingFacts!FoldInvariant
<1>5. QED BY <1>4 DEF Releasing!Fold, ReleasingFacts!Fold, s

-----------------------------------------------------------------------------
(* The types that the lemmas above carry, and the pool.                         *)
StepRecords ==
  [meta : Metas, epoch : [Reqs -> Nat], order : Seq(Reqs), sampled : SUBSET Reqs,
   capped : SUBSET Reqs, executed : BOOLEAN, finished_sending : SUBSET Reqs]

Typed ==
  /\ conn \in Pools
  /\ status \in [Reqs -> {"waiting", "running", "advertised", "released", "failed", "dropped"}]
  /\ progress \in [Reqs -> Nat]
  /\ epoch \in [Reqs -> Nat]
  /\ steps \in Seq(StepRecords)
  /\ staging \in [Slots -> Reqs \union {NONE}]
  /\ sender \in [process : SUBSET Reqs, send : SUBSET Reqs]
  /\ remote \in [Reqs -> {"none", "ready", "reading", "done"}]
  /\ advert \in [Reqs -> Seq(Slots)]
  /\ notified \in SUBSET Reqs

LEMMA TypedInit == Init => Typed
<1> SUFFICES ASSUME Init PROVE Typed
  OBVIOUS
<1> DEFINE free == [i \in 1..NumSlots |-> i]
<1>1. NumSlots \in Nat
  BY ConstantsAssumption
<1>2. /\ free \in Seq(Slots) /\ IsInjective(free) /\ Range(free) = Slots
  <2>1. free \in [1..NumSlots -> Slots]
    BY DEF Slots
  <2>2. IsInjective(free)
    BY DEF IsInjective
  <2>3. Range(free) = Slots
    BY DEF Range, Slots
  <2> HIDE DEF free
  <2>4. free \in Seq(Slots)
    BY <1>1, <2>1
  <2>5. QED BY <2>2, <2>3, <2>4
<1> HIDE DEF free
<1>3. /\ conn = [staging_free |-> free, staging_by_req |-> NoSlots, deferred_saves |-> <<>>,
                 reqs_need_save |-> {}, partial_reqs |-> NoSlots, reqs_need_send |-> {},
                 reqs_in_batch |-> {}, reqs_not_processed |-> {}]
      /\ NoSlots \in [Reqs -> Seq(Slots)] /\ NoSlots \in [Reqs -> Seq(Nat)]
      /\ \A r \in Reqs : NoSlots[r] = <<>>
  BY DEF Init, NoSlots, free
<1>4. conn \in Connectors
  BY <1>2, <1>3 DEF Connectors
<1>5. Pool(conn)
  <2>1. Range(<<>>) = {} /\ IsInjective(<<>>)
    BY DEF Range, IsInjective
  <2>2. conn.staging_free = free /\ \A r \in Reqs : conn.staging_by_req[r] = <<>>
    BY <1>3
  <2>3. QED BY <1>2, <2>1, <2>2 DEF Pool
<1>6. conn \in Pools
  BY <1>4, <1>5 DEF Pools
<1>7. /\ status \in [Reqs -> {"waiting", "running", "advertised", "released", "failed", "dropped"}]
      /\ progress \in [Reqs -> Nat] /\ epoch \in [Reqs -> Nat] /\ steps \in Seq(StepRecords)
      /\ staging \in [Slots -> Reqs \union {NONE}]
      /\ sender \in [process : SUBSET Reqs, send : SUBSET Reqs]
  BY DEF Init
<1>8. /\ remote \in [Reqs -> {"none", "ready", "reading", "done"}]
      /\ advert \in [Reqs -> Seq(Slots)] /\ notified \in SUBSET Reqs
  BY <1>3 DEF Init
<1>9. QED BY <1>6, <1>7, <1>8 DEF Typed

(* Scheduling a step keeps every reservation, and makes those it makes whole.   *)
LEMMA ScheduleStep ==
  ASSUME Typed, NEW S \in SUBSET Reqs, Schedule(S)
  PROVE  /\ conn' \in From(conn)
         /\ \E t \in StepRecords : steps' = Append(steps, t) /\ t.finished_sending = {}
         /\ Typed'
<1>1. PICK order \in SetToSeqs(S), withBlocks \in SUBSET S :
        LET started == S \cap Waiting
            after   == [r \in Reqs |-> IF r \in S THEN progress[r] + 1 ELSE progress[r]]
            done    == {r \in S : after[r] >= Chunks[r]}
            built   == BuildConnectorMeta(UpdateStateAfterAlloc(conn, started), order, withBlocks, done)
        IN  /\ started \subseteq withBlocks
            /\ ~Sparse => withBlocks = S
            /\ conn' = built.conn
            /\ progress' = after
            /\ status' = [r \in Reqs |-> IF r \in S THEN "running" ELSE status[r]]
            /\ steps' = Append(steps,
                 [meta |-> built.meta, epoch |-> epoch, order |-> order, sampled |-> done,
                  capped |-> {r \in S : after[r] = Total(r)}, executed |-> FALSE, finished_sending |-> {}])
  BY DEF Schedule
<1> DEFINE started == S \cap Waiting
           after   == [r \in Reqs |-> IF r \in S THEN progress[r] + 1 ELSE progress[r]]
           done    == {r \in S : after[r] >= Chunks[r]}
           c       == UpdateStateAfterAlloc(conn, started)
           built   == BuildConnectorMeta(c, order, withBlocks, done)
           step    == [meta |-> built.meta, epoch |-> epoch, order |-> order, sampled |-> done,
                       capped |-> {r \in S : after[r] = Total(r)}, executed |-> FALSE, finished_sending |-> {}]
<1>2. order \in Seq(Reqs)
  <2>1. IsFiniteSet(S)
    BY ConstantsAssumption, FS_Subset
  <2>2. order \in Seq(S)
    BY <2>1, Listings
  <2>3. QED BY <2>2
<1>3. conn \in Pools /\ conn \in Connectors /\ conn \in From(conn)
  BY DEF Typed, Pools, From
<1>4. c \in Connectors /\ c.staging_free = conn.staging_free /\ c.staging_by_req = conn.staging_by_req
  <2>1. started \subseteq Reqs
    BY DEF Waiting
  <2> HIDE DEF started
  <2>2. QED BY <1>3, <2>1 DEF UpdateStateAfterAlloc, Connectors
<1>5. c \in Pools /\ \A d \in From(c) : d \in From(conn)
  <2> HIDE DEF c
  <2>1. c \in From(conn)
    BY <1>3, <1>4, SamePool
  <2>2. QED BY <1>4, <2>1 DEF From
<1>6. built.conn \in From(c) /\ built.meta \in Metas
  <2> HIDE DEF c, done
  <2>1. epoch \in [Reqs -> Nat]
    BY DEF Typed
  <2>2. QED BY <1>2, <1>5, <2>1, BuildFrom
<1>7. /\ conn' = built.conn /\ progress' = after
      /\ status' = [r \in Reqs |-> IF r \in S THEN "running" ELSE status[r]]
      /\ steps' = Append(steps, step)
  BY <1>1
<1>8. conn' \in From(conn) /\ conn' \in Pools
  <2> HIDE DEF built, c
  <2>1. QED BY <1>5, <1>6, <1>7 DEF From
<1>9. after \in [Reqs -> Nat]
  BY DEF Typed
<1>10. step \in StepRecords
  <2>1. done \in SUBSET Reqs /\ {r \in S : after[r] = Total(r)} \in SUBSET Reqs
    BY <1>9
  <2> DEFINE capped == {r \in S : after[r] = Total(r)}
             meta == built.meta
  <2>2. meta \in Metas /\ capped \in SUBSET Reqs /\ epoch \in [Reqs -> Nat]
    BY <1>6, <2>1 DEF Typed
  <2>3. step = [meta |-> meta, epoch |-> epoch, order |-> order, sampled |-> done,
                capped |-> capped, executed |-> FALSE, finished_sending |-> {}]
    OBVIOUS
  <2> HIDE DEF meta, capped, done, step
  <2>4. QED BY <1>2, <2>1, <2>2, <2>3 DEF StepRecords
<1>11. step.finished_sending = {}
  OBVIOUS
<1> HIDE DEF step, after
<1>12. steps' \in Seq(StepRecords)
  <2>1. steps \in Seq(StepRecords)
    BY DEF Typed
  <2>2. QED BY <1>7, <1>10, <2>1
<1>13. status' \in [Reqs -> {"waiting", "running", "advertised", "released", "failed", "dropped"}]
  BY <1>7 DEF Typed
<1>14. UNCHANGED <<epoch, staging, sender, remote, advert, notified>>
  BY DEF Schedule, remoteVars
<1>15. QED BY <1>7, <1>8, <1>9, <1>10, <1>12, <1>13, <1>14, <1>11 DEF Typed

(* A step's request ends: reservations are kept or made, then those that the    *)
(* worker reported are returned.                                                *)
LEMMA UpdateStep ==
  ASSUME Typed, Update
  PROVE  /\ \E mid \in From(conn) :
              /\ conn' \in Freed(mid, Head(steps).finished_sending)
              /\ \E offered \in SUBSET Running :
                   /\ \A r \in offered : mid.staging_by_req[r] # <<>>
                   /\ remote' = [r \in Reqs |-> IF r \in offered THEN "ready" ELSE remote[r]]
                   /\ \A r \in offered : status'[r] = "advertised"
                   /\ \A r \in Reqs : status'[r] = status[r] \/ status'[r] \notin {"waiting", "running"}
         /\ Typed'
<1> DEFINE step  == Head(steps)
           alive == step.sampled \cap Running
           sent  == step.finished_sending
<1>1. PICK stopped \in SUBSET alive :
        LET capped   == (step.capped \cap alive) \ stopped
            finished == Finishing!Fold(conn, [i \in DOMAIN step.order |->
                          [req |-> step.order[i], stopped |-> step.order[i] \in stopped,
                           capped |-> step.order[i] \in capped]])
            offered  == {r \in capped : finished.staging_by_req[r] # <<>>}
        IN  /\ ~MayStop => stopped = {}
            /\ conn' = Releasing!Fold(finished, SetToSeq(sent))
            /\ status' = [r \in Reqs |->
                 CASE r \in stopped -> "dropped"
                   [] r \in offered -> "advertised"
                   [] r \in capped \ offered -> "failed"
                   [] r \in sent \ (stopped \union capped) -> "released"
                   [] OTHER -> status[r]]
            /\ epoch' = [r \in Reqs |->
                 IF r \in sent \union stopped \union (capped \ offered) THEN epoch[r] + 1 ELSE epoch[r]]
            /\ remote' = [r \in Reqs |-> IF r \in offered THEN "ready" ELSE remote[r]]
            /\ advert' = [r \in Reqs |->
                 IF r \in offered THEN finished.staging_by_req[r] ELSE advert[r]]
  BY DEF Update
<1> DEFINE capped   == (step.capped \cap alive) \ stopped
           rows     == [i \in DOMAIN step.order |->
                         [req |-> step.order[i], stopped |-> step.order[i] \in stopped,
                          capped |-> step.order[i] \in capped]]
           finished == Finishing!Fold(conn, rows)
           offered  == {r \in capped : finished.staging_by_req[r] # <<>>}
<1>2. /\ steps \in Seq(StepRecords) /\ steps # <<>> /\ conn \in Pools /\ epoch \in [Reqs -> Nat]
  <2>1. Len(steps) = Lookahead + 1
    BY DEF Update
  <2>2. steps \in Seq(StepRecords) /\ conn \in Pools /\ epoch \in [Reqs -> Nat]
    BY DEF Typed
  <2>3. QED BY <2>1, <2>2, ConstantsAssumption
<1>3. step \in StepRecords /\ Tail(steps) \in Seq(StepRecords)
  BY <1>2
<1>4. sent \in SUBSET Reqs /\ step.order \in Seq(Reqs) /\ alive \in SUBSET Running /\ Running \in SUBSET Reqs
  BY <1>3 DEF StepRecords, Running
<1>5. rows \in Seq(Ends)
  <2> DEFINE order == step.order
  <2> HIDE DEF capped
  <2>1. rows = [i \in DOMAIN order |-> [req |-> order[i], stopped |-> order[i] \in stopped,
                                        capped |-> order[i] \in capped]]
    OBVIOUS
  <2> HIDE DEF order, rows
  <2>2. order \in Seq(Reqs)
    BY <1>4 DEF order
  <2>3. rows \in [1..Len(order) -> Ends] /\ Len(order) \in Nat
    BY <2>1, <2>2 DEF Ends
  <2>4. QED BY <2>3
<1>6. finished \in From(conn)
  <2> HIDE DEF rows
  <2>1. QED BY <1>2, <1>5, FinishFrom
<1>7. /\ conn' = Releasing!Fold(finished, SetToSeq(sent))
      /\ status' = [r \in Reqs |->
                 CASE r \in stopped -> "dropped"
                   [] r \in offered -> "advertised"
                   [] r \in capped \ offered -> "failed"
                   [] r \in sent \ (stopped \union capped) -> "released"
                   [] OTHER -> status[r]]
      /\ epoch' = [r \in Reqs |->
                 IF r \in sent \union stopped \union (capped \ offered) THEN epoch[r] + 1 ELSE epoch[r]]
      /\ remote' = [r \in Reqs |-> IF r \in offered THEN "ready" ELSE remote[r]]
      /\ advert' = [r \in Reqs |-> IF r \in offered THEN finished.staging_by_req[r] ELSE advert[r]]
  BY <1>1
<1>8. offered \in SUBSET Running /\ offered \cap stopped = {}
  BY <1>4
<1> HIDE DEF finished
<1>9. finished \in Pools /\ finished.staging_by_req \in [Reqs -> Seq(Slots)]
  BY <1>6 DEF From, Pools, Connectors
<1>10. conn' \in Freed(finished, sent)
  <2> HIDE DEF sent
  <2>1. QED BY <1>4, <1>7, <1>9, ReleaseFreed
<1>11. \A r \in offered : finished.staging_by_req[r] # <<>>
  OBVIOUS
<1> HIDE DEF offered, capped, sent
<1>12. \A r \in offered : status'[r] = "advertised"
  <2>1. \A r \in offered : r \in Reqs /\ r \notin stopped
    BY <1>4, <1>8
  <2>2. offered \subseteq capped
    BY DEF offered
  <2>3. QED BY <1>7, <2>1, <2>2
<1>13. \A r \in Reqs : status'[r] = status[r] \/ status'[r] \notin {"waiting", "running"}
  BY <1>7
<1>14. /\ status' \in [Reqs -> {"waiting", "running", "advertised", "released", "failed", "dropped"}]
       /\ epoch' \in [Reqs -> Nat]
       /\ remote' \in [Reqs -> {"none", "ready", "reading", "done"}]
  BY <1>2, <1>7 DEF Typed
<1>15. advert' \in [Reqs -> Seq(Slots)]
  BY <1>7, <1>9 DEF Typed
<1>16. conn' \in Pools
  BY <1>10, SMTT(30) DEF Freed
<1>17. /\ steps' = Tail(steps) /\ UNCHANGED <<progress, staging, sender, notified>>
  BY DEF Update
<1>18. Typed'
  BY <1>3, <1>14, <1>15, <1>16, <1>17 DEF Typed
<1>19. \E off \in SUBSET Running :
         /\ \A r \in off : finished.staging_by_req[r] # <<>>
         /\ remote' = [r \in Reqs |-> IF r \in off THEN "ready" ELSE remote[r]]
         /\ \A r \in off : status'[r] = "advertised"
         /\ \A r \in Reqs : status'[r] = status[r] \/ status'[r] \notin {"waiting", "running"}
  BY <1>7, <1>8, <1>11, <1>12, <1>13
<1>20. QED BY <1>6, <1>10, <1>18, <1>19 DEF sent

(* What the worker does with a step.                                            *)
LEMMA ExecuteStep ==
  ASSUME Typed, Execute
  PROVE  /\ UNCHANGED <<conn, status, remote>>
         /\ notified' = {}
         /\ \E i \in DOMAIN steps, sent \in SUBSET Reqs :
              /\ ~MayExpire => sent \subseteq notified
              /\ steps' = [steps EXCEPT ![i].executed = TRUE, ![i].finished_sending = sent]
         /\ Typed'
<1>1. PICK i \in DOMAIN steps :
        LET meta    == steps[i].meta
            process == (sender.process \union meta.batch) \ meta.dropped
            send    == sender.send \union (meta.send \cap process)
            heard   == notified \cap (send \union process)
        IN  /\ \E expired \in SUBSET (send \ heard) :
                 /\ ~MayExpire => expired = {}
                 /\ sender' = [process |-> process \ (heard \union expired),
                               send |-> send \ (heard \union expired)]
                 /\ steps' = [steps EXCEPT ![i].executed = TRUE,
                                           ![i].finished_sending = heard \union expired]
            /\ staging' = SavedContents(meta.save, steps[i].epoch)
            /\ notified' = {}
            /\ UNCHANGED <<conn, status, progress, epoch, remote, advert>>
  BY DEF Execute
<1> DEFINE meta    == steps[i].meta
           process == (sender.process \union meta.batch) \ meta.dropped
           send    == sender.send \union (meta.send \cap process)
           heard   == notified \cap (send \union process)
<1>2. PICK expired \in SUBSET (send \ heard) :
        /\ ~MayExpire => expired = {}
        /\ sender' = [process |-> process \ (heard \union expired),
                      send |-> send \ (heard \union expired)]
        /\ steps' = [steps EXCEPT ![i].executed = TRUE, ![i].finished_sending = heard \union expired]
  BY <1>1
<1>3. steps \in Seq(StepRecords) /\ steps[i] \in StepRecords
  BY DEF Typed
<1>4. meta \in Metas
  BY <1>3 DEF StepRecords
<1>5. process \in SUBSET Reqs /\ send \in SUBSET Reqs /\ heard \in SUBSET Reqs /\ heard \subseteq notified
  <2> HIDE DEF meta
  <2>1. QED BY <1>4 DEF Typed, Metas
<1> DEFINE sent == heard \union expired
<1>6. sent \in SUBSET Reqs /\ (~MayExpire => sent \subseteq notified)
  BY <1>2, <1>5
<1>7. steps' = [steps EXCEPT ![i].executed = TRUE, ![i].finished_sending = sent]
  BY <1>2
<1>8. sender' \in [process : SUBSET Reqs, send : SUBSET Reqs]
  BY <1>2, <1>5
<1>9. steps' \in Seq(StepRecords)
  <2> HIDE DEF sent
  <2> DEFINE t == [steps[i] EXCEPT !.executed = TRUE, !.finished_sending = sent]
  <2>1. t \in StepRecords
    BY <1>3, <1>6 DEF StepRecords
  <2>2. steps' = [steps EXCEPT ![i] = t]
    BY <1>7
  <2> HIDE DEF t
  <2>3. QED BY <1>3, <2>1, <2>2
<1>10. staging' \in [Slots -> Reqs \union {NONE}]
  <2> DEFINE at == steps[i].epoch
             save == meta.save
  <2>1. staging' = SavedContents(save, at)
    BY <1>1
  <2> HIDE DEF at, save
  <2>2. ASSUME NEW s \in Slots PROVE SavedContents(save, at)[s] \in Reqs \union {NONE}
    <3>1. CASE \E r \in Reqs : s \in Range(save[r].slots)
      <4> DEFINE r == CHOOSE r \in Reqs : s \in Range(save[r].slots)
      <4>1. r \in Reqs
        BY <3>1
      <4>2. SavedContents(save, at)[s] = IF Range(save[r].blocks) = {at[r]} THEN r ELSE NONE
        BY <3>1 DEF SavedContents
      <4> HIDE DEF r
      <4>3. QED BY <4>1, <4>2
    <3>2. CASE ~ \E r \in Reqs : s \in Range(save[r].slots)
      <4>1. SavedContents(save, at)[s] = staging[s]
        BY <3>2 DEF SavedContents
      <4>2. QED BY <4>1 DEF Typed
    <3>3. QED BY <3>1, <3>2
  <2>3. DOMAIN SavedContents(save, at) = Slots
    BY DEF SavedContents
  <2>4. SavedContents(save, at) = [s \in Slots |-> SavedContents(save, at)[s]]
    BY DEF SavedContents
  <2> DEFINE new == SavedContents(save, at)
  <2>5. new = [s \in Slots |-> new[s]] /\ \A s \in Slots : new[s] \in Reqs \union {NONE}
    BY <2>2, <2>4
  <2> HIDE DEF new
  <2>6. new \in [Slots -> Reqs \union {NONE}]
    BY <2>5
  <2>7. QED BY <2>1, <2>6 DEF new
<1>11. /\ UNCHANGED <<conn, status, progress, epoch, remote, advert>> /\ notified' = {}
  BY <1>1
<1>12. Typed'
  BY <1>8, <1>9, <1>10, <1>11 DEF Typed
<1> HIDE DEF sent
<1>13. QED BY <1>6, <1>7, <1>11, <1>12

LEMMA AbortStep ==
  ASSUME Typed, NEW r \in Reqs, Abort(r)
  PROVE  conn' \in From(conn) /\ Typed'
<1> DEFINE e == [req |-> r, stopped |-> TRUE, capped |-> FALSE]
<1>1. conn \in Pools /\ conn \in From(conn) /\ e \in Ends
  BY DEF Typed, From, Ends
<1>2. conn' = EndRequest(conn, e)
  BY DEF Abort, EndRequest
<1>3. conn' \in From(conn) /\ conn' \in Pools
  <2> HIDE DEF e
  <2>1. conn' \in From(conn)
    BY <1>1, <1>2, EndRequestFrom
  <2>2. QED BY <2>1 DEF From
<1>4. /\ status' = [status EXCEPT ![r] = "dropped"]
      /\ epoch' = [epoch EXCEPT ![r] = @ + 1]
      /\ UNCHANGED <<progress, steps, staging, sender, remote, advert, notified>>
  BY DEF Abort, remoteVars
<1>5. QED BY <1>3, <1>4 DEF Typed

LEMMA PreemptStep ==
  ASSUME Typed, NEW r \in Reqs, Preempt(r)
  PROVE  UNCHANGED <<conn, remote, notified>> /\ Typed'
<1>1. /\ steps' = [i \in DOMAIN steps |-> [steps[i] EXCEPT !.sampled = @ \ {r}]]
      /\ status' = [status EXCEPT ![r] = "waiting"]
      /\ progress' = [progress EXCEPT ![r] = 0]
      /\ epoch' = [epoch EXCEPT ![r] = @ + 1]
      /\ UNCHANGED <<conn, staging, sender, remote, advert, notified>>
  BY DEF Preempt, remoteVars
<1>2. steps' \in Seq(StepRecords)
  <2>1. steps \in Seq(StepRecords) /\ Len(steps) \in Nat /\ DOMAIN steps = 1..Len(steps)
    BY DEF Typed
  <2>2. ASSUME NEW t \in StepRecords PROVE [t EXCEPT !.sampled = @ \ {r}] \in StepRecords
    BY DEF StepRecords
  <2>3. steps' \in [1..Len(steps) -> StepRecords]
    BY <1>1, <2>1, <2>2
  <2>4. QED BY <2>1, <2>3
<1>3. QED BY <1>1, <1>2 DEF Typed

LEMMA ReadStep ==
  ASSUME Typed, NEW r \in Reqs, ReadBegin(r) \/ ReadEnd(r)
  PROVE  UNCHANGED <<conn, status, steps>> /\ Typed'
BY DEF Typed, ReadBegin, ReadEnd

LEMMA TypedNext == Typed /\ [Next]_vars => Typed'
<1> SUFFICES ASSUME Typed, [Next]_vars PROVE Typed'
  OBVIOUS
<1>1. ASSUME NEW S \in SUBSET Reqs, Schedule(S) PROVE Typed'
  BY <1>1, ScheduleStep
<1>2. CASE Execute
  BY <1>2, ExecuteStep
<1>3. CASE Update
  BY <1>3, UpdateStep
<1>4. ASSUME NEW r \in Reqs, Preempt(r) PROVE Typed'
  BY <1>4, PreemptStep
<1>5. ASSUME NEW r \in Reqs, Abort(r) PROVE Typed'
  BY <1>5, AbortStep
<1>6. ASSUME NEW r \in Reqs, ReadBegin(r) \/ ReadEnd(r) PROVE Typed'
  BY <1>6, ReadStep
<1>7. CASE UNCHANGED vars
  BY <1>7 DEF vars, Typed
<1>8. QED BY <1>1, <1>2, <1>3, <1>4, <1>5, <1>6, <1>7 DEF Next

-----------------------------------------------------------------------------
LEMMA PoolPartition == Typed => SlotsPartition
<1> SUFFICES ASSUME Typed, NEW s \in Slots
             PROVE  Cardinality({i \in DOMAIN conn.staging_free : conn.staging_free[i] = s})
                      + Cardinality({x \in Reqs \X Slots :
                          /\ x[2] \in DOMAIN conn.staging_by_req[x[1]]
                          /\ conn.staging_by_req[x[1]][x[2]] = s}) = 1
  BY DEF SlotsPartition
<1> DEFINE free == conn.staging_free
           by   == conn.staging_by_req
           InFree == {i \in DOMAIN free : free[i] = s}
           InReqs == {x \in Reqs \X Slots : x[2] \in DOMAIN by[x[1]] /\ by[x[1]][x[2]] = s}
<1>1. /\ IsInjective(free)
      /\ \A r \in Reqs : by[r] \in Seq(Slots) /\ IsInjective(by[r]) /\ Range(by[r]) \cap Range(free) = {}
      /\ \A q, r \in Reqs : q # r => Range(by[q]) \cap Range(by[r]) = {}
      /\ s \in Range(free) \/ \E r \in Reqs : s \in Range(by[r])
  BY DEF Typed, Pools, Connectors, Pool
<1> HIDE DEF free, by
<1>2. CASE s \in Range(free)
  <2>1. PICK i \in DOMAIN free : free[i] = s
    BY <1>2 DEF Range
  <2>2. InFree = {i}
    BY <1>1, <2>1 DEF IsInjective
  <2>3. InReqs = {}
    <3>1. \A r \in Reqs : s \notin Range(by[r])
      BY <1>1, <1>2
    <3>2. \A r \in Reqs : \A j \in DOMAIN by[r] : by[r][j] # s
      BY <3>1 DEF Range
    <3>3. QED BY <3>2
  <2>4. Cardinality(InFree) = 1 /\ Cardinality(InReqs) = 0
    <3> HIDE DEF InFree, InReqs
    <3>1. QED BY <2>2, <2>3, FS_Singleton, FS_EmptySet
  <2>5. QED BY <2>4 DEF free, by
<1>3. CASE s \notin Range(free)
  <2>1. InFree = {}
    BY <1>3 DEF Range
  <2>2. PICK r \in Reqs : s \in Range(by[r])
    BY <1>1, <1>3
  <2>3. PICK j \in DOMAIN by[r] : by[r][j] = s
    BY <2>2 DEF Range
  <2>4. j \in Slots
    <3>1. NumSlots \in Nat /\ by[r] \in Seq(1..NumSlots) /\ IsInjective(by[r])
      BY <1>1, ConstantsAssumption DEF Slots
    <3>2. QED BY <2>3, <3>1, InjectiveShort DEF Slots
  <2>5. InReqs = {<<r, j>>}
    <3>1. <<r, j>> \in InReqs
      BY <2>3, <2>4
    <3>2. ASSUME NEW x \in InReqs PROVE x = <<r, j>>
      <4>1. x \in Reqs \X Slots /\ x[2] \in DOMAIN by[x[1]] /\ by[x[1]][x[2]] = s
        OBVIOUS
      <4>2. x[1] = r
        <5>1. s \in Range(by[x[1]])
          BY <4>1 DEF Range
        <5>2. QED BY <1>1, <2>2, <4>1, <5>1
      <4>3. x[2] = j
        BY <1>1, <2>3, <4>1, <4>2 DEF IsInjective
      <4>4. QED BY <4>1, <4>2, <4>3
    <3> HIDE DEF InReqs
    <3>3. QED BY <3>1, <3>2
  <2>6. Cardinality(InFree) = 0 /\ Cardinality(InReqs) = 1
    <3> HIDE DEF InFree, InReqs
    <3>1. QED BY <2>1, <2>5, FS_Singleton, FS_EmptySet
  <2>7. QED BY <2>6 DEF free, by
<1>4. QED BY <1>2, <1>3

(* Whatever is aborted, preempted, stopped, expired or deferred, a staging slot *)
(* is in the free list once or in one reservation once: _alloc_staging_slots,   *)
(* the deferred saves and update_connector_output neither lose a slot nor hand  *)
(* it out twice.                                                                *)
THEOREM SlotsPartitioned == Spec => []SlotsPartition
<1>1. Spec => []Typed
  BY TypedInit, TypedNext, PTL DEF Spec
<1>2. QED BY <1>1, PoolPartition, PTL

-----------------------------------------------------------------------------
(* What keeps a reservation in place while its slots are read, when requests do *)
(* not time out: finished_sending names requests whose transfer is done.        *)
InTransfer(r) == remote[r] \in {"ready", "reading"}

LeaseInv ==
  /\ \A r \in notified : remote[r] = "done"
  /\ \A i \in DOMAIN steps : \A r \in steps[i].finished_sending : remote[r] = "done"
  /\ \A r \in Reqs : remote[r] # "none" => status[r] \notin {"waiting", "running"}
  /\ \A r \in Reqs : InTransfer(r) => conn.staging_by_req[r] # <<>>

(* A reservation after a step, against the one before it.                       *)
Same(r)     == conn'.staging_by_req[r] = conn.staging_by_req[r]
Reserved(r) == conn.staging_by_req[r] = <<>> /\ Len(conn'.staging_by_req[r]) = Need[r]
Returned(r) == /\ conn.staging_by_req[r] # <<>> /\ conn'.staging_by_req[r] = <<>>
               /\ remote[r] = "done"

LeaseStep == \A r \in Reqs : Same(r) \/ Reserved(r) \/ Returned(r)

LEMMA FromStep ==
  ASSUME conn' \in From(conn)
  PROVE  /\ LeaseStep
         /\ \A r \in Reqs : conn.staging_by_req[r] # <<>> => conn'.staging_by_req[r] # <<>>
<1>1. \A r \in Reqs : Need[r] # 0
  BY ConstantsAssumption
<1>2. Len(<<>>) = 0
  OBVIOUS
<1>3. QED BY <1>1, <1>2 DEF From, LeaseStep, Same, Reserved

LEMMA LeaseSchedule ==
  ASSUME Typed, LeaseInv, NEW S \in SUBSET Reqs, Schedule(S)
  PROVE  LeaseInv' /\ LeaseStep
<1>1. conn' \in From(conn)
  BY ScheduleStep
<1>2. \E t : steps' = Append(steps, t) /\ t.finished_sending = {}
  BY ScheduleStep
<1>3. /\ status' = [r \in Reqs |-> IF r \in S THEN "running" ELSE status[r]]
      /\ \A r \in S : status[r] \in {"waiting", "running"}
      /\ UNCHANGED <<remote, notified>>
  BY DEF Schedule, remoteVars, Schedulable, Waiting, Running
<1>4. \A i \in DOMAIN steps' : \A r \in steps'[i].finished_sending : remote[r] = "done"
  <2>1. steps \in Seq(StepRecords)
    BY DEF Typed
  <2>2. PICK t : steps' = Append(steps, t) /\ t.finished_sending = {}
    BY <1>2
    <2>3. \A i \in DOMAIN steps' : (i \in DOMAIN steps /\ steps'[i] = steps[i]) \/ steps'[i] = t
    BY <2>1, <2>2
  <2>4. QED BY <2>2, <2>3 DEF LeaseInv
<1>5. QED BY <1>1, <1>3, <1>4, FromStep DEF LeaseInv, InTransfer

LEMMA LeaseExecute ==
  ASSUME Typed, LeaseInv, ~MayExpire, Execute
  PROVE  LeaseInv' /\ LeaseStep
<1>1. PICK i \in DOMAIN steps, sent \in SUBSET Reqs :
        /\ sent \subseteq notified
        /\ steps' = [steps EXCEPT ![i].executed = TRUE, ![i].finished_sending = sent]
  BY ExecuteStep
<1>2. UNCHANGED <<conn, status, remote>> /\ notified' = {}
  BY ExecuteStep
<1>3. \A j \in DOMAIN steps' : j \in DOMAIN steps
        /\ (steps'[j].finished_sending = steps[j].finished_sending \/ steps'[j].finished_sending = sent)
  <2>1. steps \in Seq(StepRecords) /\ steps[i] \in StepRecords
    BY DEF Typed
  <2>2. QED BY <1>1, <2>1 DEF StepRecords
<1>4. QED BY <1>1, <1>2, <1>3 DEF LeaseInv, LeaseStep, Same, InTransfer

LEMMA LeaseUpdate ==
  ASSUME Typed, LeaseInv, Update
  PROVE  LeaseInv' /\ LeaseStep
<1> DEFINE sent == Head(steps).finished_sending
<1>1. PICK mid \in From(conn) :
        /\ conn' \in Freed(mid, sent)
        /\ \E offered \in SUBSET Running :
             /\ \A r \in offered : mid.staging_by_req[r] # <<>>
             /\ remote' = [r \in Reqs |-> IF r \in offered THEN "ready" ELSE remote[r]]
             /\ \A r \in offered : status'[r] = "advertised"
             /\ \A r \in Reqs : status'[r] = status[r] \/ status'[r] \notin {"waiting", "running"}
  BY UpdateStep
<1>2. PICK offered \in SUBSET Running :
        /\ \A r \in offered : mid.staging_by_req[r] # <<>>
        /\ remote' = [r \in Reqs |-> IF r \in offered THEN "ready" ELSE remote[r]]
        /\ \A r \in offered : status'[r] = "advertised"
        /\ \A r \in Reqs : status'[r] = status[r] \/ status'[r] \notin {"waiting", "running"}
  BY <1>1, SMTT(30)
<1>3. steps' = Tail(steps) /\ notified' = notified
  BY DEF Update
<1>4. steps \in Seq(StepRecords) /\ steps # <<>>
  <2>1. Len(steps) = Lookahead + 1
    BY DEF Update
  <2>2. steps \in Seq(StepRecords)
    BY DEF Typed
  <2>3. QED BY <2>1, <2>2, ConstantsAssumption
<1>5. /\ \A r \in sent : remote[r] = "done"
      /\ \A i \in DOMAIN steps' : \A r \in steps'[i].finished_sending : remote[r] = "done"
  <2>1. Head(steps) = steps[1] /\ 1 \in DOMAIN steps
    BY <1>4
  <2>2. \A i \in DOMAIN Tail(steps) : i + 1 \in DOMAIN steps /\ Tail(steps)[i] = steps[i + 1]
    BY <1>4
  <2>3. QED BY <1>3, <2>1, <2>2 DEF LeaseInv
<1> HIDE DEF sent
<1>6. \A r \in offered : r \in Reqs /\ remote[r] = "none"
  <2>1. \A r \in offered : r \in Reqs /\ status[r] = "running"
    BY DEF Running
  <2>2. QED BY <2>1 DEF LeaseInv
<1>7. /\ \A r \in Reqs : remote[r] = "done" => remote'[r] = "done"
      /\ notified \subseteq Reqs
  BY <1>2, <1>6 DEF Typed
<1>8. LeaseStep
  <2> SUFFICES ASSUME NEW r \in Reqs PROVE Same(r) \/ Reserved(r) \/ Returned(r)
    BY DEF LeaseStep
  <2>1. \/ conn'.staging_by_req[r] = mid.staging_by_req[r]
        \/ conn'.staging_by_req[r] = <<>> /\ r \in sent
    BY <1>1 DEF Freed
  <2>2. \/ mid.staging_by_req[r] = conn.staging_by_req[r]
        \/ conn.staging_by_req[r] = <<>> /\ Len(mid.staging_by_req[r]) = Need[r]
    BY DEF From
  <2>3. QED BY <1>5, <2>1, <2>2 DEF Same, Reserved, Returned
<1>9. ASSUME NEW r \in Reqs, InTransfer(r)' PROVE conn'.staging_by_req[r] # <<>>
  <2>1. remote[r] # "done" /\ r \notin sent
    BY <1>5, <1>7, <1>9 DEF InTransfer
  <2>2. conn'.staging_by_req[r] = mid.staging_by_req[r]
    BY <1>1, <2>1 DEF Freed
  <2>3. CASE r \in offered
    BY <1>2, <2>2, <2>3
  <2>4. CASE r \notin offered
    <3>1. InTransfer(r) /\ conn.staging_by_req[r] # <<>>
      BY <1>2, <1>9, <2>4 DEF InTransfer, LeaseInv
    <3>2. mid.staging_by_req[r] # <<>>
      BY <3>1 DEF From
    <3>3. QED BY <2>2, <3>2
  <2>5. QED BY <2>3, <2>4
<1>10. ASSUME NEW r \in Reqs, remote'[r] # "none" PROVE status'[r] \notin {"waiting", "running"}
  BY <1>2, <1>10 DEF LeaseInv
<1>11. \A i \in DOMAIN steps' : \A r \in steps'[i].finished_sending : remote'[r] = "done"
  <2>1. \A i \in DOMAIN steps' : steps'[i].finished_sending \subseteq Reqs
    <3>1. steps' \in Seq(StepRecords)
      BY <1>3, <1>4
    <3>2. \A i \in DOMAIN steps' : steps'[i] \in StepRecords
      BY <3>1
    <3>3. QED BY <3>2 DEF StepRecords
  <2>2. QED BY <1>5, <1>7, <2>1
<1>12. \A r \in notified' : remote'[r] = "done"
  BY <1>3, <1>7 DEF LeaseInv
<1>13. QED BY <1>8, <1>9, <1>10, <1>11, <1>12 DEF LeaseInv

LEMMA LeaseInit == Init => LeaseInv
BY DEF Init, LeaseInv, InTransfer

LEMMA LeaseAbort ==
  ASSUME Typed, LeaseInv, NEW r \in Reqs, Abort(r)
  PROVE  LeaseInv' /\ LeaseStep
<1>1. conn' \in From(conn)
  BY AbortStep
<1>2. /\ status' = [status EXCEPT ![r] = "dropped"]
      /\ UNCHANGED <<steps, remote, notified>>
  BY DEF Abort, remoteVars
<1>3. QED BY <1>1, <1>2, FromStep DEF LeaseInv, InTransfer, Typed

LEMMA LeasePreempt ==
  ASSUME Typed, LeaseInv, NEW r \in Reqs, Preempt(r)
  PROVE  LeaseInv' /\ LeaseStep
<1>1. UNCHANGED <<conn, remote, notified>>
  BY PreemptStep
<1>2. /\ steps' = [i \in DOMAIN steps |-> [steps[i] EXCEPT !.sampled = @ \ {r}]]
      /\ status' = [status EXCEPT ![r] = "waiting"] /\ status[r] = "running"
  BY DEF Preempt, Running
<1>3. \A i \in DOMAIN steps' : i \in DOMAIN steps /\ steps'[i].finished_sending = steps[i].finished_sending
  <2>1. \A i \in DOMAIN steps : steps[i] \in StepRecords
    BY DEF Typed
  <2>2. ASSUME NEW t \in StepRecords
        PROVE  [t EXCEPT !.sampled = @ \ {r}].finished_sending = t.finished_sending
    BY DEF StepRecords
  <2>3. QED BY <1>2, <2>1, <2>2
<1>4. remote[r] = "none"
  BY <1>2 DEF LeaseInv
<1>5. QED BY <1>1, <1>2, <1>3, <1>4 DEF LeaseInv, LeaseStep, Same, InTransfer, Typed

LEMMA LeaseRead ==
  ASSUME Typed, LeaseInv, NEW r \in Reqs, ReadBegin(r) \/ ReadEnd(r)
  PROVE  LeaseInv' /\ LeaseStep
<1>1. UNCHANGED <<conn, status, steps>>
  BY DEF ReadBegin, ReadEnd
<1>2. LeaseStep
  BY <1>1 DEF LeaseStep, Same
<1>3. CASE ReadBegin(r)
  <2>1. /\ remote[r] = "ready" /\ remote' = [remote EXCEPT ![r] = "reading"] /\ notified' = notified
    BY <1>3 DEF ReadBegin
  <2>2. QED BY <1>1, <1>2, <2>1 DEF LeaseInv, InTransfer, Typed
<1>4. CASE ReadEnd(r)
  <2>1. /\ remote[r] \in {"ready", "reading"} /\ remote' = [remote EXCEPT ![r] = "done"]
        /\ notified' = notified \union {r}
    BY <1>4 DEF ReadEnd
  <2>2. QED BY <1>1, <1>2, <2>1 DEF LeaseInv, InTransfer, Typed
<1>5. QED BY <1>3, <1>4

LEMMA LeaseNext ==
  ASSUME ~MayExpire, Typed, LeaseInv, [Next]_vars
  PROVE  LeaseInv' /\ LeaseStep
<1>1. ASSUME NEW S \in SUBSET Reqs, Schedule(S) PROVE LeaseInv' /\ LeaseStep
  BY <1>1, LeaseSchedule
<1>2. CASE Execute
  BY <1>2, LeaseExecute
<1>3. CASE Update
  BY <1>3, LeaseUpdate
<1>4. ASSUME NEW r \in Reqs, Preempt(r) PROVE LeaseInv' /\ LeaseStep
  BY <1>4, LeasePreempt
<1>5. ASSUME NEW r \in Reqs, Abort(r) PROVE LeaseInv' /\ LeaseStep
  BY <1>5, LeaseAbort
<1>6. ASSUME NEW r \in Reqs, ReadBegin(r) \/ ReadEnd(r) PROVE LeaseInv' /\ LeaseStep
  BY <1>6, LeaseRead
<1>7. CASE UNCHANGED vars
  BY <1>7 DEF vars, LeaseInv, LeaseStep, Same, InTransfer
<1>8. QED BY <1>1, <1>2, <1>3, <1>4, <1>5, <1>6, <1>7 DEF Next

LEMMA LeaseRefines ==
  ASSUME Typed, Typed', LeaseInv', LeaseStep
  PROVE  Lease!Next
<1> DEFINE h(r) == Range(conn.staging_by_req[r])
<1>1. ASSUME NEW r \in Reqs
      PROVE  /\ conn.staging_by_req[r] \in Seq(Slots) /\ IsInjective(conn.staging_by_req[r])
             /\ conn'.staging_by_req[r] \in Seq(Slots) /\ IsInjective(conn'.staging_by_req[r])
  BY DEF Typed, Pools, Connectors, Pool
<1>2. ASSUME NEW r \in Reqs
      PROVE  Lease!Keeps(r) \/ Lease!Reserves(r) \/ Lease!Returns(r)
  <2>1. CASE Same(r)
    BY <2>1 DEF Same, Lease!Keeps
  <2>2. CASE Reserved(r)
    <3>1. Range(conn.staging_by_req[r]) = {}
      BY <2>2 DEF Reserved, Range
    <3>2. Range(conn'.staging_by_req[r]) \subseteq Slots /\ Cardinality(Range(conn'.staging_by_req[r])) = Need[r]
      BY <1>1, <2>2, InjectiveCard DEF Reserved
    <3>3. Lease!Cardinality(Range(conn'.staging_by_req[r])) = Cardinality(Range(conn'.staging_by_req[r]))
      BY DEF Lease!Cardinality, Cardinality
    <3>4. QED BY <3>1, <3>2, <3>3 DEF Lease!Reserves
  <2>3. CASE Returned(r)
    <3>1. Range(conn.staging_by_req[r]) # {} /\ Range(conn'.staging_by_req[r]) = {}
      BY <1>1, <2>3, InjectiveCard DEF Returned
    <3>2. remote[r] = "done"
      BY <2>3 DEF Returned
    <3>3. QED BY <3>1, <3>2 DEF Lease!Returns
  <2>4. QED BY <2>1, <2>2, <2>3 DEF LeaseStep
<1>3. \A q, r \in Reqs : q # r => Range(conn'.staging_by_req[q]) \cap Range(conn'.staging_by_req[r]) = {}
  BY DEF Typed, Pools, Pool
<1>4. ASSUME NEW r \in Reqs, remote'[r] = "reading" PROVE Range(conn'.staging_by_req[r]) # {}
  <2>1. conn'.staging_by_req[r] # <<>>
    BY <1>4 DEF LeaseInv, InTransfer
  <2>2. QED BY <1>1, <2>1, InjectiveCard
<1>5. QED BY <1>2, <1>3, <1>4 DEF Lease!Next, Lease!Exclusive

(* As long as no request times out, the connector implements SlotLease: a       *)
(* request's reservation is made whole by _alloc_staging_slots or not at all,   *)
(* belongs to it alone, and is not given back by update_connector_output while  *)
(* the decode instance reads the slots.                                         *)
THEOREM ReservationsAreLeases ==
  ASSUME ~MayExpire
  PROVE  Spec => LeaseSpec
<1>1. Init => Lease!Init
  BY DEF Init, Lease!Init, NoSlots, Range
<1>2. Typed /\ LeaseInv /\ [Next]_vars => Typed' /\ LeaseInv' /\ Lease!Next
  BY TypedNext, LeaseNext, LeaseRefines
<1>3. Init => Typed /\ LeaseInv
  BY TypedInit, LeaseInit
<1>4. QED BY <1>1, <1>2, <1>3, PTL DEF Spec, LeaseSpec, Lease!Spec

-----------------------------------------------------------------------------
(* ReadIntact: what the decode instance reads is the request's KV, for         *)
(* synchronous scheduling without preemption.  What follows is the invariant   *)
(* this needs of each operation of the connector.                              *)

Holders(c)   == {r \in Reqs : c.staging_by_req[r] # <<>>}
Deferring(c) == {c.deferred_saves[i].req : i \in DOMAIN c.deferred_saves}

(* Slots at hand or asked for.                                                  *)
Provided(c) == Holders(c) \union Deferring(c)

(* Every block that waits to be saved belongs to a request's first blocks.      *)
FirstBlocks(c) ==
  /\ \A r \in Reqs : Range(c.partial_reqs[r]) \subseteq {0}
  /\ \A i \in DOMAIN c.deferred_saves : Range(c.deferred_saves[i].blocks) = {0}

(* Nothing deferred could have been served.                                     *)
Starved(c) ==
  \A i \in DOMAIN c.deferred_saves : Len(c.staging_free) < Need[c.deferred_saves[i].req]

(* The saves of the metadata being built are for the reservations as they are.  *)
Matching(save, c) ==
  \A r \in Reqs : save[r].slots # <<>> =>
    save[r].slots = c.staging_by_req[r] /\ Range(save[r].blocks) = {0}

(* What can be said all along build_connector_meta, which starts from c0.       *)
Filling(c0) ==
  {p \in Building(c0) :
     /\ FirstBlocks(p.conn) /\ Starved(p.conn) /\ Matching(p.save, p.conn)
     /\ \A r \in Reqs : c0.staging_by_req[r] = <<>> /\ p.conn.staging_by_req[r] # <<>>
                          => p.save[r].slots # <<>>}

LEMMA AllocMore ==
  ASSUME NEW c \in Pools, NEW r \in Reqs
  PROVE  LET a == AllocStagingSlots(c, r)
         IN  /\ Len(a.staging_free) <= Len(c.staging_free)
             /\ a.staging_by_req[r] = <<>> => a = c /\ Len(c.staging_free) < Need[r]
             /\ a.deferred_saves = c.deferred_saves
             /\ a.partial_reqs = c.partial_reqs
             /\ a.reqs_need_save = c.reqs_need_save
             /\ c.staging_by_req[r] # <<>> => a = c
<1> DEFINE a == AllocStagingSlots(c, r)
<1>1. c \in Connectors /\ Need[r] \in Nat \ {0} /\ Len(c.staging_free) \in Nat
  BY ConstantsAssumption DEF Pools, Connectors
<1>2. CASE a = c /\ (c.staging_by_req[r] # <<>> \/ Len(c.staging_free) < Need[r])
  BY <1>1, <1>2
<1>3. CASE ~ (a = c /\ (c.staging_by_req[r] # <<>> \/ Len(c.staging_free) < Need[r]))
  <2>1. c.staging_by_req[r] = <<>>
    BY <1>3, AllocFacts, Zenon
  <2>2. PICK front \in Seq(Slots), back \in Seq(Slots) :
          /\ a = [c EXCEPT !.staging_by_req[r] = back, !.staging_free = front]
          /\ Len(front) = Len(c.staging_free) - Need[r] /\ Len(back) = Need[r]
          /\ IsInjective(front) /\ IsInjective(back)
          /\ Range(front) \cap Range(back) = {}
          /\ Range(front) \union Range(back) = Range(c.staging_free)
    BY <1>3, AllocFacts, Zenon
  <2> HIDE DEF a
  <2>3. /\ a.staging_free = front /\ a.staging_by_req[r] = back
        /\ a.deferred_saves = c.deferred_saves /\ a.partial_reqs = c.partial_reqs
        /\ a.reqs_need_save = c.reqs_need_save
    BY <1>1, <2>2 DEF Connectors
  <2>4. back # <<>> /\ Len(front) <= Len(c.staging_free)
    BY <1>1, <2>2
  <2>5. QED BY <2>1, <2>3, <2>4 DEF a
<1>4. QED BY <1>2, <1>3

LEMMA DeferMore ==
  ASSUME NEW c \in Connectors, NEW e \in Deferrals
  PROVE  LET d == Defer(c, e)
         IN  /\ \A i \in DOMAIN d.deferred_saves :
                  \/ d.deferred_saves[i] = e
                  \/ \E j \in DOMAIN c.deferred_saves : d.deferred_saves[i] = c.deferred_saves[j]
             /\ Deferring(c) \union {e.req} \subseteq Deferring(d)
             /\ d.partial_reqs = c.partial_reqs
             /\ d.reqs_need_save = c.reqs_need_save
<1> DEFINE saves == c.deferred_saves
           again == [i \in DOMAIN saves |-> IF saves[i].req = e.req THEN e ELSE saves[i]]
           more  == Append(saves, e)
           d == Defer(c, e)
<1>1. saves \in Seq(Deferrals)
  BY DEF Connectors, Deferrals
<1>2. CASE \E i \in DOMAIN saves : saves[i].req = e.req
  <2>1. d = [c EXCEPT !.deferred_saves = again]
    BY <1>2 DEF Defer
  <2> HIDE DEF again, d
  <2>2. d.deferred_saves = again /\ d.partial_reqs = c.partial_reqs /\ d.reqs_need_save = c.reqs_need_save
    BY <2>1 DEF Connectors
  <2>3. DOMAIN again = DOMAIN saves /\ \A i \in DOMAIN saves : again[i] = IF saves[i].req = e.req THEN e ELSE saves[i]
    BY DEF again
  <2>4. \A i \in DOMAIN saves : again[i].req = saves[i].req
    BY <2>3
  <2>5. Deferring(c) \union {e.req} \subseteq Deferring(d)
    BY <1>2, <2>2, <2>3, <2>4 DEF Deferring
  <2>6. QED BY <2>2, <2>3, <2>5 DEF d
<1>3. CASE ~ \E i \in DOMAIN saves : saves[i].req = e.req
  <2>1. d = [c EXCEPT !.deferred_saves = more]
    BY <1>3 DEF Defer
  <2>2. /\ Len(saves) \in Nat /\ DOMAIN saves = 1..Len(saves) /\ DOMAIN more = 1..(Len(saves) + 1)
        /\ more[Len(saves) + 1] = e /\ \A i \in DOMAIN saves : more[i] = saves[i]
    BY <1>1
  <2> HIDE DEF more, d
  <2>3. d.deferred_saves = more /\ d.partial_reqs = c.partial_reqs /\ d.reqs_need_save = c.reqs_need_save
    BY <2>1 DEF Connectors
  <2>4. \A i \in DOMAIN more : more[i] = e \/ \E j \in DOMAIN saves : more[i] = saves[j]
    BY <2>2
  <2>5. Deferring(c) \union {e.req} \subseteq Deferring(d)
    <3>1. Len(saves) + 1 \in DOMAIN more /\ \A i \in DOMAIN saves : i \in DOMAIN more
      BY <2>2
    <3>2. QED BY <2>2, <2>3, <3>1 DEF Deferring
  <2>6. QED BY <2>3, <2>4, <2>5 DEF d
<1>4. QED BY <1>2, <1>3

(* _try_schedule_joint_save, for the first blocks of a request.                 *)
LEMMA TrySaveFilling ==
  ASSUME NEW c0, NEW p \in Filling(c0), NEW e \in Deferrals, Range(e.blocks) = {0}
  PROVE  /\ TrySave(p, e) \in Filling(c0)
         /\ Provided(p.conn) \union {e.req} \subseteq Provided(TrySave(p, e).conn)
         /\ TrySave(p, e).conn.reqs_need_save = p.conn.reqs_need_save
<1> DEFINE r == e.req
           c == AllocStagingSlots(p.conn, r)
           entry == [slots |-> c.staging_by_req[r], blocks |-> e.blocks]
           t == TrySave(p, e)
<1>1. /\ r \in Reqs /\ p \in Building(c0) /\ p.conn \in From(c0) /\ p.conn \in Pools /\ p.conn \in Connectors
      /\ p.save \in Saves
  BY DEF Filling, Building, Deferrals, From, Pools
<1>2. /\ c \in Pools /\ c \in Connectors
      /\ \A q \in Reqs : q # r => c.staging_by_req[q] = p.conn.staging_by_req[q]
      /\ Len(c.staging_free) <= Len(p.conn.staging_free)
      /\ c.staging_by_req[r] = <<>> => c = p.conn /\ Len(p.conn.staging_free) < Need[r]
      /\ c.deferred_saves = p.conn.deferred_saves /\ c.partial_reqs = p.conn.partial_reqs
      /\ c.reqs_need_save = p.conn.reqs_need_save
      /\ p.conn.staging_by_req[r] # <<>> => c = p.conn
  BY <1>1, AllocPool, AllocMore DEF Pools
<1>3. t \in Building(c0)
  BY <1>1, TrySaveBuilding
<1>4. CASE c.staging_by_req[r] = <<>>
  <2> DEFINE d == Defer(c, e)
  <2>1. t = [p EXCEPT !.conn = d]
    BY <1>4 DEF TrySave
  <2>2. c = p.conn /\ Len(p.conn.staging_free) < Need[r]
    BY <1>2, <1>4
  <2>3. /\ \A i \in DOMAIN d.deferred_saves :
             \/ d.deferred_saves[i] = e
             \/ \E j \in DOMAIN p.conn.deferred_saves : d.deferred_saves[i] = p.conn.deferred_saves[j]
        /\ Deferring(p.conn) \union {r} \subseteq Deferring(d)
        /\ d.partial_reqs = p.conn.partial_reqs /\ d.reqs_need_save = p.conn.reqs_need_save
        /\ d.staging_free = p.conn.staging_free /\ d.staging_by_req = p.conn.staging_by_req
    BY <1>1, <2>2, DeferMore, DeferType
  <2> HIDE DEF c, d, t
  <2>4. t.conn = d /\ t.save = p.save
    BY <1>1, <2>1 DEF Building
  <2>5. FirstBlocks(d) /\ Starved(d)
    BY <2>2, <2>3 DEF Filling, FirstBlocks, Starved
  <2>6. Matching(p.save, d)
    BY <2>3 DEF Filling, Matching
  <2>7. t \in Filling(c0)
    BY <1>3, <2>3, <2>4, <2>5, <2>6 DEF Filling
  <2>8. Provided(p.conn) \union {r} \subseteq Provided(d)
    BY <2>3 DEF Provided, Holders
  <2>9. QED BY <2>3, <2>4, <2>7, <2>8 DEF t
<1>5. CASE c.staging_by_req[r] # <<>>
  <2>1. t = [conn |-> c, save |-> [p.save EXCEPT ![r] = entry]]
    BY <1>5 DEF TrySave
  <2> HIDE DEF c, t
  <2>2. t.conn = c /\ t.save[r] = entry /\ \A q \in Reqs : q # r => t.save[q] = p.save[q]
    BY <1>1, <2>1 DEF Saves
  <2>3. FirstBlocks(c)
    BY <1>2 DEF Filling, FirstBlocks
  <2>4. Starved(c)
    <3> SUFFICES ASSUME NEW i \in DOMAIN c.deferred_saves
                 PROVE  Len(c.staging_free) < Need[c.deferred_saves[i].req]
      BY DEF Starved
    <3> DEFINE n == Need[c.deferred_saves[i].req]
    <3>1. Len(p.conn.staging_free) < n
      BY <1>2 DEF Filling, Starved
    <3>2. Len(c.staging_free) \in Nat /\ Len(p.conn.staging_free) \in Nat
      <4>1. c.staging_free \in Seq(Slots) /\ p.conn.staging_free \in Seq(Slots)
        BY <1>1, <1>2 DEF Connectors
      <4>2. QED BY <4>1
    <3>3. n \in Nat
      <4>1. c.deferred_saves[i].req \in Reqs
        <5>1. c.deferred_saves \in Seq(Deferrals)
          BY <1>2 DEF Connectors, Deferrals
        <5>2. c.deferred_saves[i] \in Deferrals
          BY <5>1
        <5>3. QED BY <5>2 DEF Deferrals
      <4>2. QED BY <4>1, ConstantsAssumption
    <3>4. QED BY <1>2, <3>1, <3>2, <3>3
  <2>5. Matching(t.save, c)
    <3> SUFFICES ASSUME NEW q \in Reqs, t.save[q].slots # <<>>
                 PROVE  t.save[q].slots = c.staging_by_req[q] /\ Range(t.save[q].blocks) = {0}
      BY DEF Matching
    <3>1. CASE q = r
      BY <2>2, <3>1
    <3>2. CASE q # r
      BY <1>2, <2>2, <3>2 DEF Filling, Matching
    <3>3. QED BY <3>1, <3>2
  <2>6. ASSUME NEW q \in Reqs, c0.staging_by_req[q] = <<>>, c.staging_by_req[q] # <<>>
        PROVE  t.save[q].slots # <<>>
    <3>1. CASE q = r
      BY <1>5, <2>2, <3>1
    <3>2. CASE q # r
      BY <1>2, <2>2, <2>6, <3>2 DEF Filling
    <3>3. QED BY <3>1, <3>2
  <2>7. t \in Filling(c0)
    BY <1>3, <2>2, <2>3, <2>4, <2>5, <2>6 DEF Filling
  <2>8. Provided(p.conn) \union {r} \subseteq Provided(c)
    BY <1>1, <1>2, <1>5 DEF Provided, Holders, Deferring
  <2>9. QED BY <1>2, <2>2, <2>7, <2>8 DEF t
<1>6. QED BY <1>4, <1>5

(* The loop over the deferred saves serves each of them or defers it again.     *)
LEMMA DrainFilling ==
  ASSUME NEW c \in Pools, FirstBlocks(c)
  PROVE  /\ DrainDeferred(c) \in Filling(c)
         /\ Provided(c) \subseteq Provided(DrainDeferred(c).conn)
         /\ DrainDeferred(c).conn.reqs_need_save = c.reqs_need_save
<1> DEFINE d == [c EXCEPT !.deferred_saves = <<>>]
           base == [conn |-> d, save |-> NoSave]
           s == c.deferred_saves
           J == [i \in 0..Len(s) |->
                  {p \in Filling(c) : /\ Holders(c) \subseteq Provided(p.conn)
                                      /\ \A k \in 1..i : s[k].req \in Provided(p.conn)
                                      /\ p.conn.reqs_need_save = c.reqs_need_save}]
<1>1. /\ base \in Building(c) /\ s \in Seq(Deferrals) /\ Len(s) \in Nat
      /\ d.staging_by_req = c.staging_by_req /\ d.partial_reqs = c.partial_reqs
      /\ d.reqs_need_save = c.reqs_need_save /\ d.deferred_saves = <<>>
  BY DrainBase
<1>2. \A i \in 1..Len(s) : s[i] \in Deferrals /\ Range(s[i].blocks) = {0}
  <2>1. DOMAIN s = 1..Len(s) /\ \A i \in 1..Len(s) : s[i] \in Deferrals
    BY <1>1
  <2>2. QED BY <2>1 DEF FirstBlocks
<1> HIDE DEF d
<1>3. base.conn = d /\ base.save = NoSave
  OBVIOUS
<1>4. base \in J[0]
  <2>1. DOMAIN d.deferred_saves = {}
    BY <1>1
  <2>2. FirstBlocks(d) /\ Starved(d)
    BY <1>1, <2>1 DEF FirstBlocks, Starved
  <2>3. Matching(NoSave, d)
    BY DEF Matching, NoSave
  <2>4. base \in Filling(c)
    <3> HIDE DEF base
    <3>1. QED BY <1>1, <1>3, <2>2, <2>3 DEF Filling
  <2>5. Holders(c) \subseteq Provided(d)
    BY <1>1 DEF Provided, Holders
  <2> HIDE DEF base
  <2>6. QED BY <1>1, <1>3, <2>4, <2>5
<1> HIDE DEF base
<1>5. ASSUME NEW i \in 1..Len(s), NEW p \in J[i - 1]
      PROVE  TrySave(p, s[i]) \in J[i]
  <2> DEFINE t == TrySave(p, s[i])
  <2>1. i - 1 \in 0..Len(s) /\ i \in 0..Len(s)
    BY <1>1
  <2>2. /\ p \in Filling(c) /\ Holders(c) \subseteq Provided(p.conn)
        /\ \A k \in 1..(i - 1) : s[k].req \in Provided(p.conn)
        /\ p.conn.reqs_need_save = c.reqs_need_save
    BY <2>1
  <2>3. /\ t \in Filling(c)
        /\ Provided(p.conn) \union {s[i].req} \subseteq Provided(t.conn)
        /\ t.conn.reqs_need_save = p.conn.reqs_need_save
    BY <1>2, <2>2, TrySaveFilling
  <2> HIDE DEF t
  <2>4. \A k \in 1..i : k = i \/ k \in 1..(i - 1)
    BY <1>1
  <2>5. t \in J[i]
    BY <2>1, <2>2, <2>3, <2>4
  <2>6. QED BY <2>5 DEF t
<1>6. Draining!Fold(base, s) \in J[Len(s)]
  <2> HIDE DEF J, s
  <2>1. DrainingFacts!Fold(base, s) \in J[Len(s)]
    BY <1>1, <1>4, <1>5, DrainingFacts!FoldProgress
  <2>2. QED BY <2>1 DEF Draining!Fold, DrainingFacts!Fold
<1>7. DrainDeferred(c) = Draining!Fold(base, s)
  BY DEF DrainDeferred, base, d
<1>8. /\ DrainDeferred(c) \in Filling(c)
      /\ Holders(c) \subseteq Provided(DrainDeferred(c).conn)
      /\ \A k \in 1..Len(s) : s[k].req \in Provided(DrainDeferred(c).conn)
      /\ DrainDeferred(c).conn.reqs_need_save = c.reqs_need_save
  <2>1. Len(s) \in 0..Len(s)
    BY <1>1
  <2>2. QED BY <1>6, <1>7, <2>1
<1>9. \A k \in DOMAIN s : k \in 1..Len(s)
  BY <1>1
<1>10. Deferring(c) \subseteq Provided(DrainDeferred(c).conn)
  BY <1>8, <1>9 DEF Deferring
<1>11. QED BY <1>8, <1>10 DEF Provided

(* Fields of the connector that Filling says little about may be set.           *)
LEMMA Rewritten ==
  ASSUME NEW c0, NEW p \in Filling(c0), NEW t \in [conn : Connectors, save : Saves],
         t.save = p.save, t.conn.staging_free = p.conn.staging_free,
         t.conn.staging_by_req = p.conn.staging_by_req,
         t.conn.deferred_saves = p.conn.deferred_saves,
         \A r \in Reqs : Range(t.conn.partial_reqs[r]) \subseteq {0}
  PROVE  t \in Filling(c0) /\ Provided(t.conn) = Provided(p.conn)
<1>1. p \in Building(c0) /\ t.conn \in Connectors
  BY DEF Filling
<1>2. t \in Building(c0)
  <2>1. t.conn \in From(c0)
    BY <1>1, SamePool DEF Building
  <2>2. QED BY <2>1 DEF Building
<1>3. FirstBlocks(t.conn) /\ Starved(t.conn) /\ Matching(p.save, t.conn)
  BY DEF Filling, FirstBlocks, Starved, Matching
<1>4. Provided(t.conn) = Provided(p.conn)
  BY DEF Provided, Holders, Deferring
<1>5. QED BY <1>2, <1>3, <1>4 DEF Filling

(* One turn of the loop over the scheduled requests, for a request on its first *)
(* blocks.                                                                      *)
LEMMA SaveScheduledFilling ==
  ASSUME epoch \in [Reqs -> Nat], NEW c0, NEW p \in Filling(c0), NEW e \in Rows, epoch[e.req] = 0
  PROVE  LET t == SaveScheduled(p, e)
         IN  /\ t \in Filling(c0)
             /\ Provided(p.conn) \subseteq Provided(t.conn)
             /\ t.conn.reqs_need_save \subseteq p.conn.reqs_need_save
             /\ p.conn.reqs_need_save \ {e.req} \subseteq t.conn.reqs_need_save
             /\ p.conn.reqs_need_save \subseteq t.conn.reqs_need_save \union Provided(t.conn)
             /\ ~e.done => t.conn.reqs_need_save = p.conn.reqs_need_save
             /\ e.done /\ e.withBlocks => e.req \notin t.conn.reqs_need_save
<1> DEFINE r == e.req
           blocks == Append(p.conn.partial_reqs[r], epoch[r])
           q == [p EXCEPT !.conn.partial_reqs[r] = blocks]
           d == [p.conn EXCEPT !.partial_reqs[r] = blocks]
           tried == TrySave(q, [req |-> r, blocks |-> blocks])
           saved == [tried EXCEPT !.conn.reqs_need_save = @ \ {r}, !.conn.partial_reqs[r] = <<>>]
           t == SaveScheduled(p, e)
<1>1. /\ r \in Reqs /\ p.conn \in Connectors /\ p.conn.partial_reqs[r] \in Seq(Nat)
      /\ \A i \in Reqs : Range(p.conn.partial_reqs[i]) \subseteq {0}
  BY DEF Rows, Filling, Building, From, Pools, Connectors, FirstBlocks
<1>2. blocks \in Seq(Nat) /\ Range(blocks) = {0}
  <2> DEFINE b == p.conn.partial_reqs[r]
  <2>1. b \in Seq(Nat) /\ Range(b) \subseteq {0} /\ epoch[r] = 0 /\ blocks = Append(b, 0)
    BY <1>1
  <2> HIDE DEF b, blocks
  <2>2. /\ blocks \in Seq(Nat) /\ DOMAIN blocks = 1..(Len(b) + 1) /\ blocks[Len(b) + 1] = 0
        /\ DOMAIN b = 1..Len(b) /\ Len(b) \in Nat /\ \A i \in 1..Len(b) : blocks[i] = b[i]
    BY <2>1
  <2>3. \A i \in 1..Len(b) : b[i] = 0
    BY <2>1, <2>2 DEF Range
  <2>4. \A i \in DOMAIN blocks : blocks[i] = 0
    BY <2>2, <2>3
  <2>5. Len(b) + 1 \in DOMAIN blocks
    BY <2>2
  <2>6. QED BY <2>2, <2>4, <2>5 DEF Range
<1>3. q \in Filling(c0) /\ q.conn.reqs_need_save = p.conn.reqs_need_save /\ Provided(q.conn) = Provided(p.conn)
  <2>1. /\ d \in Connectors /\ d.staging_free = p.conn.staging_free
        /\ d.staging_by_req = p.conn.staging_by_req /\ d.deferred_saves = p.conn.deferred_saves
        /\ d.reqs_need_save = p.conn.reqs_need_save
        /\ \A i \in Reqs : Range(d.partial_reqs[i]) \subseteq {0}
    <3> HIDE DEF blocks, r
    <3>1. QED BY <1>1, <1>2 DEF Connectors
  <2>2. p \in [conn : Connectors, save : Saves]
    BY <1>1 DEF Filling, Building
  <2>3. q = [p EXCEPT !.conn = d]
    OBVIOUS
  <2> HIDE DEF d, q
  <2>4. q \in [conn : Connectors, save : Saves] /\ q.conn = d /\ q.save = p.save
    BY <2>1, <2>2, <2>3
  <2>5. QED BY <2>1, <2>4, Rewritten
<1>4. /\ tried \in Filling(c0) /\ Provided(p.conn) \union {r} \subseteq Provided(tried.conn)
      /\ tried.conn.reqs_need_save = p.conn.reqs_need_save
  <2> DEFINE x == [req |-> r, blocks |-> blocks]
  <2>1. x \in Deferrals /\ x.req = r /\ Range(x.blocks) = {0}
    <3> HIDE DEF r, blocks
    <3>1. QED BY <1>1, <1>2 DEF Deferrals
  <2> HIDE DEF q, x
  <2>2. QED BY <1>3, <2>1, TrySaveFilling DEF x
<1>5. /\ saved \in Filling(c0) /\ Provided(saved.conn) = Provided(tried.conn)
      /\ saved.conn.reqs_need_save = p.conn.reqs_need_save \ {r}
  <2> HIDE DEF tried, r
  <2>1. tried.conn \in Connectors /\ tried \in Building(c0) /\ FirstBlocks(tried.conn)
    BY <1>4 DEF Filling, Building, From, Pools
  <2>2. ASSUME NEW b \in Seq(Nat), NEW x, Range(b) \subseteq {0},
               x = [tried EXCEPT !.conn.reqs_need_save = @ \ {r}, !.conn.partial_reqs[r] = b]
        PROVE  /\ x \in Filling(c0) /\ Provided(x.conn) = Provided(tried.conn)
               /\ x.conn.reqs_need_save = p.conn.reqs_need_save \ {r}
    <3> DEFINE y == [tried.conn EXCEPT !.reqs_need_save = @ \ {r}, !.partial_reqs[r] = b]
    <3>1. /\ y \in Connectors /\ y.staging_free = tried.conn.staging_free
          /\ y.staging_by_req = tried.conn.staging_by_req
          /\ y.deferred_saves = tried.conn.deferred_saves
          /\ y.reqs_need_save = tried.conn.reqs_need_save \ {r}
          /\ \A i \in Reqs : Range(y.partial_reqs[i]) \subseteq {0}
      BY <1>1, <2>1, <2>2 DEF Connectors, FirstBlocks
    <3>2. x = [tried EXCEPT !.conn = y]
      BY <2>1, <2>2 DEF Building
    <3> HIDE DEF y
    <3>3. x \in [conn : Connectors, save : Saves] /\ x.conn = y /\ x.save = tried.save
      BY <2>1, <3>1, <3>2 DEF Building
    <3>4. QED BY <1>4, <3>1, <3>3, Rewritten
  <2>3. <<>> \in Seq(Nat) /\ Range(<<>>) \subseteq {0}
    BY SMTT(30) DEF Range
  <2>4. QED BY <2>2, <2>3
<1>6. r \in p.conn.reqs_need_save /\ e.withBlocks => t = IF e.done THEN saved ELSE q
  BY DEF SaveScheduled
<1>7. ~ (r \in p.conn.reqs_need_save /\ e.withBlocks) => t = p
  BY DEF SaveScheduled
<1>8. e.done \in BOOLEAN /\ e.withBlocks \in BOOLEAN
  BY DEF Rows
<1> HIDE DEF t, saved, q, tried
<1>9. CASE r \in p.conn.reqs_need_save /\ e.withBlocks /\ e.done
  BY <1>4, <1>5, <1>6, <1>9 DEF t
<1>10. CASE r \in p.conn.reqs_need_save /\ e.withBlocks /\ ~e.done
  BY <1>3, <1>6, <1>10 DEF t
<1>11. CASE ~ (r \in p.conn.reqs_need_save /\ e.withBlocks)
  BY <1>7, <1>11 DEF t
<1>12. QED BY <1>8, <1>9, <1>10, <1>11

(* build_connector_meta, for requests on their first blocks.                    *)
LEMMA BuildFilling ==
  ASSUME epoch \in [Reqs -> Nat], NEW c \in Pools, FirstBlocks(c),
         NEW order \in Seq(Reqs), NEW done, \A i \in DOMAIN order : epoch[order[i]] = 0
  PROVE  LET S == Range(order)
             b == BuildConnectorMeta(c, order, S, done)
         IN  /\ FirstBlocks(b.conn) /\ Starved(b.conn) /\ Matching(b.meta.save, b.conn)
             /\ \A r \in Reqs : c.staging_by_req[r] = <<>> /\ b.conn.staging_by_req[r] # <<>>
                                  => b.meta.save[r].slots # <<>>
             /\ Provided(c) \subseteq Provided(b.conn)
             /\ c.reqs_need_save \ done \subseteq b.conn.reqs_need_save
             /\ c.reqs_need_save \subseteq b.conn.reqs_need_save \union Provided(b.conn)
             /\ S \cap done \cap b.conn.reqs_need_save = {}
<1> DEFINE S == Range(order)
           rows  == [i \in DOMAIN order |-> [req |-> order[i], withBlocks |-> order[i] \in S,
                                           done |-> order[i] \in done]]
           base  == DrainDeferred(c)
           need  == c.reqs_need_save
           J == [i \in 0..Len(rows) |->
                  {p \in Filling(c) : /\ Provided(c) \subseteq Provided(p.conn)
                                      /\ need \ done \subseteq p.conn.reqs_need_save
                                      /\ need \subseteq p.conn.reqs_need_save \union Provided(p.conn)
                                      /\ \A k \in 1..i : order[k] \in done
                                           => order[k] \notin p.conn.reqs_need_save}]
           saved == Saving!Fold(base, rows)
           conn1 == [saved.conn EXCEPT !.reqs_need_send = {}, !.reqs_in_batch = {},
                                       !.reqs_not_processed = {}]
           meta  == [save |-> saved.save, send |-> c.reqs_need_send, batch |-> c.reqs_in_batch,
                     dropped |-> c.reqs_not_processed]
<1>1. /\ rows \in Seq(Rows) /\ Len(rows) \in Nat /\ Len(rows) = Len(order)
      /\ \A i \in 1..Len(rows) : /\ rows[i] \in Rows /\ rows[i].req = order[i]
                                 /\ rows[i].withBlocks /\ (rows[i].done <=> order[i] \in done)
                                 /\ epoch[rows[i].req] = 0
  <2>1. rows \in [1..Len(order) -> Rows] /\ Len(order) \in Nat /\ DOMAIN order = 1..Len(order)
    BY DEF Rows
  <2>2. \A i \in 1..Len(order) : /\ rows[i].req = order[i] /\ rows[i].withBlocks
                                 /\ (rows[i].done <=> order[i] \in done) /\ epoch[order[i]] = 0
    BY <2>1 DEF Range
  <2> HIDE DEF rows
  <2>3. rows \in Seq(Rows) /\ Len(rows) = Len(order)
    BY <2>1
  <2>4. QED BY <2>1, <2>2, <2>3
<1>2. base \in Filling(c) /\ Provided(c) \subseteq Provided(base.conn) /\ base.conn.reqs_need_save = need
  BY DrainFilling
<1> HIDE DEF rows, base, S
<1>3. base \in J[0]
  BY <1>1, <1>2
<1>4. ASSUME NEW i \in 1..Len(rows), NEW p \in J[i - 1]
      PROVE  SaveScheduled(p, rows[i]) \in J[i]
  <2> DEFINE t == SaveScheduled(p, rows[i])
             e == rows[i]
  <2>1. i - 1 \in 0..Len(rows) /\ i \in 0..Len(rows) /\ \A k \in 1..i : k = i \/ k \in 1..(i - 1)
    BY <1>1
  <2>2. /\ p \in Filling(c) /\ Provided(c) \subseteq Provided(p.conn)
        /\ need \ done \subseteq p.conn.reqs_need_save
        /\ need \subseteq p.conn.reqs_need_save \union Provided(p.conn)
        /\ \A k \in 1..(i - 1) : order[k] \in done => order[k] \notin p.conn.reqs_need_save
    BY <2>1
  <2>3. /\ e \in Rows /\ e.req = order[i] /\ e.withBlocks /\ (e.done <=> order[i] \in done)
        /\ epoch[e.req] = 0
    BY <1>1
  <2> HIDE DEF e
  <2>4. /\ t \in Filling(c)
        /\ Provided(p.conn) \subseteq Provided(t.conn)
        /\ t.conn.reqs_need_save \subseteq p.conn.reqs_need_save
        /\ p.conn.reqs_need_save \ {e.req} \subseteq t.conn.reqs_need_save
        /\ p.conn.reqs_need_save \subseteq t.conn.reqs_need_save \union Provided(t.conn)
        /\ ~e.done => t.conn.reqs_need_save = p.conn.reqs_need_save
        /\ e.done /\ e.withBlocks => e.req \notin t.conn.reqs_need_save
    BY <2>2, <2>3, SaveScheduledFilling DEF e
  <2> HIDE DEF t
  <2>5. \A k \in 1..i : order[k] \in done => order[k] \notin t.conn.reqs_need_save
    BY <2>1, <2>2, <2>3, <2>4
  <2>6. need \ done \subseteq t.conn.reqs_need_save
    BY <2>2, <2>3, <2>4
  <2>7. need \subseteq t.conn.reqs_need_save \union Provided(t.conn)
    BY <2>2, <2>4
  <2>8. t \in J[i]
    BY <2>1, <2>2, <2>4, <2>5, <2>6, <2>7
  <2>9. QED BY <2>8 DEF t
<1>5. saved \in J[Len(rows)]
  <2> HIDE DEF J
  <2>1. SavingFacts!Fold(base, rows) \in J[Len(rows)]
    BY <1>1, <1>3, <1>4, SavingFacts!FoldProgress
  <2>2. QED BY <2>1 DEF Saving!Fold, SavingFacts!Fold
<1> HIDE DEF saved
<1>6. /\ saved \in Filling(c) /\ Provided(c) \subseteq Provided(saved.conn)
      /\ need \ done \subseteq saved.conn.reqs_need_save
      /\ need \subseteq saved.conn.reqs_need_save \union Provided(saved.conn)
      /\ \A k \in 1..Len(rows) : order[k] \in done => order[k] \notin saved.conn.reqs_need_save
  <2>1. Len(rows) \in 0..Len(rows)
    BY <1>1
  <2>2. QED BY <1>5, <2>1
<1>7. saved.conn \in Connectors
  BY <1>6 DEF Filling, Building, From, Pools
<1>8. /\ conn1.staging_free = saved.conn.staging_free
      /\ conn1.staging_by_req = saved.conn.staging_by_req
      /\ conn1.deferred_saves = saved.conn.deferred_saves
      /\ conn1.partial_reqs = saved.conn.partial_reqs
      /\ conn1.reqs_need_save = saved.conn.reqs_need_save
  BY <1>7 DEF Connectors
<1>9. BuildConnectorMeta(c, order, S, done) = [conn |-> conn1, meta |-> meta]
  BY DEF BuildConnectorMeta, saved, rows, base
<1>10. meta.save = saved.save
  OBVIOUS
<1> HIDE DEF conn1, meta
<1>11. FirstBlocks(conn1) /\ Starved(conn1) /\ Matching(saved.save, conn1)
  BY <1>6, <1>8 DEF Filling, FirstBlocks, Starved, Matching
<1>12. Provided(conn1) = Provided(saved.conn)
  BY <1>8 DEF Provided, Holders, Deferring
<1>13. \A r \in Reqs : c.staging_by_req[r] = <<>> /\ conn1.staging_by_req[r] # <<>>
                         => saved.save[r].slots # <<>>
  BY <1>6, <1>8 DEF Filling
<1>14. S \cap done \cap conn1.reqs_need_save = {}
  <2>1. \A r \in S : \E k \in 1..Len(rows) : r = order[k]
    <3>1. DOMAIN order = 1..Len(rows)
      BY <1>1
    <3>2. QED BY <3>1 DEF S, Range
  <2>2. QED BY <1>6, <1>8, <2>1
<1>15. QED BY <1>6, <1>8, <1>9, <1>10, <1>11, <1>12, <1>13, <1>14 DEF S

-----------------------------------------------------------------------------
(* Ending requests that hold slots, or could get none: the pool stays as it is. *)
Settled(c0, stopped, capped) ==
  {c \in Connectors :
     /\ c.staging_free = c0.staging_free /\ c.staging_by_req = c0.staging_by_req
     /\ FirstBlocks(c)
     /\ Deferring(c0) \subseteq Deferring(c) \union capped
     /\ c0.reqs_need_save \ stopped \subseteq c.reqs_need_save}

LEMMA WithoutDeferredKeeps ==
  ASSUME NEW c \in Connectors, FirstBlocks(c), NEW r \in Reqs
  PROVE  LET w == WithoutDeferred(c, r)
         IN  /\ w.partial_reqs = c.partial_reqs /\ w.reqs_need_save = c.reqs_need_save
             /\ \A i \in DOMAIN w.deferred_saves : Range(w.deferred_saves[i].blocks) = {0}
             /\ Deferring(c) \ {r} \subseteq Deferring(w)
<1> DEFINE w == WithoutDeferred(c, r)
           K == {e \in Range(c.deferred_saves) : e.req # r}
           D == {e \in Deferrals : Range(e.blocks) = {0}}
           s == c.deferred_saves
           q == OnlyIn(s, K)
<1>1. s \in Seq(D) /\ DOMAIN s = 1..Len(s)
  <2>1. s \in Seq(Deferrals) /\ Len(s) \in Nat /\ DOMAIN s = 1..Len(s)
    <3>1. s \in Seq(Deferrals)
      BY DEF Connectors, Deferrals
    <3>2. QED BY <3>1
  <2>2. \A i \in 1..Len(s) : s[i] \in D
    <3>1. \A i \in 1..Len(s) : s[i] \in Deferrals
      BY <2>1
    <3>2. QED BY <2>1, <3>1 DEF FirstBlocks
  <2> HIDE DEF D, s
  <2>3. QED BY <2>1, <2>2
<1>2. q \in Seq(D)
  <2>1. q \in Seq(D \cap K)
    <3> HIDE DEF D, K, s
    <3>1. QED BY <1>1, OnlyInType
  <2> HIDE DEF q, K, D
  <2>2. QED BY <2>1
<1>3. w = [c EXCEPT !.deferred_saves = q]
  BY DEF WithoutDeferred
<1> HIDE DEF q
<1>4. w.deferred_saves = q /\ w.partial_reqs = c.partial_reqs /\ w.reqs_need_save = c.reqs_need_save
  <2> HIDE DEF w
  <2>1. QED BY <1>3 DEF Connectors
<1>5. \A i \in DOMAIN q : Range(q[i].blocks) = {0}
  <2>1. \A i \in DOMAIN q : q[i] \in D
    <3> HIDE DEF D
    <3>1. QED BY <1>2
  <2>2. QED BY <2>1
<1> HIDE DEF w
<1>6. ASSUME NEW i \in DOMAIN s, s[i].req # r
      PROVE  s[i].req \in Deferring(w)
  <2>1. s[i] \in K /\ i \in 1..Len(s)
    BY <1>1, <1>6 DEF Range
  <2>2. s[i] \in Range(q)
    <3> HIDE DEF s, K, D
    <3>1. QED BY <1>1, <2>1, OnlyInKeeps DEF q
  <2>3. PICK j \in DOMAIN q : q[j] = s[i]
    BY <2>2 DEF Range
  <2>4. QED BY <1>4, <2>3 DEF Deferring
<1>7. Deferring(c) \ {r} \subseteq Deferring(w)
  BY <1>6 DEF Deferring
<1>8. QED BY <1>4, <1>5, <1>7 DEF w

LEMMA EndRequestSettled ==
  ASSUME NEW c0 \in Connectors, NEW stopped, NEW capped, NEW c \in Settled(c0, stopped, capped),
         NEW e \in Ends, e.stopped => e.req \in stopped,
         e.capped => /\ e.req \in capped
                     /\ c0.staging_by_req[e.req] # <<>> \/ Len(c0.staging_free) < Need[e.req]
  PROVE  EndRequest(c, e) \in Settled(c0, stopped, capped)
<1> DEFINE r == e.req
           t == EndRequest(c, e)
<1>1. /\ r \in Reqs /\ e.stopped \in BOOLEAN /\ e.capped \in BOOLEAN /\ c \in Connectors
      /\ c.staging_free = c0.staging_free /\ c.staging_by_req = c0.staging_by_req
      /\ FirstBlocks(c) /\ Deferring(c0) \subseteq Deferring(c) \union capped
      /\ c0.reqs_need_save \ stopped \subseteq c.reqs_need_save
  BY DEF Ends, Settled
<1>2. CASE e.stopped
  <2>1. ASSUME NEW b \in Seq(Nat), Range(b) = {}, NEW x,
               x = [c EXCEPT !.reqs_not_processed = @ \union {r}, !.reqs_need_save = @ \ {r},
                             !.partial_reqs[r] = b]
        PROVE  x \in Settled(c0, stopped, capped)
    <3> HIDE DEF r
    <3>1. /\ x \in Connectors /\ x.staging_free = c.staging_free
          /\ x.staging_by_req = c.staging_by_req /\ x.deferred_saves = c.deferred_saves
          /\ x.reqs_need_save = c.reqs_need_save \ {r}
          /\ \A i \in Reqs : x.partial_reqs[i] = IF i = r THEN b ELSE c.partial_reqs[i]
      BY <1>1, <2>1 DEF Connectors
    <3>2. FirstBlocks(x) /\ Deferring(x) = Deferring(c)
      <4>1. \A i \in Reqs : Range(x.partial_reqs[i]) \subseteq {0}
        BY <1>1, <2>1, <3>1 DEF FirstBlocks
      <4>2. QED BY <1>1, <3>1, <4>1, ZenonT(30) DEF FirstBlocks, Deferring
    <3>3. r \in stopped
      BY <1>2 DEF r
    <3>4. QED BY <1>1, <3>1, <3>2, <3>3 DEF Settled
  <2>2. <<>> \in Seq(Nat) /\ Range(<<>>) = {}
    BY DEF Range
  <2>3. t = [c EXCEPT !.reqs_not_processed = @ \union {r}, !.reqs_need_save = @ \ {r},
                      !.partial_reqs[r] = <<>>]
    BY <1>2 DEF EndRequest, FinishStopped
  <2> HIDE DEF t, r
  <2>4. QED BY <2>1, <2>2, <2>3 DEF t
<1>3. CASE ~e.stopped /\ e.capped
  <2>1. AllocStagingSlots(c, r) = c
    <3>1. Len(c.staging_free) \in Nat /\ Need[r] \in Nat
      <4>1. c.staging_free \in Seq(Slots)
        BY <1>1 DEF Connectors
      <4>2. QED BY <1>1, <4>1, ConstantsAssumption
    <3>2. c.staging_by_req[r] # <<>> \/ Len(c.staging_free) - Need[r] < 0
      BY <1>1, <1>3, <3>1
    <3>3. QED BY <3>2 DEF AllocStagingSlots
  <2>2. CASE c.staging_by_req[r] # <<>>
    <3>1. t = [c EXCEPT !.reqs_need_send = @ \union {r}]
      BY <1>3, <2>1, <2>2 DEF EndRequest, FinishCapped
    <3> HIDE DEF t, r
    <3>2. /\ t \in Connectors /\ t.staging_free = c.staging_free
          /\ t.staging_by_req = c.staging_by_req /\ t.deferred_saves = c.deferred_saves
          /\ t.reqs_need_save = c.reqs_need_save /\ t.partial_reqs = c.partial_reqs
      BY <1>1, <3>1 DEF Connectors
    <3>3. FirstBlocks(t) /\ Deferring(t) = Deferring(c)
      BY <1>1, <3>2 DEF FirstBlocks, Deferring
    <3>4. QED BY <1>1, <3>2, <3>3 DEF Settled, t
  <2>3. CASE c.staging_by_req[r] = <<>>
    <3> DEFINE w == WithoutDeferred(c, r)
    <3>1. t = [w EXCEPT !.reqs_not_processed = @ \union {r}]
      BY <1>3, <2>1, <2>3 DEF EndRequest, FinishCapped
    <3>2. /\ w \in Connectors /\ w.staging_free = c.staging_free
          /\ w.staging_by_req = c.staging_by_req
          /\ w.partial_reqs = c.partial_reqs /\ w.reqs_need_save = c.reqs_need_save
          /\ \A i \in DOMAIN w.deferred_saves : Range(w.deferred_saves[i].blocks) = {0}
          /\ Deferring(c) \ {r} \subseteq Deferring(w)
      BY <1>1, WithoutDeferredType, WithoutDeferredKeeps
    <3>3. r \in capped
      BY <1>3
    <3> HIDE DEF t, r, w
    <3>4. /\ t \in Connectors /\ t.staging_free = w.staging_free
          /\ t.staging_by_req = w.staging_by_req /\ t.deferred_saves = w.deferred_saves
          /\ t.reqs_need_save = w.reqs_need_save /\ t.partial_reqs = w.partial_reqs
      BY <1>1, <3>1, <3>2 DEF Connectors
    <3>5. FirstBlocks(t)
      BY <1>1, <3>2, <3>4 DEF FirstBlocks
    <3>6. Deferring(c0) \subseteq Deferring(t) \union capped
      BY <1>1, <3>2, <3>3, <3>4 DEF Deferring
    <3>7. QED BY <1>1, <3>2, <3>4, <3>5, <3>6 DEF Settled, t
  <2>4. QED BY <2>2, <2>3
<1>4. CASE ~e.stopped /\ ~e.capped
  <2>1. t = c
    BY <1>4 DEF EndRequest
  <2>2. QED BY <2>1
<1>5. QED BY <1>1, <1>2, <1>3, <1>4

LEMMA FinishSettled ==
  ASSUME NEW c \in Connectors, FirstBlocks(c), NEW stopped, NEW capped, NEW s \in Seq(Ends),
         \A i \in DOMAIN s :
           /\ s[i].stopped => s[i].req \in stopped
           /\ s[i].capped => /\ s[i].req \in capped
                             /\ \/ c.staging_by_req[s[i].req] # <<>>
                                \/ Len(c.staging_free) < Need[s[i].req]
  PROVE  Finishing!Fold(c, s) \in Settled(c, stopped, capped)
<1>1. c \in Settled(c, stopped, capped)
  BY DEF Settled
<1>2. Len(s) \in Nat /\ DOMAIN s = 1..Len(s) /\ \A i \in 1..Len(s) : s[i] \in Ends
  OBVIOUS
<1>3. \A i \in 1..Len(s), x \in Settled(c, stopped, capped) :
        EndRequest(x, s[i]) \in Settled(c, stopped, capped)
  BY <1>2, EndRequestSettled
<1>4. FinishingFacts!Fold(c, s) \in Settled(c, stopped, capped)
  BY <1>1, <1>2, <1>3, FinishingFacts!FoldInvariant
<1>5. QED BY <1>4 DEF Finishing!Fold, FinishingFacts!Fold

(* Returning slots leaves the saves alone.                                      *)
LEMMA ReleaseKeeps ==
  ASSUME NEW c \in Pools, NEW sent \in SUBSET Reqs
  PROVE  LET d == Releasing!Fold(c, SetToSeq(sent))
         IN  /\ d.deferred_saves = c.deferred_saves /\ d.partial_reqs = c.partial_reqs
             /\ d.reqs_need_save = c.reqs_need_save
<1> DEFINE s == SetToSeq(sent)
           I == {x \in Connectors : /\ x.deferred_saves = c.deferred_saves
                                    /\ x.partial_reqs = c.partial_reqs
                                    /\ x.reqs_need_save = c.reqs_need_save}
<1>1. s \in Seq(sent) /\ Len(s) \in Nat
  <2>1. IsFiniteSet(sent)
    BY ConstantsAssumption, FS_Subset
  <2>2. QED BY <2>1, Listing
<1> HIDE DEF s
<1>2. c \in I
  BY DEF Pools
<1>3. ASSUME NEW i \in 1..Len(s), NEW x \in I
      PROVE  FreeStagingSlots(x, s[i]) \in I
  <2> DEFINE r == s[i]
             joined == x.staging_free \o x.staging_by_req[r]
  <2>1. r \in Reqs
    BY <1>1
  <2> HIDE DEF r
  <2>2. joined \in Seq(Slots)
    <3>1. x.staging_free \in Seq(Slots) /\ x.staging_by_req[r] \in Seq(Slots)
      BY <2>1 DEF Connectors
    <3>2. QED BY <3>1
  <2>3. ASSUME NEW b \in Seq(Slots), NEW y,
               y = [x EXCEPT !.staging_free = joined, !.staging_by_req[r] = b]
        PROVE  y \in I
    <3> HIDE DEF joined
    <3>1. QED BY <2>1, <2>2, <2>3 DEF Connectors
  <2>4. <<>> \in Seq(Slots)
    OBVIOUS
  <2>5. FreeStagingSlots(x, r) = [x EXCEPT !.staging_free = joined, !.staging_by_req[r] = <<>>]
    BY DEF FreeStagingSlots
  <2>6. QED BY <2>3, <2>4, <2>5 DEF r
<1>4. ReleasingFacts!Fold(c, s) \in I
  <2> HIDE DEF I
  <2>1. QED BY <1>1, <1>2, <1>3, ReleasingFacts!FoldInvariant
<1>5. QED BY <1>4 DEF Releasing!Fold, ReleasingFacts!Fold, s

-----------------------------------------------------------------------------
Kept == {"waiting", "running", "advertised"}

Saved(r)  == \A s \in Range(conn.staging_by_req[r]) : staging[s] = r
ToSave(r) == steps # <<>> /\ ~steps[1].executed /\ steps[1].meta.save[r].slots # <<>>

(* No request that still runs, or is being read, has given up its blocks.       *)
FirstEpoch == \A r \in Reqs : status[r] \in Kept => epoch[r] = 0

(* The one step in flight.                                                      *)
StepIntact ==
  steps # <<>> =>
    /\ Len(steps) = 1
    /\ \A r \in Reqs : steps[1].epoch[r] <= epoch[r]
    /\ Starved(conn)
    /\ \A r \in steps[1].sampled : status[r] = "running" => progress[r] >= Chunks[r]
    /\ ~steps[1].executed => Matching(steps[1].meta.save, conn)

(* A request keeps asking until its prefill is saved or put off.                *)
Asked ==
  \A r \in Reqs : status[r] = "running" =>
    IF progress[r] < Chunks[r] THEN r \in conn.reqs_need_save ELSE r \in Provided(conn)

(* Slots that are held are written, or the step in flight writes them.          *)
HeldSaved ==
  \A r \in Reqs : conn.staging_by_req[r] # <<>> /\ status[r] \in Kept => Saved(r) \/ ToSave(r)

(* Slots that are offered are those that are held, and written.                 *)
OfferedSaved ==
  \A r \in Reqs : InTransfer(r) =>
    status[r] = "advertised" /\ advert[r] = conn.staging_by_req[r] /\ Saved(r)

IntactInv ==
  FirstEpoch /\ FirstBlocks(conn) /\ StepIntact /\ Asked /\ HeldSaved /\ OfferedSaved

LEMMA IntactInit == Init => IntactInv
<1> SUFFICES ASSUME Init PROVE IntactInv
  OBVIOUS
<1>1. /\ conn.partial_reqs = NoSlots /\ conn.deferred_saves = <<>> /\ conn.staging_by_req = NoSlots
      /\ \A r \in Reqs : NoSlots[r] = <<>> /\ status[r] = "waiting" /\ epoch[r] = 0 /\ remote[r] = "none"
      /\ steps = <<>>
  BY DEF Init, NoSlots
<1>2. Range(<<>>) = {} /\ DOMAIN <<>> = {}
  BY DEF Range
<1>3. FirstBlocks(conn)
  BY <1>1, <1>2 DEF FirstBlocks
<1>4. QED BY <1>1, <1>3 DEF IntactInv, FirstEpoch, StepIntact, Asked, HeldSaved, OfferedSaved, InTransfer

LEMMA IntactSchedule ==
  ASSUME Lookahead = 0, ~Sparse, Typed, LeaseInv, IntactInv, NEW S \in SUBSET Reqs, Schedule(S)
  PROVE  IntactInv'
<1>1. PICK order \in SetToSeqs(S), withBlocks \in SUBSET S :
        LET started == S \cap Waiting
            after   == [r \in Reqs |-> IF r \in S THEN progress[r] + 1 ELSE progress[r]]
            done    == {r \in S : after[r] >= Chunks[r]}
            built   == BuildConnectorMeta(UpdateStateAfterAlloc(conn, started), order, withBlocks, done)
        IN  /\ started \subseteq withBlocks
            /\ ~Sparse => withBlocks = S
            /\ conn' = built.conn
            /\ progress' = after
            /\ status' = [r \in Reqs |-> IF r \in S THEN "running" ELSE status[r]]
            /\ steps' = Append(steps,
                 [meta |-> built.meta, epoch |-> epoch, order |-> order, sampled |-> done,
                  capped |-> {r \in S : after[r] = Total(r)}, executed |-> FALSE, finished_sending |-> {}])
  BY DEF Schedule
<1> DEFINE started == S \cap Waiting
           after   == [r \in Reqs |-> IF r \in S THEN progress[r] + 1 ELSE progress[r]]
           done    == {r \in S : after[r] >= Chunks[r]}
           c       == UpdateStateAfterAlloc(conn, started)
           built   == BuildConnectorMeta(c, order, S, done)
           step    == [meta |-> built.meta, epoch |-> epoch, order |-> order, sampled |-> done,
                       capped |-> {r \in S : after[r] = Total(r)}, executed |-> FALSE, finished_sending |-> {}]
<1>2. /\ conn' = built.conn /\ progress' = after
      /\ status' = [r \in Reqs |-> IF r \in S THEN "running" ELSE status[r]]
      /\ steps' = Append(steps, step)
  BY <1>1
<1>3. /\ steps = <<>> /\ S \subseteq Schedulable
      /\ UNCHANGED <<epoch, staging, sender, remote, advert, notified>>
  <2>1. Len(steps) <= 0 /\ steps \in Seq(StepRecords)
    BY DEF Schedule, Typed
  <2>2. steps = <<>>
    BY <2>1
  <2>3. QED BY <2>2 DEF Schedule, remoteVars
<1>4. order \in Seq(Reqs) /\ Range(order) = S
  <2>1. IsFiniteSet(S)
    BY ConstantsAssumption, FS_Subset
  <2>2. order \in Seq(S) /\ Range(order) = S
    BY <2>1, Listings
  <2>3. QED BY <2>2
<1>5. /\ conn \in Pools /\ conn \in Connectors /\ conn \in From(conn) /\ epoch \in [Reqs -> Nat]
      /\ progress \in [Reqs -> Nat]
      /\ status \in [Reqs -> {"waiting", "running", "advertised", "released", "failed", "dropped"}]
  BY DEF Typed, Pools, From
<1>6. /\ c \in Connectors /\ c.staging_free = conn.staging_free /\ c.staging_by_req = conn.staging_by_req
      /\ c.partial_reqs = conn.partial_reqs /\ c.deferred_saves = conn.deferred_saves
      /\ c.reqs_need_save = conn.reqs_need_save \union started
  <2>1. started \subseteq Reqs
    BY DEF Waiting
  <2> HIDE DEF started
  <2>2. QED BY <1>5, <2>1 DEF UpdateStateAfterAlloc, Connectors
<1> HIDE DEF c
<1>7. c \in Pools /\ FirstBlocks(c) /\ Provided(c) = Provided(conn)
  <2>1. c \in From(conn)
    BY <1>5, <1>6, SamePool
  <2>2. QED BY <1>6, <2>1 DEF From, IntactInv, FirstBlocks, Provided, Holders, Deferring
<1>8. \A r \in S : r \in Reqs /\ status[r] \in {"waiting", "running"} /\ epoch[r] = 0
  <2>1. \A r \in S : status[r] \in {"waiting", "running"}
    BY <1>3 DEF Schedulable, Waiting, Running
  <2>2. QED BY <2>1 DEF IntactInv, FirstEpoch, Kept
<1>9. \A i \in DOMAIN order : epoch[order[i]] = 0
  <2>1. \A i \in DOMAIN order : order[i] \in S
    BY <1>4 DEF Range
  <2>2. QED BY <1>8, <2>1
<1>10. /\ FirstBlocks(built.conn) /\ Starved(built.conn) /\ Matching(built.meta.save, built.conn)
       /\ \A r \in Reqs : c.staging_by_req[r] = <<>> /\ built.conn.staging_by_req[r] # <<>>
                            => built.meta.save[r].slots # <<>>
       /\ Provided(c) \subseteq Provided(built.conn)
       /\ c.reqs_need_save \ done \subseteq built.conn.reqs_need_save
       /\ c.reqs_need_save \subseteq built.conn.reqs_need_save \union Provided(built.conn)
       /\ S \cap done \cap built.conn.reqs_need_save = {}
  <2> HIDE DEF done, after
  <2>1. QED BY <1>4, <1>5, <1>7, <1>9, BuildFilling
<1>11. /\ conn' \in From(conn)
       /\ \A r \in Reqs : conn.staging_by_req[r] # <<>> => conn'.staging_by_req[r] = conn.staging_by_req[r]
  <2>1. conn' \in From(conn)
    BY ScheduleStep
  <2>2. QED BY <2>1 DEF From
<1>12. steps' = <<step>>
  BY <1>2, <1>3
<1>13. step.meta = built.meta /\ step.epoch = epoch /\ step.sampled = done /\ ~step.executed
  OBVIOUS
<1> HIDE DEF step, built
<1>14. steps' # <<>> /\ Len(steps') = 1 /\ steps'[1] = step
  BY <1>12
<1>15. FirstEpoch'
  BY <1>2, <1>3, <1>5, <1>8 DEF IntactInv, FirstEpoch, Kept
<1>16. FirstBlocks(conn)'
  BY <1>2, <1>10 DEF FirstBlocks
<1>17. StepIntact'
  <2>1. \A r \in Reqs : steps'[1].epoch[r] <= epoch'[r]
    BY <1>3, <1>5, <1>13, <1>14
  <2>2. \A r \in steps'[1].sampled : progress'[r] >= Chunks[r]
    BY <1>2, <1>13, <1>14
  <2>3. Starved(conn)' /\ Matching(steps[1].meta.save, conn)'
    BY <1>2, <1>10, <1>13, <1>14 DEF Starved, Matching
  <2>4. QED BY <1>14, <2>1, <2>2, <2>3 DEF StepIntact
<1>18. Asked'
  <2> SUFFICES ASSUME NEW r \in Reqs, status'[r] = "running"
               PROVE  IF progress'[r] < Chunks[r] THEN r \in conn'.reqs_need_save
                                                  ELSE r \in Provided(conn')
    BY DEF Asked, Provided, Holders, Deferring
  <2>1. r \in S \/ (r \notin S /\ status[r] = "running")
    BY <1>2
  <2>2. progress[r] \in Nat /\ Chunks[r] \in Nat /\ progress'[r] = IF r \in S THEN progress[r] + 1 ELSE progress[r]
    BY <1>2, <1>5, ConstantsAssumption
  <2>3. r \in done <=> r \in S /\ progress'[r] >= Chunks[r]
    BY <1>2
  <2>4. status[r] = "waiting" => r \in c.reqs_need_save
    BY <1>2, <1>6, <2>1 DEF Waiting
  <2>5. status[r] = "running" => IF progress[r] < Chunks[r] THEN r \in c.reqs_need_save ELSE r \in Provided(c)
    BY <1>6, <1>7 DEF IntactInv, Asked
  <2>6. status[r] = "waiting" \/ status[r] = "running"
    BY <1>8, <2>1
  <2> HIDE DEF done, after
  <2>7. CASE progress'[r] < Chunks[r]
    <3>1. progress[r] < Chunks[r] /\ r \notin done
      BY <2>2, <2>3, <2>7
    <3>2. r \in c.reqs_need_save
      BY <2>4, <2>5, <2>6, <3>1
    <3>3. QED BY <1>2, <1>10, <2>7, <3>1, <3>2
  <2>8. CASE ~ (progress'[r] < Chunks[r])
    <3>1. CASE r \in Provided(c)
      BY <1>2, <1>10, <2>8, <3>1
    <3>2. CASE r \in c.reqs_need_save /\ r \notin Provided(c)
      <4>1. r \in S
        BY <2>1, <2>2, <2>5, <2>8, <3>2
      <4>2. r \in done
        BY <2>2, <2>3, <2>8, <4>1
      <4>3. QED BY <1>2, <1>10, <2>8, <3>2, <4>1, <4>2
    <3>3. QED BY <2>4, <2>5, <2>6, <3>1, <3>2
  <2>9. QED BY <2>7, <2>8
<1>19. HeldSaved'
  <2> SUFFICES ASSUME NEW r \in Reqs, conn'.staging_by_req[r] # <<>>, status'[r] \in Kept
               PROVE  Saved(r)' \/ ToSave(r)'
    BY DEF HeldSaved
  <2>1. status[r] \in Kept
    BY <1>2, <1>8 DEF Kept
  <2>2. CASE conn.staging_by_req[r] # <<>>
    <3>1. Saved(r)
      BY <1>3, <2>1, <2>2 DEF IntactInv, HeldSaved, ToSave
    <3>2. QED BY <1>3, <1>11, <2>2, <3>1 DEF Saved
  <2>3. CASE conn.staging_by_req[r] = <<>>
    BY <1>2, <1>6, <1>10, <1>13, <1>14, <2>3 DEF ToSave
  <2>4. QED BY <2>2, <2>3
<1>20. OfferedSaved'
  <2> SUFFICES ASSUME NEW r \in Reqs, InTransfer(r)'
               PROVE  status'[r] = "advertised" /\ advert'[r] = conn'.staging_by_req[r] /\ Saved(r)'
    BY DEF OfferedSaved
  <2>1. InTransfer(r)
    BY <1>3 DEF InTransfer
  <2>2. status[r] = "advertised" /\ advert[r] = conn.staging_by_req[r] /\ Saved(r)
    BY <2>1 DEF IntactInv, OfferedSaved
  <2>3. conn.staging_by_req[r] # <<>>
    BY <2>1 DEF LeaseInv
  <2>4. r \notin S
    BY <1>8, <2>2
  <2>5. QED BY <1>2, <1>3, <1>11, <2>2, <2>3, <2>4 DEF Saved
<1>21. QED BY <1>15, <1>16, <1>17, <1>18, <1>19, <1>20 DEF IntactInv

(* The worker's copy makes good what the step was to save, and touches nothing  *)
(* that another request holds.                                                  *)
LEMMA SavedContentsKeeps ==
  ASSUME Typed, IntactInv, steps # <<>>, ~steps[1].executed,
         NEW r \in Reqs, status[r] \in Kept, Saved(r) \/ ToSave(r)
  PROVE  \A s \in Range(conn.staging_by_req[r]) :
           SavedContents(steps[1].meta.save, steps[1].epoch)[s] = r
<1> DEFINE save == steps[1].meta.save
           at   == steps[1].epoch
<1> SUFFICES ASSUME NEW s \in Range(conn.staging_by_req[r]) PROVE SavedContents(save, at)[s] = r
  OBVIOUS
<1>1. s \in Slots
  <2>1. conn.staging_by_req[r] \in Seq(Slots)
    BY DEF Typed, Pools, Connectors
  <2>2. QED BY <2>1 DEF Range
<1>2. at[r] = 0
  <2>1. steps \in Seq(StepRecords) /\ steps[1] \in StepRecords
    BY DEF Typed
  <2>2. at \in [Reqs -> Nat]
    BY <2>1 DEF StepRecords
  <2>3. at[r] <= epoch[r] /\ epoch[r] = 0
    BY DEF IntactInv, StepIntact, FirstEpoch
  <2>4. at[r] \in Nat
    BY <2>2
  <2> HIDE DEF at
  <2>5. QED BY <2>3, <2>4
<1>3. Matching(save, conn)
  BY DEF IntactInv, StepIntact
<1> HIDE DEF save, at
<1>4. \A q \in Reqs : s \in Range(save[q].slots) => q = r
  <2> SUFFICES ASSUME NEW q \in Reqs, s \in Range(save[q].slots) PROVE q = r
    OBVIOUS
  <2>1. save[q].slots # <<>>
    BY DEF Range
  <2>2. s \in Range(conn.staging_by_req[q])
    BY <1>3, <2>1 DEF Matching
  <2>3. Pool(conn)
    BY DEF Typed, Pools
  <2>4. QED BY <2>2, <2>3 DEF Pool
<1>5. CASE \E q \in Reqs : s \in Range(save[q].slots)
  <2>1. s \in Range(save[r].slots) /\ (CHOOSE q \in Reqs : s \in Range(save[q].slots)) = r
    BY <1>4, <1>5
  <2>2. Range(save[r].blocks) = {0}
    <3>1. save[r].slots # <<>>
      BY <2>1 DEF Range
    <3>2. QED BY <1>3, <3>1 DEF Matching
  <2>3. QED BY <1>1, <1>2, <1>5, <2>1, <2>2 DEF SavedContents
<1>6. CASE ~ \E q \in Reqs : s \in Range(save[q].slots)
  <2>1. Saved(r)
    <3>1. ~ ToSave(r)
      <4> SUFFICES ASSUME ToSave(r) PROVE FALSE
        OBVIOUS
      <4>1. save[r].slots # <<>>
        BY DEF ToSave, save
      <4>2. save[r].slots = conn.staging_by_req[r]
        BY <1>3, <4>1 DEF Matching
      <4>3. QED BY <1>6, <4>2
    <3>2. QED BY <3>1
  <2>2. SavedContents(save, at)[s] = staging[s]
    BY <1>1, <1>6 DEF SavedContents
  <2>3. QED BY <2>1, <2>2 DEF Saved
<1>7. QED BY <1>5, <1>6

LEMMA IntactExecute ==
  ASSUME Typed, LeaseInv, IntactInv, Execute
  PROVE  IntactInv'
<1>1. PICK i \in DOMAIN steps :
        /\ ~steps[i].executed
        /\ staging' = SavedContents(steps[i].meta.save, steps[i].epoch)
        /\ UNCHANGED <<conn, status, progress, epoch, remote, advert>>
        /\ \E sent : steps' = [steps EXCEPT ![i].executed = TRUE, ![i].finished_sending = sent]
  BY DEF Execute
<1>2. steps \in Seq(StepRecords) /\ steps # <<>> /\ Len(steps) = 1 /\ i = 1 /\ DOMAIN steps = 1..1
  <2>1. steps \in Seq(StepRecords)
    BY DEF Typed
  <2>2. steps # <<>>
    BY <2>1
  <2>3. Len(steps) = 1
    BY <2>2 DEF IntactInv, StepIntact
  <2>4. QED BY <2>1, <2>2, <2>3
<1>3. PICK sent : steps' = [steps EXCEPT ![1].executed = TRUE, ![1].finished_sending = sent]
  BY <1>1, <1>2
<1>4. /\ steps' # <<>> /\ Len(steps') = 1 /\ steps'[1].executed
      /\ steps'[1].epoch = steps[1].epoch /\ steps'[1].sampled = steps[1].sampled
  <2>1. steps[1] \in StepRecords /\ 1 \in DOMAIN steps
    BY <1>2
  <2> DEFINE t == [steps[1] EXCEPT !.executed = TRUE, !.finished_sending = sent]
  <2>2. steps' = [steps EXCEPT ![1] = t]
    BY <1>3
  <2>3. t.executed /\ t.epoch = steps[1].epoch /\ t.sampled = steps[1].sampled
    BY <2>1 DEF StepRecords
  <2> HIDE DEF t
  <2>4. steps'[1] = t /\ DOMAIN steps' = 1..1
    BY <1>2, <2>1, <2>2
  <2>5. Len(steps') = 1 /\ steps' # <<>>
    BY <1>2, <2>2
  <2>6. QED BY <2>3, <2>4, <2>5
<1>5. ASSUME NEW r \in Reqs, status[r] \in Kept, Saved(r) \/ ToSave(r)
      PROVE  Saved(r)'
  <2>1. \A s \in Range(conn.staging_by_req[r]) :
          SavedContents(steps[1].meta.save, steps[1].epoch)[s] = r
    BY <1>1, <1>2, <1>5, SavedContentsKeeps
  <2>2. QED BY <1>1, <1>2, <2>1 DEF Saved
<1>6. (FirstEpoch /\ FirstBlocks(conn) /\ Asked)'
  <2>1. FirstEpoch'
    BY <1>1 DEF IntactInv, FirstEpoch
  <2>2. FirstBlocks(conn)'
    BY <1>1 DEF IntactInv, FirstBlocks
  <2>3. Asked'
    BY <1>1 DEF IntactInv, Asked, Provided, Holders, Deferring
  <2>4. QED BY <2>1, <2>2, <2>3
<1>7. StepIntact'
  <2>1. Starved(conn)' /\ \A r \in Reqs : steps'[1].epoch[r] <= epoch'[r]
    BY <1>1, <1>2, <1>4 DEF IntactInv, StepIntact, Starved
  <2>2. \A r \in steps'[1].sampled : status'[r] = "running" => progress'[r] >= Chunks[r]
    BY <1>1, <1>2, <1>4 DEF IntactInv, StepIntact
  <2>3. QED BY <1>4, <2>1, <2>2 DEF StepIntact
<1>8. HeldSaved'
  <2> SUFFICES ASSUME NEW r \in Reqs, conn'.staging_by_req[r] # <<>>, status'[r] \in Kept
               PROVE  Saved(r)'
    BY DEF HeldSaved
  <2>1. status[r] \in Kept /\ (Saved(r) \/ ToSave(r))
    BY <1>1 DEF IntactInv, HeldSaved
  <2>2. QED BY <1>5, <2>1
<1>9. OfferedSaved'
  <2> SUFFICES ASSUME NEW r \in Reqs, InTransfer(r)'
               PROVE  status'[r] = "advertised" /\ advert'[r] = conn'.staging_by_req[r] /\ Saved(r)'
    BY DEF OfferedSaved
  <2>1. InTransfer(r)
    BY <1>1 DEF InTransfer
  <2>2. status[r] = "advertised" /\ advert[r] = conn.staging_by_req[r] /\ Saved(r)
    BY <2>1 DEF IntactInv, OfferedSaved
  <2>3. Saved(r)'
    BY <1>5, <2>2 DEF Kept
  <2>4. QED BY <1>1, <2>2, <2>3
<1>10. QED BY <1>6, <1>7, <1>8, <1>9 DEF IntactInv

LEMMA IntactAbort ==
  ASSUME Typed, IntactInv, NEW r \in Reqs, Abort(r)
  PROVE  IntactInv'
<1>1. /\ status[r] \in {"waiting", "running"} /\ conn' = FinishStopped(conn, r)
      /\ status' = [status EXCEPT ![r] = "dropped"] /\ epoch' = [epoch EXCEPT ![r] = @ + 1]
      /\ UNCHANGED <<progress, steps, staging, sender, remote, advert, notified>>
  BY DEF Abort, remoteVars
<1>2. /\ conn \in Connectors /\ epoch \in [Reqs -> Nat] /\ steps \in Seq(StepRecords)
      /\ status \in [Reqs -> {"waiting", "running", "advertised", "released", "failed", "dropped"}]
  BY DEF Typed, Pools
<1>3. conn' \in Settled(conn, {r}, {})
  <2> DEFINE e == [req |-> r, stopped |-> TRUE, capped |-> FALSE]
  <2>1. e \in Ends /\ e.req = r /\ e.stopped = TRUE /\ e.capped = FALSE
    BY DEF Ends
  <2>2. conn \in Settled(conn, {r}, {})
    BY <1>2 DEF IntactInv, Settled
  <2>3. conn' = EndRequest(conn, e)
    BY <1>1 DEF EndRequest
  <2> HIDE DEF e
  <2>4. QED BY <1>2, <2>1, <2>2, <2>3, EndRequestSettled
<1>4. /\ conn'.staging_free = conn.staging_free /\ conn'.staging_by_req = conn.staging_by_req
      /\ FirstBlocks(conn') /\ Deferring(conn) \subseteq Deferring(conn')
      /\ conn.reqs_need_save \ {r} \subseteq conn'.reqs_need_save
  BY <1>3 DEF Settled
<1>5. conn'.deferred_saves = conn.deferred_saves
  <2>1. ASSUME NEW b \in Seq(Nat), NEW x,
               x = [conn EXCEPT !.reqs_not_processed = @ \union {r}, !.reqs_need_save = @ \ {r},
                                !.partial_reqs[r] = b]
        PROVE  x.deferred_saves = conn.deferred_saves
    BY <1>2, <2>1 DEF Connectors
  <2>2. <<>> \in Seq(Nat)
    OBVIOUS
  <2>3. QED BY <1>1, <2>1, <2>2 DEF FinishStopped
<1>6. FirstEpoch'
  BY <1>1, <1>2 DEF IntactInv, FirstEpoch, Kept
<1>7. FirstBlocks(conn)'
  BY <1>4 DEF FirstBlocks
<1>8. StepIntact'
  <2> SUFFICES ASSUME steps # <<>> PROVE
        /\ Len(steps) = 1 /\ \A q \in Reqs : steps[1].epoch[q] <= epoch'[q]
        /\ Starved(conn')
        /\ \A q \in steps[1].sampled : status'[q] = "running" => progress[q] >= Chunks[q]
        /\ ~steps[1].executed => Matching(steps[1].meta.save, conn')
    BY <1>1 DEF StepIntact, Starved, Matching
  <2>1. /\ Len(steps) = 1 /\ \A q \in Reqs : steps[1].epoch[q] <= epoch[q]
        /\ Starved(conn)
        /\ \A q \in steps[1].sampled : status[q] = "running" => progress[q] >= Chunks[q]
        /\ ~steps[1].executed => Matching(steps[1].meta.save, conn)
    BY DEF IntactInv, StepIntact
  <2>2. Starved(conn') /\ (~steps[1].executed => Matching(steps[1].meta.save, conn'))
    BY <1>4, <1>5, <2>1 DEF Starved, Matching
  <2>3. steps[1] \in StepRecords
    BY <1>2, <2>1
  <2>4. \A q \in Reqs : steps[1].epoch[q] \in Nat
    BY <2>3 DEF StepRecords
  <2>5. \A q \in Reqs : steps[1].epoch[q] <= epoch'[q]
    BY <1>1, <1>2, <2>1, <2>4
  <2>6. steps[1].sampled \subseteq Reqs
    BY <2>3 DEF StepRecords
  <2>7. \A q \in steps[1].sampled : status'[q] = "running" => progress[q] >= Chunks[q]
    BY <1>1, <1>2, <2>1, <2>6
  <2>8. QED BY <2>1, <2>2, <2>5, <2>7
<1>9. Asked'
  <2> SUFFICES ASSUME NEW q \in Reqs, status'[q] = "running"
               PROVE  IF progress[q] < Chunks[q] THEN q \in conn'.reqs_need_save
                                                 ELSE q \in Provided(conn')
    BY <1>1 DEF Asked, Provided, Holders, Deferring
  <2>1. q # r /\ status[q] = "running"
    BY <1>1, <1>2
  <2>2. IF progress[q] < Chunks[q] THEN q \in conn.reqs_need_save ELSE q \in Provided(conn)
    BY <2>1 DEF IntactInv, Asked
  <2>3. Provided(conn) \subseteq Provided(conn')
    BY <1>4 DEF Provided, Holders
  <2>4. QED BY <1>4, <2>1, <2>2, <2>3
<1>10. HeldSaved'
  BY <1>1, <1>2, <1>4 DEF IntactInv, HeldSaved, Saved, ToSave, Kept
<1>11. OfferedSaved'
  BY <1>1, <1>2, <1>4 DEF IntactInv, OfferedSaved, InTransfer, Saved
<1>12. QED BY <1>6, <1>7, <1>8, <1>9, <1>10, <1>11 DEF IntactInv

LEMMA IntactRead ==
  ASSUME Typed, IntactInv, NEW r \in Reqs, ReadBegin(r) \/ ReadEnd(r)
  PROVE  IntactInv'
<1>1. /\ UNCHANGED <<conn, status, progress, epoch, steps, staging, advert>>
      /\ \A q \in Reqs : InTransfer(q)' => InTransfer(q)
  BY DEF Typed, ReadBegin, ReadEnd, InTransfer
<1>2. (FirstEpoch /\ FirstBlocks(conn) /\ StepIntact /\ Asked /\ HeldSaved)'
  <2>1. FirstEpoch'
    BY <1>1 DEF IntactInv, FirstEpoch
  <2>2. FirstBlocks(conn)'
    BY <1>1 DEF IntactInv, FirstBlocks
  <2>3. StepIntact'
    BY <1>1 DEF IntactInv, StepIntact, Starved, Matching
  <2>4. Asked'
    BY <1>1 DEF IntactInv, Asked, Provided, Holders, Deferring
  <2>5. HeldSaved'
    BY <1>1 DEF IntactInv, HeldSaved, Saved, ToSave
  <2>6. QED BY <2>1, <2>2, <2>3, <2>4, <2>5
<1>3. OfferedSaved'
  BY <1>1 DEF IntactInv, OfferedSaved, Saved
<1>4. QED BY <1>2, <1>3 DEF IntactInv

LEMMA IntactUpdate ==
  ASSUME Lookahead = 0, Typed, LeaseInv, IntactInv, Update
  PROVE  IntactInv'
<1> DEFINE step  == Head(steps)
           alive == step.sampled \cap Running
           sent  == step.finished_sending
<1>1. PICK stopped \in SUBSET alive :
        LET capped   == (step.capped \cap alive) \ stopped
            finished == Finishing!Fold(conn, [i \in DOMAIN step.order |->
                          [req |-> step.order[i], stopped |-> step.order[i] \in stopped,
                           capped |-> step.order[i] \in capped]])
            offered  == {r \in capped : finished.staging_by_req[r] # <<>>}
        IN  /\ ~MayStop => stopped = {}
            /\ conn' = Releasing!Fold(finished, SetToSeq(sent))
            /\ status' = [r \in Reqs |->
                 CASE r \in stopped -> "dropped"
                   [] r \in offered -> "advertised"
                   [] r \in capped \ offered -> "failed"
                   [] r \in sent \ (stopped \union capped) -> "released"
                   [] OTHER -> status[r]]
            /\ epoch' = [r \in Reqs |->
                 IF r \in sent \union stopped \union (capped \ offered) THEN epoch[r] + 1 ELSE epoch[r]]
            /\ remote' = [r \in Reqs |-> IF r \in offered THEN "ready" ELSE remote[r]]
            /\ advert' = [r \in Reqs |->
                 IF r \in offered THEN finished.staging_by_req[r] ELSE advert[r]]
  BY DEF Update
<1> DEFINE capped   == (step.capped \cap alive) \ stopped
           rows     == [i \in DOMAIN step.order |->
                         [req |-> step.order[i], stopped |-> step.order[i] \in stopped,
                          capped |-> step.order[i] \in capped]]
           finished == Finishing!Fold(conn, rows)
           offered  == {r \in capped : finished.staging_by_req[r] # <<>>}
<1>2. /\ conn' = Releasing!Fold(finished, SetToSeq(sent))
      /\ status' = [r \in Reqs |->
                 CASE r \in stopped -> "dropped"
                   [] r \in offered -> "advertised"
                   [] r \in capped \ offered -> "failed"
                   [] r \in sent \ (stopped \union capped) -> "released"
                   [] OTHER -> status[r]]
      /\ epoch' = [r \in Reqs |->
                 IF r \in sent \union stopped \union (capped \ offered) THEN epoch[r] + 1 ELSE epoch[r]]
      /\ remote' = [r \in Reqs |-> IF r \in offered THEN "ready" ELSE remote[r]]
      /\ advert' = [r \in Reqs |-> IF r \in offered THEN finished.staging_by_req[r] ELSE advert[r]]
  BY <1>1
<1>3. /\ steps \in Seq(StepRecords) /\ Len(steps) = 1 /\ steps # <<>> /\ step = steps[1]
      /\ steps[1] \in StepRecords /\ step.executed
  <2>1. Len(steps) = Lookahead + 1 /\ Head(steps).executed
    BY DEF Update
  <2>2. Len(steps) = 1 /\ steps \in Seq(StepRecords)
    BY <2>1 DEF Typed
  <2>3. QED BY <2>1, <2>2, SMTT(30)
<1>4. /\ conn \in Pools /\ conn \in Connectors /\ epoch \in [Reqs -> Nat]
      /\ status \in [Reqs -> {"waiting", "running", "advertised", "released", "failed", "dropped"}]
      /\ remote \in [Reqs -> {"none", "ready", "reading", "done"}]
      /\ progress \in [Reqs -> Nat] /\ FirstBlocks(conn)
  BY DEF Typed, Pools, IntactInv
<1>5. steps' = <<>> /\ UNCHANGED <<progress, staging, sender, notified>>
  <2>1. steps' = Tail(steps) /\ UNCHANGED <<progress, staging, sender, notified>>
    BY DEF Update
  <2>2. Tail(steps) = <<>>
    <3>1. Tail(steps) \in Seq(StepRecords) /\ Len(Tail(steps)) = 0
      BY <1>3
    <3>2. \A s \in Seq(StepRecords) : Len(s) = 0 => s = <<>>
      OBVIOUS
    <3>3. QED BY <3>1, <3>2, Zenon
  <2>3. QED BY <2>1, <2>2, SMTT(30)
(* Who may end: a request that holds its slots, written, or waits for others.   *)
<1>6. /\ sent \in SUBSET Reqs /\ step.order \in Seq(Reqs) /\ step.sampled \in SUBSET Reqs
      /\ step.capped \in SUBSET Reqs
  BY <1>3 DEF StepRecords
<1>7. \A r \in alive : r \in Reqs /\ status[r] = "running" /\ progress[r] >= Chunks[r]
  <2>1. \A r \in step.sampled : status[r] = "running" => progress[r] >= Chunks[r]
    BY <1>3 DEF IntactInv, StepIntact
  <2>2. QED BY <2>1 DEF Running
<1>8. \A r \in sent : remote[r] = "done" /\ status[r] \notin {"waiting", "running"}
  <2>1. \A r \in sent : remote[r] = "done"
    BY <1>3 DEF LeaseInv
  <2>2. QED BY <1>6, <2>1 DEF LeaseInv
<1>9. stopped \subseteq alive /\ capped \subseteq alive /\ offered \subseteq capped /\ capped \cap stopped = {}
  OBVIOUS
<1>10. \A r \in alive : conn.staging_by_req[r] # <<>> \/ Len(conn.staging_free) < Need[r]
  <2> SUFFICES ASSUME NEW r \in alive
               PROVE  conn.staging_by_req[r] # <<>> \/ Len(conn.staging_free) < Need[r]
    OBVIOUS
  <2> HIDE DEF alive
  <2>1. r \in Provided(conn)
    <3>1. progress[r] \in Nat /\ Chunks[r] \in Nat
      BY <1>4, <1>7, ConstantsAssumption
    <3>2. IF progress[r] < Chunks[r] THEN r \in conn.reqs_need_save ELSE r \in Provided(conn)
      BY <1>7 DEF IntactInv, Asked
    <3>3. QED BY <1>7, <3>1, <3>2
  <2>2. Starved(conn)
    BY <1>3 DEF IntactInv, StepIntact
  <2>3. QED BY <2>1, <2>2 DEF Provided, Holders, Deferring, Starved
<1> HIDE DEF alive, sent, capped
<1>11. rows \in Seq(Ends) /\ DOMAIN rows = DOMAIN step.order
       /\ \A i \in DOMAIN rows : /\ rows[i].req = step.order[i]
                                 /\ rows[i].stopped => rows[i].req \in stopped
                                 /\ rows[i].capped => rows[i].req \in capped
  <2> DEFINE order == step.order
  <2>1. rows = [i \in DOMAIN order |-> [req |-> order[i], stopped |-> order[i] \in stopped,
                                        capped |-> order[i] \in capped]]
    OBVIOUS
  <2> HIDE DEF order, rows
  <2>2. order \in Seq(Reqs)
    BY <1>6 DEF order
  <2>3. rows \in [1..Len(order) -> Ends] /\ Len(order) \in Nat
    BY <2>1, <2>2 DEF Ends
  <2>4. rows \in Seq(Ends)
    BY <2>3
  <2>5. QED BY <2>1, <2>4 DEF order
<1> HIDE DEF rows
<1>12. finished \in Settled(conn, stopped, capped)
  <2>1. \A i \in DOMAIN rows :
          /\ rows[i].stopped => rows[i].req \in stopped
          /\ rows[i].capped => /\ rows[i].req \in capped
                               /\ \/ conn.staging_by_req[rows[i].req] # <<>>
                                  \/ Len(conn.staging_free) < Need[rows[i].req]
    BY <1>9, <1>10, <1>11
  <2>2. QED BY <1>4, <1>11, <2>1, FinishSettled
<1>13. finished \in Pools
  BY <1>4, <1>11, FinishFrom DEF From
<1> HIDE DEF finished
<1>14. /\ finished.staging_by_req = conn.staging_by_req /\ FirstBlocks(finished)
       /\ Deferring(conn) \subseteq Deferring(finished) \union capped
       /\ conn.reqs_need_save \ stopped \subseteq finished.reqs_need_save
  BY <1>12 DEF Settled
<1>15. /\ conn'.deferred_saves = finished.deferred_saves
       /\ conn'.partial_reqs = finished.partial_reqs
       /\ conn'.reqs_need_save = finished.reqs_need_save
       /\ \A r \in Reqs \ sent : conn'.staging_by_req[r] = conn.staging_by_req[r]
       /\ \A r \in Reqs : conn'.staging_by_req[r] # <<>> => conn'.staging_by_req[r] = conn.staging_by_req[r]
  <2>1. conn' \in Freed(finished, sent)
    BY <1>2, <1>6, <1>13, ReleaseFreed
  <2>2. QED BY <1>2, <1>6, <1>13, <1>14, <2>1, ReleaseKeeps DEF Freed
(* Who is still there after the step.                                           *)
<1>16. \A r \in offered : r \in Reqs /\ r \notin sent /\ status[r] = "running"
  BY <1>7, <1>8, <1>9
<1> HIDE DEF offered
<1>17. ASSUME NEW r \in Reqs, status'[r] \in Kept, r \notin offered
       PROVE  r \notin stopped \union capped \union sent /\ status'[r] = status[r]
  <2>1. r \in stopped => status'[r] = "dropped"
    BY <1>2, <1>9, <1>17
  <2>2. r \in capped => status'[r] = "failed"
    BY <1>2, <1>9, <1>17
  <2>3. r \in sent /\ r \notin stopped \union capped => status'[r] = "released"
    BY <1>2, <1>9, <1>17
  <2>4. r \notin stopped \union capped \union sent
    BY <1>17, <2>1, <2>2, <2>3 DEF Kept
  <2>5. QED BY <1>2, <1>17, <2>4
<1>18. \A r \in offered : status'[r] = "advertised" /\ epoch'[r] = epoch[r]
  <2>1. \A r \in offered : r \in Reqs /\ r \notin stopped /\ r \notin sent
    BY <1>9, <1>16
  <2>2. QED BY <1>2, <2>1
<1>19. FirstEpoch'
  <2> SUFFICES ASSUME NEW r \in Reqs, status'[r] \in Kept PROVE epoch'[r] = 0
    BY DEF FirstEpoch
  <2>1. CASE r \in offered
    BY <1>16, <1>18, <2>1 DEF IntactInv, FirstEpoch, Kept
  <2>2. CASE r \notin offered
    <3>1. r \notin stopped \union capped \union sent /\ status'[r] = status[r]
      BY <1>17, <2>2
    <3>2. epoch'[r] = epoch[r]
      BY <1>2, <3>1
    <3>3. QED BY <3>1, <3>2 DEF IntactInv, FirstEpoch
  <2>3. QED BY <2>1, <2>2
<1>20. FirstBlocks(conn)'
  BY <1>14, <1>15 DEF FirstBlocks
<1>21. StepIntact'
  BY <1>5 DEF StepIntact
<1>22. Asked'
  <2> SUFFICES ASSUME NEW r \in Reqs, status'[r] = "running"
               PROVE  IF progress[r] < Chunks[r] THEN r \in conn'.reqs_need_save
                                                 ELSE r \in Provided(conn')
    BY <1>5 DEF Asked, Provided, Holders, Deferring
  <2>1. r \notin offered
    BY <1>18
  <2>2. r \notin stopped \union capped \union sent /\ status[r] = "running"
    BY <1>17, <2>1 DEF Kept
  <2>3. IF progress[r] < Chunks[r] THEN r \in conn.reqs_need_save ELSE r \in Provided(conn)
    BY <2>2 DEF IntactInv, Asked
  <2>4. r \in conn.reqs_need_save => r \in conn'.reqs_need_save
    BY <1>14, <1>15, <2>2
  <2>5. r \in Provided(conn) => r \in Provided(conn')
    <3>1. r \in Holders(conn) => r \in Holders(conn')
      BY <1>15, <2>2 DEF Holders
    <3>2. r \in Deferring(conn) => r \in Deferring(conn')
      BY <1>14, <1>15, <2>2 DEF Deferring
    <3>3. QED BY <3>1, <3>2 DEF Provided
  <2>6. QED BY <2>3, <2>4, <2>5
<1>23. ASSUME NEW r \in Reqs, conn.staging_by_req[r] # <<>>, status[r] \in Kept
       PROVE  Saved(r)
  BY <1>3, <1>23 DEF IntactInv, HeldSaved, ToSave
<1>24. HeldSaved'
  <2> SUFFICES ASSUME NEW r \in Reqs, conn'.staging_by_req[r] # <<>>, status'[r] \in Kept
               PROVE  Saved(r)'
    BY DEF HeldSaved
  <2>1. status[r] \in Kept
    BY <1>16, <1>17 DEF Kept
  <2>2. Saved(r)
    BY <1>15, <1>23, <2>1
  <2>3. QED BY <1>5, <1>15, <2>2 DEF Saved
<1>25. OfferedSaved'
  <2> SUFFICES ASSUME NEW r \in Reqs, InTransfer(r)'
               PROVE  status'[r] = "advertised" /\ advert'[r] = conn'.staging_by_req[r] /\ Saved(r)'
    BY DEF OfferedSaved
  <2>1. CASE r \in offered
    <3>1. advert'[r] = conn.staging_by_req[r] /\ conn'.staging_by_req[r] = conn.staging_by_req[r]
      BY <1>2, <1>14, <1>15, <1>16, <2>1
    <3>2. conn.staging_by_req[r] # <<>>
      BY <1>14, <2>1 DEF offered
    <3>3. Saved(r)
      BY <1>16, <1>23, <2>1, <3>2 DEF Kept
    <3>4. QED BY <1>5, <1>18, <2>1, <3>1, <3>3 DEF Saved
  <2>2. CASE r \notin offered
    <3>1. InTransfer(r)
      BY <1>2, <2>2 DEF InTransfer
    <3>2. status[r] = "advertised" /\ advert[r] = conn.staging_by_req[r] /\ Saved(r)
      BY <3>1 DEF IntactInv, OfferedSaved
    <3>3. r \notin stopped /\ r \notin capped /\ r \notin sent
      BY <1>7, <1>8, <1>9, <3>1, <3>2 DEF InTransfer
    <3>4. status'[r] = status[r] /\ advert'[r] = advert[r]
      BY <1>2, <2>2, <3>3
    <3>5. QED BY <1>5, <1>15, <3>2, <3>3, <3>4 DEF Saved
  <2>3. QED BY <2>1, <2>2
<1>26. QED BY <1>19, <1>20, <1>21, <1>22, <1>24, <1>25 DEF IntactInv

LEMMA IntactNext ==
  ASSUME Lookahead = 0, MaxPreempts = 0, ~Sparse, Typed, LeaseInv, IntactInv, [Next]_vars
  PROVE  IntactInv'
<1>1. CASE Next
  <2>1. CASE \E S \in SUBSET Reqs : Schedule(S)
    BY <2>1, IntactSchedule
  <2>2. CASE Execute
    BY <2>2, IntactExecute
  <2>3. CASE Update
    BY <2>3, IntactUpdate
  <2>4. ASSUME NEW r \in Reqs PROVE ~ Preempt(r)
    <3>1. epoch[r] \in Nat
      BY DEF Typed
    <3>2. QED BY <3>1 DEF Preempt
  <2>5. CASE \E r \in Reqs : Abort(r) \/ ReadBegin(r) \/ ReadEnd(r)
    BY <2>5, IntactAbort, IntactRead
  <2>6. QED BY <1>1, <2>1, <2>2, <2>3, <2>4, <2>5 DEF Next
<1>2. CASE UNCHANGED vars
  <2>1. UNCHANGED <<conn, status, progress, epoch, steps, staging, remote, advert>>
    BY <1>2 DEF vars
  <2>2. FirstEpoch' /\ FirstBlocks(conn)' /\ StepIntact'
    BY <2>1 DEF IntactInv, FirstEpoch, FirstBlocks, StepIntact, Starved, Matching
  <2>3. Asked'
    BY <2>1 DEF IntactInv, Asked, Provided, Holders, Deferring
  <2>4. HeldSaved' /\ OfferedSaved'
    BY <2>1 DEF IntactInv, HeldSaved, OfferedSaved, InTransfer, Saved, ToSave
  <2>5. QED BY <2>2, <2>3, <2>4 DEF IntactInv
<1>3. QED BY <1>1, <1>2

LEMMA IntactReads == ASSUME Typed, LeaseInv, IntactInv PROVE ReadIntact
<1> SUFFICES ASSUME NEW r \in Reqs, remote[r] = "reading"
             PROVE  advert[r] # <<>> /\ \A i \in DOMAIN advert[r] : staging[advert[r][i]] = r
  BY DEF ReadIntact
<1>1. InTransfer(r)
  BY DEF InTransfer
<1>2. advert[r] = conn.staging_by_req[r] /\ Saved(r) /\ conn.staging_by_req[r] # <<>>
  BY <1>1 DEF IntactInv, OfferedSaved, LeaseInv
<1>3. QED BY <1>2 DEF Saved, Range

(* With synchronous scheduling, without preemption, expiry of reads and chunks  *)
(* that need no new blocks, the decode instance reads what the prefill of the   *)
(* request wrote, whatever is aborted or stopped, for any load on the pool.     *)
THEOREM ReadsIntact ==
  ASSUME Lookahead = 0, MaxPreempts = 0, ~Sparse, ~MayExpire
  PROVE  Spec => []ReadIntact
<1> DEFINE I == Typed /\ LeaseInv /\ IntactInv
<1>1. Init => I
  BY TypedInit, LeaseInit, IntactInit
<1>2. I /\ [Next]_vars => I'
  BY TypedNext, LeaseNext, IntactNext
<1>3. I => ReadIntact
  BY IntactReads
<1>4. QED BY <1>1, <1>2, <1>3, PTL DEF Spec
=============================================================================
