-------------------------- MODULE JointRecvProofs --------------------------
(***************************************************************************)
(* Theorems about JointRecv for every set of requests, every pool, every   *)
(* number of blocks and sub-blocks, with failing transfers and aborts: the *)
(* slots, and that a request finds in its device blocks what it was sent.  *)
(***************************************************************************)
EXTENDS JointRecv, FiniteSetTheorems, TLAPS

INSTANCE SequenceFacts WITH Step <- Concat  \* facts about sequences and finite sets

RecordingFacts == INSTANCE SequenceFacts WITH Step <- Record

(* SetToSeq lists a finite set, every element once.                           *)
LEMMA Listing ==
  ASSUME NEW S, IsFiniteSet(S)
  PROVE  /\ SetToSeq(S) \in Seq(S) /\ Len(SetToSeq(S)) = Cardinality(S) /\ Cardinality(S) \in Nat
         /\ IsInjective(SetToSeq(S)) /\ Range(SetToSeq(S)) = S
<1>1. SetToSeq(S) \in [1..Cardinality(S) -> S] /\ IsInjective(SetToSeq(S))
  BY Listable DEF SetToSeq
<1>2. QED BY <1>1, Listed

(* Popping a list reverses what it takes.                                      *)
LEMMA Reversed == ASSUME NEW s PROVE Reverse(s) = Backwards(s)
  BY DEF Reverse, Backwards
-----------------------------------------------------------------------------
(* A request has the device blocks it needs, to itself, from its allocation on.*)
Owning(r) == status[r] \notin {"waiting", "finished"}

BlocksOwned ==
  /\ \A r \in Reqs :
       IF Owning(r) THEN IsInjective(blocks[r]) /\ Len(blocks[r]) = LocalBlocks(r)
                    ELSE blocks[r] = <<>>
  /\ \A q, r \in Reqs : q # r => Range(blocks[q]) \cap Range(blocks[r]) = {}

(* Reads begin after the allocation and are over before the request goes on.   *)
Reading(r) == transfers[r] # "none"
ReadsInTime ==
  \A r \in Reqs :
    /\ Reading(r) \/ r \in failed_recv_reqs => status[r] \in {"recving", "aborted"}
    /\ r \in failed_recv_reqs => Range(blocks[r]) \subseteq invalid_block_ids

(* What is pending for a block: each place once, each slot once.               *)
Pending(b) == Range(recv_pending[b])
PendingOnce ==
  /\ IsInjective(recv_free_slots)
  /\ \A b \in Blocks :
       /\ IsInjective(recv_pending[b])
       /\ \A e \in Pending(b) : e.for = b /\ e.slot \notin Range(recv_free_slots)
       /\ \A e, f \in Pending(b) : e.off = f.off => e = f
  /\ \A b, c \in Blocks : \A e \in Pending(b), f \in Pending(c) : e.slot = f.slot => e = f

(* No slot is lost.                                                            *)
AllSlots ==
  \A s \in Slots : s \in Range(recv_free_slots) \/ \E b \in Blocks : \E e \in Pending(b) : e.slot = s

(* Sub-blocks are pending for the blocks of the reads in progress, all of them.*)
Awaits(r, j, e) == e \in Pending(BlockOf(blocks[r], j)) /\ e.off = OffsetOf(j)
PendingForReads ==
  /\ \A b \in Blocks : Pending(b) # {} => \E r \in Reqs : Reading(r) /\ b \in Range(blocks[r])
  /\ \A r \in Reqs : Reading(r) =>
       \A j \in 1..Recv[r] : \E e \in Pending(BlockOf(blocks[r], j)) : e.off = OffsetOf(j)

(* What a completed read has brought is in its slots.                          *)
Arrived ==
  \A r \in Reqs : transfers[r] = "done" =>
    \A j \in 1..Recv[r] : \A e \in Pending(BlockOf(blocks[r], j)) :
      e.off = OffsetOf(j) => staging[e.slot] = <<r, j>>

SlotsInv == TypeOK /\ BlocksOwned /\ ReadsInTime /\ PendingOnce /\ AllSlots /\ PendingForReads
RecvInv == SlotsInv /\ Arrived /\ ReceivedIntact

-----------------------------------------------------------------------------
(* Each sub-block has a block and a place, and no other sub-block has both.    *)
LEMMA Rebuilt ==
  ASSUME NEW x \in Nat, NEW n \in Nat \ {0}
  PROVE  x = n * (x \div n) + (x % n)
  OBVIOUS

LEMMA SamePlace ==
  ASSUME NEW x \in Nat, NEW y \in Nat, NEW n \in Nat \ {0}, x \div n = y \div n, x % n = y % n
  PROVE  x = y
  BY Rebuilt

LEMMA Placing ==
  ASSUME NEW r \in Reqs, NEW j \in 1..Recv[r]
  PROVE  /\ ((j - 1) \div Ratio) + 1 \in 1..LocalBlocks(r)
         /\ OffsetOf(j) \in Offsets
         /\ \A k \in 1..Recv[r] :
              (j - 1) \div Ratio = (k - 1) \div Ratio /\ OffsetOf(j) = OffsetOf(k) => j = k
<1>1. Recv[r] \in Nat \ {0} /\ Ratio \in Nat \ {0} /\ j - 1 \in Nat /\ j - 1 <= Recv[r] - 1
  BY ConstantsAssumption
<1>2. (j - 1) \div Ratio \in Nat /\ (j - 1) % Ratio \in 0..(Ratio - 1)
  BY <1>1
<1>3. ((j - 1) \div Ratio) + 1 = (j - 1 + Ratio) \div Ratio
  BY <1>1
<1>4. LocalBlocks(r) \in Nat /\ (j - 1 + Ratio) \div Ratio <= (Recv[r] - 1 + Ratio) \div Ratio
  BY <1>1 DEF LocalBlocks
<1>5. (Recv[r] - 1 + Ratio) \div Ratio = LocalBlocks(r)
  BY <1>1 DEF LocalBlocks
<1>6. ASSUME NEW k \in 1..Recv[r],
             (j - 1) \div Ratio = (k - 1) \div Ratio, (j - 1) % Ratio = (k - 1) % Ratio
      PROVE  j = k
  <2>1. j - 1 = k - 1
    <3>1. k - 1 \in Nat
      BY <1>1
    <3>2. QED BY <1>1, <1>6, <3>1, SamePlace
  <2>2. QED BY <1>1, <1>6, <2>1
<1>7. QED BY <1>2, <1>3, <1>4, <1>5, <1>6 DEF Offsets, OffsetOf

LEMMA Fitting ==
  ASSUME NEW r \in Reqs
  PROVE  LocalBlocks(r) \in Nat \ {0}
<1>1. Recv[r] \in Nat \ {0} /\ Ratio \in Nat \ {0}
  BY ConstantsAssumption
<1>2. 1 \in 1..Recv[r]
  BY <1>1
<1>3. ((1 - 1) \div Ratio) + 1 \in 1..LocalBlocks(r)
  BY <1>2, Placing
<1>4. LocalBlocks(r) \in Nat
  BY <1>1 DEF LocalBlocks
<1>5. QED BY <1>3, <1>4

-----------------------------------------------------------------------------
(* The pending map while entries are recorded for blocks that had none.        *)
Entry == [slot : Slots, off : Offsets, for : Blocks]
Pendings == [Blocks -> Seq(Entry)]
For(es, b, n) == {es[m] : m \in {k \in 1..n : es[k].for = b}}

LEMMA Recorded ==
  ASSUME NEW p0 \in Pendings, NEW es \in Seq(Entry), IsInjective(es),
         \A m \in 1..Len(es) : p0[es[m].for] = <<>>
  PROVE  LET p == Recording!Fold(p0, es)
             to == {es[m].for : m \in 1..Len(es)}
         IN  /\ p \in Pendings
             /\ \A b \in Blocks \ to : p[b] = p0[b]
             /\ \A b \in to : IsInjective(p[b]) /\ Range(p[b]) = For(es, b, Len(es))
<1> DEFINE n == Len(es)
           to == {es[m].for : m \in 1..n}
           J == [i \in 0..n |->
                  {p \in Pendings :
                     /\ \A b \in Blocks \ to : p[b] = p0[b]
                     /\ \A b \in to : IsInjective(p[b]) /\ Range(p[b]) = For(es, b, i)}]
<1>1. n \in Nat /\ DOMAIN es = 1..n /\ \A m \in 1..n : es[m] \in Entry
  OBVIOUS
<1>2. p0 \in J[0]
  <2>1. \A b : For(es, b, 0) = {}
    BY DEF For
  <2>2. IsInjective(<<>>) /\ Range(<<>>) = {}
    BY DEF IsInjective, Range
  <2>3. \A b \in to : p0[b] = <<>>
    OBVIOUS
  <2>4. \A b \in to : IsInjective(p0[b]) /\ Range(p0[b]) = For(es, b, 0)
    <3>1. ASSUME NEW b \in to PROVE IsInjective(p0[b]) /\ Range(p0[b]) = For(es, b, 0)
      BY <2>1, <2>2, <2>3
    <3>2. QED BY <3>1
  <2>5. J[0] = {p \in Pendings :
                  /\ \A b \in Blocks \ to : p[b] = p0[b]
                  /\ \A b \in to : IsInjective(p[b]) /\ Range(p[b]) = For(es, b, 0)}
    <3> HIDE DEF to
    <3>1. QED BY <1>1
  <2>6. QED
    <3> HIDE DEF to, J
    <3>1. QED BY <2>4, <2>5
<1>3. ASSUME NEW i \in 1..n, NEW x \in J[i - 1]
      PROVE  Record(x, es[i]) \in J[i]
  <2> DEFINE e == es[i]
             y == Record(x, e)
             l == x[e.for]
  <2>1. e \in Entry /\ e.for \in to /\ e.for \in Blocks /\ i - 1 \in 0..n /\ i \in 0..n
    BY <1>1 DEF Entry
  <2> HIDE DEF to
  <2>2. /\ x \in Pendings
        /\ \A b \in Blocks \ to : x[b] = p0[b]
        /\ \A b \in to : IsInjective(x[b]) /\ Range(x[b]) = For(es, b, i - 1)
    BY <2>1
  <2> HIDE DEF J, n, e
  <2>3. /\ y \in Pendings /\ y[e.for] = Append(l, e)
        /\ \A b \in Blocks : b # e.for => y[b] = x[b]
    BY <2>1, <2>2 DEF Record, Pendings
  <2>4. e \notin Range(l)
    <3>1. \A m \in 1..(i - 1) : es[m] # e
      <4>1. \A m \in 1..(i - 1) : m \in DOMAIN es /\ i \in DOMAIN es /\ m # i
        BY <1>1 DEF n
      <4>2. QED BY <4>1 DEF IsInjective, e
    <3>2. Range(l) = For(es, e.for, i - 1)
      BY <2>1, <2>2
    <3>3. QED BY <3>1, <3>2 DEF For
  <2>5. IsInjective(Append(l, e)) /\ Range(Append(l, e)) = Range(l) \union {e}
    <3>1. l \in Seq(Entry) /\ IsInjective(l)
      BY <2>1, <2>2 DEF Pendings
    <3>2. /\ Len(l) \in Nat /\ DOMAIN l = 1..Len(l) /\ DOMAIN Append(l, e) = 1..(Len(l) + 1)
          /\ Append(l, e)[Len(l) + 1] = e /\ \A k \in 1..Len(l) : Append(l, e)[k] = l[k]
      BY <2>1, <3>1
    <3>3. \A k \in 1..Len(l) : l[k] # e
      BY <2>4, <3>2 DEF Range
    <3> DEFINE a == Append(l, e)
    <3>4. \A k, m \in DOMAIN l : l[k] = l[m] => k = m
      BY <3>1 DEF IsInjective
    <3> HIDE DEF a, l
    <3>5. \A k, m \in 1..(Len(l) + 1) : a[k] = a[m] => k = m
      BY <3>2, <3>3, <3>4, SMTT(30) DEF a
    <3>6. IsInjective(a)
      BY <3>2, <3>5 DEF IsInjective, a
    <3>7. Range(a) = Range(l) \union {e}
      <4>1. 1..(Len(l) + 1) = 1..Len(l) \union {Len(l) + 1}
        BY <3>2
      <4>2. QED BY <3>2, <4>1 DEF Range, a
    <3>8. QED BY <3>6, <3>7 DEF a
  <2>6. For(es, e.for, i) = For(es, e.for, i - 1) \union {e}
    <3>1. 1..i = 1..(i - 1) \union {i}
      OBVIOUS
    <3>2. QED BY <3>1 DEF For, e
  <2>7. \A b : b # e.for => For(es, b, i) = For(es, b, i - 1)
    <3>1. 1..i = 1..(i - 1) \union {i}
      OBVIOUS
    <3>2. ASSUME NEW b, b # e.for
          PROVE  {k \in 1..i : es[k].for = b} = {k \in 1..(i - 1) : es[k].for = b}
      BY <3>1, <3>2 DEF e
    <3>3. QED BY <3>2 DEF For
  <2>8. \A b \in to : IsInjective(y[b]) /\ Range(y[b]) = For(es, b, i)
    <3>1. ASSUME NEW b \in to, b # e.for PROVE IsInjective(y[b]) /\ Range(y[b]) = For(es, b, i)
      <4>1. b \in Blocks
        BY <1>1 DEF to, n, Entry
      <4>2. QED BY <2>2, <2>3, <2>7, <3>1, <4>1
    <3>2. IsInjective(y[e.for]) /\ Range(y[e.for]) = For(es, e.for, i)
      BY <2>1, <2>2, <2>3, <2>5, <2>6
    <3>3. QED BY <3>1, <3>2
  <2>9. \A b \in Blocks \ to : y[b] = p0[b]
    BY <2>1, <2>2, <2>3
  <2>10. J[i] = {p \in Pendings :
                   /\ \A b \in Blocks \ to : p[b] = p0[b]
                   /\ \A b \in to : IsInjective(p[b]) /\ Range(p[b]) = For(es, b, i)}
    BY <2>1 DEF J
  <2> HIDE DEF y
  <2>11. y \in J[i]
    BY <2>3, <2>8, <2>9, <2>10
  <2>12. QED BY <2>11 DEF y, e
<1>4. Recording!Fold(p0, es) \in J[n]
  <2> HIDE DEF J
  <2>1. \A i \in 1..Len(es) : \A x \in J[i - 1] : Record(x, es[i]) \in J[i]
    BY <1>3
  <2>2. QED BY <1>1, <1>2, <2>1, RecordingFacts!FoldProgress DEF Recording!Fold, RecordingFacts!Fold
<1>5. n \in 0..n
  BY <1>1
<1>6. QED
  <2> HIDE DEF to
  <2>1. QED BY <1>4, <1>5 DEF to

-----------------------------------------------------------------------------
(* Parts of the invariant the actions have in common.                          *)
LEMMA OwnedType ==
  ASSUME TypeOK, BlocksOwned, NEW r \in Reqs, Owning(r)
  PROVE  /\ DOMAIN blocks[r] = 1..LocalBlocks(r) /\ Range(blocks[r]) # {}
         /\ Range(blocks[r]) \subseteq Blocks
         /\ \A j \in 1..Recv[r] : BlockOf(blocks[r], j) \in Range(blocks[r])
<1>1. /\ blocks[r] \in Seq(Blocks) /\ Len(blocks[r]) = LocalBlocks(r)
      /\ LocalBlocks(r) \in Nat \ {0}
  BY Fitting DEF TypeOK, BlocksOwned
<1>2. DOMAIN blocks[r] = 1..LocalBlocks(r) /\ \A i \in DOMAIN blocks[r] : blocks[r][i] \in Blocks
  BY <1>1
<1>3. ASSUME NEW j \in 1..Recv[r] PROVE BlockOf(blocks[r], j) \in Range(blocks[r])
  <2>1. ((j - 1) \div Ratio) + 1 \in DOMAIN blocks[r]
    BY <1>2, Placing
  <2>2. QED BY <2>1 DEF BlockOf, Range
<1>4. 1 \in DOMAIN blocks[r]
  BY <1>1, <1>2
<1>5. QED BY <1>2, <1>3, <1>4 DEF Range

LEMMA OnePlace ==
  ASSUME TypeOK, BlocksOwned, NEW r \in Reqs, Owning(r), NEW m \in 1..Recv[r], NEW k \in 1..Recv[r],
         BlockOf(blocks[r], m) = BlockOf(blocks[r], k), OffsetOf(m) = OffsetOf(k)
  PROVE  m = k
<1> DEFINE x == ((m - 1) \div Ratio) + 1
           y == ((k - 1) \div Ratio) + 1
<1>1. x \in DOMAIN blocks[r] /\ y \in DOMAIN blocks[r] /\ blocks[r][x] = blocks[r][y]
  BY Placing, OwnedType DEF BlockOf
<1>2. x = y
  <2> HIDE DEF x, y
  <2>1. IsInjective(blocks[r])
    BY DEF BlocksOwned
  <2>2. QED BY <1>1, <2>1 DEF IsInjective
<1>3. (m - 1) \div Ratio \in Nat /\ (k - 1) \div Ratio \in Nat
  BY ConstantsAssumption
<1>4. (m - 1) \div Ratio = (k - 1) \div Ratio
  BY <1>2, <1>3
<1>5. QED BY <1>4, Placing

(* A block with something pending, or of a read in progress, has one owner.    *)
LEMMA ReadingOwns ==
  ASSUME ReadsInTime, NEW r \in Reqs, Reading(r) \/ r \in failed_recv_reqs
  PROVE  Owning(r) /\ status[r] \in {"recving", "aborted"}
  BY DEF ReadsInTime, Owning

(* Before its read is posted nothing is pending for a request's blocks.        *)
LEMMA NothingPending ==
  ASSUME TypeOK, BlocksOwned, PendingForReads, NEW r \in Reqs, transfers[r] = "none",
         NEW b \in Range(blocks[r])
  PROVE  b \in Blocks /\ recv_pending[b] = <<>>
<1>1. b \in Blocks
  BY DEF TypeOK, Range
<1>2. Pending(b) = {}
  <2>1. SUFFICES ASSUME Pending(b) # {} PROVE FALSE
    OBVIOUS
  <2>2. PICK q \in Reqs : Reading(q) /\ b \in Range(blocks[q])
    BY <1>1, <2>1 DEF PendingForReads
  <2>3. QED BY <2>2 DEF Reading, BlocksOwned
<1>3. recv_pending[b] \in Seq(Entry)
  BY <1>1 DEF TypeOK, Entry
<1>4. Len(recv_pending[b]) \in Nat /\ DOMAIN recv_pending[b] = 1..Len(recv_pending[b])
  BY <1>3
<1>5. 1 \notin DOMAIN recv_pending[b]
  BY <1>2 DEF Pending, Range
<1>6. Len(recv_pending[b]) = 0
  BY <1>4, <1>5
<1>7. QED BY <1>1, <1>3, <1>6

-----------------------------------------------------------------------------
(* The slots and what is pending, action by action.                            *)
LEMMA SameSlots ==
  ASSUME SlotsInv, TypeOK', BlocksOwned', ReadsInTime',
         IsInjective(recv_free_slots'), Range(recv_free_slots') = Range(recv_free_slots),
         UNCHANGED recv_pending,
         \A r \in Reqs : (Reading(r)' <=> Reading(r)) /\ (Reading(r) => blocks'[r] = blocks[r])
  PROVE  SlotsInv'
<1>1. PendingOnce' /\ AllSlots'
  BY DEF SlotsInv, PendingOnce, AllSlots, Pending
<1>2. ASSUME NEW b \in Blocks, Pending(b)' # {}
      PROVE  (\E r \in Reqs : Reading(r) /\ b \in Range(blocks[r]))'
  <2>1. PICK r \in Reqs : Reading(r) /\ b \in Range(blocks[r])
    BY <1>2 DEF SlotsInv, PendingForReads, Pending
  <2>2. QED BY <2>1 DEF Reading
<1>3. ASSUME NEW r \in Reqs, Reading(r)', NEW j \in 1..Recv[r]
      PROVE  (\E e \in Pending(BlockOf(blocks[r], j)) : e.off = OffsetOf(j))'
  <2>1. Reading(r) /\ BlockOf(blocks'[r], j) = BlockOf(blocks[r], j)
    BY <1>3 DEF Reading
  <2>2. \E e \in Pending(BlockOf(blocks[r], j)) : e.off = OffsetOf(j)
    BY <2>1 DEF SlotsInv, PendingForReads
  <2>3. QED BY <2>1, <2>2 DEF Pending, OffsetOf
<1>4. PendingForReads'
  BY <1>2, <1>3 DEF PendingForReads
<1>5. QED BY <1>1, <1>4 DEF SlotsInv

LEMMA QuietStep ==
  ASSUME SlotsInv, TypeOK', BlocksOwned',
         UNCHANGED <<recv_free_slots, recv_pending, transfers, failed_recv_reqs, invalid_block_ids>>,
         \A r \in Reqs : Reading(r) \/ r \in failed_recv_reqs =>
           blocks'[r] = blocks[r] /\ status'[r] \in {"recving", "aborted"}
  PROVE  SlotsInv'
<1>1. ReadsInTime'
  BY DEF SlotsInv, ReadsInTime, Reading
<1>2. IsInjective(recv_free_slots')
  BY DEF SlotsInv, PendingOnce
<1>3. \A r \in Reqs : (Reading(r)' <=> Reading(r)) /\ (Reading(r) => blocks'[r] = blocks[r])
  BY DEF Reading
<1>4. QED BY <1>1, <1>2, <1>3, SameSlots

LEMMA SlotsInit == Init => SlotsInv
<1> SUFFICES ASSUME Init PROVE SlotsInv
  OBVIOUS
<1>1. NumSlots \in Nat \ {0} /\ <<>> \in Seq(Blocks) /\ <<>> \in Seq(Entry)
  BY ConstantsAssumption
<1>2. [i \in 1..NumSlots |-> i] \in Seq(Slots)
  BY <1>1 DEF Slots
<1>3. TypeOK
  BY <1>1, <1>2 DEF Init, TypeOK, Contents, Entry
<1>4. Range(<<>>) = {} /\ IsInjective(<<>>)
  BY DEF Range, IsInjective
<1>5. BlocksOwned /\ ReadsInTime
  BY <1>4 DEF Init, BlocksOwned, ReadsInTime, Owning, Reading
<1>6. IsInjective(recv_free_slots) /\ Range(recv_free_slots) = Slots
  BY <1>1 DEF Init, IsInjective, Range, Slots
<1>7. \A b \in Blocks : Pending(b) = {} /\ IsInjective(recv_pending[b])
  BY <1>4 DEF Init, Pending
<1>8. PendingOnce /\ AllSlots /\ PendingForReads
  <2>1. \A r \in Reqs : ~Reading(r)
    BY DEF Init, Reading
  <2>2. QED BY <1>6, <1>7, <2>1 DEF PendingOnce, AllSlots, PendingForReads
<1>9. QED BY <1>3, <1>5, <1>8 DEF SlotsInv

LEMMA SlotsAllocate == ASSUME SlotsInv, NEW r \in Reqs, Allocate(r) PROVE SlotsInv'
<1>1. PICK B \in SUBSET FreeBlocks :
        Cardinality(B) = LocalBlocks(r) /\ blocks' = [blocks EXCEPT ![r] = SetToSeq(B)]
  BY DEF Allocate
<1>2. TypeOK /\ BlocksOwned /\ status[r] = "waiting" /\ status' = [status EXCEPT ![r] = "allocated"]
  BY DEF Allocate, SlotsInv
<1>3. B \subseteq Blocks /\ IsFiniteSet(B)
  <2>1. B \subseteq Blocks
    BY DEF FreeBlocks
  <2>2. IsFiniteSet(Blocks)
    BY ConstantsAssumption, FS_Interval DEF Blocks
  <2>3. QED BY <2>1, <2>2, FS_Subset
<1>4. /\ SetToSeq(B) \in Seq(B) /\ Len(SetToSeq(B)) = LocalBlocks(r)
      /\ IsInjective(SetToSeq(B)) /\ Range(SetToSeq(B)) = B
  BY <1>1, <1>3, Listing
<1> DEFINE s == SetToSeq(B)
<1> HIDE DEF s
<1>5. s \in Seq(Blocks)
  <2>1. s \in Seq(B)
    BY <1>4 DEF s
  <2>2. QED BY <1>3, <2>1
<1>6. blocks'[r] = s /\ \A q \in Reqs : q # r => blocks'[q] = blocks[q] /\ status'[q] = status[q]
  BY <1>1, <1>2 DEF TypeOK, s
<1>7. TypeOK'
  BY <1>1, <1>2, <1>5 DEF TypeOK, Allocate, s
<1>8. BlocksOwned'
  <2>1. status'[r] = "allocated"
    BY <1>2 DEF TypeOK
  <2>2. ASSUME NEW q \in Reqs
        PROVE  (IF Owning(q) THEN IsInjective(blocks[q]) /\ Len(blocks[q]) = LocalBlocks(q)
                             ELSE blocks[q] = <<>>)'
    <3>1. CASE q = r
      BY <1>4, <1>6, <2>1, <3>1 DEF Owning, LocalBlocks, s
    <3>2. CASE q # r
      BY <1>2, <1>6, <3>2 DEF BlocksOwned, Owning, LocalBlocks
    <3>3. QED BY <3>1, <3>2
  <2>3. \A q \in Reqs : q # r => Range(blocks'[q]) \cap Range(blocks'[r]) = {}
    <3>1. Range(s) = B /\ \A q \in Reqs : B \cap Range(blocks[q]) = {}
      BY <1>4 DEF FreeBlocks, s
    <3>2. QED BY <1>6, <3>1
  <2>4. ASSUME NEW p \in Reqs, NEW q \in Reqs, p # q PROVE Range(blocks'[p]) \cap Range(blocks'[q]) = {}
    <3>1. CASE p = r \/ q = r
      BY <2>3, <2>4, <3>1
    <3>2. CASE p # r /\ q # r
      BY <1>2, <1>6, <2>4, <3>2 DEF BlocksOwned
    <3>3. QED BY <3>1, <3>2
  <2>5. QED BY <2>2, <2>4 DEF BlocksOwned
<1>9. \A q \in Reqs : Reading(q) \/ q \in failed_recv_reqs =>
        blocks'[q] = blocks[q] /\ status'[q] \in {"recving", "aborted"}
  BY <1>2, <1>6, ReadingOwns DEF SlotsInv
<1>10. QED BY <1>7, <1>8, <1>9, QuietStep DEF Allocate

LEMMA SlotsExhausted == ASSUME SlotsInv, NEW r \in Reqs, ReadExhausted(r) PROVE SlotsInv'
<1>1. /\ TypeOK /\ status[r] = "allocated" /\ status' = [status EXCEPT ![r] = "recving"]
      /\ UNCHANGED blocks
  BY DEF SlotsInv, ReadExhausted
<1>2. TypeOK'
  BY <1>1 DEF TypeOK, ReadExhausted
<1>3. \A q \in Reqs : (Owning(q)' <=> Owning(q)) /\ (q # r => status'[q] = status[q]) /\ status'[r] = "recving"
  BY <1>1 DEF TypeOK, Owning
<1>4. BlocksOwned'
  BY <1>1, <1>3 DEF SlotsInv, BlocksOwned, LocalBlocks
<1>5. \A q \in Reqs : Reading(q) \/ q \in failed_recv_reqs => status'[q] \in {"recving", "aborted"}
  BY <1>3, ReadingOwns DEF SlotsInv
<1>6. QED BY <1>1, <1>2, <1>4, <1>5, QuietStep DEF ReadExhausted

LEMMA SlotsAbort == ASSUME SlotsInv, NEW r \in Reqs, Abort(r) PROVE SlotsInv'
<1>1. /\ TypeOK /\ status[r] = "recving" /\ status' = [status EXCEPT ![r] = "aborted"]
      /\ UNCHANGED blocks
  BY DEF SlotsInv, Abort
<1>2. TypeOK'
  BY <1>1 DEF TypeOK, Abort
<1>3. \A q \in Reqs : (Owning(q)' <=> Owning(q)) /\ (q # r => status'[q] = status[q]) /\ status'[r] = "aborted"
  BY <1>1 DEF TypeOK, Owning
<1>4. BlocksOwned'
  BY <1>1, <1>3 DEF SlotsInv, BlocksOwned, LocalBlocks
<1>5. \A q \in Reqs : Reading(q) \/ q \in failed_recv_reqs => status'[q] \in {"recving", "aborted"}
  BY <1>3, ReadingOwns DEF SlotsInv
<1>6. QED BY <1>1, <1>2, <1>4, <1>5, QuietStep DEF Abort

LEMMA SlotsFinish == ASSUME SlotsInv, NEW r \in Reqs, Finish(r) PROVE SlotsInv'
<1>1. /\ TypeOK /\ status[r] \in {"ready", "recompute"} /\ status' = [status EXCEPT ![r] = "finished"]
      /\ blocks' = [blocks EXCEPT ![r] = <<>>]
  BY DEF SlotsInv, Finish
<1>2. TypeOK'
  <2>1. <<>> \in Seq(Blocks)
    OBVIOUS
  <2>2. QED BY <1>1, <2>1 DEF TypeOK, Finish
<1>3. /\ status'[r] = "finished" /\ blocks'[r] = <<>>
      /\ \A q \in Reqs : q # r => status'[q] = status[q] /\ blocks'[q] = blocks[q]
  BY <1>1 DEF TypeOK
<1>4. BlocksOwned'
  <2>1. Range(<<>>) = {}
    BY DEF Range
  <2>2. QED BY <1>3, <2>1 DEF SlotsInv, BlocksOwned, LocalBlocks, Owning
<1>5. \A q \in Reqs : Reading(q) \/ q \in failed_recv_reqs =>
        blocks'[q] = blocks[q] /\ status'[q] \in {"recving", "aborted"}
  BY <1>1, <1>3, ReadingOwns DEF SlotsInv
<1>6. QED BY <1>1, <1>2, <1>4, <1>5, QuietStep DEF Finish

(* The slots _read_blocks pops.                                                *)
LEMMA Popped ==
  ASSUME SlotsInv, NEW r \in Reqs, Left(r) >= 0
  PROVE  LET front == SubSeq(recv_free_slots, 1, Left(r))
         IN  /\ front \in Seq(Slots) /\ RecvSlots(r) \in Seq(Slots) /\ Len(RecvSlots(r)) = Recv[r]
             /\ IsInjective(front) /\ IsInjective(RecvSlots(r))
             /\ Range(front) \cap Range(RecvSlots(r)) = {}
             /\ Range(front) \union Range(RecvSlots(r)) = Range(recv_free_slots)
<1>1. /\ recv_free_slots \in Seq(Slots) /\ IsInjective(recv_free_slots)
      /\ Recv[r] \in Nat \ {0} /\ Len(recv_free_slots) \in Nat
  BY ConstantsAssumption DEF SlotsInv, TypeOK, PendingOnce
<1>2. Recv[r] \in 1..Len(recv_free_slots) /\ Left(r) + Recv[r] = Len(recv_free_slots)
  BY <1>1 DEF Left
<1>3. Len(recv_free_slots) - Recv[r] = Left(r)
  BY DEF Left
<1>4. QED BY <1>1, <1>2, <1>3, Taking, Reversed, SMTT(30) DEF RecvSlots

LEMMA EntriesType ==
  ASSUME SlotsInv, NEW r \in Reqs, status[r] = "allocated", Left(r) >= 0
  PROVE  /\ Entries(r) \in Seq(Entry) /\ Len(Entries(r)) = Recv[r] /\ IsInjective(Entries(r))
         /\ \A m \in 1..Recv[r] :
              /\ Entries(r)[m] = [slot |-> RecvSlots(r)[m], off |-> OffsetOf(m), for |-> BlockOf(blocks[r], m)]
              /\ Entries(r)[m].for \in Range(blocks[r])
              /\ recv_pending[Entries(r)[m].for] = <<>>
         /\ \A m, k \in 1..Recv[r] :
              Entries(r)[m].for = Entries(r)[k].for /\ Entries(r)[m].off = Entries(r)[k].off => m = k
         /\ transfers[r] = "none" /\ r \notin failed_recv_reqs
<1> DEFINE es == Entries(r)
           n == Recv[r]
<1>1. Owning(r) /\ transfers[r] = "none" /\ r \notin failed_recv_reqs
  BY DEF SlotsInv, ReadsInTime, Reading, Owning
<1>2. n \in Nat \ {0}
  BY ConstantsAssumption
<1>3. RecvSlots(r) \in Seq(Slots) /\ Len(RecvSlots(r)) = n /\ IsInjective(RecvSlots(r))
  BY Popped
<1>4. \A m \in 1..n : RecvSlots(r)[m] \in Slots
  BY <1>2, <1>3
<1>5. \A m \in 1..n : BlockOf(blocks[r], m) \in Range(blocks[r]) /\ OffsetOf(m) \in Offsets
  BY <1>1, OwnedType, Placing DEF SlotsInv
<1>6. Range(blocks[r]) \subseteq Blocks
  BY <1>1, OwnedType DEF SlotsInv
<1>7. /\ DOMAIN es = 1..n
      /\ \A m \in 1..n : es[m] = [slot |-> RecvSlots(r)[m], off |-> OffsetOf(m), for |-> BlockOf(blocks[r], m)]
  BY DEF Entries
<1> HIDE DEF es
<1>8. ASSUME NEW m \in 1..n
      PROVE  es[m].slot = RecvSlots(r)[m] /\ es[m].off = OffsetOf(m) /\ es[m].for = BlockOf(blocks[r], m)
  <2> DEFINE a == RecvSlots(r)[m]
             c == OffsetOf(m)
             d == BlockOf(blocks[r], m)
             e == es[m]
  <2>1. e = [slot |-> a, off |-> c, for |-> d]
    BY <1>7
  <2> HIDE DEF a, c, d, e
  <2>2. e.slot = a /\ e.off = c /\ e.for = d
    BY <2>1
  <2>3. QED BY <2>2 DEF a, c, d, e
<1>9. ASSUME NEW m \in 1..n PROVE es[m] \in Entry
  <2> DEFINE a == RecvSlots(r)[m]
             c == OffsetOf(m)
             d == BlockOf(blocks[r], m)
             e == es[m]
  <2>1. a \in Slots /\ c \in Offsets /\ d \in Blocks
    BY <1>4, <1>5, <1>6
  <2>2. e = [slot |-> a, off |-> c, for |-> d]
    BY <1>7
  <2> HIDE DEF a, c, d, e
  <2>3. e \in Entry
    BY <2>1, <2>2 DEF Entry
  <2>4. QED BY <2>3 DEF e
<1>10. es \in Seq(Entry) /\ Len(es) = n
  <2>1. es = [m \in 1..n |-> es[m]]
    BY DEF es, Entries
  <2>2. QED BY <1>2, <1>9, <2>1, SMTT(30)
<1>11. IsInjective(es)
  <2>1. ASSUME NEW m \in 1..n, NEW k \in 1..n, es[m] = es[k] PROVE m = k
    <3>1. RecvSlots(r)[m] = RecvSlots(r)[k]
      BY <1>8, <2>1
    <3>2. DOMAIN RecvSlots(r) = 1..n
      BY <1>3
    <3>3. QED BY <1>3, <3>1, <3>2 DEF IsInjective
  <2>2. QED BY <1>7, <2>1 DEF IsInjective
<1>12. \A m \in 1..n : recv_pending[es[m].for] = <<>>
  BY <1>1, <1>5, <1>8, NothingPending DEF SlotsInv
<1>13. ASSUME NEW m \in 1..n, NEW k \in 1..n, es[m].for = es[k].for, es[m].off = es[k].off PROVE m = k
  <2>1. BlockOf(blocks[r], m) = BlockOf(blocks[r], k) /\ OffsetOf(m) = OffsetOf(k)
    BY <1>8, <1>13
  <2>2. QED BY <1>1, <2>1, OnePlace DEF SlotsInv
<1>14. QED
  <2>1. \A m \in 1..n : es[m].for \in Range(blocks[r])
    BY <1>5, <1>8
  <2>2. QED BY <1>1, <1>7, <1>10, <1>11, <1>12, <1>13, <2>1 DEF es

(* What _read_blocks records: the blocks of r have r's entries, the others what *)
(* they had.                                                                   *)
LEMMA PostedPending ==
  ASSUME SlotsInv, NEW r \in Reqs, status[r] = "allocated", Left(r) >= 0
  PROVE  /\ PendingWith(r) \in Pendings
         /\ \A b \in Blocks : b \notin Range(blocks[r]) => PendingWith(r)[b] = recv_pending[b]
         /\ \A b \in Range(blocks[r]) :
              IsInjective(PendingWith(r)[b]) /\ Range(PendingWith(r)[b]) = For(Entries(r), b, Recv[r])
<1> DEFINE es == Entries(r)
           p == PendingWith(r)
           n == Len(es)
           to == {es[m].for : m \in 1..n}
<1>1. /\ es \in Seq(Entry) /\ IsInjective(es) /\ n = Recv[r]
      /\ \A m \in 1..n : recv_pending[es[m].for] = <<>> /\ es[m].for \in Range(blocks[r])
      /\ transfers[r] = "none"
  BY EntriesType
<1>2. recv_pending \in Pendings
  BY DEF SlotsInv, TypeOK, Pendings, Entry
<1>3. /\ p \in Pendings
      /\ \A b \in Blocks \ to : p[b] = recv_pending[b]
      /\ \A b \in to : IsInjective(p[b]) /\ Range(p[b]) = For(es, b, n)
  <2> HIDE DEF es
  <2>1. QED BY <1>1, <1>2, Recorded DEF PendingWith, es
<1> HIDE DEF p
<1>4. \A b \in Blocks : b \notin Range(blocks[r]) => p[b] = recv_pending[b]
  BY <1>1, <1>3
<1>5. ASSUME NEW b \in Range(blocks[r]) PROVE IsInjective(p[b]) /\ Range(p[b]) = For(es, b, n)
  <2>1. CASE b \in to
    BY <1>3, <2>1
  <2>2. CASE b \notin to
    <3>1. b \in Blocks /\ recv_pending[b] = <<>>
      BY <1>1, NothingPending DEF SlotsInv
    <3>2. p[b] = <<>>
      BY <1>3, <2>2, <3>1
    <3>3. For(es, b, n) = {}
      BY <2>2 DEF For
    <3>4. IsInjective(<<>>) /\ Range(<<>>) = {}
      BY DEF IsInjective, Range
    <3>5. QED BY <3>2, <3>3, <3>4
  <2>3. QED BY <2>1, <2>2
<1>6. QED BY <1>1, <1>3, <1>4, <1>5 DEF p

LEMMA SlotsPosted == ASSUME SlotsInv, NEW r \in Reqs, ReadPosted(r) PROVE SlotsInv'
<1> DEFINE es == Entries(r)
           n == Recv[r]
           R == Range(blocks[r])
           back == RecvSlots(r)
<1>1. /\ status[r] = "allocated" /\ Left(r) >= 0 /\ TypeOK
      /\ recv_free_slots' = SubSeq(recv_free_slots, 1, Left(r))
      /\ recv_pending' = PendingWith(r)
      /\ transfers' = [transfers EXCEPT ![r] = "active"]
      /\ status' = [status EXCEPT ![r] = "recving"]
      /\ UNCHANGED <<blocks, failed_recv_reqs, invalid_block_ids, staging, device>>
  BY DEF SlotsInv, ReadPosted
<1>2. /\ recv_free_slots' \in Seq(Slots) /\ back \in Seq(Slots) /\ Len(back) = n
      /\ IsInjective(recv_free_slots') /\ IsInjective(back)
      /\ Range(recv_free_slots') \cap Range(back) = {}
      /\ Range(recv_free_slots') \union Range(back) = Range(recv_free_slots)
  BY <1>1, Popped
<1>3. /\ \A m \in 1..n : es[m].slot = back[m] /\ es[m].for \in R /\ es[m].off = OffsetOf(m)
                           /\ es[m].for = BlockOf(blocks[r], m)
      /\ \A m, k \in 1..n : es[m].for = es[k].for /\ es[m].off = es[k].off => m = k
      /\ transfers[r] = "none" /\ r \notin failed_recv_reqs
  <2>1. ASSUME NEW m \in 1..n
        PROVE  es[m].slot = back[m] /\ es[m].off = OffsetOf(m) /\ es[m].for = BlockOf(blocks[r], m)
    <3> DEFINE a == back[m]
               c == OffsetOf(m)
               d == BlockOf(blocks[r], m)
               e == es[m]
    <3>1. e = [slot |-> a, off |-> c, for |-> d]
      BY <1>1, EntriesType
    <3> HIDE DEF a, c, d, e
    <3>2. e.slot = a /\ e.off = c /\ e.for = d
      BY <3>1
    <3>3. QED BY <3>2 DEF a, c, d, e
  <2>2. QED BY <1>1, <2>1, EntriesType
<1>4. /\ recv_pending' \in Pendings
      /\ \A b \in Blocks \ R : recv_pending'[b] = recv_pending[b] /\ Pending(b)' = Pending(b)
      /\ \A b \in R : b \in Blocks /\ IsInjective(recv_pending'[b]) /\ Pending(b)' = For(es, b, n)
                      /\ Pending(b) = {}
  <2>1. \A b \in R : b \in Blocks /\ Pending(b) = {}
    <3>1. Range(<<>>) = {}
      BY DEF Range
    <3>2. QED BY <1>3, <3>1, NothingPending DEF SlotsInv, Pending
  <2>2. QED BY <1>1, <2>1, PostedPending DEF Pending
<1> HIDE DEF es, back
<1>5. n \in Nat /\ DOMAIN back = 1..n
  BY <1>2, ConstantsAssumption
<1> HIDE DEF R, n
<1>6. \A b \in R : \A e \in Pending(b)' : \E m \in 1..n : e = es[m] /\ es[m].for = b /\ e.slot = back[m]
  BY <1>3, <1>4 DEF For
<1>7. TypeOK'
  <2>1. recv_pending' \in [Blocks -> Seq([slot : Slots, off : Offsets, for : Blocks])]
    BY <1>4 DEF Pendings, Entry
  <2>2. QED BY <1>1, <1>2, <2>1 DEF TypeOK
<1>8. /\ status'[r] = "recving" /\ transfers'[r] = "active"
      /\ \A q \in Reqs : q # r => status'[q] = status[q] /\ transfers'[q] = transfers[q]
  BY <1>1 DEF TypeOK
<1>9. BlocksOwned'
  <2>1. \A q \in Reqs : Owning(q)' <=> Owning(q)
    BY <1>1, <1>8 DEF Owning
  <2>2. QED BY <1>1, <2>1 DEF SlotsInv, BlocksOwned, LocalBlocks
<1>10. ReadsInTime'
  BY <1>1, <1>3, <1>8 DEF SlotsInv, ReadsInTime, Reading
<1>11. PendingOnce'
  <2>1. ASSUME NEW b \in Blocks
        PROVE  /\ IsInjective(recv_pending'[b])
               /\ \A e \in Pending(b)' : e.for = b /\ e.slot \notin Range(recv_free_slots')
               /\ \A e, f \in Pending(b)' : e.off = f.off => e = f
    <3>1. CASE b \in R
      <4>1. \A e \in Pending(b)' : e.for = b
        BY <1>6, <3>1
      <4>2. \A e \in Pending(b)' : e.slot \notin Range(recv_free_slots')
        <5>1. \A m \in 1..n : back[m] \in Range(back)
          BY <1>5 DEF Range
        <5>2. QED BY <1>2, <1>6, <3>1, <5>1
      <4>3. \A e, f \in Pending(b)' : e.off = f.off => e = f
        <5>1. ASSUME NEW e \in Pending(b)', NEW f \in Pending(b)', e.off = f.off PROVE e = f
          <6>1. PICK m \in 1..n : e = es[m] /\ es[m].for = b
            BY <1>6, <3>1
          <6>2. PICK k \in 1..n : f = es[k] /\ es[k].for = b
            BY <1>6, <3>1
          <6>3. QED BY <1>3, <5>1, <6>1, <6>2
        <5>2. QED BY <5>1
      <4>4. QED BY <1>4, <3>1, <4>1, <4>2, <4>3
    <3>2. CASE b \notin R
      <4>1. recv_pending'[b] = recv_pending[b] /\ Pending(b)' = Pending(b)
        BY <1>4, <3>2
      <4>2. Range(recv_free_slots') \subseteq Range(recv_free_slots)
        BY <1>2
      <4>3. QED BY <4>1, <4>2 DEF SlotsInv, PendingOnce
    <3>3. QED BY <3>1, <3>2
  <2>2. ASSUME NEW b \in Blocks, NEW c \in Blocks, NEW e \in Pending(b)', NEW f \in Pending(c)',
               e.slot = f.slot
        PROVE  e = f
    <3>1. CASE b \in R /\ c \in R
      <4>1. PICK m \in 1..n : e = es[m] /\ e.slot = back[m]
        BY <1>6, <3>1
      <4>2. PICK k \in 1..n : f = es[k] /\ f.slot = back[k]
        BY <1>6, <3>1
      <4>3. m = k
        BY <1>2, <1>5, <2>2, <4>1, <4>2 DEF IsInjective
      <4>4. QED BY <4>1, <4>2, <4>3
    <3>2. CASE b \notin R /\ c \notin R
      BY <1>4, <2>2, <3>2 DEF SlotsInv, PendingOnce
    <3>3. \A x, y \in Blocks : \A g \in Pending(x)', h \in Pending(y)' :
            x \in R /\ y \notin R => g.slot # h.slot
      <4>1. ASSUME NEW x \in Blocks, NEW y \in Blocks, NEW g \in Pending(x)', NEW h \in Pending(y)',
                   x \in R, y \notin R, g.slot = h.slot
            PROVE  FALSE
        <5>1. PICK m \in 1..n : g.slot = back[m]
          BY <1>6, <4>1
        <5>2. back[m] \in Range(back)
          BY <1>5 DEF Range
        <5>3. h \in Pending(y)
          BY <1>4, <4>1
        <5>4. h.slot \notin Range(recv_free_slots)
          BY <5>3 DEF SlotsInv, PendingOnce
        <5>5. QED BY <1>2, <4>1, <5>1, <5>2, <5>4
      <4>2. QED BY <4>1
    <3>4. QED BY <2>2, <3>1, <3>2, <3>3
  <2>3. QED BY <1>2, <2>1, <2>2 DEF PendingOnce
<1>12. AllSlots'
  <2>1. ASSUME NEW s \in Slots
        PROVE  s \in Range(recv_free_slots') \/ \E b \in Blocks : \E e \in Pending(b)' : e.slot = s
    <3>1. CASE s \in Range(recv_free_slots)
      <4>1. CASE s \in Range(recv_free_slots')
        BY <4>1
      <4>2. CASE s \in Range(back)
        <5>1. PICK m \in 1..n : s = back[m]
          BY <1>5, <4>2 DEF Range
        <5>2. es[m].for \in R /\ es[m].slot = s /\ es[m] \in For(es, es[m].for, n)
          BY <1>3, <5>1 DEF For
        <5>3. QED BY <1>4, <5>2
      <4>3. QED BY <1>2, <3>1, <4>1, <4>2
    <3>2. CASE s \notin Range(recv_free_slots)
      <4>1. PICK b \in Blocks : \E e \in Pending(b) : e.slot = s
        BY <3>2 DEF SlotsInv, AllSlots
      <4>2. b \notin R /\ Pending(b)' = Pending(b)
        BY <1>4, <4>1
      <4>3. QED BY <4>1, <4>2
    <3>3. QED BY <3>1, <3>2
  <2>2. QED BY <2>1 DEF AllSlots
<1>13. PendingForReads'
  <2>1. ASSUME NEW b \in Blocks, Pending(b)' # {}
        PROVE  (\E q \in Reqs : Reading(q) /\ b \in Range(blocks[q]))'
    <3>1. CASE b \in R
      BY <1>1, <1>8, <3>1 DEF Reading, R
    <3>2. CASE b \notin R
      <4>1. PICK q \in Reqs : Reading(q) /\ b \in Range(blocks[q])
        BY <1>4, <2>1, <3>2 DEF SlotsInv, PendingForReads
      <4>2. q # r
        BY <1>3, <4>1 DEF Reading
      <4>3. QED BY <1>1, <1>8, <4>1, <4>2 DEF Reading
    <3>3. QED BY <3>1, <3>2
  <2>2. ASSUME NEW q \in Reqs, Reading(q)', NEW j \in 1..Recv[q]
        PROVE  (\E e \in Pending(BlockOf(blocks[q], j)) : e.off = OffsetOf(j))'
    <3>1. BlockOf(blocks[q], j)' = BlockOf(blocks[q], j)
      BY <1>1
    <3>2. CASE q = r
      <4>1. j \in 1..n
        BY <3>2 DEF n
      <4>2. es[j].for \in R /\ es[j] \in For(es, es[j].for, n) /\ es[j].off = OffsetOf(j)
            /\ es[j].for = BlockOf(blocks[q], j)
        BY <1>3, <3>2, <4>1 DEF For
      <4>3. es[j] \in Pending(BlockOf(blocks[q], j))'
        BY <1>4, <3>1, <4>2
      <4>4. QED BY <4>2, <4>3 DEF OffsetOf
    <3>3. CASE q # r
      <4>1. Reading(q) /\ Owning(q)
        BY <1>8, <2>2, <3>3, ReadingOwns DEF Reading, SlotsInv
      <4>2. BlockOf(blocks[q], j) \in Range(blocks[q]) /\ Range(blocks[q]) \subseteq Blocks
        BY <4>1, OwnedType DEF SlotsInv
      <4>3. BlockOf(blocks[q], j) \in Blocks \ R
        BY <3>3, <4>2 DEF SlotsInv, BlocksOwned, R
      <4>4. Pending(BlockOf(blocks[q], j))' = Pending(BlockOf(blocks[q], j))
        BY <1>4, <3>1, <4>3
      <4>5. \E e \in Pending(BlockOf(blocks[q], j)) : e.off = OffsetOf(j)
        BY <4>1 DEF SlotsInv, PendingForReads
      <4>6. QED BY <4>4, <4>5 DEF OffsetOf
    <3>4. QED BY <3>2, <3>3
  <2>3. QED BY <2>1, <2>2 DEF PendingForReads
<1>14. QED BY <1>7, <1>9, <1>10, <1>11, <1>12, <1>13 DEF SlotsInv

LEMMA SlotsRefused == ASSUME SlotsInv, NEW r \in Reqs, ReadRefused(r) PROVE SlotsInv'
<1> DEFINE front == SubSeq(recv_free_slots, 1, Left(r))
           back == RecvSlots(r)
<1>1. /\ status[r] = "allocated" /\ Left(r) >= 0 /\ TypeOK
      /\ recv_free_slots' = front \o back
      /\ recv_pending' = [b \in Blocks |-> IF b \in Range(blocks[r]) THEN <<>> ELSE recv_pending[b]]
      /\ invalid_block_ids' = invalid_block_ids \union Range(blocks[r])
      /\ failed_recv_reqs' = failed_recv_reqs \union {r}
      /\ status' = [status EXCEPT ![r] = "recving"]
      /\ UNCHANGED <<blocks, transfers, staging, device>>
  BY DEF SlotsInv, ReadRefused
<1>2. transfers[r] = "none" /\ r \notin failed_recv_reqs /\ Owning(r)
  BY <1>1, EntriesType DEF Owning
<1>3. UNCHANGED recv_pending
  <2>1. \A b \in Range(blocks[r]) : recv_pending[b] = <<>>
    BY <1>2, NothingPending DEF SlotsInv
  <2>2. recv_pending = [b \in Blocks |-> recv_pending[b]]
    BY <1>1 DEF TypeOK
  <2>3. \A b \in Blocks : (IF b \in Range(blocks[r]) THEN <<>> ELSE recv_pending[b]) = recv_pending[b]
    BY <2>1
  <2>4. QED BY <1>1, <2>2, <2>3
<1>4. /\ front \in Seq(Slots) /\ back \in Seq(Slots) /\ IsInjective(front) /\ IsInjective(back)
      /\ Range(front) \cap Range(back) = {}
      /\ Range(front) \union Range(back) = Range(recv_free_slots)
  BY <1>1, Popped
<1> HIDE DEF front, back
<1>5. /\ recv_free_slots' \in Seq(Slots) /\ IsInjective(recv_free_slots')
      /\ Range(recv_free_slots') = Range(recv_free_slots)
  <2>1. /\ front \o back \in Seq(Slots) /\ IsInjective(front \o back)
        /\ Range(front \o back) = Range(front) \union Range(back)
    BY <1>4, Joining
  <2>2. QED BY <1>1, <1>4, <2>1
<1>6. Range(blocks[r]) \subseteq Blocks
  BY <1>2, OwnedType DEF SlotsInv
<1>7. TypeOK'
  BY <1>1, <1>3, <1>5, <1>6 DEF TypeOK
<1>8. /\ \A q \in Reqs : q # r => status'[q] = status[q]
      /\ status'[r] = "recving"
  BY <1>1 DEF TypeOK
<1>9. BlocksOwned'
  <2>1. \A q \in Reqs : Owning(q)' <=> Owning(q)
    BY <1>1, <1>8 DEF Owning
  <2>2. QED BY <1>1, <2>1 DEF SlotsInv, BlocksOwned, LocalBlocks
<1>10. ReadsInTime'
  BY <1>1, <1>2, <1>8 DEF SlotsInv, ReadsInTime, Reading
<1>11. \A q \in Reqs : (Reading(q)' <=> Reading(q)) /\ blocks'[q] = blocks[q]
  BY <1>1 DEF Reading
<1>12. QED BY <1>3, <1>5, <1>7, <1>9, <1>10, <1>11, SameSlots

LEMMA SlotsEnds == ASSUME SlotsInv, NEW r \in Reqs, TransferEnds(r) PROVE SlotsInv'
<1>1. PICK arrived \in SUBSET (1..Recv[r]) :
        /\ staging' = [s \in Slots |->
             IF \E j \in arrived : SlotOf(r, j) = s
               THEN <<r, CHOOSE j \in arrived : SlotOf(r, j) = s>> ELSE staging[s]]
        /\ transfers' = [transfers EXCEPT ![r] = IF arrived = 1..Recv[r] THEN "done" ELSE "error"]
  BY DEF TransferEnds
<1>2. /\ TypeOK /\ transfers[r] = "active"
      /\ UNCHANGED <<status, blocks, recv_free_slots, recv_pending, failed_recv_reqs,
                     invalid_block_ids, device>>
  BY DEF SlotsInv, TransferEnds
<1>3. staging' \in [Slots -> Contents]
  <2>1. ASSUME NEW s \in Slots
        PROVE  (IF \E j \in arrived : SlotOf(r, j) = s
                  THEN <<r, CHOOSE j \in arrived : SlotOf(r, j) = s>> ELSE staging[s]) \in Contents
    <3>1. CASE \E j \in arrived : SlotOf(r, j) = s
      <4> DEFINE k == CHOOSE j \in arrived : SlotOf(r, j) = s
      <4>1. k \in arrived
        BY <3>1
      <4>2. arrived \subseteq Nat
        BY ConstantsAssumption
      <4>3. k \in Nat
        BY <4>1, <4>2
      <4> HIDE DEF k
      <4>4. <<r, k>> \in Contents
        BY <4>3 DEF Contents
      <4>5. QED BY <3>1, <4>4 DEF k
    <3>2. CASE ~ \E j \in arrived : SlotOf(r, j) = s
      BY <1>2, <3>2 DEF TypeOK
    <3>3. QED BY <3>1, <3>2
  <2>2. QED BY <1>1, <2>1
<1>4. /\ transfers' \in [Reqs -> {"none", "active", "done", "error"}]
      /\ \A q \in Reqs : Reading(q)' <=> Reading(q)
  BY <1>1, <1>2 DEF TypeOK, Reading
<1>5. TypeOK'
  BY <1>2, <1>3, <1>4 DEF TypeOK
<1>6. BlocksOwned' /\ ReadsInTime'
  BY <1>2, <1>4 DEF SlotsInv, BlocksOwned, ReadsInTime, Owning, LocalBlocks
<1>7. IsInjective(recv_free_slots')
  BY <1>2 DEF SlotsInv, PendingOnce
<1>8. QED BY <1>2, <1>4, <1>5, <1>6, <1>7, SameSlots

(* What get_finished hands to the post-processing: the blocks of the requests   *)
(* whose reads are over.                                                       *)
Handed == Flat([i \in 1..Cardinality(Ended) |-> blocks[SetToSeq(Ended)[i]]])

LEMMA HandedBlocks ==
  ASSUME SlotsInv
  PROVE  /\ Handed \in Seq(Blocks) /\ IsInjective(Handed)
         /\ Range(Handed) = UNION {Range(blocks[r]) : r \in Ended}
<1> DEFINE over == Ended
           n == Cardinality(over)
           q == SetToSeq(over)
           ss == [i \in 1..n |-> blocks[q[i]]]
<1>1. over \subseteq Reqs /\ IsFiniteSet(over)
  <2>1. over \subseteq Reqs
    BY DEF Ended, SlotsInv, TypeOK
  <2>2. QED BY <2>1, ConstantsAssumption, FS_Subset
<1> HIDE DEF over
<1>2. n \in Nat /\ q \in Seq(over) /\ Len(q) = n /\ IsInjective(q) /\ Range(q) = over
  BY <1>1, Listing
<1> HIDE DEF q, n
<1>3. DOMAIN q = 1..n /\ \A i \in 1..n : q[i] \in over /\ q[i] \in Reqs
  BY <1>1, <1>2
<1>4. \A r \in Reqs : blocks[r] \in Seq(Blocks) /\ IsInjective(blocks[r])
  <2>1. IsInjective(<<>>)
    BY DEF IsInjective
  <2>2. QED BY <2>1 DEF SlotsInv, TypeOK, BlocksOwned
<1>5. ss \in Seq(Seq(Blocks)) /\ Len(ss) = n /\ \A i \in 1..n : ss[i] = blocks[q[i]]
  BY <1>2, <1>3, <1>4
<1>6. ASSUME NEW i \in 1..n, NEW k \in 1..n, i # k PROVE Range(ss[i]) \cap Range(ss[k]) = {}
  <2>1. q[i] # q[k]
    BY <1>2, <1>3, <1>6 DEF IsInjective
  <2>2. QED BY <1>3, <1>5, <2>1 DEF SlotsInv, BlocksOwned
<1>7. \A i \in 1..n : IsInjective(ss[i])
  BY <1>3, <1>4, <1>5
<1>8. /\ Flat(ss) \in Seq(Blocks) /\ IsInjective(Flat(ss))
      /\ Range(Flat(ss)) = UNION {Range(ss[i]) : i \in 1..n}
  <2> HIDE DEF ss
  <2>1. QED BY <1>5, <1>6, <1>7, Flattened, ZenonT(30)
<1>9. UNION {Range(ss[i]) : i \in 1..n} = UNION {Range(blocks[r]) : r \in over}
  <2>1. \A r \in over : \E i \in 1..n : r = q[i]
    BY <1>2, <1>3 DEF Range
  <2>2. \A i \in 1..n : ss[i] = blocks[q[i]] /\ q[i] \in over
    BY <1>3, <1>5
  <2> HIDE DEF ss
  <2>3. ASSUME NEW b \in UNION {Range(ss[i]) : i \in 1..n}
        PROVE  b \in UNION {Range(blocks[r]) : r \in over}
    BY <2>2
  <2>4. ASSUME NEW b \in UNION {Range(blocks[r]) : r \in over}
        PROVE  b \in UNION {Range(ss[i]) : i \in 1..n}
    <3>1. PICK r \in over : b \in Range(blocks[r])
      OBVIOUS
    <3>2. PICK i \in 1..n : r = q[i]
      BY <2>1
    <3>3. b \in Range(ss[i])
      BY <2>2, <3>1, <3>2
    <3>4. QED BY <3>3
  <2>5. QED BY <2>3, <2>4
<1>10. Handed = Flat(ss)
  BY DEF Handed, over, q, n
<1>11. QED
  <2> HIDE DEF ss
  <2>1. QED BY <1>8, <1>9, <1>10 DEF over

(* The slots pending for a block.                                              *)
LEMMA SlotsOfBlock ==
  ASSUME SlotsInv, NEW b \in Blocks
  PROVE  /\ SlotsOf(recv_pending[b]) \in Seq(Slots) /\ IsInjective(SlotsOf(recv_pending[b]))
         /\ Range(SlotsOf(recv_pending[b])) = {e.slot : e \in Pending(b)}
<1> DEFINE l == recv_pending[b]
           t == SlotsOf(l)
<1>1. l \in Seq(Entry) /\ IsInjective(l)
  BY DEF SlotsInv, TypeOK, Entry, PendingOnce
<1>2. \A e, f \in Pending(b) : e.slot = f.slot => e = f
  BY DEF SlotsInv, PendingOnce
<1>3. Pending(b) = Range(l)
  BY DEF Pending
<1> HIDE DEF l
<1>4. Len(l) \in Nat /\ DOMAIN l = 1..Len(l) /\ \A k \in 1..Len(l) : l[k] \in Entry /\ l[k].slot \in Slots
  <2>1. l \in Seq(Entry)
    BY <1>1
  <2>2. Len(l) \in Nat /\ DOMAIN l = 1..Len(l) /\ \A k \in 1..Len(l) : l[k] \in Entry
    BY <2>1
  <2>3. \A e \in Entry : e.slot \in Slots
    BY DEF Entry
  <2>4. QED BY <2>2, <2>3
<1>5. t \in Seq(Slots) /\ DOMAIN t = 1..Len(l) /\ \A k \in 1..Len(l) : t[k] = l[k].slot
  BY <1>4 DEF SlotsOf
<1> HIDE DEF t
<1>6. IsInjective(t)
  <2>1. ASSUME NEW k \in 1..Len(l), NEW m \in 1..Len(l), t[k] = t[m] PROVE k = m
    <3>1. l[k] \in Pending(b) /\ l[m] \in Pending(b) /\ l[k].slot = l[m].slot
      BY <1>3, <1>4, <1>5, <2>1 DEF Range
    <3>2. QED BY <1>1, <1>2, <1>4, <3>1 DEF IsInjective
  <2>2. QED BY <1>5, <2>1 DEF IsInjective
<1>7. Range(t) = {e.slot : e \in Pending(b)}
  BY <1>3, <1>4, <1>5 DEF Range
<1>8. QED BY <1>5, <1>6, <1>7 DEF t, l

LEMMA SlotsHanded ==
  ASSUME SlotsInv, NEW bs \in Seq(Blocks), IsInjective(bs)
  PROVE  /\ SlotsPendingFor(bs) \in Seq(Slots) /\ IsInjective(SlotsPendingFor(bs))
         /\ Range(SlotsPendingFor(bs)) = {e.slot : e \in UNION {Pending(b) : b \in Range(bs)}}
<1> DEFINE n == Len(bs)
           ss == [i \in 1..n |-> SlotsOf(recv_pending[bs[i]])]
<1>1. n \in Nat /\ DOMAIN bs = 1..n /\ \A i \in 1..n : bs[i] \in Blocks
  OBVIOUS
<1> HIDE DEF n
<1>2. ASSUME NEW i \in 1..n
      PROVE  /\ ss[i] \in Seq(Slots) /\ IsInjective(ss[i])
             /\ Range(ss[i]) = {e.slot : e \in Pending(bs[i])}
  BY <1>1, SlotsOfBlock
<1>3. ss \in Seq(Seq(Slots)) /\ Len(ss) = n
  <2>1. ss = [i \in 1..n |-> ss[i]]
    OBVIOUS
  <2> HIDE DEF ss
  <2>2. QED BY <1>1, <1>2, <2>1
<1> HIDE DEF ss
<1>4. ASSUME NEW i \in 1..n, NEW k \in 1..n, i # k PROVE Range(ss[i]) \cap Range(ss[k]) = {}
  <2>1. bs[i] # bs[k]
    BY <1>1, <1>4 DEF IsInjective
  <2>2. \A e \in Pending(bs[i]), f \in Pending(bs[k]) : e.slot # f.slot
    BY <1>1, <2>1 DEF SlotsInv, PendingOnce
  <2>3. ASSUME NEW s \in Range(ss[i]), s \in Range(ss[k]) PROVE FALSE
    <3>1. PICK e \in Pending(bs[i]) : s = e.slot
      BY <1>2, <2>3
    <3>2. PICK f \in Pending(bs[k]) : s = f.slot
      BY <1>2, <2>3
    <3>3. QED BY <2>2, <3>1, <3>2
  <2>4. QED BY <2>3
<1>5. /\ Flat(ss) \in Seq(Slots) /\ IsInjective(Flat(ss))
      /\ Range(Flat(ss)) = UNION {Range(ss[i]) : i \in 1..n}
  BY <1>2, <1>3, <1>4, Flattened, ZenonT(30)
<1>6. UNION {Range(ss[i]) : i \in 1..n} = {e.slot : e \in UNION {Pending(b) : b \in Range(bs)}}
  <2>1. Range(bs) = {bs[i] : i \in 1..n}
    BY <1>1 DEF Range
  <2>2. ASSUME NEW s \in UNION {Range(ss[i]) : i \in 1..n}
        PROVE  s \in {e.slot : e \in UNION {Pending(b) : b \in Range(bs)}}
    <3>1. PICK i \in 1..n : s \in Range(ss[i])
      OBVIOUS
    <3>2. PICK e \in Pending(bs[i]) : s = e.slot
      BY <1>2, <3>1
    <3>3. QED BY <2>1, <3>2
  <2>3. ASSUME NEW s \in {e.slot : e \in UNION {Pending(b) : b \in Range(bs)}}
        PROVE  s \in UNION {Range(ss[i]) : i \in 1..n}
    <3>1. PICK i \in 1..n : \E e \in Pending(bs[i]) : s = e.slot
      BY <2>1
    <3>2. s \in Range(ss[i])
      BY <1>2, <3>1
    <3>3. QED BY <3>2
  <2>4. QED BY <2>2, <2>3
<1>7. SlotsPendingFor(bs) = Flat(ss)
  BY DEF SlotsPendingFor, ss, n
<1>8. QED BY <1>5, <1>6, <1>7

(* What the post-processing leaves in a place of a block.                      *)
LEMMA Unstages ==
  ASSUME SlotsInv, NEW bs, NEW b \in Blocks, NEW o \in Offsets
  PROVE  /\ \/ Unstaged(bs, b, o) = device[b][o]
            \/ \E e \in Pending(b) : Unstaged(bs, b, o) = staging[e.slot]
         /\ b \notin Range(bs) => Unstaged(bs, b, o) = device[b][o]
         /\ \A e \in Pending(b) :
              b \in Range(bs) /\ e.off = o => Unstaged(bs, b, o) = staging[e.slot]
<1> DEFINE l == recv_pending[b]
           here == {i \in DOMAIN l : l[i].off = o}
<1>1. l \in Seq(Entry) /\ IsInjective(l) /\ \A e, f \in Range(l) : e.off = f.off => e = f
  BY DEF SlotsInv, TypeOK, Entry, PendingOnce, Pending
<1>2. Pending(b) = Range(l)
  BY DEF Pending
<1>3. Unstaged(bs, b, o) =
        IF b \in Range(bs) /\ here # {}
          THEN staging[l[CHOOSE i \in here : \A k \in here : k <= i].slot] ELSE device[b][o]
  BY DEF Unstaged
<1> HIDE DEF l
<1>4. Len(l) \in Nat /\ DOMAIN l = 1..Len(l)
  BY <1>1
<1>5. ASSUME NEW i \in here PROVE (CHOOSE m \in here : \A k \in here : k <= m) = i
  <2>1. \A k \in here : k = i
    <3>1. ASSUME NEW k \in here PROVE k = i
      <4>1. l[k] \in Range(l) /\ l[i] \in Range(l) /\ l[k].off = l[i].off
        BY DEF Range
      <4>2. QED BY <1>1, <4>1 DEF IsInjective
    <3>2. QED BY <3>1
  <2>2. here = {i} /\ i \in Int
    BY <1>4, <2>1
  <2> HIDE DEF here
  <2>3. \A k \in here : k <= i
    BY <2>2
  <2>4. QED BY <2>2, <2>3
<1>6. ASSUME NEW e \in Pending(b), b \in Range(bs), e.off = o
      PROVE  Unstaged(bs, b, o) = staging[e.slot]
  <2>1. PICK i \in here : l[i] = e
    BY <1>2, <1>6 DEF Range
  <2>2. QED BY <1>3, <1>5, <1>6, <2>1
<1>7. b \notin Range(bs) => Unstaged(bs, b, o) = device[b][o]
  BY <1>3
<1>8. Unstaged(bs, b, o) = device[b][o] \/ \E e \in Pending(b) : Unstaged(bs, b, o) = staging[e.slot]
  <2>1. CASE b \in Range(bs) /\ here # {}
    <3>1. PICK i \in here : TRUE
      BY <2>1
    <3>2. l[i] \in Pending(b) /\ l[i].off = o
      BY <1>2 DEF Range
    <3>3. QED BY <1>6, <2>1, <3>2
  <2>2. CASE ~ (b \in Range(bs) /\ here # {})
    BY <1>3, <2>2
  <2>3. QED BY <2>1, <2>2
<1>9. QED BY <1>6, <1>7, <1>8

(* A report of finished reads, in the terms of the invariant.                  *)
LEMMA Finished ==
  ASSUME SlotsInv, GetFinished
  PROVE  /\ Ended \subseteq Reqs /\ \A r \in Ended : Owning(r) /\ status[r] \in {"recving", "aborted"}
         /\ Handed \in Seq(Blocks) /\ IsInjective(Handed)
         /\ \A r \in Ended : Range(blocks[r]) \subseteq Range(Handed)
         /\ \A r \in Reqs \ Ended : Range(blocks[r]) \cap Range(Handed) = {} /\ r \notin failed_recv_reqs
         /\ \A b \in Range(Handed) : \E r \in Ended : b \in Range(blocks[r])
         /\ PostProcess(Handed)
         /\ status' \in [Reqs -> {"waiting", "allocated", "recving", "ready", "recompute", "aborted", "finished"}]
         /\ \A r \in Reqs \ Ended : /\ status'[r] = status[r] /\ blocks'[r] = blocks[r]
                                    /\ transfers'[r] = transfers[r] /\ transfers[r] \in {"none", "active"}
         /\ \A r \in Ended :
              /\ transfers'[r] = "none"
              /\ IF status[r] = "aborted" THEN status'[r] = "finished" /\ blocks'[r] = <<>>
                 ELSE /\ blocks'[r] = blocks[r] /\ status'[r] \in {"recompute", "ready"}
                      /\ status'[r] = "ready" => transfers[r] = "done" /\ r \notin failed_recv_reqs
         /\ blocks' \in [Reqs -> Seq(Blocks)]
         /\ transfers' \in [Reqs -> {"none", "active", "done", "error"}]
         /\ failed_recv_reqs' = {} /\ invalid_block_ids' = {} /\ staging' = staging
<1> DEFINE bad == invalid_block_ids
                    \union UNION {Range(blocks[r]) : r \in {q \in Reqs : transfers[q] = "error"}}
<1>1. TypeOK /\ Ended \subseteq Reqs
  BY DEF SlotsInv, TypeOK, Ended
<1>2. /\ PostProcess(Handed)
      /\ status' = [r \in Reqs |->
           IF r \notin Ended THEN status[r]
           ELSE IF status[r] = "aborted" THEN "finished"
           ELSE IF Range(blocks[r]) \cap bad # {} THEN "recompute" ELSE "ready"]
      /\ blocks' = [r \in Reqs |-> IF r \in Ended /\ status[r] = "aborted" THEN <<>> ELSE blocks[r]]
      /\ transfers' = [r \in Reqs |-> IF r \in Ended THEN "none" ELSE transfers[r]]
      /\ failed_recv_reqs' = {} /\ invalid_block_ids' = {} /\ staging' = staging
  BY DEF GetFinished, Handed
<1>3. \A r \in Ended : Owning(r) /\ status[r] \in {"recving", "aborted"}
  <2>1. \A r \in Ended : r \in Reqs /\ (Reading(r) \/ r \in failed_recv_reqs)
    BY <1>1 DEF Ended, Reading
  <2>2. QED BY <2>1, ReadingOwns DEF SlotsInv
<1>4. /\ Handed \in Seq(Blocks) /\ IsInjective(Handed)
      /\ Range(Handed) = UNION {Range(blocks[r]) : r \in Ended}
  BY HandedBlocks
<1>5. \A r \in Reqs \ Ended : /\ r \notin failed_recv_reqs /\ transfers[r] \in {"none", "active"}
                              /\ Range(blocks[r]) \cap Range(Handed) = {}
  <2>1. ASSUME NEW r \in Reqs \ Ended PROVE r \notin failed_recv_reqs /\ transfers[r] \in {"none", "active"}
    BY <1>1 DEF Ended, TypeOK
  <2>2. ASSUME NEW r \in Reqs \ Ended PROVE Range(blocks[r]) \cap Range(Handed) = {}
    <3>1. \A q \in Ended : q \in Reqs /\ q # r
      BY <1>1
    <3>2. \A q \in Ended : Range(blocks[q]) \cap Range(blocks[r]) = {}
      BY <3>1 DEF SlotsInv, BlocksOwned
    <3>3. QED BY <1>4, <3>2
  <2>3. QED BY <2>1, <2>2
<1>6. ASSUME NEW r \in Ended, status[r] # "aborted", Range(blocks[r]) \cap bad = {}
      PROVE  transfers[r] = "done" /\ r \notin failed_recv_reqs
  <2>1. Range(blocks[r]) # {} /\ r \in Reqs
    BY <1>1, <1>3, OwnedType DEF SlotsInv
  <2>2. r \notin failed_recv_reqs
    <3>1. r \in failed_recv_reqs => Range(blocks[r]) \subseteq bad
      BY <2>1 DEF SlotsInv, ReadsInTime
    <3>2. QED BY <1>6, <2>1, <3>1
  <2>3. transfers[r] # "error"
    <3>1. transfers[r] = "error" => Range(blocks[r]) \subseteq bad
      BY <2>1
    <3>2. QED BY <1>6, <2>1, <3>1
  <2>4. QED BY <2>2, <2>3 DEF Ended
<1>7. blocks' \in [Reqs -> Seq(Blocks)]
  <2>1. <<>> \in Seq(Blocks)
    OBVIOUS
  <2>2. \A r \in Reqs : (IF r \in Ended /\ status[r] = "aborted" THEN <<>> ELSE blocks[r]) \in Seq(Blocks)
    BY <1>1, <2>1 DEF TypeOK
  <2>3. QED BY <1>2, <2>2
<1>8. status' \in [Reqs -> {"waiting", "allocated", "recving", "ready", "recompute", "aborted", "finished"}]
  BY <1>1, <1>2 DEF TypeOK
<1>9. transfers' \in [Reqs -> {"none", "active", "done", "error"}]
  BY <1>1, <1>2 DEF TypeOK
<1>10. ASSUME NEW r \in Reqs \ Ended
       PROVE  status'[r] = status[r] /\ blocks'[r] = blocks[r] /\ transfers'[r] = transfers[r]
  BY <1>2
<1> HIDE DEF bad
<1>11. ASSUME NEW r \in Ended
       PROVE  /\ transfers'[r] = "none"
              /\ IF status[r] = "aborted" THEN status'[r] = "finished" /\ blocks'[r] = <<>>
                 ELSE /\ blocks'[r] = blocks[r] /\ status'[r] \in {"recompute", "ready"}
                      /\ status'[r] = "ready" => transfers[r] = "done" /\ r \notin failed_recv_reqs
  <2>1. r \in Reqs
    BY <1>1
  <2>2. /\ transfers'[r] = "none"
        /\ blocks'[r] = IF status[r] = "aborted" THEN <<>> ELSE blocks[r]
        /\ status'[r] = IF status[r] = "aborted" THEN "finished"
                        ELSE IF Range(blocks[r]) \cap bad # {} THEN "recompute" ELSE "ready"
    BY <1>2, <2>1
  <2>3. QED BY <1>6, <2>2
<1>12. /\ \A r \in Ended : Range(blocks[r]) \subseteq Range(Handed)
       /\ \A b \in Range(Handed) : \E r \in Ended : b \in Range(blocks[r])
  BY <1>4
<1>13. QED BY <1>1, <1>2, <1>3, <1>4, <1>5, <1>7, <1>8, <1>9, <1>10, <1>11, <1>12

LEMMA SlotsFinished == ASSUME SlotsInv, GetFinished PROVE SlotsInv'
<1> DEFINE bs == Handed
           over == Ended
           slots == SlotsPendingFor(bs)
           B == Range(bs)
<1>1. /\ TypeOK /\ bs \in Seq(Blocks) /\ IsInjective(bs) /\ PostProcess(bs) /\ over \subseteq Reqs
  BY Finished DEF SlotsInv
<1>2. /\ slots \in Seq(Slots) /\ IsInjective(slots)
      /\ Range(slots) = {e.slot : e \in UNION {Pending(b) : b \in B}}
  BY <1>1, SlotsHanded
<1>3. B \subseteq Blocks
  BY <1>1 DEF Range
<1>4. /\ device' = [b \in Blocks |-> [o \in Offsets |-> Unstaged(bs, b, o)]]
      /\ recv_free_slots' = recv_free_slots \o slots
      /\ recv_pending' = [b \in Blocks |-> IF b \in B THEN <<>> ELSE recv_pending[b]]
  BY <1>1 DEF PostProcess
<1> HIDE DEF bs, slots, B, over
<1>5. /\ recv_free_slots' \in Seq(Slots) /\ IsInjective(recv_free_slots')
      /\ Range(recv_free_slots') = Range(recv_free_slots) \union Range(slots)
  <2>1. Range(recv_free_slots) \cap Range(slots) = {}
    <3>1. \A b \in B : \A e \in Pending(b) : e.slot \notin Range(recv_free_slots)
      BY <1>3 DEF SlotsInv, PendingOnce
    <3>2. QED BY <1>2, <3>1
  <2>2. recv_free_slots \in Seq(Slots) /\ IsInjective(recv_free_slots)
    BY <1>1 DEF TypeOK, SlotsInv, PendingOnce
  <2>3. QED BY <1>2, <1>4, <2>1, <2>2, Joining
<1>6. /\ \A b \in B : recv_pending'[b] = <<>> /\ Pending(b)' = {}
      /\ \A b \in Blocks \ B : recv_pending'[b] = recv_pending[b] /\ Pending(b)' = Pending(b)
  <2>1. Range(<<>>) = {}
    BY DEF Range
  <2>2. QED BY <1>3, <1>4, <2>1 DEF Pending
<1>7. device' \in [Blocks -> [Offsets -> Contents]]
  <2>1. ASSUME NEW b \in Blocks, NEW o \in Offsets PROVE Unstaged(bs, b, o) \in Contents
    <3>1. device[b][o] \in Contents
      BY <1>1 DEF TypeOK
    <3>2. \A e \in Pending(b) : staging[e.slot] \in Contents
      <4>1. recv_pending[b] \in Seq(Entry)
        BY <1>1 DEF TypeOK, Entry
      <4>2. \A e \in Pending(b) : e \in Entry
        BY <4>1 DEF Pending, Range
      <4>3. \A e \in Entry : e.slot \in Slots
        BY DEF Entry
      <4>4. QED BY <1>1, <4>2, <4>3 DEF TypeOK
    <3>3. \/ Unstaged(bs, b, o) = device[b][o]
          \/ \E e \in Pending(b) : Unstaged(bs, b, o) = staging[e.slot]
      BY Unstages, ZenonT(30)
    <3>4. QED BY <3>1, <3>2, <3>3
  <2>2. QED BY <1>4, <2>1
<1>8. recv_pending' \in [Blocks -> Seq([slot : Slots, off : Offsets, for : Blocks])]
  <2>1. <<>> \in Seq(Entry)
    OBVIOUS
  <2>2. \A b \in Blocks : (IF b \in B THEN <<>> ELSE recv_pending[b]) \in Seq(Entry)
    BY <1>1, <2>1 DEF TypeOK, Entry
  <2>3. recv_pending' \in [Blocks -> Seq(Entry)]
    BY <1>4, <2>2
  <2>4. QED BY <2>3 DEF Entry
<1>9. TypeOK'
  BY <1>1, <1>5, <1>7, <1>8, Finished, ZenonT(30) DEF TypeOK
<1>10. \A r \in Reqs : (Owning(r)' => Owning(r)) /\ (blocks'[r] = IF Owning(r)' THEN blocks[r] ELSE <<>>)
  <2>1. ASSUME NEW r \in Reqs \ Ended
        PROVE  (Owning(r)' <=> Owning(r)) /\ (blocks'[r] = IF Owning(r)' THEN blocks[r] ELSE <<>>)
    <3>1. status'[r] = status[r] /\ blocks'[r] = blocks[r]
      BY Finished
    <3>2. ~Owning(r) => blocks[r] = <<>>
      BY DEF SlotsInv, BlocksOwned
    <3>3. QED BY <3>1, <3>2 DEF Owning
  <2>2. ASSUME NEW r \in Ended
        PROVE  (Owning(r)' => Owning(r)) /\ (blocks'[r] = IF Owning(r)' THEN blocks[r] ELSE <<>>)
    <3>1. Owning(r) /\ IF status[r] = "aborted" THEN status'[r] = "finished" /\ blocks'[r] = <<>>
                       ELSE blocks'[r] = blocks[r] /\ status'[r] \in {"recompute", "ready"}
      BY Finished
    <3>2. QED BY <3>1 DEF Owning
  <2>3. QED BY <2>1, <2>2
<1>11. BlocksOwned'
  <2>1. Range(<<>>) = {}
    BY DEF Range
  <2>2. \A q, r \in Reqs : q # r => Range(blocks'[q]) \cap Range(blocks'[r]) = {}
    BY <1>10, <2>1 DEF SlotsInv, BlocksOwned
  <2>3. ASSUME NEW r \in Reqs
        PROVE  (IF Owning(r) THEN IsInjective(blocks[r]) /\ Len(blocks[r]) = LocalBlocks(r)
                             ELSE blocks[r] = <<>>)'
    BY <1>10 DEF SlotsInv, BlocksOwned, LocalBlocks
  <2>4. QED BY <2>2, <2>3 DEF BlocksOwned
<1>12. \A r \in Reqs : Reading(r)' => Reading(r) /\ r \notin Ended /\ blocks'[r] = blocks[r] /\ status'[r] = status[r]
  BY Finished DEF Reading
<1>13. ReadsInTime'
  <2>1. failed_recv_reqs' = {}
    BY Finished
  <2>2. QED BY <1>12, <2>1 DEF SlotsInv, ReadsInTime
<1>14. PendingOnce'
  <2>1. ASSUME NEW b \in Blocks \ B, NEW e \in Pending(b) PROVE e.slot \notin Range(slots)
    <3>1. \A c \in B : \A f \in Pending(c) : e.slot # f.slot
      BY <1>3 DEF SlotsInv, PendingOnce
    <3>2. QED BY <1>2, <3>1
  <2>2. ASSUME NEW b \in Blocks
        PROVE  /\ IsInjective(recv_pending'[b])
               /\ \A e \in Pending(b)' : e.for = b /\ e.slot \notin Range(recv_free_slots')
               /\ \A e, f \in Pending(b)' : e.off = f.off => e = f
    <3>1. CASE b \in B
      <4>1. IsInjective(<<>>)
        BY DEF IsInjective
      <4>2. QED BY <1>6, <3>1, <4>1
    <3>2. CASE b \notin B
      BY <1>5, <1>6, <2>1, <3>2 DEF SlotsInv, PendingOnce
    <3>3. QED BY <3>1, <3>2
  <2>3. ASSUME NEW b \in Blocks, NEW c \in Blocks, NEW e \in Pending(b)', NEW f \in Pending(c)', e.slot = f.slot
        PROVE  e = f
    <3>1. b \notin B /\ c \notin B
      BY <1>6
    <3>2. QED BY <1>6, <2>3, <3>1 DEF SlotsInv, PendingOnce
  <2>4. QED BY <1>5, <2>2, <2>3 DEF PendingOnce
<1>15. AllSlots'
  <2>1. ASSUME NEW s \in Slots
        PROVE  s \in Range(recv_free_slots') \/ \E b \in Blocks : \E e \in Pending(b)' : e.slot = s
    <3>1. CASE s \in Range(recv_free_slots)
      BY <1>5, <3>1
    <3>2. CASE s \notin Range(recv_free_slots)
      <4>1. PICK b \in Blocks : \E e \in Pending(b) : e.slot = s
        BY <3>2 DEF SlotsInv, AllSlots
      <4>2. CASE b \in B
        BY <1>2, <1>5, <4>1, <4>2
      <4>3. CASE b \notin B
        BY <1>6, <4>1, <4>3
      <4>4. QED BY <4>2, <4>3
    <3>3. QED BY <3>1, <3>2
  <2>2. QED BY <2>1 DEF AllSlots
<1>16. PendingForReads'
  <2>1. ASSUME NEW b \in Blocks, Pending(b)' # {}
        PROVE  (\E r \in Reqs : Reading(r) /\ b \in Range(blocks[r]))'
    <3>1. b \notin B /\ Pending(b) # {}
      BY <1>6, <2>1
    <3>2. PICK r \in Reqs : Reading(r) /\ b \in Range(blocks[r])
      BY <3>1 DEF SlotsInv, PendingForReads
    <3>3. r \notin Ended
      BY <3>1, <3>2, Finished DEF B, bs
    <3>4. transfers'[r] = transfers[r] /\ blocks'[r] = blocks[r]
      BY <3>3, Finished
    <3>5. QED BY <3>2, <3>4 DEF Reading
  <2>2. ASSUME NEW r \in Reqs, Reading(r)', NEW j \in 1..Recv[r]
        PROVE  (\E e \in Pending(BlockOf(blocks[r], j)) : e.off = OffsetOf(j))'
    <3> DEFINE b == BlockOf(blocks[r], j)
    <3>1. Reading(r) /\ r \notin Ended /\ blocks'[r] = blocks[r] /\ Owning(r)
      BY <1>12, <2>2, ReadingOwns DEF SlotsInv
    <3>2. b \in Range(blocks[r]) /\ b \in Blocks
      BY <3>1, OwnedType DEF SlotsInv
    <3>3. Range(blocks[r]) \cap B = {}
      BY <3>1, Finished DEF B, bs
    <3>4. b' = b
      BY <3>1
    <3>5. \E e \in Pending(b) : e.off = OffsetOf(j)
      BY <3>1 DEF SlotsInv, PendingForReads
    <3> HIDE DEF b
    <3>6. Pending(b)' = Pending(b)
      <4>1. recv_pending'[b] = recv_pending[b]
        BY <1>6, <3>2, <3>3
      <4>2. QED BY <3>4, <4>1 DEF Pending
    <3>7. (\E e \in Pending(b) : e.off = OffsetOf(j))'
      BY <3>5, <3>6 DEF OffsetOf
    <3>8. QED BY <3>7 DEF b
  <2>3. QED BY <2>1, <2>2 DEF PendingForReads
<1>17. QED BY <1>9, <1>11, <1>13, <1>14, <1>15, <1>16 DEF SlotsInv

LEMMA SlotsNext == SlotsInv /\ [Next]_vars => SlotsInv'
<1> SUFFICES ASSUME SlotsInv, [Next]_vars PROVE SlotsInv'
  OBVIOUS
<1>1. ASSUME NEW r \in Reqs, Allocate(r) PROVE SlotsInv'
  BY <1>1, SlotsAllocate
<1>2. ASSUME NEW r \in Reqs, Abort(r) PROVE SlotsInv'
  BY <1>2, SlotsAbort
<1>3. ASSUME NEW r \in Reqs, Finish(r) PROVE SlotsInv'
  BY <1>3, SlotsFinish
<1>4. ASSUME NEW r \in Reqs, ReadExhausted(r) PROVE SlotsInv'
  BY <1>4, SlotsExhausted
<1>5. ASSUME NEW r \in Reqs, ReadPosted(r) PROVE SlotsInv'
  BY <1>5, SlotsPosted
<1>6. ASSUME NEW r \in Reqs, ReadRefused(r) PROVE SlotsInv'
  BY <1>6, SlotsRefused
<1>7. ASSUME NEW r \in Reqs, TransferEnds(r) PROVE SlotsInv'
  BY <1>7, SlotsEnds
<1>8. CASE GetFinished
  BY <1>8, SlotsFinished
<1>9. CASE UNCHANGED vars
  <2>1. TypeOK'
    BY <1>9 DEF SlotsInv, TypeOK, vars
  <2>2. BlocksOwned'
    BY <1>9 DEF SlotsInv, BlocksOwned, Owning, LocalBlocks, vars
  <2>3. \A r \in Reqs : Reading(r) \/ r \in failed_recv_reqs =>
          blocks'[r] = blocks[r] /\ status'[r] \in {"recving", "aborted"}
    BY <1>9, ReadingOwns DEF SlotsInv, vars
  <2>4. QED BY <1>9, <2>1, <2>2, <2>3, QuietStep DEF vars
<1>10. QED BY <1>1, <1>2, <1>3, <1>4, <1>5, <1>6, <1>7, <1>8, <1>9 DEF Next

(* Whatever is refused, broken off or aborted, every variable of the decode side*)
(* keeps its type.                                                             *)
THEOREM RecvTypes == Spec => []TypeOK
<1>1. Spec => []SlotsInv
  BY SlotsInit, SlotsNext, PTL DEF Spec
<1>2. SlotsInv => TypeOK
  BY DEF SlotsInv
<1>3. QED BY <1>1, <1>2, PTL

-----------------------------------------------------------------------------
LEMMA PoolPartition == SlotsInv => RecvPartition
<1> SUFFICES ASSUME SlotsInv, NEW s \in Slots
             PROVE  Cardinality({i \in DOMAIN recv_free_slots : recv_free_slots[i] = s})
                      + Cardinality({x \in Blocks \X Slots :
                          x[2] \in DOMAIN recv_pending[x[1]] /\ recv_pending[x[1]][x[2]].slot = s}) = 1
  BY DEF RecvPartition
<1> DEFINE free == recv_free_slots
           pend == recv_pending
           InFree == {i \in DOMAIN free : free[i] = s}
           InPend == {x \in Blocks \X Slots : x[2] \in DOMAIN pend[x[1]] /\ pend[x[1]][x[2]].slot = s}
<1>1. /\ IsInjective(free)
      /\ \A b \in Blocks : IsInjective(pend[b]) /\ \A e \in Range(pend[b]) : e.for = b /\ e.slot \notin Range(free)
      /\ \A b, c \in Blocks : \A e \in Range(pend[b]), f \in Range(pend[c]) : e.slot = f.slot => e = f
      /\ s \in Range(free) \/ \E b \in Blocks : \E e \in Range(pend[b]) : e.slot = s
  BY DEF SlotsInv, PendingOnce, AllSlots, Pending
<1>2. ASSUME NEW b \in Blocks PROVE DOMAIN pend[b] \subseteq Slots
  <2>1. pend[b] \in Seq(Entry)
    BY DEF SlotsInv, TypeOK, Entry
  <2>2. SlotsOf(pend[b]) \in Seq(1..NumSlots) /\ IsInjective(SlotsOf(pend[b])) /\ NumSlots \in Nat
    BY SlotsOfBlock, ConstantsAssumption DEF Slots
  <2> HIDE DEF pend
  <2>3. DOMAIN SlotsOf(pend[b]) \subseteq Slots
    BY <2>2, InjectiveShort DEF Slots
  <2>4. DOMAIN SlotsOf(pend[b]) = DOMAIN pend[b]
    BY <2>1 DEF SlotsOf
  <2>5. QED BY <2>3, <2>4
<1> HIDE DEF free, pend
<1>3. CASE s \in Range(free)
  <2>1. PICK i \in DOMAIN free : free[i] = s
    BY <1>3 DEF Range
  <2>2. InFree = {i}
    BY <1>1, <2>1 DEF IsInjective
  <2>3. InPend = {}
    <3>1. \A b \in Blocks : \A e \in Range(pend[b]) : e.slot # s
      BY <1>1, <1>3
    <3>2. \A b \in Blocks : \A k \in DOMAIN pend[b] : pend[b][k].slot # s
      BY <3>1 DEF Range
    <3>3. QED BY <3>2
  <2>4. Cardinality(InFree) = 1 /\ Cardinality(InPend) = 0
    <3> HIDE DEF InFree, InPend
    <3>1. QED BY <2>2, <2>3, FS_Singleton, FS_EmptySet
  <2>5. QED BY <2>4 DEF free, pend
<1>4. CASE s \notin Range(free)
  <2>1. InFree = {}
    BY <1>4 DEF Range
  <2>2. PICK b \in Blocks : \E e \in Range(pend[b]) : e.slot = s
    BY <1>1, <1>4
  <2>3. PICK k \in DOMAIN pend[b] : pend[b][k].slot = s
    BY <2>2 DEF Range
  <2>4. InPend = {<<b, k>>}
    <3>1. <<b, k>> \in InPend
      BY <1>2, <2>3
    <3>2. ASSUME NEW x \in InPend PROVE x = <<b, k>>
      <4>1. x \in Blocks \X Slots /\ x[2] \in DOMAIN pend[x[1]] /\ pend[x[1]][x[2]].slot = s
        OBVIOUS
      <4>2. x[1] \in Blocks /\ pend[x[1]][x[2]] \in Range(pend[x[1]]) /\ pend[b][k] \in Range(pend[b])
        BY <2>3, <4>1 DEF Range
      <4>3. pend[x[1]][x[2]] = pend[b][k]
        BY <1>1, <2>3, <4>1, <4>2
      <4>4. x[1] = b
        BY <1>1, <4>2, <4>3
      <4>5. x[2] = k
        BY <1>1, <2>3, <4>1, <4>3, <4>4 DEF IsInjective
      <4>6. QED BY <4>1, <4>4, <4>5
    <3> HIDE DEF InPend
    <3>3. QED BY <3>1, <3>2
  <2>5. Cardinality(InFree) = 0 /\ Cardinality(InPend) = 1
    <3> HIDE DEF InFree, InPend
    <3>1. QED BY <2>1, <2>4, FS_Singleton, FS_EmptySet
  <2>6. QED BY <2>5 DEF free, pend
<1>5. QED BY <1>3, <1>4

(* A staging slot is in the free list once or pending for one place of one      *)
(* block once: _read_blocks, its refusals and the post-processing of finished,  *)
(* failed and aborted reads neither lose a slot nor hand it out twice.          *)
THEOREM RecvSlotsPartitioned == Spec => []RecvPartition
<1>1. Spec => []SlotsInv
  BY SlotsInit, SlotsNext, PTL DEF Spec
<1>2. QED BY <1>1, PoolPartition, PTL

-----------------------------------------------------------------------------
(* The slots of a request, from the posting of its read to the report.         *)
Holding ==
  /\ \A r \in Reqs : Reading(r) <=> HeldSlots(r) # {}
  /\ \A q, r \in Reqs : q # r => HeldSlots(q) \cap HeldSlots(r) = {}

LEMMA ReadsHold == SlotsInv => Holding
<1> SUFFICES ASSUME SlotsInv PROVE Holding
  OBVIOUS
<1>1. ASSUME NEW r \in Reqs, Reading(r) PROVE HeldSlots(r) # {}
  <2>1. 1 \in 1..Recv[r]
    BY ConstantsAssumption
  <2>2. BlockOf(blocks[r], 1) \in Range(blocks[r])
    BY <1>1, <2>1, ReadingOwns, OwnedType DEF SlotsInv
  <2>3. PICK e \in Pending(BlockOf(blocks[r], 1)) : TRUE
    BY <1>1, <2>1 DEF SlotsInv, PendingForReads
  <2>4. e.slot \in HeldSlots(r)
    BY <2>2, <2>3 DEF HeldSlots, Pending
  <2>5. QED BY <2>4
<1>2. ASSUME NEW r \in Reqs, ~Reading(r) PROVE HeldSlots(r) = {}
  <2>1. ASSUME NEW b \in Range(blocks[r]) PROVE Range(recv_pending[b]) = {}
    <3>1. recv_pending[b] = <<>>
      BY <1>2, NothingPending DEF SlotsInv, Reading
    <3>2. QED BY <3>1 DEF Range
  <2>2. QED BY <2>1 DEF HeldSlots
<1>3. ASSUME NEW q \in Reqs, NEW r \in Reqs, q # r, NEW s \in HeldSlots(q), s \in HeldSlots(r) PROVE FALSE
  <2>1. PICK b \in Range(blocks[q]) : \E e \in Pending(b) : e.slot = s
    BY DEF HeldSlots, Pending
  <2>2. PICK c \in Range(blocks[r]) : \E e \in Pending(c) : e.slot = s
    BY <1>3 DEF HeldSlots, Pending
  <2>3. b \in Blocks /\ c \in Blocks
    BY DEF SlotsInv, TypeOK, Range
  <2>4. PICK e \in Pending(b) : e.slot = s
    BY <2>1
  <2>5. PICK f \in Pending(c) : f.slot = s
    BY <2>2
  <2>6. e = f /\ e.for = b /\ f.for = c
    BY <2>3, <2>4, <2>5 DEF SlotsInv, PendingOnce
  <2>7. QED BY <1>3, <2>6 DEF SlotsInv, BlocksOwned
<1>4. QED BY <1>1, <1>2, <1>3 DEF Holding

(* Only the posting of its read gives a request slots: all it needs.           *)
LEMMA ReadStarts ==
  ASSUME SlotsInv, [Next]_vars, NEW r \in Reqs, ~Reading(r), Reading(r)'
  PROVE  ReadPosted(r)
<1>1. TypeOK /\ transfers[r] = "none" /\ transfers'[r] # "none"
  BY DEF SlotsInv, Reading
<1>2. ASSUME NEW q \in Reqs, ReadPosted(q) PROVE q = r
  BY <1>1, <1>2 DEF ReadPosted, TypeOK
<1>3. ASSUME NEW q \in Reqs, TransferEnds(q) PROVE FALSE
  BY <1>1, <1>3 DEF TransferEnds, TypeOK
<1>4. CASE GetFinished
  BY <1>1, <1>4, Finished
<1>5. ASSUME NEW q \in Reqs,
             Allocate(q) \/ Abort(q) \/ Finish(q) \/ ReadExhausted(q) \/ ReadRefused(q)
      PROVE  FALSE
  <2>1. UNCHANGED transfers
    BY <1>5 DEF Allocate, Abort, Finish, ReadExhausted, ReadRefused
  <2>2. QED BY <1>1, <2>1
<1>6. CASE UNCHANGED vars
  BY <1>1, <1>6 DEF vars
<1>7. QED BY <1>2, <1>3, <1>4, <1>5, <1>6 DEF Next

LEMMA PostedSlots ==
  ASSUME SlotsInv, NEW r \in Reqs, ReadPosted(r)
  PROVE  HeldSlots(r)' \subseteq Slots /\ Cardinality(HeldSlots(r)') = Recv[r]
<1> DEFINE es == Entries(r)
           back == RecvSlots(r)
           R == Range(blocks[r])
           n == Recv[r]
<1>1. /\ status[r] = "allocated" /\ Left(r) >= 0
      /\ recv_pending' = PendingWith(r) /\ blocks' = blocks
  BY DEF ReadPosted
<1>2. back \in Seq(Slots) /\ Len(back) = n /\ IsInjective(back) /\ n \in Nat
  BY <1>1, Popped, ConstantsAssumption
<1>3. ASSUME NEW m \in 1..n PROVE es[m].slot = back[m] /\ es[m].for \in R
  <2> DEFINE a == back[m]
             c == OffsetOf(m)
             d == BlockOf(blocks[r], m)
             e == es[m]
  <2>1. e = [slot |-> a, off |-> c, for |-> d] /\ e.for \in R
    BY <1>1, EntriesType
  <2> HIDE DEF a, c, d, e
  <2>2. e.slot = a
    BY <2>1
  <2>3. QED BY <2>1, <2>2 DEF a, e
<1>4. \A b \in R : Range(recv_pending'[b]) = For(es, b, n)
  BY <1>1, PostedPending
<1> HIDE DEF es, back, R
<1>5. HeldSlots(r)' = {e.slot : e \in UNION {Range(recv_pending'[b]) : b \in R}}
  BY <1>1 DEF HeldSlots, R
<1>6. UNION {Range(recv_pending'[b]) : b \in R} = {es[m] : m \in 1..n}
  <2>1. UNION {Range(recv_pending'[b]) : b \in R} = UNION {For(es, b, n) : b \in R}
    BY <1>4
  <2>2. ASSUME NEW m \in 1..n PROVE es[m] \in For(es, es[m].for, n) /\ es[m].for \in R
    BY <1>3 DEF For
  <2>3. \A b \in R : For(es, b, n) \subseteq {es[m] : m \in 1..n}
    BY DEF For
  <2>4. QED BY <2>1, <2>2, <2>3
<1>7. HeldSlots(r)' = {back[m] : m \in 1..n}
  <2>1. \A m \in 1..n : es[m].slot = back[m]
    BY <1>3
  <2>2. HeldSlots(r)' = {e.slot : e \in {es[m] : m \in 1..n}}
    BY <1>5, <1>6
  <2>3. QED BY <2>1, <2>2
<1>8. Range(back) = {back[m] : m \in 1..n}
  BY <1>2 DEF Range
<1>9. Cardinality(Range(back)) = n /\ Range(back) \subseteq Slots
  BY <1>2, InjectiveCard
<1>10. QED BY <1>7, <1>8, <1>9

(* While a read is in progress nothing touches its request's entries.          *)
LEMMA ReadContinues ==
  ASSUME SlotsInv, [Next]_vars, NEW r \in Reqs, Reading(r), Reading(r)'
  PROVE  HeldSlots(r)' = HeldSlots(r)
<1> DEFINE Kept == /\ blocks'[r] = blocks[r]
                   /\ \A b \in Range(blocks[r]) : recv_pending'[b] = recv_pending[b]
<1>1. TypeOK /\ status[r] \in {"recving", "aborted"} /\ Range(blocks[r]) \subseteq Blocks
  BY ReadingOwns, OwnedType DEF SlotsInv
<1>2. ASSUME NEW q \in Reqs, Allocate(q) \/ Finish(q) PROVE Kept
  <2>1. q # r
    BY <1>1, <1>2 DEF Allocate, Finish
  <2>2. blocks'[r] = blocks[r] /\ UNCHANGED recv_pending
    BY <1>1, <1>2, <2>1 DEF Allocate, Finish, TypeOK
  <2>3. QED BY <2>2
<1>3. ASSUME NEW q \in Reqs, Abort(q) \/ ReadExhausted(q) \/ TransferEnds(q) PROVE Kept
  BY <1>3 DEF Abort, ReadExhausted, TransferEnds
<1>4. ASSUME NEW q \in Reqs, ReadPosted(q) \/ ReadRefused(q) PROVE Kept
  <2>1. status[q] = "allocated" /\ Left(q) >= 0 /\ UNCHANGED blocks
    BY <1>4 DEF ReadPosted, ReadRefused
  <2>2. q # r
    BY <1>1, <2>1
  <2>3. Range(blocks[r]) \cap Range(blocks[q]) = {}
    BY <2>2 DEF SlotsInv, BlocksOwned
  <2>4. ASSUME NEW b \in Range(blocks[r]) PROVE recv_pending'[b] = recv_pending[b]
    <3>1. b \in Blocks /\ b \notin Range(blocks[q])
      BY <1>1, <2>3
    <3>2. CASE ReadPosted(q)
      <4>1. recv_pending' = PendingWith(q)
        BY <3>2 DEF ReadPosted
      <4>2. QED BY <2>1, <3>1, <4>1, PostedPending
    <3>3. CASE ReadRefused(q)
      BY <3>1, <3>3 DEF ReadRefused
    <3>4. QED BY <1>4, <3>2, <3>3
  <2>5. QED BY <2>1, <2>4
<1>5. ASSUME GetFinished PROVE Kept
  <2>1. r \notin Ended
    BY <1>5, Finished DEF Reading
  <2>2. /\ blocks'[r] = blocks[r] /\ Range(blocks[r]) \cap Range(Handed) = {}
        /\ PostProcess(Handed)
    BY <1>5, <2>1, Finished
  <2>3. recv_pending' = [b \in Blocks |-> IF b \in Range(Handed) THEN <<>> ELSE recv_pending[b]]
    BY <2>2 DEF PostProcess
  <2>4. QED BY <1>1, <2>2, <2>3
<1>6. ASSUME UNCHANGED vars PROVE Kept
  BY <1>6 DEF vars
<1>7. Kept
  BY <1>2, <1>3, <1>4, <1>5, <1>6 DEF Next
<1>8. UNION {Range(recv_pending'[b]) : b \in Range(blocks'[r])} = UNION {Range(recv_pending[b]) : b \in Range(blocks[r])}
  BY <1>7
<1>9. QED BY <1>8 DEF HeldSlots

LEMMA LeaseRefines ==
  ASSUME SlotsInv, Holding, Holding', [Next]_vars
  PROVE  Lease!Next
<1>1. ASSUME NEW r \in Reqs
      PROVE  Lease!Keeps(r) \/ Lease!Reserves(r) \/ Lease!Returns(r)
  <2>1. CASE ~Reading(r) /\ ~Reading(r)'
    <3>1. HeldSlots(r) = {} /\ HeldSlots(r)' = {}
      BY <2>1 DEF Holding
    <3>2. QED BY <3>1 DEF Lease!Keeps
  <2>2. CASE ~Reading(r) /\ Reading(r)'
    <3>1. HeldSlots(r) = {} /\ HeldSlots(r)' \subseteq Slots /\ Cardinality(HeldSlots(r)') = Recv[r]
      BY <2>2, ReadStarts, PostedSlots DEF Holding
    <3>2. Lease!Cardinality(HeldSlots(r)') = Cardinality(HeldSlots(r)')
      BY DEF Lease!Cardinality, Cardinality
    <3>3. QED BY <3>1, <3>2 DEF Lease!Reserves
  <2>3. CASE Reading(r) /\ ~Reading(r)'
    <3>1. HeldSlots(r) # {} /\ HeldSlots(r)' = {} /\ transfers'[r] # "active"
      BY <2>3 DEF Holding, Reading
    <3>2. QED BY <3>1 DEF Lease!Returns
  <2>4. CASE Reading(r) /\ Reading(r)'
    <3>1. HeldSlots(r)' = HeldSlots(r)
      BY <2>4, ReadContinues
    <3>2. QED BY <3>1 DEF Lease!Keeps
  <2>5. QED BY <2>1, <2>2, <2>3, <2>4
<1>2. \A q, r \in Reqs : q # r => HeldSlots(q)' \cap HeldSlots(r)' = {}
  BY DEF Holding
<1>3. ASSUME NEW r \in Reqs, transfers'[r] = "active" PROVE HeldSlots(r)' # {}
  BY <1>3 DEF Holding, Reading
<1>4. QED BY <1>1, <1>2, <1>3 DEF Lease!Next, Lease!Exclusive

(* The decode side implements SlotLease: a read gets all its slots when it is   *)
(* posted or none, has them to itself, and they are given back neither by the   *)
(* end of another read nor by a refusal while NIXL may still write into them    *)
(* (_read_blocks, post_process_device_kv_on_receive).                           *)
THEOREM ReadsAreLeases == Spec => LeaseSpec
<1>1. Init => Lease!Init
  <2> SUFFICES ASSUME Init PROVE Lease!Init
    OBVIOUS
  <2>1. \A r \in Reqs : HeldSlots(r) = {} /\ transfers[r] = "none"
    BY SlotsInit, ReadsHold DEF Init, Holding, Reading
  <2>2. QED BY <2>1 DEF Lease!Init
<1>2. SlotsInv /\ [Next]_vars => SlotsInv'
  BY SlotsNext
<1>3. SlotsInv /\ Holding /\ Holding' /\ [Next]_vars => Lease!Next
  BY LeaseRefines
<1>4. QED BY <1>1, <1>2, <1>3, SlotsInit, ReadsHold, PTL DEF Spec, LeaseSpec, Lease!Spec

-----------------------------------------------------------------------------
(* The contents of the slots and of the device blocks.                         *)
LEMMA ContentsKept ==
  ASSUME SlotsInv, Arrived, ReceivedIntact, UNCHANGED <<staging, device>>,
         \A r \in Reqs : transfers'[r] = "done" =>
           /\ transfers[r] = "done" /\ blocks'[r] = blocks[r]
           /\ \A b \in Range(blocks[r]) : recv_pending'[b] = recv_pending[b],
         \A r \in Reqs : status'[r] = "ready" => status[r] = "ready" /\ blocks'[r] = blocks[r]
  PROVE  Arrived' /\ ReceivedIntact'
<1>1. ASSUME NEW r \in Reqs, transfers'[r] = "done", NEW j \in 1..Recv[r],
             NEW e \in Pending(BlockOf(blocks[r], j))', e.off = OffsetOf(j)
      PROVE  staging'[e.slot] = <<r, j>>
  <2>1. Owning(r) /\ transfers[r] = "done" /\ blocks'[r] = blocks[r]
    BY <1>1, ReadingOwns DEF SlotsInv, Reading
  <2>2. BlockOf(blocks[r], j) \in Range(blocks[r])
    BY <2>1, OwnedType DEF SlotsInv
  <2>3. e \in Pending(BlockOf(blocks[r], j))
    BY <1>1, <2>1, <2>2 DEF Pending
  <2>4. QED BY <1>1, <2>1, <2>3 DEF Arrived
<1>2. Arrived'
  BY <1>1 DEF Arrived, OffsetOf
<1>3. ReceivedIntact'
  BY DEF ReceivedIntact, OffsetOf, BlockOf
<1>4. QED BY <1>2, <1>3

LEMMA SlotOfEntry ==
  ASSUME SlotsInv, NEW r \in Reqs, Reading(r), NEW j \in 1..Recv[r]
  PROVE  \E e \in Pending(BlockOf(blocks[r], j)) : e.off = OffsetOf(j) /\ SlotOf(r, j) = e.slot
<1> DEFINE b == BlockOf(blocks[r], j)
           l == recv_pending[b]
           Is(s) == \E i \in DOMAIN l : l[i].slot = s /\ l[i].off = OffsetOf(j)
<1>1. PICK e \in Pending(b) : e.off = OffsetOf(j)
  BY DEF SlotsInv, PendingForReads
<1>2. b \in Blocks
  BY ReadingOwns, OwnedType DEF SlotsInv
<1>3. \A f \in Pending(b) : f.off = OffsetOf(j) => f = e
  BY <1>1, <1>2 DEF SlotsInv, PendingOnce
<1>4. e.slot \in Slots
  <2>1. recv_pending[b] \in Seq(Entry)
    BY <1>2 DEF SlotsInv, TypeOK, Entry
  <2> HIDE DEF b
  <2>2. e \in Entry
    BY <1>1, <2>1 DEF Pending, Range
  <2>3. QED BY <2>2 DEF Entry
<1>5. SlotOf(r, j) = CHOOSE s \in Slots : Is(s)
  BY DEF SlotOf
<1>6. \A s : Is(s) <=> s = e.slot
  <2> HIDE DEF l
  <2>1. Pending(b) = Range(l)
    BY DEF Pending, l
  <2> HIDE DEF b
  <2>2. ASSUME NEW s, Is(s) PROVE s = e.slot
    <3>1. PICK i \in DOMAIN l : l[i].slot = s /\ l[i].off = OffsetOf(j)
      BY <2>2
    <3>2. l[i] \in Pending(b)
      BY <2>1 DEF Range
    <3>3. QED BY <1>3, <3>1, <3>2
  <2>3. Is(e.slot)
    <3>1. PICK i \in DOMAIN l : l[i] = e
      BY <1>1, <2>1 DEF Range
    <3>2. QED BY <1>1, <3>1
  <2>4. QED BY <2>2, <2>3
<1>7. SlotOf(r, j) = e.slot
  <2> HIDE DEF Is
  <2>1. QED BY <1>4, <1>5, <1>6
<1>8. QED BY <1>1, <1>7

LEMMA EndsContents ==
  ASSUME SlotsInv, Arrived, ReceivedIntact, NEW r \in Reqs, TransferEnds(r)
  PROVE  Arrived' /\ ReceivedIntact'
<1>1. PICK arrived \in SUBSET (1..Recv[r]) :
        /\ staging' = [s \in Slots |->
             IF \E j \in arrived : SlotOf(r, j) = s
               THEN <<r, CHOOSE j \in arrived : SlotOf(r, j) = s>> ELSE staging[s]]
        /\ transfers' = [transfers EXCEPT ![r] = IF arrived = 1..Recv[r] THEN "done" ELSE "error"]
  BY DEF TransferEnds
<1>2. /\ TypeOK /\ transfers[r] = "active" /\ Reading(r) /\ Owning(r)
      /\ UNCHANGED <<status, blocks, recv_free_slots, recv_pending, failed_recv_reqs,
                     invalid_block_ids, device>>
  BY ReadingOwns DEF SlotsInv, TransferEnds, Reading
<1>3. /\ transfers'[r] = IF arrived = 1..Recv[r] THEN "done" ELSE "error"
      /\ \A q \in Reqs : q # r => transfers'[q] = transfers[q]
  BY <1>1, <1>2 DEF TypeOK
<1>4. ASSUME NEW b \in Blocks, NEW e \in Pending(b) PROVE e.slot \in Slots
  <2>1. recv_pending[b] \in Seq(Entry)
    BY <1>2 DEF TypeOK, Entry
  <2>2. e \in Entry
    BY <2>1 DEF Pending, Range
  <2>3. QED BY <2>2 DEF Entry
<1>5. ASSUME NEW q \in Reqs, transfers'[q] = "done", NEW j \in 1..Recv[q],
             NEW e \in Pending(BlockOf(blocks[q], j)), e.off = OffsetOf(j)
      PROVE  staging'[e.slot] = <<q, j>>
  <2>1. Owning(q) /\ Reading(q)
    <3>1. q # r => Reading(q)
      BY <1>3, <1>5 DEF Reading
    <3>2. QED BY <1>2, <3>1, ReadingOwns DEF SlotsInv
  <2>2. BlockOf(blocks[q], j) \in Range(blocks[q]) /\ BlockOf(blocks[q], j) \in Blocks
    BY <2>1, OwnedType DEF SlotsInv
  <2>3. e.slot \in Slots
    BY <1>4, <2>2
  <2>4. ASSUME NEW k \in 1..Recv[r], SlotOf(r, k) = e.slot PROVE q = r /\ k = j
    <3>1. PICK f \in Pending(BlockOf(blocks[r], k)) : f.off = OffsetOf(k) /\ f.slot = e.slot
      BY <1>2, <2>4, SlotOfEntry
    <3>2. BlockOf(blocks[r], k) \in Range(blocks[r]) /\ BlockOf(blocks[r], k) \in Blocks
      BY <1>2, OwnedType DEF SlotsInv
    <3>3. f = e /\ BlockOf(blocks[r], k) = BlockOf(blocks[q], j)
      BY <2>2, <3>1, <3>2 DEF SlotsInv, PendingOnce
    <3>4. q = r
      BY <2>2, <3>2, <3>3 DEF SlotsInv, BlocksOwned
    <3>5. QED BY <1>2, <1>5, <3>1, <3>3, <3>4, OnePlace DEF SlotsInv
  <2>5. CASE q = r
    <3>1. arrived = 1..Recv[r] /\ j \in arrived
      BY <1>3, <1>5, <2>5
    <3>2. PICK f \in Pending(BlockOf(blocks[r], j)) : f.off = OffsetOf(j) /\ SlotOf(r, j) = f.slot
      BY <1>2, <2>5, SlotOfEntry
    <3>3. f = e
      BY <1>5, <2>2, <2>5, <3>2 DEF SlotsInv, PendingOnce
    <3>4. \A k \in arrived : SlotOf(r, k) = e.slot <=> k = j
      BY <2>4, <3>1, <3>2, <3>3
    <3>5. (CHOOSE k \in arrived : SlotOf(r, k) = e.slot) = j
      BY <3>1, <3>4
    <3>6. staging'[e.slot] = <<r, CHOOSE k \in arrived : SlotOf(r, k) = e.slot>>
      BY <1>1, <2>3, <3>1, <3>4
    <3>7. QED BY <2>5, <3>5, <3>6
  <2>6. CASE q # r
    <3>1. ~ \E k \in arrived : SlotOf(r, k) = e.slot
      BY <2>4, <2>6
    <3>2. staging'[e.slot] = staging[e.slot]
      BY <1>1, <2>3, <3>1
    <3>3. staging[e.slot] = <<q, j>>
      BY <1>3, <1>5, <2>6 DEF Arrived
    <3>4. QED BY <3>2, <3>3
  <2>7. QED BY <2>5, <2>6
<1>6. Arrived'
  <2>1. ASSUME NEW q \in Reqs, transfers'[q] = "done", NEW j \in 1..Recv[q],
               NEW e \in Pending(BlockOf(blocks[q], j))', e.off = OffsetOf(j)
        PROVE  staging'[e.slot] = <<q, j>>
    <3>1. Pending(BlockOf(blocks[q], j))' = Pending(BlockOf(blocks[q], j))
      BY <1>2 DEF Pending
    <3>2. e \in Pending(BlockOf(blocks[q], j))
      BY <2>1, <3>1
    <3>3. QED BY <1>5, <2>1, <3>2
  <2>2. QED BY <2>1 DEF Arrived, OffsetOf
<1>7. ReceivedIntact'
  BY <1>2 DEF ReceivedIntact, OffsetOf, BlockOf
<1>8. QED BY <1>6, <1>7

LEMMA FinishedContents ==
  ASSUME SlotsInv, Arrived, ReceivedIntact, GetFinished
  PROVE  Arrived' /\ ReceivedIntact'
<1>1. ASSUME NEW r \in Reqs PROVE transfers'[r] # "done"
  BY Finished
<1>2. Arrived'
  BY <1>1 DEF Arrived
<1>3. device' = [b \in Blocks |-> [o \in Offsets |-> Unstaged(Handed, b, o)]]
  BY Finished DEF PostProcess
<1>4. ASSUME NEW r \in Reqs, status'[r] = "ready", NEW j \in 1..Recv[r]
      PROVE  device'[BlockOf(blocks'[r], j)][OffsetOf(j)] = <<r, j>>
  <2> DEFINE b == BlockOf(blocks[r], j)
             o == OffsetOf(j)
  <2>1. blocks'[r] = blocks[r] /\ Owning(r)
    <3>1. CASE r \in Ended
      BY <1>4, <3>1, Finished
    <3>2. CASE r \notin Ended
      <4>1. status[r] = "ready" /\ blocks'[r] = blocks[r]
        BY <1>4, <3>2, Finished
      <4>2. QED BY <4>1 DEF Owning
    <3>3. QED BY <3>1, <3>2
  <2>2. b \in Range(blocks[r]) /\ b \in Blocks /\ o \in Offsets
    BY <2>1, OwnedType, Placing DEF SlotsInv
  <2> HIDE DEF b, o
  <2>3. device'[b][o] = Unstaged(Handed, b, o)
    BY <1>3, <2>2
  <2>4. Unstaged(Handed, b, o) = <<r, j>>
    <3>1. CASE r \in Ended
      <4>1. transfers[r] = "done" /\ Range(blocks[r]) \subseteq Range(Handed)
        BY <1>4, <3>1, Finished
      <4>2. PICK e \in Pending(b) : e.off = o
        BY <4>1 DEF SlotsInv, PendingForReads, Reading, b, o
      <4>3. staging[e.slot] = <<r, j>>
        BY <4>1, <4>2 DEF Arrived, b, o
      <4>4. b \in Range(Handed)
        BY <2>2, <4>1
      <4>5. Unstaged(Handed, b, o) = staging[e.slot]
        BY <2>2, <4>2, <4>4, Unstages
      <4>6. QED BY <4>3, <4>5
    <3>2. CASE r \notin Ended
      <4>1. status[r] = "ready" /\ Range(blocks[r]) \cap Range(Handed) = {}
        BY <1>4, <3>2, Finished
      <4>2. Unstaged(Handed, b, o) = device[b][o]
        BY <2>2, <4>1, Unstages
      <4>3. device[b][o] = <<r, j>>
        BY <4>1 DEF ReceivedIntact, b, o
      <4>4. QED BY <4>2, <4>3
    <3>3. QED BY <3>1, <3>2
  <2>5. QED BY <2>1, <2>3, <2>4 DEF b, o
<1>5. ReceivedIntact'
  BY <1>4 DEF ReceivedIntact, OffsetOf, BlockOf
<1>6. QED BY <1>2, <1>5

LEMMA RecvInit == Init => RecvInv
<1>1. Init => Arrived /\ ReceivedIntact
  BY DEF Init, Arrived, ReceivedIntact
<1>2. QED BY <1>1, SlotsInit DEF RecvInv

LEMMA RecvNext == RecvInv /\ [Next]_vars => RecvInv'
<1> SUFFICES ASSUME RecvInv, [Next]_vars PROVE RecvInv'
  OBVIOUS
<1>1. SlotsInv /\ Arrived /\ ReceivedIntact /\ TypeOK
  BY DEF RecvInv, SlotsInv
<1>2. SlotsInv'
  BY <1>1, SlotsNext
<1>3. ASSUME NEW r \in Reqs, Allocate(r) PROVE Arrived' /\ ReceivedIntact'
  <2>1. /\ status[r] = "waiting" /\ status'[r] = "allocated"
        /\ \A q \in Reqs : q # r => status'[q] = status[q] /\ blocks'[q] = blocks[q]
    BY <1>1, <1>3 DEF Allocate, TypeOK
  <2>2. transfers[r] # "done"
    BY <1>1, <2>1 DEF SlotsInv, ReadsInTime, Reading
  <2>3. UNCHANGED <<recv_pending, transfers, staging, device>>
    BY <1>3 DEF Allocate
  <2>4. QED BY <1>1, <2>1, <2>2, <2>3, ContentsKept
<1>4. ASSUME NEW r \in Reqs, Abort(r) \/ ReadExhausted(r) PROVE Arrived' /\ ReceivedIntact'
  <2>1. /\ UNCHANGED <<blocks, recv_pending, transfers, staging, device>>
        /\ \A q \in Reqs : status'[q] = "ready" => status[q] = "ready"
    BY <1>1, <1>4 DEF Abort, ReadExhausted, TypeOK
  <2>2. QED BY <1>1, <2>1, ContentsKept
<1>5. ASSUME NEW r \in Reqs, Finish(r) PROVE Arrived' /\ ReceivedIntact'
  <2>1. /\ status[r] \in {"ready", "recompute"} /\ status'[r] = "finished"
        /\ \A q \in Reqs : q # r => status'[q] = status[q] /\ blocks'[q] = blocks[q]
    BY <1>1, <1>5 DEF Finish, TypeOK
  <2>2. transfers[r] # "done"
    BY <1>1, <2>1 DEF SlotsInv, ReadsInTime, Reading
  <2>3. UNCHANGED <<recv_pending, transfers, staging, device>>
    BY <1>5 DEF Finish
  <2>4. QED BY <1>1, <2>1, <2>2, <2>3, ContentsKept
<1>6. ASSUME NEW r \in Reqs, ReadPosted(r) PROVE Arrived' /\ ReceivedIntact'
  <2>1. /\ transfers'[r] = "active" /\ \A q \in Reqs : q # r => transfers'[q] = transfers[q]
        /\ \A q \in Reqs : status'[q] = "ready" => status[q] = "ready"
        /\ UNCHANGED <<blocks, staging, device>>
        /\ recv_pending' = PendingWith(r) /\ status[r] = "allocated" /\ Left(r) >= 0
    BY <1>1, <1>6 DEF ReadPosted, TypeOK
  <2>2. ASSUME NEW q \in Reqs, transfers'[q] = "done", NEW b \in Range(blocks[q])
        PROVE  recv_pending'[b] = recv_pending[b]
    <3>1. q # r /\ Range(blocks[q]) \cap Range(blocks[r]) = {}
      BY <1>1, <2>1, <2>2 DEF SlotsInv, BlocksOwned
    <3>2. b \in Blocks
      BY <1>1 DEF TypeOK, Range
    <3>3. QED BY <1>1, <2>1, <3>1, <3>2, PostedPending
  <2>3. QED BY <1>1, <2>1, <2>2, ContentsKept
<1>7. ASSUME NEW r \in Reqs, ReadRefused(r) PROVE Arrived' /\ ReceivedIntact'
  <2>1. /\ \A q \in Reqs : status'[q] = "ready" => status[q] = "ready"
        /\ UNCHANGED <<blocks, transfers, staging, device>>
        /\ recv_pending' = [b \in Blocks |-> IF b \in Range(blocks[r]) THEN <<>> ELSE recv_pending[b]]
        /\ status[r] = "allocated"
    BY <1>1, <1>7 DEF ReadRefused, TypeOK
  <2>2. ASSUME NEW q \in Reqs, transfers'[q] = "done", NEW b \in Range(blocks[q])
        PROVE  recv_pending'[b] = recv_pending[b]
    <3>1. q # r
      BY <1>1, <2>1, <2>2 DEF SlotsInv, ReadsInTime, Reading
    <3>2. Range(blocks[q]) \cap Range(blocks[r]) = {}
      BY <1>1, <3>1 DEF SlotsInv, BlocksOwned
    <3>3. b \in Blocks
      BY <1>1 DEF TypeOK, Range
    <3>4. QED BY <2>1, <2>2, <3>2, <3>3
  <2>3. QED BY <1>1, <2>1, <2>2, ContentsKept
<1>8. ASSUME NEW r \in Reqs, TransferEnds(r) PROVE Arrived' /\ ReceivedIntact'
  BY <1>1, <1>8, EndsContents
<1>9. CASE GetFinished
  BY <1>1, <1>2, <1>9, FinishedContents DEF RecvInv
<1>10. CASE UNCHANGED vars
  BY <1>1, <1>2, <1>10, ContentsKept DEF RecvInv, vars
<1>11. QED BY <1>2, <1>3, <1>4, <1>5, <1>6, <1>7, <1>8, <1>9, <1>10 DEF Next, RecvInv

(* Whatever reads fail, break off or are aborted around it, and however the     *)
(* blocks and slots are reused: a request that may run finds every sub-block it *)
(* was sent at its place in its own device blocks (_read_blocks,                *)
(* post_process_device_kv_on_receive).                                         *)
THEOREM ReceivesIntact == Spec => []ReceivedIntact
<1>1. Spec => []RecvInv
  BY RecvInit, RecvNext, PTL DEF Spec
<1>2. RecvInv => ReceivedIntact
  BY DEF RecvInv
<1>3. QED BY <1>1, <1>2, PTL
=============================================================================
