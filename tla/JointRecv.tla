----------------------------- MODULE JointRecv ------------------------------
(***************************************************************************)
(* The consumer (decode) side of joint-KV staging: _read_blocks reserves   *)
(* staging slots and posts an asynchronous remote read into them, and      *)
(* post_process_device_kv_on_receive moves the received sub-blocks into    *)
(* the device KV cache and returns the slots.                              *)
(*                                                                         *)
(* External: vLLM's scheduler (device blocks, aborts, what follows a       *)
(* finished read), the NIXL transfer, and the upstream worker's            *)
(* get_finished, which collects ended and failed reads.                    *)
(***************************************************************************)
EXTENDS Integers, Sequences, FiniteSets, SequencesExt, SequenceLoops

CONSTANTS
  Reqs,       \* requests with do_remote_prefill
  NumSlots,   \* staging slots
  NumBlocks,  \* device KV blocks
  Recv,       \* Recv[r]: number of remote blocks (sub-blocks) of r
  Ratio,      \* block_size // block_size_on_save
  MayFail,    \* may posting or carrying out a transfer fail?
  MayAbort,   \* may a request be aborted during its read?
  NONE        \* contents that are no request's KV

ASSUME ConstantsAssumption ==
  /\ IsFiniteSet(Reqs)
  /\ NumSlots \in Nat \ {0}
  /\ NumBlocks \in Nat \ {0}
  /\ Recv \in [Reqs -> Nat \ {0}]
  /\ Ratio \in Nat \ {0}
  /\ {MayFail, MayAbort} \subseteq BOOLEAN

Slots == 1..NumSlots
Blocks == 1..NumBlocks
Offsets == 0..(Ratio - 1)

(* Sub-block j of a request belongs at place j % Ratio of its block j // Ratio *)
(* (both counted from 0; sequences here count from 1).                         *)
LocalBlocks(r) == (Recv[r] + Ratio - 1) \div Ratio
BlockOf(bs, j) == bs[((j - 1) \div Ratio) + 1]
OffsetOf(j) == (j - 1) % Ratio

VARIABLES
  status,            \* the decode scheduler's view of each request
  blocks,            \* local_block_ids of each request
  recv_free_slots,   \* free list of the worker
  recv_pending,      \* device block -> list of (slot, place in the block)
  transfers,         \* _recving_transfers, and how the transfer stands
  failed_recv_reqs,  \* reads that were never posted
  invalid_block_ids, \* blocks reported as not loaded
  staging,           \* staging[s]: the (request, sub-block) slot s holds
  device             \* device[b][o]: what place o of block b holds

vars == <<status, blocks, recv_free_slots, recv_pending, transfers, failed_recv_reqs,
          invalid_block_ids, staging, device>>

Init ==
  /\ status = [r \in Reqs |-> "waiting"]
  /\ blocks = [r \in Reqs |-> <<>>]
  /\ recv_free_slots = [i \in 1..NumSlots |-> i]
  /\ recv_pending = [b \in Blocks |-> <<>>]
  /\ transfers = [r \in Reqs |-> "none"]
  /\ failed_recv_reqs = {}
  /\ invalid_block_ids = {}
  /\ staging = [s \in Slots |-> NONE]
  /\ device = [b \in Blocks |-> [o \in Offsets |-> NONE]]

-----------------------------------------------------------------------------
(* The scheduler (external) allocates the blocks and hands the read out.       *)
FreeBlocks == Blocks \ UNION {Range(blocks[r]) : r \in Reqs}

Allocate(r) ==
  /\ status[r] = "waiting"
  /\ \E B \in SUBSET FreeBlocks :
       /\ Cardinality(B) = LocalBlocks(r)
       /\ blocks' = [blocks EXCEPT ![r] = SetToSeq(B)]
  /\ status' = [status EXCEPT ![r] = "allocated"]
  /\ UNCHANGED <<recv_free_slots, recv_pending, transfers, failed_recv_reqs,
                 invalid_block_ids, staging, device>>

(* _read_blocks, joint path: too few free slots are logged, and that is all.   *)
ReadExhausted(r) ==
  /\ status[r] = "allocated"
  /\ Len(recv_free_slots) < Recv[r]
  /\ status' = [status EXCEPT ![r] = "recving"]
  /\ UNCHANGED <<blocks, recv_free_slots, recv_pending, transfers, failed_recv_reqs,
                 invalid_block_ids, staging, device>>

Left(r) == Len(recv_free_slots) - Recv[r]
RecvSlots(r) == Reverse(SubSeq(recv_free_slots, Left(r) + 1, Len(recv_free_slots)))

(* Each slot is recorded for the place its sub-block goes to.                  *)
Record(pending, e) == [pending EXCEPT ![e.for] = Append(@, e)]
Recording == INSTANCE LeftFold WITH Step <- Record

Entries(r) ==
  [j \in 1..Recv[r] |->
     [slot |-> RecvSlots(r)[j], off |-> OffsetOf(j), for |-> BlockOf(blocks[r], j)]]

PendingWith(r) == Recording!Fold(recv_pending, Entries(r))

ReadPosted(r) ==
  /\ status[r] = "allocated"
  /\ Left(r) >= 0
  /\ recv_free_slots' = SubSeq(recv_free_slots, 1, Left(r))
  /\ recv_pending' = PendingWith(r)
  /\ transfers' = [transfers EXCEPT ![r] = "active"]
  /\ status' = [status EXCEPT ![r] = "recving"]
  /\ UNCHANGED <<blocks, failed_recv_reqs, invalid_block_ids, staging, device>>

(* make_prepped_xfer or transfer raises: the slots go back, the pending        *)
(* entries of the request's blocks are dropped and the failure is reported.    *)
ReadRefused(r) ==
  /\ MayFail
  /\ status[r] = "allocated"
  /\ Left(r) >= 0
  /\ recv_free_slots' = SubSeq(recv_free_slots, 1, Left(r)) \o RecvSlots(r)
  /\ recv_pending' = [b \in Blocks |-> IF b \in Range(blocks[r]) THEN <<>> ELSE recv_pending[b]]
  /\ invalid_block_ids' = invalid_block_ids \union Range(blocks[r])
  /\ failed_recv_reqs' = failed_recv_reqs \union {r}
  /\ status' = [status EXCEPT ![r] = "recving"]
  /\ UNCHANGED <<blocks, transfers, staging, device>>

(* The slots of r in the order its sub-blocks were recorded.                   *)
SlotOf(r, j) ==
  CHOOSE s \in Slots :
    \E i \in DOMAIN recv_pending[BlockOf(blocks[r], j)] :
      LET e == recv_pending[BlockOf(blocks[r], j)][i] IN e.slot = s /\ e.off = OffsetOf(j)

(* NIXL (external) ends a transfer: all sub-blocks arrived, or an error after  *)
(* any part of them.                                                           *)
TransferEnds(r) ==
  /\ transfers[r] = "active"
  /\ \E arrived \in SUBSET (1..Recv[r]) :
       /\ arrived # 1..Recv[r] => MayFail
       /\ staging' = [s \in Slots |->
            IF \E j \in arrived : SlotOf(r, j) = s
              THEN <<r, CHOOSE j \in arrived : SlotOf(r, j) = s>> ELSE staging[s]]
       /\ transfers' = [transfers EXCEPT ![r] = IF arrived = 1..Recv[r] THEN "done" ELSE "error"]
  /\ UNCHANGED <<status, blocks, recv_free_slots, recv_pending, failed_recv_reqs,
                 invalid_block_ids, device>>

(* post_process_device_kv_on_receive for the given blocks.                     *)
UnstagedFirst(bs, b, o) ==  \* mutant: ignores tok_start
  IF b \in Range(bs) /\ recv_pending[b] # <<>>
    THEN staging[recv_pending[b][1].slot] ELSE device[b][o]

Unstaged(bs, b, o) ==
  LET here == {i \in DOMAIN recv_pending[b] : recv_pending[b][i].off = o}
  IN  IF b \in Range(bs) /\ here # {}
        THEN staging[recv_pending[b][CHOOSE i \in here : \A k \in here : k <= i].slot]
        ELSE device[b][o]

SlotsOf(pend) == [k \in 1..Len(pend) |-> pend[k].slot]
SlotsPendingFor(bs) == Flat([i \in 1..Len(bs) |-> SlotsOf(recv_pending[bs[i]])])

PostProcessKeeps(bs) ==  \* mutant: the pending entries are read but not popped
  /\ device' = [b \in Blocks |-> [o \in Offsets |-> Unstaged(bs, b, o)]]
  /\ recv_free_slots' = recv_free_slots \o SlotsPendingFor(bs)
  /\ UNCHANGED recv_pending

PostProcess(bs) ==
  /\ device' = [b \in Blocks |-> [o \in Offsets |-> Unstaged(bs, b, o)]]
  /\ recv_free_slots' = recv_free_slots \o SlotsPendingFor(bs)
  /\ recv_pending' = [b \in Blocks |-> IF b \in Range(bs) THEN <<>> ELSE recv_pending[b]]

(* get_finished (external) collects every ended and refused read, has them     *)
(* post-processed, and the scheduler is told: a loaded request may run, one    *)
(* with invalid blocks is recomputed, an aborted one gives its blocks up.      *)
EndedTransfers == {r \in Reqs : transfers[r] \in {"done", "error"}}  \* mutant: forgets _failed_recv_reqs
Ended == {r \in Reqs : transfers[r] \in {"done", "error"}} \union failed_recv_reqs

GetFinished ==
  LET over == Ended
      bad  == invalid_block_ids \union UNION {Range(blocks[r]) : r \in {q \in Reqs : transfers[q] = "error"}}
  IN  /\ over # {}
      /\ PostProcess(Flat([i \in 1..Cardinality(over) |-> blocks[SetToSeq(over)[i]]]))
      /\ status' = [r \in Reqs |->
           IF r \notin over THEN status[r]
           ELSE IF status[r] = "aborted" THEN "finished"
           ELSE IF Range(blocks[r]) \cap bad # {} THEN "recompute" ELSE "ready"]
      /\ blocks' = [r \in Reqs |-> IF r \in over /\ status[r] = "aborted" THEN <<>> ELSE blocks[r]]
      /\ transfers' = [r \in Reqs |-> IF r \in over THEN "none" ELSE transfers[r]]
      /\ failed_recv_reqs' = {}
      /\ invalid_block_ids' = {}
      /\ UNCHANGED staging

(* An aborted request's blocks are kept until its read is reported finished.   *)
Abort(r) ==
  /\ MayAbort
  /\ status[r] = "recving"
  /\ status' = [status EXCEPT ![r] = "aborted"]
  /\ UNCHANGED <<blocks, recv_free_slots, recv_pending, transfers, failed_recv_reqs,
                 invalid_block_ids, staging, device>>

(* The request has decoded and gives its blocks to others.                     *)
Finish(r) ==
  /\ status[r] \in {"ready", "recompute"}
  /\ status' = [status EXCEPT ![r] = "finished"]
  /\ blocks' = [blocks EXCEPT ![r] = <<>>]
  /\ UNCHANGED <<recv_free_slots, recv_pending, transfers, failed_recv_reqs,
                 invalid_block_ids, staging, device>>

Next ==
  \/ \E r \in Reqs :
       \/ Allocate(r) \/ Abort(r) \/ Finish(r)
       \/ ReadExhausted(r) \/ ReadPosted(r) \/ ReadRefused(r)
       \/ TransferEnds(r)
  \/ GetFinished

Spec == Init /\ [][Next]_vars

(* The worker issues each read it was handed, NIXL ends each transfer, and the *)
(* worker polls get_finished at every step.                                    *)
Fairness ==
  /\ \A r \in Reqs : WF_vars(ReadExhausted(r) \/ ReadPosted(r) \/ ReadRefused(r))
  /\ \A r \in Reqs : WF_vars(TransferEnds(r))
  /\ WF_vars(GetFinished)

LiveSpec == Spec /\ Fairness

-----------------------------------------------------------------------------
Contents == (Reqs \X Nat) \union {NONE}

TypeOK ==
  /\ status \in [Reqs -> {"waiting", "allocated", "recving", "ready", "recompute", "aborted", "finished"}]
  /\ blocks \in [Reqs -> Seq(Blocks)]
  /\ recv_free_slots \in Seq(Slots)
  /\ recv_pending \in [Blocks -> Seq([slot : Slots, off : Offsets, for : Blocks])]
  /\ transfers \in [Reqs -> {"none", "active", "done", "error"}]
  /\ failed_recv_reqs \subseteq Reqs
  /\ invalid_block_ids \subseteq Blocks
  /\ staging \in [Slots -> Contents]
  /\ device \in [Blocks -> [Offsets -> Contents]]

(* Each slot is exactly once in the free list or in the pending map: refused,  *)
(* failed, aborted and completed reads neither lose nor duplicate a slot.      *)
RecvPartition ==
  \A s \in Slots :
    Cardinality({i \in DOMAIN recv_free_slots : recv_free_slots[i] = s})
      + Cardinality({x \in Blocks \X Slots :
          x[2] \in DOMAIN recv_pending[x[1]] /\ recv_pending[x[1]][x[2]].slot = s}) = 1

(* A request that may run finds each of its sub-blocks, and no one else's, at  *)
(* its place in its device blocks.                                             *)
ReceivedIntact ==
  \A r \in Reqs : status[r] = "ready" =>
    \A j \in 1..Recv[r] : device[BlockOf(blocks[r], j)][OffsetOf(j)] = <<r, j>>

(* Every read that was handed to the worker is eventually reported finished.   *)
Reported(r) == status[r] \in {"ready", "recompute", "finished"}
ReadReported == \A r \in Reqs : (status[r] = "allocated") ~> Reported(r)

(* A read the worker finds slots for is eventually reported finished, whether  *)
(* it is posted, refused, broken off by NIXL or aborted by the scheduler.      *)
TakenReadReported ==
  \A r \in Reqs : (transfers[r] = "active" \/ r \in failed_recv_reqs) ~> Reported(r)

(* The slots a request holds: those of the pending entries of its blocks.      *)
HeldSlots(r) == {e.slot : e \in UNION {Range(recv_pending[b]) : b \in Range(blocks[r])}}

Lease == INSTANCE SlotLease WITH
  Need <- Recv,
  held <- [r \in Reqs |-> HeldSlots(r)],
  inUse <- {r \in Reqs : transfers[r] = "active"}

(* The recv pool implements the abstract lease: no transfer in flight shares   *)
(* or loses a slot.                                                            *)
LeaseSpec == Lease!Spec
=============================================================================
