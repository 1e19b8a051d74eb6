---------------------------- MODULE JointStaging ----------------------------
(***************************************************************************)
(* The producer (prefill) side of joint-KV staging in                      *)
(* hetero_hpu_nixl_connector.py: the scheduler-side slot allocator, the    *)
(* save and deferred-save queues, the metadata handed to the worker, the   *)
(* worker's copy into the staging buffer, and the end of a request.        *)
(*                                                                         *)
(* External: vLLM's scheduler (which requests run, stop, are preempted or  *)
(* aborted), the upstream worker's send bookkeeping, and the decode        *)
(* instance that reads the advertised slots by remote DMA.                 *)
(***************************************************************************)
EXTENDS Integers, Sequences, FiniteSets, SequencesExt, SequenceLoops

CONSTANTS
  Reqs,         \* requests with do_remote_decode
  NumSlots,     \* staging slots: joint_kv_staging_slots()
  Need,         \* Need[r] = ceil(num_prompt_tokens / block_size_on_save)
  Chunks,       \* Chunks[r]: prefill steps of r
  Decodes,      \* Decodes[r]: steps after the prefill until r is LENGTH_CAPPED
  MaxSeqs,      \* max_num_seqs
  Lookahead,    \* 0: synchronous, 1: async scheduling (one step ahead)
  MaxPreempts,  \* bound: preemptions of one request
  MayStop,      \* may a request be aborted or sample a stop token?
  MayExpire,    \* may VLLM_NIXL_ABORT_REQUEST_TIMEOUT expire?
  Sparse,       \* may a prefill chunk fit in blocks already allocated?
  NONE          \* contents of a slot that are no request's KV

ASSUME ConstantsAssumption ==
  /\ IsFiniteSet(Reqs)
  /\ NumSlots \in Nat \ {0}
  /\ Need \in [Reqs -> Nat \ {0}]
  /\ Chunks \in [Reqs -> Nat \ {0}]
  /\ Decodes \in [Reqs -> Nat]
  /\ MaxSeqs \in Nat \ {0}
  /\ Lookahead \in {0, 1}
  /\ MaxPreempts \in Nat
  /\ {MayStop, MayExpire, Sparse} \subseteq BOOLEAN
  /\ NONE \notin Reqs

Slots == 1..NumSlots
Total(r) == Chunks[r] + Decodes[r]

VARIABLES
  conn,      \* state of NixlConnectorScheduler, fields named as in the code
  status,    \* what became of each request
  progress,  \* engine steps scheduled for each request since it was (re)started
  epoch,     \* epoch[r] changes whenever the device blocks of r are given up
  steps,     \* engine steps scheduled and not yet processed by the scheduler
  staging,   \* staging[s]: the request whose KV slot s holds
  sender,    \* upstream worker: _reqs_to_process and _reqs_to_send
  remote,    \* the decode instance: what it does with each request
  advert,    \* remote_block_ids advertised for each request
  notified   \* read-complete notifications on their way to the worker

vars == <<conn, status, progress, epoch, steps, staging, sender, remote, advert, notified>>
remoteVars == <<remote, advert, notified>>

NoSlots == [r \in Reqs |-> <<>>]

Init ==
  /\ conn = [staging_free       |-> [i \in 1..NumSlots |-> i],
             staging_by_req     |-> NoSlots,
             deferred_saves     |-> <<>>,
             reqs_need_save     |-> {},
             partial_reqs       |-> NoSlots,
             reqs_need_send     |-> {},
             reqs_in_batch      |-> {},
             reqs_not_processed |-> {}]
  /\ status = [r \in Reqs |-> "waiting"]
  /\ progress = [r \in Reqs |-> 0]
  /\ epoch = [r \in Reqs |-> 0]
  /\ steps = <<>>
  /\ staging = [s \in Slots |-> NONE]
  /\ sender = [process |-> {}, send |-> {}]
  /\ remote = [r \in Reqs |-> "none"]
  /\ advert = NoSlots
  /\ notified = {}

-----------------------------------------------------------------------------
(* _alloc_staging_slots: all or nothing, popped from the end of the free       *)
(* list, and idempotent for a request that holds slots.                        *)
AllocPartial(c, r) ==  \* mutant: hands out what is left of the pool
  LET rest == IF Len(c.staging_free) < Need[r] THEN 0 ELSE Len(c.staging_free) - Need[r]
  IN  IF c.staging_by_req[r] # <<>> THEN c
      ELSE [c EXCEPT !.staging_by_req[r] = Reverse(SubSeq(c.staging_free, rest + 1, Len(c.staging_free))),
                     !.staging_free = SubSeq(c.staging_free, 1, rest)]

AllocNoPop(c, r) ==  \* mutant: leaves the slots on the free list
  LET rest == Len(c.staging_free) - Need[r]
  IN  IF c.staging_by_req[r] # <<>> \/ rest < 0 THEN c
      ELSE [c EXCEPT !.staging_by_req[r] = Reverse(SubSeq(c.staging_free, rest + 1, rest + Need[r]))]

AllocStagingSlots(c, r) ==
  LET rest == Len(c.staging_free) - Need[r]
  IN  IF c.staging_by_req[r] # <<>> \/ rest < 0 THEN c
      ELSE [c EXCEPT !.staging_by_req[r] = Reverse(SubSeq(c.staging_free, rest + 1, rest + Need[r])),
                     !.staging_free = SubSeq(c.staging_free, 1, rest)]

FreeStagingSlotsKeep(c, r) ==  \* mutant: the reservation is not popped
  [c EXCEPT !.staging_free = c.staging_free \o c.staging_by_req[r]]

FreeStagingSlots(c, r) ==
  [c EXCEPT !.staging_free = c.staging_free \o c.staging_by_req[r],
            !.staging_by_req[r] = <<>>]

WithoutDeferred(c, r) ==
  [c EXCEPT !.deferred_saves = OnlyIn(@, {e \in Range(@) : e.req # r})]

(* The dict _deferred_saves keeps the place of a key that is set again.        *)
Defer(c, e) ==
  IF \E i \in DOMAIN c.deferred_saves : c.deferred_saves[i].req = e.req
    THEN [c EXCEPT !.deferred_saves =
            [i \in DOMAIN @ |-> IF @[i].req = e.req THEN e ELSE @[i]]]
    ELSE [c EXCEPT !.deferred_saves = Append(@, e)]

(* _try_schedule_joint_save, with its caller's reaction to a full pool.  p is  *)
(* the connector state with the saves of the metadata being built.             *)
TrySave(p, e) ==
  LET c == AllocStagingSlots(p.conn, e.req)
  IN  IF c.staging_by_req[e.req] = <<>>
        THEN [p EXCEPT !.conn = Defer(c, e)]
        ELSE [conn |-> c, save |-> [p.save EXCEPT ![e.req] =
                [slots |-> c.staging_by_req[e.req], blocks |-> e.blocks]]]

NoSave == [r \in Reqs |-> [slots |-> <<>>, blocks |-> <<>>]]

Draining == INSTANCE LeftFold WITH Step <- TrySave

(* One turn of build_connector_meta's loop over the scheduled requests: e says *)
(* whether the request has new block ids and whether its prefill is done.  A   *)
(* request's device blocks are represented by the epoch they belong to.        *)
SaveScheduled(p, e) ==
  LET r == e.req
      blocks == Append(p.conn.partial_reqs[r], epoch[r])
      q == [p EXCEPT !.conn.partial_reqs[r] = blocks]
      tried == TrySave(q, [req |-> r, blocks |-> blocks])
  IN  IF r \notin p.conn.reqs_need_save \/ ~e.withBlocks THEN p
      ELSE IF ~e.done THEN q
      ELSE [tried EXCEPT !.conn.reqs_need_save = @ \ {r},
                         !.conn.partial_reqs[r] = <<>>]

Saving == INSTANCE LeftFold WITH Step <- SaveScheduled

DrainNothing(c) == [conn |-> c, save |-> NoSave]  \* mutant: deferred saves are not retried

DrainDeferred(c) ==
  Draining!Fold([conn |-> [c EXCEPT !.deferred_saves = <<>>], save |-> NoSave], c.deferred_saves)

BuildConnectorMeta(c, order, withBlocks, done) ==
  LET rows  == [i \in DOMAIN order |-> [req |-> order[i], withBlocks |-> order[i] \in withBlocks,
                                       done |-> order[i] \in done]]
      saved == Saving!Fold(DrainDeferred(c), rows)
  IN  [conn |-> [saved.conn EXCEPT !.reqs_need_send = {},
                                   !.reqs_in_batch = {},
                                   !.reqs_not_processed = {}],
       meta |-> [save    |-> saved.save,
                 send    |-> c.reqs_need_send,
                 batch   |-> c.reqs_in_batch,
                 dropped |-> c.reqs_not_processed]]

(* Scheduler.schedule (external) picks the requests of the next step.  It      *)
(* calls update_state_after_alloc for those it takes from the waiting queue,   *)
(* and build_connector_meta at its end.                                        *)
UpdateStateAfterAlloc(c, started) ==
  [c EXCEPT !.reqs_in_batch = @ \union started,
            !.reqs_need_save = @ \union started]

Running == {r \in Reqs : status[r] = "running"}
Waiting == {r \in Reqs : status[r] = "waiting"}

Schedulable == Waiting \union {r \in Running : progress[r] < Total(r)}

Schedule(S) ==
  /\ Len(steps) <= Lookahead
  /\ S \subseteq Schedulable
  /\ Cardinality(Running \union S) <= MaxSeqs
  /\ \E order \in SetToSeqs(S), withBlocks \in SUBSET S :
       LET started == S \cap Waiting
           after   == [r \in Reqs |-> IF r \in S THEN progress[r] + 1 ELSE progress[r]]
           done    == {r \in S : after[r] >= Chunks[r]}
           built   == BuildConnectorMeta(UpdateStateAfterAlloc(conn, started), order, withBlocks, done)
       IN  /\ started \subseteq withBlocks
           /\ ~Sparse => withBlocks = S
           /\ conn' = built.conn
           /\ progress' = after
           /\ status' = [r \in Reqs |-> IF r \in S THEN "running" ELSE status[r]]
           /\ steps' = Append(steps,
                [meta |-> built.meta, epoch |-> epoch, order |-> order, sampled |-> done,
                 capped |-> {r \in S : after[r] = Total(r)}, executed |-> FALSE, finished_sending |-> {}])
  /\ UNCHANGED <<epoch, staging, sender, remoteVars>>

(* The scheduler (external) takes a running request's blocks away; it restarts *)
(* from the waiting queue with new blocks (and, since the connector never sees *)
(* how many tokens are left, again with Decodes[r] decode steps). What steps   *)
(* in flight sample for it is discarded.                                       *)
Preempt(r) ==
  /\ r \in Running
  /\ epoch[r] < MaxPreempts
  /\ \A i \in DOMAIN steps : r \notin steps[i].capped
  /\ Len(steps) <= Lookahead
  /\ steps' = [i \in DOMAIN steps |->
       [steps[i] EXCEPT !.sampled = @ \ {r}]]
  /\ status' = [status EXCEPT ![r] = "waiting"]
  /\ progress' = [progress EXCEPT ![r] = 0]
  /\ epoch' = [epoch EXCEPT ![r] = @ + 1]
  /\ UNCHANGED <<conn, staging, sender, remoteVars>>

-----------------------------------------------------------------------------
(* The worker runs the oldest step: it takes over the metadata, runs the       *)
(* forward pass, copies the KV of reqs_to_save into the slots (wait_for_save   *)
(* -> kv_caches_postprocess -> _save_kv_to_staging) and reports finished       *)
(* sends.  The send bookkeeping is the upstream worker's (external).  Blocks   *)
(* given up after the step was scheduled still hold what it needs.             *)
SavedContents(save, at) ==
  [s \in Slots |->
     IF \E r \in Reqs : s \in Range(save[r].slots)
       THEN LET r == CHOOSE r \in Reqs : s \in Range(save[r].slots)
            IN  IF Range(save[r].blocks) = {at[r]} THEN r ELSE NONE
       ELSE staging[s]]

Execute ==
  \E i \in DOMAIN steps :
    LET meta    == steps[i].meta
        process == (sender.process \union meta.batch) \ meta.dropped
        send    == sender.send \union (meta.send \cap process)
        heard   == notified \cap (send \union process)
    IN  /\ ~steps[i].executed
        /\ \A j \in 1..(i - 1) : steps[j].executed
        /\ \E expired \in SUBSET (send \ heard) :
             /\ ~MayExpire => expired = {}
             /\ sender' = [process |-> process \ (heard \union expired),
                           send |-> send \ (heard \union expired)]
             /\ steps' = [steps EXCEPT ![i].executed = TRUE,
                                       ![i].finished_sending = heard \union expired]
        /\ staging' = SavedContents(meta.save, steps[i].epoch)
        /\ notified' = {}
        /\ UNCHANGED <<conn, status, progress, epoch, remote, advert>>

-----------------------------------------------------------------------------
(* request_finished for a request that was aborted or sampled a stop token     *)
(* (any status but FINISHED_LENGTH_CAPPED).                                    *)
FinishStopped(c, r) ==
  [c EXCEPT !.reqs_not_processed = @ \union {r},
            !.reqs_need_save = @ \ {r},
            !.partial_reqs[r] = <<>>]

(* request_finished for a LENGTH_CAPPED request: it holds slots already, or    *)
(* gets them now, or is failed.                                                *)
FinishCapped(c, r) ==
  LET a == AllocStagingSlots(c, r)
  IN  IF a.staging_by_req[r] # <<>>
        THEN [a EXCEPT !.reqs_need_send = @ \union {r}]
        ELSE [WithoutDeferred(a, r) EXCEPT !.reqs_not_processed = @ \union {r}]

(* One turn of update_from_output's loop (external) over the requests of a     *)
(* step: e says whether the request stopped or reached its cap.                *)
EndRequest(c, e) ==
  IF e.stopped THEN FinishStopped(c, e.req) ELSE IF e.capped THEN FinishCapped(c, e.req) ELSE c

Finishing == INSTANCE LeftFold WITH Step <- EndRequest
Releasing == INSTANCE LeftFold WITH Step <- FreeStagingSlots

Abort(r) ==
  /\ MayStop
  /\ status[r] \in {"waiting", "running"}
  /\ conn' = FinishStopped(conn, r)
  /\ status' = [status EXCEPT ![r] = "dropped"]
  /\ epoch' = [epoch EXCEPT ![r] = @ + 1]
  /\ UNCHANGED <<progress, steps, staging, sender, remoteVars>>

(* Scheduler.update_from_output for the oldest step: request_finished for each *)
(* request it ends, in order, then update_connector_output.  The engine loop   *)
(* schedules ahead as far as it may before it takes a step's output.           *)
Update ==
  /\ Len(steps) = Lookahead + 1
  /\ Head(steps).executed
  /\ LET step  == Head(steps)
         alive == step.sampled \cap Running
         sent  == step.finished_sending
     IN \E stopped \in SUBSET alive :
         LET capped   == (step.capped \cap alive) \ stopped
             finished == Finishing!Fold(conn, [i \in DOMAIN step.order |->
                           [req |-> step.order[i], stopped |-> step.order[i] \in stopped,
                            capped |-> step.order[i] \in capped]])
             offered  == {r \in capped : finished.staging_by_req[r] # <<>>}
         IN  /\ ~MayStop => stopped = {}
             /\ conn' = Releasing!Fold(finished, SetToSeq(sent))
             /\ status' = [r \in Reqs |->
                  CASE r \in stopped -> "dropped"
                    [] r \in offered -> "advertised"
                    [] r \in capped \ offered -> "failed"
                    [] r \in sent \ (stopped \union capped) -> "released"
                    [] OTHER -> status[r]]
             /\ epoch' = [r \in Reqs |->
                  IF r \in sent \union stopped \union (capped \ offered) THEN epoch[r] + 1 ELSE epoch[r]]
             /\ remote' = [r \in Reqs |-> IF r \in offered THEN "ready" ELSE remote[r]]
             /\ advert' = [r \in Reqs |->
                  IF r \in offered THEN finished.staging_by_req[r] ELSE advert[r]]
  /\ steps' = Tail(steps)
  /\ UNCHANGED <<progress, staging, sender, notified>>

-----------------------------------------------------------------------------
(* The decode instance (external) reads the advertised slots and notifies; on  *)
(* a full prefix hit or an abort it notifies without reading.                  *)
ReadBegin(r) ==
  /\ remote[r] = "ready"
  /\ remote' = [remote EXCEPT ![r] = "reading"]
  /\ UNCHANGED <<conn, status, progress, epoch, steps, staging, sender, advert, notified>>

ReadEnd(r) ==
  /\ remote[r] \in {"ready", "reading"}
  /\ remote' = [remote EXCEPT ![r] = "done"]
  /\ notified' = notified \union {r}
  /\ UNCHANGED <<conn, status, progress, epoch, steps, staging, sender, advert>>

Next ==
  \/ \E S \in SUBSET Reqs : Schedule(S)
  \/ Execute
  \/ Update
  \/ \E r \in Reqs : Preempt(r) \/ Abort(r) \/ ReadBegin(r) \/ ReadEnd(r)

Spec == Init /\ [][Next]_vars

(* The engine loop keeps stepping while the prefill instance is in service,    *)
(* the scheduler serves every request it can, and the decode instance ends     *)
(* each read it was offered.                                                   *)
Fairness ==
  /\ WF_vars(\E S \in SUBSET Reqs : Schedule(S))
  /\ \A r \in Reqs : SF_vars(\E S \in SUBSET Reqs : r \in S /\ Schedule(S))
  /\ WF_vars(Execute)
  /\ WF_vars(Update)
  /\ \A r \in Reqs : WF_vars(ReadEnd(r))

LiveSpec == Spec /\ Fairness

-----------------------------------------------------------------------------
Holding == {r \in Reqs : conn.staging_by_req[r] # <<>>}
Deferred == {conn.deferred_saves[i].req : i \in DOMAIN conn.deferred_saves}
Saves == [Reqs -> [slots : Seq(Slots), blocks : Seq(Nat)]]

TypeOK ==
  /\ conn \in [staging_free : Seq(Slots), staging_by_req : [Reqs -> Seq(Slots)],
               deferred_saves : Seq([req : Reqs, blocks : Seq(Nat)]),
               reqs_need_save : SUBSET Reqs, partial_reqs : [Reqs -> Seq(Nat)],
               reqs_need_send : SUBSET Reqs, reqs_in_batch : SUBSET Reqs,
               reqs_not_processed : SUBSET Reqs]
  /\ status \in [Reqs -> {"waiting", "running", "advertised", "released", "failed", "dropped"}]
  /\ progress \in [Reqs -> Nat] /\ \A r \in Reqs : progress[r] <= Total(r)
  /\ epoch \in [Reqs -> 0..(MaxPreempts + 1)]
  /\ steps \in Seq([meta : [save : Saves, send : SUBSET Reqs, batch : SUBSET Reqs, dropped : SUBSET Reqs],
                   epoch : [Reqs -> 0..(MaxPreempts + 1)], order : Seq(Reqs), sampled : SUBSET Reqs,
                   capped : SUBSET Reqs, executed : BOOLEAN, finished_sending : SUBSET Reqs])
  /\ Len(steps) <= Lookahead + 1
  /\ staging \in [Slots -> Reqs \union {NONE}]
  /\ sender \in [process : SUBSET Reqs, send : SUBSET Reqs]
  /\ remote \in [Reqs -> {"none", "ready", "reading", "done"}]
  /\ advert \in [Reqs -> Seq(Slots)]
  /\ notified \subseteq Reqs

(* Whatever is aborted, preempted, expired or deferred, every slot is at all   *)
(* times exactly once in the free list or in one request's reservation: the    *)
(* free list never returns a slot twice and never loses one.                   *)
SlotsPartition ==
  \A s \in Slots :
    Cardinality({i \in DOMAIN conn.staging_free : conn.staging_free[i] = s})
      + Cardinality({x \in Reqs \X Slots :
          x[2] \in DOMAIN conn.staging_by_req[x[1]] /\ conn.staging_by_req[x[1]][x[2]] = s}) = 1

(* All the time the decode instance reads a request's advertised slots, they   *)
(* hold that request's KV: saved before they were offered, and not reused for  *)
(* another request before the read ends.                                       *)
ReadIntact ==
  \A r \in Reqs : remote[r] = "reading" =>
    /\ advert[r] # <<>>
    /\ \A i \in DOMAIN advert[r] : staging[advert[r][i]] = r

(* A reservation is never orphaned: its request is still served by the         *)
(* scheduler, or its end of transfer is still to be reported by the worker.    *)
SendPending ==
  conn.reqs_need_send \union sender.send
    \union UNION {steps[i].meta.send \union steps[i].finished_sending : i \in DOMAIN steps}

NoOrphanSlots ==
  /\ \A r \in Holding :
       status[r] \notin {"waiting", "running"} => status[r] = "advertised" /\ r \in SendPending
  /\ \A r \in Deferred : status[r] = "running" /\ r \notin Holding

(* Every request that reaches request_finished has a staging reservation: none *)
(* is failed for lack of slots.                                                *)
ReservationGuaranteed == \A r \in Reqs : status[r] # "failed"

(* Slots that were reserved come back to the pool.                             *)
SlotsReturn == \A r \in Reqs : (r \in Holding) ~> (r \notin Holding)

(* A deferred save is eventually carried out or given up.                      *)
DeferralEnds == \A r \in Reqs : (r \in Deferred) ~> (r \notin Deferred)

(* Nothing is held or put off for ever, although requests wait for each        *)
(* other's slots.                                                              *)
NothingStuck == SlotsReturn /\ DeferralEnds

(* The lease a request holds, seen through the connector's state.              *)
Lease == INSTANCE SlotLease WITH
  held <- [r \in Reqs |-> Range(conn.staging_by_req[r])],
  inUse <- {r \in Reqs : remote[r] = "reading"}

(* The allocator and its queues implement the abstract lease: reservations are *)
(* all or nothing, and what a remote read is using is neither returned nor     *)
(* changed.                                                                    *)
LeaseSpec == Lease!Spec
=============================================================================
