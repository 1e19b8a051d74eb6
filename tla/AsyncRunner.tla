---------------------------- MODULE AsyncRunner ----------------------------
(***************************************************************************)
(* Asynchronous scheduling: a step is scheduled and run before the tokens  *)
(* of the one before it are known to the scheduler.  The runner feeds each *)
(* decode from the previous step's sampled ids on the device, found by the *)
(* row the request had then, and puts -1 in output_token_ids until the     *)
(* real id has been copied to the host; the scheduler counts placeholders. *)
(*                                                                         *)
(* A token is named by its request and its place in the output: the k-th   *)
(* token of r is [of |-> r, at |-> k], prompt tokens have places up to 0.  *)
(* Device and host copies are in order: get_output and the repair wait for *)
(* the copy they read (copy-ready event).                                  *)
(*                                                                         *)
(* External: AsyncScheduler.schedule and the engine core's queue of at     *)
(* most two steps in flight.                                               *)
(***************************************************************************)
EXTENDS BatchStep, SequenceLoops

CONSTANTS
  MaxOut,           \* output tokens after which a request is finished
  HasPenalty,       \* requests whose sampling reads output_token_ids
  MaxPreempts,      \* bound: preemptions of one request
  Hits,             \* prefix-cache hit lengths of requests that resume
  Chunked,          \* may a step schedule a part of the remaining tokens?
  MayPause,         \* may a running request be left out of a step?
  MayStop,          \* may a request stop before MaxOut tokens?
  MayDiscard        \* may a preemption discard a first token that is in flight?

ASSUME AsyncAssumption ==
  /\ MaxOut \in Nat \ {0} /\ MaxPreempts \in Nat
  /\ HasPenalty \subseteq Reqs /\ Hits \subseteq Nat
  /\ {Chunked, MayPause, MayStop, MayDiscard} \subseteq BOOLEAN

VARIABLES
  sched,    \* the scheduler's requests: st, comp, ph (num_output_placeholders), epoch
  stream,   \* their output_token_ids
  frames,   \* steps in flight, oldest first (AsyncHPUModelRunnerOutput)
  batch,    \* input_batch
  outputs,  \* output_token_ids of the runner's cached request states
  cpu,      \* the output part of the request's row of token_ids_cpu
  prev,     \* prev_sampled_token_ids, prev_req_id_to_index; spare: sampled_token_ids_cpu is kept
  ids,      \* input_ids_hpu, as far as decodes read it
  latest    \* of the latest step: requests fed a wrong token, or sampled with a wrong history

vars == <<sched, stream, frames, batch, outputs, cpu, prev, ids, latest>>

Token(r, k) == [of |-> r, at |-> k]
MINUS1 == Token(NONE, 0)  \* -1 in output_token_ids, 0 in a new input_ids_hpu

In(state) == {r \in Reqs : sched.st[r] = state}

Init ==
  /\ sched = [st |-> [r \in Reqs |-> "new"], comp |-> [r \in Reqs |-> 0],
              ph |-> [r \in Reqs |-> 0], epoch |-> [r \in Reqs |-> 0]]
  /\ stream = [r \in Reqs |-> <<>>]
  /\ frames = <<>>
  /\ batch = EmptyBatch
  /\ outputs = [r \in Reqs |-> <<>>]
  /\ cpu = [r \in Reqs |-> <<>>]
  /\ prev = [ids |-> <<>>, index |-> [r \in {} |-> 0], spare |-> FALSE]
  /\ ids = [i \in Rows |-> MINUS1]
  /\ latest = [misfed |-> {}, misread |-> {}]

-----------------------------------------------------------------------------
(* The scheduler (external).  A request that will have MaxOut tokens once its  *)
(* steps in flight are processed is not scheduled again.                       *)
Known(r) == PromptLen[r] + Len(stream[r]) + sched.ph[r]
Capped(r) == Len(stream[r]) + sched.ph[r] >= MaxOut

Amounts == [Reqs -> 0..Max(Range(PromptLen)) + MaxOut - 1]

LegalSchedule(pre, n, hit) ==
  LET stay == In("running") \ pre
      join == {r \in In("new") \union In("preempted") : n[r] > 0}
      from(r) == IF r \in stay THEN sched.comp[r] ELSE IF sched.st[r] = "new" THEN 0 ELSE hit
  IN  /\ pre # {} \/ \E r \in Reqs : n[r] > 0
      /\ \A r \in pre : sched.epoch[r] < MaxPreempts
      /\ pre # {} => join = {}
      /\ Cardinality(stay \union join) <= MaxReqs
      /\ join \cap In("new") # {} => In("preempted") \subseteq join
      /\ \A r \in Reqs : n[r] > 0 =>
           /\ r \in stay \union join
           /\ ~Capped(r)
           /\ n[r] = Known(r) - from(r) \/ (Chunked /\ n[r] < Known(r) - from(r))
      /\ ~MayPause => \A r \in stay : Known(r) > sched.comp[r] /\ ~Capped(r) => n[r] > 0

(* schedule() advances the computed tokens; a request that catches up with     *)
(* what is known of it, placeholders included, gets one placeholder more.  Of  *)
(* the preempted requests, those of discarded lose their tokens in flight.     *)
Scheduled(pre, discarded, n, hit) ==
  LET start(r) == IF sched.st[r] = "running" THEN sched.comp[r]
                  ELSE IF sched.st[r] = "new" THEN 0 ELSE hit
  IN  [st    |-> [r \in Reqs |-> IF r \in pre THEN "preempted" ELSE IF n[r] > 0 THEN "running" ELSE sched.st[r]],
       comp  |-> [r \in Reqs |-> IF r \in pre THEN 0 ELSE IF n[r] > 0 THEN start(r) + n[r] ELSE sched.comp[r]],
       ph    |-> [r \in Reqs |-> IF r \in discarded THEN 0
                                 ELSE IF n[r] > 0 /\ start(r) + n[r] = Known(r) THEN sched.ph[r] + 1
                                 ELSE sched.ph[r]],
       epoch |-> [r \in Reqs |-> IF r \in pre THEN sched.epoch[r] + 1 ELSE sched.epoch[r]]]

-----------------------------------------------------------------------------
(* _update_states: a request that comes back with outputs gets them from the   *)
(* scheduler, whose all_token_ids has no placeholders.                         *)
AllTokens(r) == [j \in 1..PromptLen[r] |-> Token(r, j - PromptLen[r])] \o stream[r]

RecoveredNever(n) ==  \* mutant: keeps the list with the placeholder
  outputs

Recovered(n) ==
  [r \in Reqs |->
     LET num_output_tokens == Len(stream[r]) + sched.ph[r]
         all == AllTokens(r)
     IN  IF n[r] > 0 /\ r \notin Members(batch) /\ sched.st[r] # "new" /\ num_output_tokens > 0
           THEN SubSeq(all, Len(all) - num_output_tokens + 1, Len(all))
           ELSE outputs[r]]

(* The columns this module does not read are dropped, and so is what rows past *)
(* the end hold.                                                               *)
Trimmed(b) ==
  [b EXCEPT !.cache = <<>>,
            !.row = [i \in Rows |-> IF i \in DOMAIN b.req_ids
                                      THEN [b.row[i] EXCEPT !.blocks = NoBlocks] ELSE EmptyRow]]

(* _prepare_input_ids, run when there are decodes: the last token of each      *)
(* request that was in the step before comes from prev_sampled_token_ids.      *)
Common(b) == Members(b) \cap DOMAIN prev.index

FlatIndex(b, n, r) == SumOf([i \in 1..b.index[r] |-> n[b.req_ids[i]]])

InputIdsByRow(b, n) ==  \* mutant: takes the request to have kept its row
  [i \in Rows |->
     LET at == {r \in Common(b) : FlatIndex(b, n, r) = i}
     IN  IF at = {} \/ i \notin DOMAIN prev.ids THEN ids[i] ELSE prev.ids[i]]

InputIds(b, n) ==
  [i \in Rows |->
     LET at == {r \in Common(b) : FlatIndex(b, n, r) = i}
     IN  IF at = {} THEN ids[i] ELSE prev.ids[prev.index[CHOOSE r \in at : TRUE]]]

(* update_async_output_token_ids, before a sampler reads the lists: trailing   *)
(* placeholders give way to the id sampled in the step before.                 *)
Repaired(r, outs) ==
  LET known == OnlyIn(outs, Range(outs) \ {MINUS1})
  IN  IF prev.spare /\ r \in DOMAIN prev.index /\ outs # <<>> /\ Last(outs) = MINUS1
        THEN Append(known, prev.ids[prev.index[r]]) ELSE outs

-----------------------------------------------------------------------------
(* The logits of row i, and whether its token is to be discarded: a prompt     *)
(* that is not complete gets one logit.                                        *)
Extra(b, n, i) == b.row[i].comp + n[b.req_ids[i]] - b.row[i].prompt + 1
NumLogits(b, n, i) == Max({1, Min({Extra(b, n, i), n[b.req_ids[i]]})})

InvalidRows(b, n) == {i \in NumDecodes(b, n) + 1..Len(b.req_ids) : Extra(b, n, i) < 1}

(* sampled_token_ids: one for each decode row, then those of the prompts'      *)
(* logits.                                                                     *)
Sampled(b, n) ==
  Flat([i \in DOMAIN b.req_ids |->
    LET r    == b.req_ids[i]
        m    == IF i <= NumDecodes(b, n) THEN 1 ELSE NumLogits(b, n, i)
        last == b.row[i].comp + n[r] - PromptLen[r] + 1
    IN  [j \in 1..m |-> Token(r, last - m + j)]])

(* Requests with a wrong input: decodes read input_ids_hpu, the others their   *)
(* row of token_ids_cpu.                                                       *)
Misfed(b, n, device, host) ==
  {r \in Members(b) :
     LET place == b.row[b.index[r]].comp - PromptLen[r]
     IN  IF b.index[r] <= NumDecodes(b, n)
           THEN device[b.index[r]] # Token(r, place + 1)
           ELSE \E k \in Max({1, place + 1})..place + n[r] :
                  k > Len(host[r]) \/ host[r][k] # Token(r, k)}

(* Requests whose sampling reads output_token_ids other than their own output. *)
Misread(b, n, valid, outs) ==
  {r \in valid \cap HasPenalty :
     outs[r] # [k \in 1..b.row[b.index[r]].comp + n[r] - PromptLen[r] |-> Token(r, k)]}

(* execute_model and sample_tokens for scheduled tokens n, with s the          *)
(* scheduler's requests after schedule(): the runner's state afterwards.  A    *)
(* step that schedules nothing only updates the batch.                         *)
Ran(s, n, order) ==
  LET outs    == Recovered(n)
      host    == [r \in Reqs |-> IF r \in Range(order) THEN outs[r] ELSE cpu[r]]
      known   == [comp |-> s.comp, outs |-> [r \in Reqs |-> Len(outs[r])]]
      updated == UpdatedBatch(batch, known, n, order, [r \in Reqs |-> NoBlocks])
      b       == Reordered(updated, n)
      device  == IF NumDecodes(b, n) > 0 THEN InputIds(b, n) ELSE ids
      invalid == InvalidRows(b, n)
      valid   == {r \in Members(b) : b.index[r] \notin invalid}
      read    == [r \in Reqs |-> IF r \in Members(b) THEN Repaired(r, outs[r]) ELSE outs[r]]
      tokens  == Sampled(b, n)
  IN  IF Members(updated) = {}
        THEN [batch |-> Trimmed(updated), outputs |-> outs, cpu |-> host, prev |-> prev, ids |-> ids,
              frame |-> [index |-> updated.index, tokens |-> <<>>, invalid |-> {}],
              latest |-> [misfed |-> {}, misread |-> {}]]
        ELSE [batch   |-> Trimmed(b),
              outputs |-> [r \in Reqs |-> IF r \in valid THEN Append(read[r], MINUS1) ELSE read[r]],
              cpu     |-> host,
              prev    |-> [ids   |-> tokens,
                           index |-> [r \in valid |-> b.index[r]],
                           spare |-> Members(b) \cap HasPenalty # {}],
              ids     |-> device,
              frame   |-> [index |-> b.index, tokens |-> tokens, invalid |-> invalid],
              latest  |-> [misfed  |-> Misfed(b, n, device, host),
                           misread |-> Misread(b, n, valid, read)]]

(* One step is scheduled and run while at most one other is in flight.         *)
Step ==
  /\ Len(frames) < 2
  /\ \E pre \in SUBSET In("running"), n \in Amounts, hit \in Hits :
       /\ LegalSchedule(pre, n, hit)
       /\ \E discarded \in SUBSET {r \in pre : sched.ph[r] > 0 /\ (MayDiscard \/ stream[r] # <<>>)},
             order \in SetToSeqs({r \in Reqs : n[r] > 0} \ Members(batch)) :
            /\ \A i, j \in DOMAIN order :
                 sched.st[order[j]] = "new" /\ sched.st[order[i]] # "new" => j < i
            /\ \E s \in {Scheduled(pre, discarded, n, hit)} : \E ran \in {Ran(s, n, order)} :
                 /\ sched' = s
                 /\ batch' = ran.batch
                 /\ outputs' = ran.outputs
                 /\ cpu' = ran.cpu
                 /\ prev' = ran.prev
                 /\ ids' = ran.ids
                 /\ frames' = Append(frames, ran.frame)
                 /\ latest' = ran.latest
  /\ UNCHANGED stream

(* get_output: the tokens of r in a frame.                                     *)
OutputOfLive(f, r) ==  \* mutant: looks r up in the live batch, not in the copy
  LET i == IF r \in Members(batch) THEN batch.index[r] ELSE 0
  IN  IF i \in f.invalid \/ i \notin DOMAIN f.tokens THEN <<>> ELSE <<f.tokens[i]>>

OutputOf(f, r) ==
  LET i == f.index[r]
  IN  IF i \in f.invalid \/ i \notin DOMAIN f.tokens THEN <<>> ELSE <<f.tokens[i]>>

(* _update_request_with_output takes no token of a request without             *)
(* placeholders.                                                               *)
Accepted(f) ==
  {r \in DOMAIN f.index : sched.st[r] # "done" /\ OutputOf(f, r) # <<>> /\ sched.ph[r] > 0}

(* update_from_output for the oldest step in flight.                           *)
Update ==
  /\ frames # <<>>
  /\ LET f     == Head(frames)
         taken == Accepted(f)
         full  == {r \in taken : Len(stream[r]) + 1 = MaxOut}
     IN  \E stopped \in IF MayStop THEN SUBSET (taken \ full) ELSE {{}} :
           /\ stream' = [r \in Reqs |-> IF r \in taken THEN stream[r] \o OutputOf(f, r) ELSE stream[r]]
           /\ sched' = [sched EXCEPT !.ph = [r \in Reqs |-> IF r \in taken THEN @[r] - 1 ELSE @[r]],
                                     !.st = [r \in Reqs |-> IF r \in full \union stopped THEN "done" ELSE @[r]]]
  /\ frames' = Tail(frames)
  /\ UNCHANGED <<batch, outputs, cpu, prev, ids, latest>>

Next == Step \/ Update

(* The engine loop goes on while it has requests or steps in flight.  CanStep   *)
(* is what enables Step, written out: the first conjunct is weak fairness.     *)
CanStep ==
  Len(frames) < 2 /\ \E pre \in SUBSET In("running"), n \in Amounts, hit \in Hits : LegalSchedule(pre, n, hit)

EngineLoop ==
  /\ <>[]CanStep => []<><<Len(frames') > Len(frames)>>_vars
  /\ WF_vars(Update)

Spec == Init /\ [][Next]_vars /\ EngineLoop

-----------------------------------------------------------------------------
Places == {Token(r, k) : r \in Reqs, k \in 1..MaxOut + 1} \union {MINUS1}

TypeOK ==
  /\ sched.st \in [Reqs -> {"new", "running", "preempted", "done"}]
  /\ sched.comp \in [Reqs -> Nat] /\ sched.ph \in [Reqs -> 0..2] /\ sched.epoch \in [Reqs -> 0..MaxPreempts]
  /\ \A r \in Reqs : stream[r] \in Seq(Places) /\ outputs[r] \in Seq(Places) /\ cpu[r] \in Seq(Places)
  /\ Len(frames) <= 2
  /\ \A i \in DOMAIN frames : DOMAIN frames[i].index \subseteq Reqs /\ frames[i].invalid \subseteq Rows
  /\ BatchTypeOK(batch)
  /\ ids \in [Rows -> Places]
  /\ latest.misfed \subseteq Reqs /\ latest.misread \subseteq Reqs

(* Each decode step is fed the token its request sampled in the step before,   *)
(* although rows move between steps and the host has not seen that token, and  *)
(* a prompt or a resumed request finds all its known outputs on the host.      *)
InputsOwn == latest.misfed = {}

(* Whenever a token is sampled with penalties, output_token_ids is the         *)
(* request's exact output so far, with no placeholder left in it.              *)
HistoryCurrent == latest.misread = {}

(* What a step computes from is its requests' own: the tokens they are fed and *)
(* the outputs their penalties look at.                                        *)
FedOwn == InputsOwn /\ HistoryCurrent

(* Every client gets its own tokens, each one once and in order, whatever is   *)
(* in flight when requests move, stop, are preempted or resumed.               *)
Streams == INSTANCE TokenStreams WITH done <- In("done")
StreamSpec == Streams!Spec

(* Every request is finished in the end: no placeholder is waited for whose    *)
(* token was discarded.                                                        *)
EveryoneFinishes == <>(In("done") = Reqs)
=============================================================================
