---------------------------- MODULE ModelRunner ----------------------------
(***************************************************************************)
(* One engine step of HPUModelRunner on the persistent batch: execute_model*)
(* (_update_states) and sample_tokens (reordering into decodes and prompts,*)
(* the sampling calls with their metadata, and recording the tokens), for  *)
(* synchronous scheduling without speculative decoding.                    *)
(*                                                                         *)
(* External: vLLM's scheduler, which decides what each step finishes,      *)
(* preempts and schedules, and which requests' grammars apply.  One block  *)
(* holds one token.  Every request samples with parameters and penalties   *)
(* of its own.                                                             *)
(***************************************************************************)
EXTENDS BatchStep, SequenceLoops

CONSTANTS
  MaxOut,           \* output tokens after which a request is finished
  Structured,       \* requests with a grammar
  MaxPrefillBatch,  \* max_prefill_batch_size
  MaxPreempts,      \* bound: preemptions of one request
  Hits,             \* prefix-cache hit lengths of requests that (re)start
  Chunked,          \* may a step schedule a part of the remaining tokens?
  MayPause,         \* may a running request be left out of a step?
  MayAbort,         \* may a request be finished early?
  FcfsResume        \* are preempted requests resumed before new ones start?

ASSUME RunnerAssumption ==
  /\ MaxOut \in Nat \ {0}
  /\ Structured \subseteq Reqs
  /\ MaxPrefillBatch \in Nat \ {0}
  /\ MaxPreempts \in Nat
  /\ Hits \subseteq Nat
  /\ {Chunked, MayPause, MayAbort, FcfsResume} \subseteq BOOLEAN

VARIABLES
  phase,                  \* "execute" -> "sample" -> "execute"; "dead" after an exception
  sched,                  \* the scheduler's Request objects: st, comp, outs, epoch
  num_scheduled_tokens,   \* of the latest scheduler_output; 0 = not scheduled
  block_ids,              \* block_ids of the cached request states
  batch,                  \* input_batch
  dev,                    \* whose temperature, top_p, ... each device row holds
  batch_changed,
  use_structured_output,
  gdn,                    \* compact GDN slots: free stack, slot of each request (0 = none)
  sampled                 \* what each logits row of the latest step was sampled with

vars == <<phase, sched, num_scheduled_tokens, block_ids, batch, dev, batch_changed,
          use_structured_output, gdn, sampled>>

NumTokens(s, r) == PromptLen[r] + s.outs[r]
In(state) == {r \in Reqs : sched.st[r] = state}

Init ==
  /\ phase = "execute"
  /\ sched = [st    |-> [r \in Reqs |-> "new"],
              comp  |-> [r \in Reqs |-> 0],
              outs  |-> [r \in Reqs |-> 0],
              epoch |-> [r \in Reqs |-> 0]]
  /\ num_scheduled_tokens = [r \in Reqs |-> 0]
  /\ block_ids = [r \in Reqs |-> NoBlocks]
  /\ batch = EmptyBatch
  /\ dev = [i \in Rows |-> NONE]
  /\ batch_changed = FALSE
  /\ use_structured_output = FALSE
  /\ gdn = [free |-> Reverse([i \in 1..MaxReqs |-> i]), slot |-> [r \in Reqs |-> 0]]
  /\ sampled = <<>>

-----------------------------------------------------------------------------
(* The scheduler (external): what one scheduler_output may hold.  fin are the  *)
(* finished ids, pre the preempted ones, n the tokens of each request, and     *)
(* hit the prefix-cache hit of those that start or resume.                     *)
Starting(n) == {r \in In("new") \union In("preempted") : n[r] > 0}

LegalSchedule(fin, pre, n, hit) ==
  LET stay == In("running") \ (fin \union pre)
      join == Starting(n)
  IN  /\ {r \in In("running") : sched.outs[r] >= MaxOut} \subseteq fin
      /\ \A r \in fin : sched.outs[r] < MaxOut => MayAbort
      /\ \A r \in pre : sched.epoch[r] < MaxPreempts
      /\ pre # {} => join = {}
      /\ Cardinality(stay \union join) <= MaxReqs
      /\ FcfsResume /\ join \cap In("new") # {} => In("preempted") \ fin \subseteq join
      /\ \A r \in Reqs :
           LET left == NumTokens(sched, r) - (IF r \in join THEN hit ELSE sched.comp[r])
           IN  n[r] > 0 => /\ r \in stay \union (join \ fin)
                           /\ n[r] = left \/ (Chunked /\ n[r] < left)
      /\ ~MayPause => \A r \in stay : n[r] > 0

(* schedule() advances num_computed_tokens before the worker runs.             *)
Scheduled(fin, pre, n, hit) ==
  LET join == Starting(n)
  IN  [st    |-> [r \in Reqs |-> IF r \in fin THEN "done"
                                 ELSE IF r \in pre THEN "preempted"
                                 ELSE IF r \in join THEN "running" ELSE sched.st[r]],
       comp  |-> [r \in Reqs |-> IF r \in pre THEN 0
                                 ELSE IF r \in join THEN hit + n[r] ELSE sched.comp[r] + n[r]],
       outs  |-> sched.outs,
       epoch |-> [r \in Reqs |-> IF r \in pre THEN sched.epoch[r] + 1 ELSE sched.epoch[r]]]

-----------------------------------------------------------------------------
(* _update_states: block ids of every scheduled request.  New ones are         *)
(* appended, those of a resumed request replace the old.                       *)
UpdatedBlockIds(s, n) ==
  [r \in Reqs |-> IF n[r] = 0 THEN block_ids[r]
                  ELSE IF sched.st[r] # "running"
                    THEN [of |-> r, epoch |-> s.epoch[r], len |-> s.comp[r]]
                    ELSE [block_ids[r] EXCEPT !.len = @ + n[r]]]

(* The GDN slots of finished requests go back, then new members get theirs.    *)
FreedSlotsOfPreempted(fin) ==  \* mutant: also frees the slots of the requests preempted before
  LET left  == fin \union In("preempted")
      freed == SetToSeq({r \in left : gdn.slot[r] # 0})
  IN  [free |-> gdn.free \o [i \in DOMAIN freed |-> gdn.slot[freed[i]]],
       slot |-> [r \in Reqs |-> IF r \in left THEN 0 ELSE gdn.slot[r]]]

FreedSlots(fin) ==
  LET freed == SetToSeq({r \in fin : gdn.slot[r] # 0})
  IN  [free |-> gdn.free \o [i \in DOMAIN freed |-> gdn.slot[freed[i]]],
       slot |-> [r \in Reqs |-> IF r \in fin THEN 0 ELSE gdn.slot[r]]]

AllocSlot(g, r) ==
  IF g.slot[r] # 0 THEN g
  ELSE [free |-> Front(g.free), slot |-> [g.slot EXCEPT ![r] = Last(g.free)]]
Allocating == INSTANCE LeftFold WITH Step <- AllocSlot

AllocSlots(g, order) == Allocating!Fold(g, order)

(* execute_model up to its return: sampling follows only if something was      *)
(* scheduled.  Popping from the empty slot list raises.                        *)
ExecuteModel ==
  /\ phase = "execute"
  /\ \E fin \in SUBSET (In("running") \union In("preempted")), pre \in SUBSET In("running"),
        n \in [Reqs -> 0..(Max(Range(PromptLen)) + MaxOut)], hit \in Hits :
       /\ fin \cap pre = {}
       /\ LegalSchedule(fin, pre, n, hit)
       /\ LET s       == Scheduled(fin, pre, n, hit)
              blocks  == UpdatedBlockIds(s, n)
              adding  == {r \in Reqs : n[r] > 0} \ Members(batch)
              leaving == {r \in Members(batch) : n[r] = 0}
              freed   == FreedSlots(fin)
              lacking == Cardinality({r \in adding : freed.slot[r] = 0}) > Len(freed.free)
          IN \E order \in SetToSeqs(adding) :
               LET b == UpdatedBatch(batch, s, n, order, blocks)
               IN  /\ \A i, j \in DOMAIN order :
                        sched.st[order[j]] = "new" /\ sched.st[order[i]] # "new" => j < i
                   /\ sched' = s
                   /\ num_scheduled_tokens' = n
                   /\ block_ids' = blocks
                   /\ batch' = b
                   /\ batch_changed' = (leaving \union adding # {})
                   /\ dev' = IF batch_changed' THEN [i \in Rows |-> b.row[i].own] ELSE dev
                   /\ gdn' = IF lacking THEN freed ELSE AllocSlots(freed, order)
                   /\ phase' = IF lacking THEN "dead"
                               ELSE IF \E r \in Reqs : n[r] > 0 THEN "sample" ELSE "execute"
  /\ sampled' = <<>>
  /\ UNCHANGED use_structured_output

-----------------------------------------------------------------------------
(* num_output_logits of a prompt row.  use_structured_output is still that of   *)
(* the step before when the inputs are prepared.                               *)
NumLogitsFlagOnly(b, i) ==  \* mutant: an incomplete prompt gets a logit, too
  LET n == num_scheduled_tokens[b.req_ids[i]]
      extra == b.row[i].comp + n - b.row[i].prompt + 1
  IN  IF extra < 1 THEN 1 ELSE Min({extra, n})

NumLogits(b, i) ==
  LET n == num_scheduled_tokens[b.req_ids[i]]
      extra == b.row[i].comp + n - b.row[i].prompt + 1
  IN  IF extra < 1 THEN (IF use_structured_output THEN 1 ELSE 0) ELSE Min({extra, n})

LogitsRequests(b, first, last) ==
  Flat([k \in 1..(last - first + 1) |->
                [j \in 1..NumLogits(b, first + k - 1) |-> b.req_ids[first + k - 1]]])

(* The requests the metadata rows are made for (_prepare_sampling): the given  *)
(* ones, reduced to those with logits or padded with the first.                *)
MetadataRequests(reqs, rows, logits_reqs) ==
  IF logits_reqs # <<>> /\ Len(reqs) > Len(logits_reqs)
    THEN OnlyIn(reqs, Range(logits_reqs))
    ELSE [j \in 1..Max({Len(reqs), Len(rows)}) |-> IF j <= Len(reqs) THEN reqs[j] ELSE reqs[1]]

(* grammar_output: the scheduled structured requests whose prompt is complete.  *)
GrammarRequests ==
  {r \in Structured : num_scheduled_tokens[r] > 0 /\ sched.comp[r] = NumTokens(sched, r)}

(* The sampling calls of one step in order.  With a grammar all logits are     *)
(* sampled in one call; otherwise the decodes in one and the prompts in        *)
(* batches.                                                                    *)
SamplingCalls(b) ==
  LET d       == NumDecodes(b, num_scheduled_tokens)
      m       == Len(b.req_ids)
      decodes == SubSeq(b.req_ids, 1, d)
      prompts == SubSeq(b.req_ids, d + 1, m)
      call(first, last) ==
        LET rows == LogitsRequests(b, first, last)
        IN  [rows |-> rows, meta |-> MetadataRequests(SubSeq(b.req_ids, first, last), rows, rows)]
      prefills == [k \in 1..((m - d + MaxPrefillBatch - 1) \div MaxPrefillBatch) |->
                     call(d + 1 + (k - 1) * MaxPrefillBatch, Min({d + k * MaxPrefillBatch, m}))]
      together == decodes \o LogitsRequests(b, d + 1, m)
  IN  IF GrammarRequests # {}
        THEN <<[rows |-> together, meta |-> MetadataRequests(prompts \o decodes, together, <<>>)]>>
        ELSE OnlyIn(prefills, {c \in Range(prefills) : c.rows # <<>>})
               \o (IF d = 0 THEN <<>> ELSE <<[rows |-> decodes, meta |-> decodes]>>)

(* A logits row for which the metadata has none.                               *)
PastMetadata(r) ==
  [req |-> r, params |-> NONE, prompt |-> NONE, mask |-> NONE, bad |-> NONE, gen |-> NONE, grammar |-> NONE]

(* make_selective_sampling_metadata for one call, row by row.  Device rows are *)
(* refreshed only if the batch changed (skip_copy), and so is the prompt; the  *)
(* generators are rekeyed to the metadata's rows, bad_words_token_ids is not.  *)
SelectiveByRow(b, c) ==  \* mutant: no refresh, the cache of before the swaps, generators not rekeyed
  LET cache == cached_prompt_token_ids(batch)
      restricted == Members(b) \cap Restricted # {}
      entry(j) ==
        IF j > Len(c.meta) THEN PastMetadata(c.rows[j])
        ELSE LET i == b.index[c.meta[j]]
             IN  [req     |-> c.rows[j],
                  params  |-> dev[i],
                  prompt  |-> cache[i],
                  mask    |-> IF restricted THEN b.row[i].mask ELSE NONE,
                  bad     |-> IF j \in Rows THEN b.row[j].bad ELSE NONE,
                  gen     |-> b.row[j].gen,
                  grammar |-> IF \E r \in GrammarRequests : b.index[r] = j
                                THEN CHOOSE r \in GrammarRequests : b.index[r] = j ELSE NONE]
  IN  [j \in DOMAIN c.rows |-> entry(j)]

Selective(b, c) ==
  LET cache == cached_prompt_token_ids(b)
      restricted == Members(b) \cap Restricted # {}
      entry(j) ==
        IF j > Len(c.meta) THEN PastMetadata(c.rows[j])
        ELSE LET i == b.index[c.meta[j]]
             IN  [req     |-> c.rows[j],
                  params  |-> IF batch_changed THEN b.row[i].own ELSE dev[i],
                  prompt  |-> IF batch_changed THEN b.row[i].own ELSE cache[i],
                  mask    |-> IF restricted THEN b.row[i].mask ELSE NONE,
                  bad     |-> IF j \in Rows THEN b.row[j].bad ELSE NONE,
                  gen     |-> b.row[i].gen,
                  grammar |-> IF \E r \in GrammarRequests : b.index[r] = j
                                THEN CHOOSE r \in GrammarRequests : b.index[r] = j ELSE NONE]
  IN  [j \in DOMAIN c.rows |-> entry(j)]

(* sample_tokens.  The tokens go to the requests of the logits rows, in the     *)
(* batch and, through the ModelRunnerOutput, at the scheduler.                  *)
SampleTokens ==
  /\ phase = "sample"
  /\ LET b       == Reordered(batch, num_scheduled_tokens)
         calls   == SamplingCalls(b)
         entries == Flat([k \in DOMAIN calls |-> Selective(b, calls[k])])
         gained(r) == Cardinality({j \in DOMAIN entries : entries[j].req = r})
         copied  == UNION {{b.index[r] : r \in Range(calls[k].meta)} : k \in DOMAIN calls}
     IN  /\ sampled' = entries
         /\ batch' = [b EXCEPT !.row = [i \in Rows |->
                        IF i \in DOMAIN b.req_ids
                          THEN [b.row[i] EXCEPT !.tokens = @ + gained(b.req_ids[i])] ELSE b.row[i]],
                      !.cache = IF ~batch_changed /\ calls # <<>> THEN cached_prompt_token_ids(b) ELSE @]
         /\ dev' = [i \in Rows |-> IF batch_changed /\ i \in copied THEN b.row[i].own ELSE dev[i]]
         /\ sched' = [sched EXCEPT !.outs = [r \in Reqs |-> @[r] + gained(r)]]
  /\ use_structured_output' = (GrammarRequests # {})
  /\ phase' = "execute"
  /\ UNCHANGED <<num_scheduled_tokens, block_ids, batch_changed, gdn>>

Next == ExecuteModel \/ SampleTokens

Spec == Init /\ [][Next]_vars

-----------------------------------------------------------------------------
TypeOK ==
  /\ phase \in {"execute", "sample", "dead"}
  /\ sched.st \in [Reqs -> {"new", "running", "preempted", "done"}]
  /\ sched.comp \in [Reqs -> Nat] /\ sched.outs \in [Reqs -> Nat] /\ sched.epoch \in [Reqs -> 0..MaxPreempts]
  /\ num_scheduled_tokens \in [Reqs -> Nat]
  /\ block_ids \in [Reqs -> [of : Reqs \union {NONE}, epoch : Nat, len : Nat]]
  /\ BatchTypeOK(batch)
  /\ dev \in [Rows -> Reqs \union {NONE}]
  /\ batch_changed \in BOOLEAN /\ use_structured_output \in BOOLEAN
  /\ gdn.free \in Seq(Rows) /\ gdn.slot \in [Reqs -> 0..MaxReqs]
  /\ \A j \in DOMAIN sampled : sampled[j].req \in Reqs

(* Through every mix of removals, additions, moves and swaps, each scheduled   *)
(* request has one row, and everything in that row is its own and current:     *)
(* token arrays and counts, its block table exactly as the scheduler granted   *)
(* it (also after a preemption), its generator and its bad words.              *)
RowsMatch ==
  phase # "dead" =>
  /\ Members(batch) = {r \in Reqs : num_scheduled_tokens[r] > 0}
  /\ Len(batch.req_ids) = NumReqs(batch)
  /\ \A r \in Members(batch) :
       LET row == batch.row[batch.index[r]]
       IN  /\ batch.req_ids[batch.index[r]] = r
           /\ row.own = r
           /\ row.comp + num_scheduled_tokens[r] = sched.comp[r]
           /\ row.tokens = NumTokens(sched, r)
           /\ row.blocks = [of |-> r, epoch |-> sched.epoch[r], len |-> sched.comp[r]]
           /\ row.gen = (IF r \in HasGenerator THEN r ELSE NONE)
           /\ row.bad = (IF r \in HasBadWords THEN r ELSE NONE)

(* Whenever a step samples, the reordered batch is decodes followed by         *)
(* prompts, as the assertion in _get_prompts_and_decodes demands, and both     *)
(* reorderings together lose no request.                                       *)
PartitionHolds ==
  phase = "sample" =>
    LET b == Reordered(batch, num_scheduled_tokens)
    IN  /\ \A i \in DOMAIN b.req_ids : i > NumDecodes(b, num_scheduled_tokens) => IsPrompt(b, num_scheduled_tokens, i)
        /\ Range(b.req_ids) = Members(batch)

(* Each compact GDN slot is free or belongs to one request, paused and         *)
(* preempted ones included, and every member of the batch has one.             *)
GdnExclusive ==
  /\ \A s \in Rows :
       Cardinality({i \in DOMAIN gdn.free : gdn.free[i] = s}) + Cardinality({r \in Reqs : gdn.slot[r] = s}) = 1
  /\ phase # "dead" => \A r \in Members(batch) : gdn.slot[r] # 0

(* A request keeps its GDN slot, and with it its recurrent state, for as long  *)
(* as it is not finished: being left out of a step or preempted frees nothing. *)
GdnStays == \A r \in Reqs : gdn.slot[r] # 0 /\ sched'.st[r] # "done" => gdn'.slot[r] = gdn.slot[r]
(* There is always a GDN slot for a request that enters the batch.             *)
GdnSlotAvailable == phase # "dead"

(* A step gives each request one token if it completes what is known of the    *)
(* request, prompt and earlier outputs, and none otherwise.                    *)
OneTokenPerStep ==
  [][SampleTokens => \A r \in Reqs :
       sched'.outs[r] - sched.outs[r] =
         IF num_scheduled_tokens[r] > 0 /\ sched.comp[r] = NumTokens(sched, r) THEN 1 ELSE 0]_vars

(* Each logits row is sampled with the temperature, top_p, top_k and penalties *)
(* of the request it belongs to ...                                            *)
SampledWithOwnParams == \A j \in DOMAIN sampled : sampled[j].params = sampled[j].req

(* ... with that request's prompt for the penalties ...                        *)
SampledWithOwnPrompt == \A j \in DOMAIN sampled : sampled[j].prompt = sampled[j].req

(* ... with its generator, or none ...                                         *)
SampledWithOwnGenerator ==
  \A j \in DOMAIN sampled :
    sampled[j].gen = (IF sampled[j].req \in HasGenerator THEN sampled[j].req ELSE NONE)

(* ... with its allowed_token_ids, or none ...                                 *)
SampledWithOwnMask ==
  \A j \in DOMAIN sampled :
    sampled[j].mask = (IF sampled[j].req \in Restricted THEN sampled[j].req ELSE NONE)

(* ... with its bad words, or none ...                                         *)
SampledWithOwnBadWords ==
  \A j \in DOMAIN sampled :
    sampled[j].bad = (IF sampled[j].req \in HasBadWords THEN sampled[j].req ELSE NONE)

(* ... and with its grammar, or none.                                          *)
SampledWithOwnGrammar ==
  \A j \in DOMAIN sampled :
    LET r == sampled[j].req
    IN  sampled[j].grammar = (IF r \in Structured /\ sched.comp[r] + 1 = NumTokens(sched, r) THEN r ELSE NONE)
=============================================================================
