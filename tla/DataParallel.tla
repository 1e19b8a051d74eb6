----------------------------- MODULE DataParallel -----------------------------
(***************************************************************************)
(* The steps of data-parallel ranks.  A rank agrees on the shape of every  *)
(* model call with the others, one CPU all-reduce at a time, runs dummy    *)
(* calls where it has no work of its own, and shares its experts with them *)
(* in every call.  A collective pairs each rank's nth call with the nth of *)
(* all others, whatever each of them meant by it.                          *)
(***************************************************************************)
EXTENDS Experts
LOCAL INSTANCE SequencesExt
LOCAL INSTANCE FiniteSetsExt

CONSTANTS
  Configs,      \* ranks, tensor-parallel size, layer, options
  Steps(_),     \* what the scheduler may give a rank in one step
  Buckets,      \* sizes the bucketing knows
  PadToken      \* the token of a padding row

VARIABLES
  config,
  plan,      \* rank -> the prompt batches and the decodes of its step
  stage,     \* rank -> the all-reduce it makes next, or "run"
  calls,     \* rank -> the numbers it gave to the all-reduces of the step
  asked,     \* rank -> it waits for the others in the last of them
  dims,      \* rank -> the sizes agreed on for the call being prepared
  work,      \* rank -> the calls still to be prepared
  forwards,  \* rank -> the model calls prepared
  outputs    \* rank -> the last model call and what its layer gave
vars == <<config, plan, stage, calls, asked, dims, work, forwards, outputs>>

Ranks == 1..config.ranks
Bucket(n) == Min({b \in Buckets : b >= n})
Padded(s, n, x) == s \o [i \in 1..(n - Len(s)) |-> x]
----------------------------------------------------------------------------
(* A prompt batch is [queries, blocks], a decode batch [decodes].          *)

Prefill(queries, blocks) == [kind |-> "prefill", queries |-> queries, blocks |-> blocks]
Decode(tokens) == [kind |-> "decode", tokens |-> tokens, blocks |-> Len(tokens)]
DummyPrefill ==
  IF config.kvTransfer THEN Prefill(<<<<PadToken>>>>, 1)
  ELSE Prefill(<<[i \in 1..config.dummyTokens |-> PadToken]>>, 0)
DummyDecode == [kind |-> "decode", tokens |-> <<PadToken>>, blocks |-> 2]

\* The step of a rank that has nothing scheduled while others do.
DummyRun ==
  IF config.kvTransfer THEN [batches |-> <<Prefill(<<<<PadToken>>>>, 1)>>, decodes |-> <<>>]
  ELSE [batches |-> <<>>, decodes |-> <<PadToken>>]
AnyPlan == [Ranks -> Steps(config) \cup {DummyRun}]

Asks(r) ==
  LET w == Head(work[r])
  IN CASE stage[r] = "batches" -> Len(plan[r].batches)
       [] stage[r] = "bs" -> Bucket(Len(w.queries))
       [] stage[r] = "seq" -> Bucket(Max({Len(w.queries[i]) : i \in DOMAIN w.queries}))
       [] stage[r] = "blocks" -> IF w.blocks = 0 THEN 0 ELSE Bucket(w.blocks)
       [] stage[r] = "decodes" -> Len(plan[r].decodes)
       [] stage[r] = "decode_bs" -> Bucket(Len(w.tokens))
       [] stage[r] \in {"decode_blocks", "window"} -> Bucket(w.blocks)

\* get_dp_padding: give a number, wait for everyone's, take the largest.
Call(r) ==
  /\ stage[r] # "run" /\ ~asked[r]
  /\ calls' = [calls EXCEPT ![r] = Append(@, [stage |-> stage[r], number |-> Asks(r)])]
  /\ asked' = [asked EXCEPT ![r] = TRUE]
  /\ UNCHANGED <<config, plan, stage, dims, work, forwards, outputs>>

Agreed(r) == LET n == Len(calls[r]) IN Max({calls[s][n].number : s \in Ranks})

\* Mutant: its own batch size, not the one agreed on.
PrefillForwardOwn(w, sizes) ==
  [rows |-> FlattenSeq([i \in 1..Bucket(Len(w.queries)) |->
              Padded(IF i <= Len(w.queries) THEN w.queries[i] ELSE <<>>, sizes[2], PadToken)]),
   blocks |-> sizes[3]]
PrefillForward(w, sizes) ==
  [rows |-> FlattenSeq([i \in 1..sizes[1] |->
              Padded(IF i <= Len(w.queries) THEN w.queries[i] ELSE <<>>, sizes[2], PadToken)]),
   blocks |-> sizes[3]]
DecodeForward(w, sizes) ==
  [rows |-> Padded(w.tokens, sizes[1], PadToken), blocks |-> Tail(sizes)]

StageAfter(rest) == IF rest = <<>> THEN "decodes" ELSE "bs"
Advance(r, s) == stage' = [stage EXCEPT ![r] = s]
Prepare(r, ws) == work' = [work EXCEPT ![r] = ws]
Noted(r) == dims' = [dims EXCEPT ![r] = Append(@, Agreed(r))]
\* The call is ready: its rows and blocks have the sizes agreed on.
Ready(r, forward) ==
  /\ forwards' = [forwards EXCEPT ![r] = Append(@, forward)]
  /\ dims' = [dims EXCEPT ![r] = <<>>]

Return(r) ==
  LET n == Len(calls[r])
      pads == Agreed(r) - calls[r][n].number
      sizes == Append(dims[r], Agreed(r))
      rest == Tail(work[r])
  IN /\ asked[r] /\ \A s \in Ranks : Len(calls[s]) >= n
     /\ asked' = [asked EXCEPT ![r] = FALSE]
     /\ \/ /\ stage[r] = "batches"
           /\ LET all == plan[r].batches \o [i \in 1..pads |-> DummyPrefill]
              IN Prepare(r, all) /\ Advance(r, StageAfter(all))
           /\ UNCHANGED <<dims, forwards>>
        \/ /\ stage[r] = "bs" /\ Noted(r) /\ Advance(r, "seq") /\ UNCHANGED <<work, forwards>>
        \/ /\ stage[r] = "seq" /\ Noted(r) /\ Advance(r, "blocks") /\ UNCHANGED <<work, forwards>>
        \/ /\ stage[r] = "blocks"
           /\ Ready(r, PrefillForward(Head(work[r]), sizes))
           /\ Prepare(r, rest) /\ Advance(r, StageAfter(rest))
        \/ /\ stage[r] = "decodes"
           /\ IF plan[r].decodes = <<>> /\ pads = 0 THEN Advance(r, "run") /\ UNCHANGED work
              ELSE /\ Advance(r, "decode_bs")
                   /\ Prepare(r, <<IF plan[r].decodes = <<>> THEN DummyDecode ELSE Decode(plan[r].decodes)>>)
           /\ UNCHANGED <<dims, forwards>>
        \/ /\ stage[r] = "decode_bs" /\ Noted(r) /\ Advance(r, "decode_blocks") /\ UNCHANGED <<work, forwards>>
        \/ /\ stage[r] = "decode_blocks" /\ config.window
           /\ Noted(r) /\ Advance(r, "window") /\ UNCHANGED <<work, forwards>>
        \/ /\ stage[r] = IF config.window THEN "window" ELSE "decode_blocks"
           /\ Ready(r, DecodeForward(Head(work[r]), sizes))
           /\ Prepare(r, rest) /\ Advance(r, "run")
     /\ UNCHANGED <<config, plan, calls, outputs>>
----------------------------------------------------------------------------
(* A model call of all ranks: one expert layer, its tensor-parallel ranks  *)
(* included.  Expert-parallel ranks are numbered rank-major.               *)

EpRanks == config.ranks * config.tp
EpRank(r, t) == (r - 1) * config.tp + t - 1
Sp == config.layer.sp
\* The padded tokens of one of them, under sequence parallelism; the dp
\* metadata makes its buffers for this many.
SpTokens(n) == IF Sp /\ n % config.tp # 0 THEN (n \div config.tp + 1) * config.tp ELSE n
Chunk(s, i, n) == SubSeq(s, (i - 1) * (Len(s) \div n) + 1, i * (Len(s) \div n))

RoutedRow(token, many) ==
  LET route == Route(config.layer, token, many)
  IN [x |-> token.x, ids |-> route.ids, weights |-> route.weights]
\* dispatch_tensor: the rows of everyone in the group, in the order of ranks.
Dispatched(rows, r, t) ==
  IF config.ranks > 1 \/ Sp THEN FlattenSeq(rows) ELSE rows[r]
\* combine: each takes its part of the sum over the group.
Combined(partials, r, t) ==
  IF Sp THEN SumOf([e \in 1..EpRanks |->
               Chunk(partials[(e - 1) \div config.tp + 1][((e - 1) % config.tp) + 1], EpRank(r, t) + 1, EpRanks)])
  ELSE IF config.ranks > 1 THEN SumOf([s \in Ranks |-> Chunk(partials[s][t], r, config.ranks)])
  ELSE partials[r][t]

LayerOutput(rows) ==
  LET padded == [s \in Ranks |-> Padded(rows[s], SpTokens(Len(rows[s])), PadToken)]
      routed == [s \in Ranks |-> [i \in DOMAIN padded[s] |-> RoutedRow(padded[s][i], config.many)]]
      partials == [s \in Ranks |-> [t \in 1..config.tp |->
                     Partial(config.layer, EpRank(s, t), EpRanks, Dispatched(routed, s, t))]]
      own(s) == [t \in 1..config.tp |-> Combined(partials, s, t)]
  IN [s \in Ranks |-> SubSeq(IF Sp THEN FlattenSeq(own(s)) ELSE SumOf(own(s)), 1, Len(rows[s]))]

RunForward ==
  /\ \A r \in Ranks : stage[r] = "run" /\ forwards[r] # <<>>
  /\ \A r, s \in Ranks : Len(forwards[r][1].rows) = Len(forwards[s][1].rows)
  /\ LET rows == [r \in Ranks |-> forwards[r][1].rows]
         layer == LayerOutput(rows)
     IN outputs' = [r \in Ranks |-> [rows |-> rows[r], out |-> layer[r]]]
  /\ forwards' = [r \in Ranks |-> Tail(forwards[r])]
  /\ UNCHANGED <<config, plan, stage, calls, asked, dims, work>>
----------------------------------------------------------------------------
NothingYet == [r \in Ranks |-> <<>>]
NoOutput == [r \in Ranks |-> [rows |-> <<>>, out |-> <<>>]]
\* Not all of them only accompany the others.
Plans == AnyPlan \ {[r \in Ranks |-> DummyRun]}
AllAt(s) == [r \in Ranks |-> s]

Init ==
  /\ config \in Configs
  /\ plan \in Plans /\ stage = AllAt("batches") /\ asked = AllAt(FALSE)
  /\ calls = NothingYet /\ dims = NothingYet /\ work = NothingYet /\ forwards = NothingYet
  /\ outputs = NoOutput

\* The engines begin another step.
NextStep ==
  /\ \A r \in Ranks : stage[r] = "run" /\ forwards[r] = <<>>
  /\ plan' \in Plans /\ stage' = AllAt("batches") /\ calls' = NothingYet /\ outputs' = NoOutput
  /\ UNCHANGED <<config, asked, dims, work, forwards>>

Next == (\E r \in Ranks : Call(r) \/ Return(r)) \/ RunForward \/ NextStep
Spec == Init /\ [][Next]_vars
----------------------------------------------------------------------------
\* Ranks of different work stay in step: the nth all-reduce means the same
\* to all of them, and they end up with the same number of model calls, of
\* the same number of rows, or one waits in a collective of the device for
\* ever.
Lockstep ==
  /\ \A r, s \in Ranks : \A n \in DOMAIN calls[r] \cap DOMAIN calls[s] : calls[r][n].stage = calls[s][n].stage
  /\ (\A r \in Ranks : stage[r] = "run") =>
       \A r, s \in Ranks : /\ Len(forwards[r]) = Len(forwards[s])
                           /\ \A i \in DOMAIN forwards[r] : Len(forwards[r][i].rows) = Len(forwards[s][i].rows)

\* Every row of a call gets the mixture of its own best experts: routing
\* here, the slices and masks of the experts' owners, and the exchange there
\* and back give each token each of its experts once.
ExpertsExact ==
  \A r \in Ranks : outputs[r].out = [i \in DOMAIN outputs[r].rows |-> Mixture(config.layer, outputs[r].rows[i])]
=============================================================================
