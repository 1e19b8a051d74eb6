----------------------------- MODULE SpecDecode -----------------------------
(***************************************************************************)
(* Speculative decoding: one scheduler step verifies the draft tokens of   *)
(* every decoding request in a flattened batch (_prepare_spec_decode_      *)
(* inputs), keeps a prefix of them (rejection_sample_pytorch), and lets    *)
(* the drafter propose the next ones (HpuEagleProposer), which fills the   *)
(* draft model's own layer of the KV cache.                                *)
(*                                                                         *)
(* A KV cell of the target is the token and the position it was computed   *)
(* for; a cell of the draft model is a token and the hidden state it was   *)
(* paired with, <<request, position>> for a state of the target model and  *)
(* <<request, -t>> for the draft model's own after t drafts.  Cells are    *)
(* indexed by request and position: module StepInputs has the slots.       *)
(* Positions count from 0 and sequences from 1.                            *)
(***************************************************************************)
EXTENDS Integers, Sequences, FiniteSets
LOCAL INSTANCE SequencesExt
LOCAL INSTANCE FiniteSetsExt
LOCAL INSTANCE TLC

CONSTANTS Requests,      \* positive numbers: the batch is in their order
          Prompt,        \* Prompt[r]: its prompt
          MaxModelLen, BlockSize,
          Vocab,         \* numbers from 0
          NumSpec,       \* num_speculative_tokens
          Model(_),      \* the target model's argmax after a set of keys
          Configs        \* configurations explored, with their bounds

VARIABLES config,
          toks,      \* tokens known of a request: prompt and output
          computed,  \* num_computed_tokens
          spec,      \* the draft tokens the scheduler holds for it
          cache,     \* the target's KV cells
          dcache,    \* the draft model's KV cells
          verified,  \* verified[r]: drafts and output of r in the last step
          proposed,  \* what the draft model attended to for each draft of r
          failed,    \* an assertion or an error ended the last step
          preempts
vars == <<config, toks, computed, spec, cache, dcache, verified, proposed, failed, preempts>>

PLACEHOLDER_TOKEN_ID == -1
Cells == 0..(MaxModelLen - 1)
Junk == <<-1, -1>>
NoHidden == <<0, 0>>
DraftJunk == <<-1, NoHidden>>
NoStep == [r \in Requests |-> [drafts |-> <<>>, output |-> <<>>]]
\* The place of x in a sequence without repetitions.
LOCAL Place(s, x) == CHOOSE i \in DOMAIN s : s[i] = x
\* The same function, which TLC then stores instead of its definition.
LOCAL Explicit(f) == f @@ <<>>
LOCAL Ceil(a, b) == (a + b - 1) \div b
LOCAL Least(a, b) == IF a < b THEN a ELSE b
----------------------------------------------------------------------------
(* The decode batch: rows, with nd[r] draft tokens each, are flattened to  *)
(* B * M rows of one token, M = num_tokens columns.  It is described by    *)
(* the record b: rows, nd, M and the padded size B.                        *)

Batch(rows, nd) == [rows |-> rows, nd |-> nd, M |-> 1 + Max({0} \cup {nd[r] : r \in ToSet(rows)}),
                    B |-> Len(rows) + config.pad]
Flat(b) == 0..(b.B * b.M - 1)
LastFlat(b) == b.B * b.M - 1
IsReal(b, i) == i \div b.M < Len(b.rows)
RowOf(b, i) == b.rows[(i \div b.M) + 1]
ColumnOf(b, i) == i % b.M
IsPresent(b, i) == IsReal(b, i) /\ ColumnOf(b, i) <= b.nd[RowOf(b, i)]
\* num_draft_tokens of a row of the padded batch.
DraftsOf(b, row) == IF row < Len(b.rows) THEN b.nd[b.rows[row + 1]] ELSE 0

\* positions and token_ids, padded with 0.
PositionAt(b, i) == IF IsPresent(b, i) THEN computed[RowOf(b, i)] + ColumnOf(b, i) ELSE 0
TokenAt(b, i) ==
  LET r == RowOf(b, i)
  IN IF IsPresent(b, i) THEN (toks[r] \o spec[r])[computed[r] + ColumnOf(b, i) + 1] ELSE 0

\* Rows with the cells they write, over a cache: row i's goes to PositionAt(b, i).
Stored(k, b, values) ==
  Explicit([r \in Requests |-> Explicit([p \in Cells |->
     LET writers == {i \in Flat(b) : IsReal(b, i) /\ RowOf(b, i) = r /\ PositionAt(b, i) = p}
     IN IF writers = {} THEN k[r][p] ELSE values[CHOOSE i \in writers : TRUE]])])

\* num_blocks counts the context and one token; the last block is used up to
\* the row's own slot.
Attended(blocks, p) == 0..((blocks - 1) * BlockSize + (p % BlockSize))
num_blocks(r) == Ceil(computed[r] + 1, BlockSize)
AttendedAt(b, i) == Attended(num_blocks(RowOf(b, i)), PositionAt(b, i)) \cap Cells

\* The target model over the batch: the argmax of every flattened row.
Predictions(k, b) ==
  Explicit([i \in Flat(b) |-> IF IsReal(b, i) THEN Model({k[RowOf(b, i)][x] : x \in AttendedAt(b, i)}) ELSE Model({})])
----------------------------------------------------------------------------
(* _prepare_spec_decode_inputs: -1 pads the index lists of shorter rows,   *)
(* and indexes the last row.                                               *)

\* An index of a flattened list, as PyTorch reads it.
At(b, i) == IF i = -1 THEN LastFlat(b) ELSE i
logits_indices(b, i) == IF ColumnOf(b, i) <= DraftsOf(b, i \div b.M) THEN i ELSE -1
target_logits_indices(b, row, c) == IF c < DraftsOf(b, row) THEN row * b.M + c ELSE -1
bonus_logits_indices(b, row) == row * b.M + DraftsOf(b, row)
draft_token_ids(b, row, c) == TokenAt(b, target_logits_indices(b, row, c) + 1)

\* The argmax of logits_device at an index.
Argmax(predictions, b, i) == predictions[At(b, logits_indices(b, At(b, i)))]
----------------------------------------------------------------------------
(* rejection_sample_pytorch, for one row: draft and target over the        *)
(* columns 0..width-1, n of them drafts.                                   *)

mismatches(draft, target, width) == {c \in 0..(width - 1) : draft[c] # target[c]}
any_mismatch(draft, target, width, n) == n # 0 /\ mismatches(draft, target, width) # {}
first_mismatch_idx(draft, target, width) == Min(mismatches(draft, target, width))

\* Mutant: one more token than the first mismatch is taken.
num_acceptedAfter(draft, target, width, n) ==
  IF any_mismatch(draft, target, width, n) THEN first_mismatch_idx(draft, target, width) + 2 ELSE n
num_accepted(draft, target, width, n) ==
  IF any_mismatch(draft, target, width, n) THEN first_mismatch_idx(draft, target, width) + 1 ELSE n

rejection_sample(draft, target, bonus, width, n) ==
  [i \in 1..(width + 1) |->
     CASE i - 1 = n /\ ~any_mismatch(draft, target, width, n) -> bonus
       [] i - 1 < n /\ i - 1 < num_accepted(draft, target, width, n) -> target[i - 1]
       [] OTHER -> PLACEHOLDER_TOKEN_ID]

\* sampled_token_ids of the whole padded batch.
Sampled(predictions, b) ==
  Explicit([row \in 0..(b.B - 1) |->
     IF b.M = 1 THEN <<predictions[row]>>
     ELSE rejection_sample(Explicit([c \in 0..(b.M - 2) |-> draft_token_ids(b, row, c)]),
                           Explicit([c \in 0..(b.M - 2) |-> Argmax(predictions, b, target_logits_indices(b, row, c))]),
                           Argmax(predictions, b, bonus_logits_indices(b, row)),
                           b.M - 1, DraftsOf(b, row))])
\* parse_output.
Parsed(row) == SelectSeq(row, LAMBDA t : t # PLACEHOLDER_TOKEN_ID)
----------------------------------------------------------------------------
(* HpuEagleProposer, over the draft model's cells.                         *)

\* prepare_inputs: of the n drafts and one token of a row, r were rejected;
\* -1 stands for the rejected columns.
num_rejected_tokens(b, row, sampled) ==
  IF DraftsOf(b, row) > 0 THEN DraftsOf(b, row) + 1 - Len(sampled[b.rows[row + 1]]) ELSE 0
\* Mutant: the last column of the row, accepted or not.
last_token_indexOfRow(b, row, sampled) == row * b.M + DraftsOf(b, row)
last_token_index(b, row, sampled) == row * b.M + DraftsOf(b, row) - num_rejected_tokens(b, row, sampled)
hidden_states_index(b, i, sampled) ==
  IF i <= last_token_index(b, i \div b.M, sampled) THEN i ELSE -1

\* The hidden state of a flattened row.
HiddenAt(b, i) == IF IsPresent(b, i) THEN <<RowOf(b, i), PositionAt(b, i)>> ELSE NoHidden

\* The later drafts of a request whose last target position is p, and whose
\* cells after the first pass are k: prepare_attn_metadata and the loop of
\* propose.  A position past the context is clamped to 0; the table is asked for
\* the blocks of the position itself.
Clamped(p) == IF p >= MaxModelLen THEN 0 ELSE p
TableWidth == Ceil(MaxModelLen, BlockSize)
DraftBlocks(p) == Ceil(p + 1, BlockSize)
Later(r, k, p, drafts) ==
  LET Step(acc, t) ==
        LET now == [acc.cells EXCEPT ![Clamped(p + t)] = <<drafts[t], <<r, -t>>>>]
        IN [cells |-> now,
            seen |-> Append(acc.seen, {now[x] : x \in Attended(DraftBlocks(p + t), Clamped(p + t)) \cap Cells}),
            fails |-> acc.fails \/ DraftBlocks(p + t) > TableWidth]
  IN FoldLeft(Step, [cells |-> k, seen |-> <<>>, fails |-> FALSE], [t \in 1..(NumSpec - 1) |-> t])

\* propose_eagle_decode: the first pass runs the draft model over the batch with
\* the attention metadata of the target, tokens and hidden states gathered.
FirstPass(b, out, sampled) ==
  LET flat == Explicit([i \in Flat(b) |-> out[i \div b.M][ColumnOf(b, i) + 1]])   \* reshape(-1, 1)
      pairs == [i \in Flat(b) |-> LET q == At(b, hidden_states_index(b, i, sampled)) IN <<flat[q], HiddenAt(b, q)>>]
  IN Stored(dcache, b, pairs)
ProposeDecode(b, k, row, sampled, drafts) ==
  LET r == b.rows[row + 1]
      last == last_token_index(b, row, sampled)
      later == Later(r, k[r], PositionAt(b, last), drafts)
  IN [later EXCEPT !.seen = <<{k[r][x] : x \in AttendedAt(b, last)}>> \o @]

\* propose_eagle_prefill: the tokens shifted left by one, the last one replaced
\* by the sampled token; a chunk that samples nothing is proposed nothing for.
PrefillPairs(r, n, next) ==
  LET tokens == SubSeq(toks[r], computed[r] + 1, computed[r] + n)
      shifted == Append(Tail(tokens), IF computed[r] + n = Len(toks[r]) THEN next ELSE Last(tokens))
  IN Explicit([p \in Cells |-> IF p \in computed[r]..(computed[r] + n - 1)
                               THEN <<shifted[p - computed[r] + 1], <<r, p>>>> ELSE dcache[r][p]])
ProposePrefill(r, n, next, drafts) ==
  LET k == PrefillPairs(r, n, next)
      p == computed[r] + n - 1
      later == Later(r, k, p, drafts)
  IN [later EXCEPT !.seen = <<{k[x] : x \in 0..p}>> \o @]
----------------------------------------------------------------------------
(* The scheduler (external): which requests run, with how many of their    *)
(* drafts or prompt tokens.                                                *)

Init ==
  /\ config \in Configs
  /\ toks = Prompt
  /\ computed = [r \in Requests |-> 0]
  /\ spec = [r \in Requests |-> <<>>]
  /\ cache = [r \in Requests |-> [p \in Cells |-> Junk]]
  /\ dcache = [r \in Requests |-> [p \in Cells |-> DraftJunk]]
  /\ verified = NoStep
  /\ proposed = [r \in Requests |-> [by |-> r, seen |-> <<>>]]
  /\ failed = FALSE
  /\ preempts = 0

Running == {r \in config.requests : Len(toks[r]) < MaxModelLen}
Remaining(r) == Len(toks[r]) - computed[r]
\* _is_prompt: drafts do not make a request a prompt.
IsPrompt(r) == computed[r] < Len(Prompt[r]) \/ Remaining(r) > 1
\* Drafts that fit the context; fewer when the token budget cuts them.
Scheduled(r) ==
  LET fit == Least(Len(spec[r]), MaxModelLen - 2 - computed[r])
  IN IF config.trim THEN 0..fit ELSE {fit}
Even(nd, D) == Cardinality({nd[r] : r \in D}) <= 1
InOrder(S) == SetToSortSeq(S, <)
\* Tokens of a prompt in this step: all that remain, or a chunk.
Chunks(r) == IF config.chunked THEN (IF computed[r] < Len(Prompt[r]) THEN 1 ELSE 2)..Remaining(r) ELSE {Remaining(r)}
----------------------------------------------------------------------------
(* A step: execute_model and sample_tokens on decode rows D with nd drafts *)
(* and prompt rows P with n tokens each.                                   *)

\* sampled[i]: the next token of the i-th prompt that is completed.
Completed(P, n) == SelectSeq(P, LAMBDA r : n[r] = Remaining(r))
PrefillCells(r, n) ==
  Explicit([p \in Cells |-> IF p \in computed[r]..(computed[r] + n - 1) THEN <<toks[r][p + 1], p>> ELSE cache[r][p]])
NextToken(k, r) == Model({k[x] : x \in 0..(Len(toks[r]) - 1)})

\* The model calls and the sampling: what the step computes before it proposes.
Forward(D, nd, P, n) ==
  LET b == Batch(D, nd)
      prefilled == Explicit([r \in Requests |-> IF r \in ToSet(P) THEN PrefillCells(r, n[r]) ELSE cache[r]])
      done == Completed(P, n)
      next == [i \in 1..Len(done) |-> NextToken(prefilled[done[i]], done[i])]
      keys == [i \in Flat(b) |-> <<TokenAt(b, i), PositionAt(b, i)>>]
      cells == IF D = <<>> THEN prefilled ELSE Stored(prefilled, b, keys)
      out == IF D = <<>> THEN <<>> ELSE Sampled(Predictions(cells, b), b)
  IN [b |-> b, done |-> done, next |-> next, cells |-> cells, out |-> out,
      sampled |-> Explicit([r \in ToSet(D) \cup ToSet(done) |->
                    IF r \in ToSet(D) THEN Parsed(out[Place(D, r) - 1]) ELSE <<next[Place(done, r)]>>])]

\* propose_draft_token_ids with a draft model: one proposal per decode and per
\* prompt that has a place in the list of sampled tokens, with the request's
\* cells and what its drafts attended to.
NoProposal(r, k) == [by |-> r, cells |-> k, seen |-> <<>>, fails |-> FALSE, drafts |-> [t \in 1..NumSpec |-> 0]]
EagleProposals(D, P, n, f, guess) ==
  LET speculated == f.b.M > 1      \* spec_decode_metadata is not None
      first == IF speculated THEN FirstPass(f.b, f.out, f.sampled) ELSE dcache
      Decode(i) == IF speculated
                   THEN [by |-> D[i], drafts |-> guess[D[i]]] @@ ProposeDecode(f.b, first, i - 1, f.sampled, guess[D[i]])
                   ELSE NoProposal(D[i], dcache[D[i]])
      Prefill(i) == IF P[i] \in ToSet(f.done)
                    THEN [by |-> P[i], drafts |-> guess[P[i]]] @@ ProposePrefill(P[i], n[P[i]], f.next[i], guess[P[i]])
                    ELSE NoProposal(P[i], PrefillPairs(P[i], n[P[i]], f.next[i]))
  IN [i \in 1..Len(D) |-> Decode(i)] \o [i \in 1..Least(Len(P), Len(f.next)) |-> Prefill(i)]

\* take_draft_token_ids names the rows of the concatenated drafts in batch order;
\* the scheduler drops what an unfinished prompt gets.
Taken(req_ids, f, rows) ==
  [r \in {q \in DOMAIN f.sampled : Place(req_ids, q) <= Len(rows)} |-> rows[Place(req_ids, r)]]

Speculate(D, P, n, f, guess) ==
  IF config.method = "eagle"
  THEN LET proposals == EagleProposals(D, P, n, f, guess)
           taken == Taken(D \o P, f, SelectSeq(proposals, LAMBDA p : p.by \in DOMAIN f.sampled))
       IN /\ dcache' = [r \in Requests |->
               IF \E i \in DOMAIN proposals : proposals[i].by = r
               THEN (CHOOSE p \in ToSet(proposals) : p.by = r).cells ELSE dcache[r]]
          /\ spec' = [r \in Requests |-> IF r \in DOMAIN taken THEN taken[r].drafts
                                         ELSE IF r \in ToSet(D \o P) THEN <<>> ELSE spec[r]]
          /\ proposed' = [r \in Requests |-> IF r \in DOMAIN taken THEN [by |-> taken[r].by, seen |-> taken[r].seen]
                                                                   ELSE [by |-> r, seen |-> <<>>]]
          /\ failed' = (proposals = <<>> \/ \E p \in ToSet(proposals) : p.fails)
  ELSE /\ spec' = [r \in Requests |-> IF r \in DOMAIN f.sampled THEN guess[r]
                                      ELSE IF r \in ToSet(D \o P) THEN <<>> ELSE spec[r]]
       /\ UNCHANGED <<dcache, proposed, failed>>

Execute(D, nd, P, n, f) ==
  /\ cache' = f.cells
  /\ toks' = [r \in Requests |-> IF r \in DOMAIN f.sampled THEN toks[r] \o f.sampled[r] ELSE toks[r]]
  /\ computed' = [r \in Requests |->
       IF r \in ToSet(D) THEN computed[r] + Len(f.sampled[r])
       ELSE IF r \in ToSet(P) THEN computed[r] + n[r] ELSE computed[r]]
  /\ verified' = [r \in Requests |->
       IF r \in ToSet(D) THEN [drafts |-> SubSeq(spec[r], 1, nd[r]), output |-> f.sampled[r]] ELSE NoStep[r]]
  /\ UNCHANGED <<config, preempts>>

\* The drafter's answers: NumSpec tokens, or what an n-gram match yields, with
\* -1 for no match.
Guesses(S) == [S -> IF config.method = "eagle" THEN [1..NumSpec -> Vocab]
                    ELSE {<<-1>>} \cup UNION {[1..k -> Vocab] : k \in 1..NumSpec}]

Step ==
  /\ ~failed
  /\ \E S \in SUBSET Running \ {{}} :
       LET D == {r \in S : ~IsPrompt(r)}
           P == S \ D
       IN \E nd \in [D -> 0..NumSpec], n \in [P -> 1..MaxModelLen] :
            /\ \A r \in D : nd[r] \in Scheduled(r)
            /\ \A r \in P : n[r] \in Chunks(r)
            /\ config.even => Even(nd, D)
            /\ LET f == Forward(InOrder(D), nd, InOrder(P), n)
               IN /\ Execute(InOrder(D), nd, InOrder(P), n, f)
                  /\ \E guess \in Guesses(DOMAIN f.sampled) : Speculate(InOrder(D), InOrder(P), n, f, guess)

\* A preempted request loses its cells and its drafts.
Preempt(r) ==
  /\ ~failed /\ r \in Running /\ computed[r] > 0 /\ preempts < config.max_preempts
  /\ computed' = [computed EXCEPT ![r] = 0]
  /\ spec' = [spec EXCEPT ![r] = <<>>]
  /\ cache' = [cache EXCEPT ![r] = [p \in Cells |-> Junk]]
  /\ dcache' = [dcache EXCEPT ![r] = [p \in Cells |-> DraftJunk]]
  /\ verified' = NoStep
  /\ proposed' = [q \in Requests |-> [by |-> q, seen |-> <<>>]]
  /\ preempts' = preempts + 1
  /\ UNCHANGED <<config, toks, failed>>

Next == Step \/ \E r \in Requests : Preempt(r)
Spec == Init /\ [][Next]_vars
----------------------------------------------------------------------------
\* Drafts decide how fast a request advances, never what it says: every token of
\* the output is the one the target model gives after exactly the tokens before
\* it (the purpose of rejection_sample_pytorch and of the cells kept between steps).
GreedyOutputs ==
  \A r \in Requests : \A i \in (Len(Prompt[r]) + 1)..Len(toks[r]) :
    toks[r][i] = Model({<<toks[r][p + 1], p>> : p \in 0..(i - 2)})

\* "accepts them up to the first mismatch.  If an entire sequence of draft tokens
\* is accepted, a bonus token is appended": a step yields the drafts that agree
\* with the output and one more token.
AcceptsLongestPrefix ==
  \A r \in Requests :
    LET d == verified[r].drafts
        o == verified[r].output
    IN verified[r] # NoStep[r] =>
         /\ \A i \in 1..(Len(o) - 1) : o[i] = d[i]
         /\ Len(o) = Len(d) + 1 \/ (Len(o) \in DOMAIN d /\ o[Len(o)] # d[Len(o)])

\* The drafts handed to the scheduler for a request were proposed for it, from
\* its own tokens each paired with the hidden state before it, followed by its
\* own earlier drafts: no pair of a rejected draft, of padding or of a neighbour
\* (prepare_inputs, propose, prepare_attn_metadata, take_draft_token_ids).
OwnPairs(r) == {<<toks[r][p + 2], <<r, p>>>> : p \in 0..(Len(toks[r]) - 2)}
DraftsOwn ==
  \A r \in Requests : LET seen == proposed[r].seen IN seen # <<>> =>
    /\ proposed[r].by = r
    /\ \A t \in DOMAIN seen :
         Len(toks[r]) - 2 + t - 1 < MaxModelLen =>
           seen[t] = OwnPairs(r) \cup {<<spec[r][s], <<r, -s>>>> : s \in 1..(t - 1)}

\* Proposing never ends the step with an error: the block table has every block
\* prepare_attn_metadata takes from it ("assert len(seq_block_table) == n"), and
\* there is something to concatenate.
NeverFails == ~failed
=============================================================================
