----------------------------- MODULE RequestRows -----------------------------
(***************************************************************************)
(* Which rows of a step's tensors belong to which request: the LoRA mask   *)
(* of the token rows (_configure_lora, create_lora_mask, PunicaWrapperHPU),*)
(* the grammar bitmask and the logprobs of the logits rows                 *)
(* (apply_grammar_bitmask, _build_logprobs_output), and the prompt         *)
(* logprobs collected over the chunks of a prompt                          *)
(* (_get_prompt_logprobs_dict).  Rows and positions count from 0, batches  *)
(* of requests from 1; module ModelRunner has the batch order.             *)
(***************************************************************************)
EXTENDS Integers, Sequences, FiniteSets
LOCAL INSTANCE SequencesExt
LOCAL INSTANCE FiniteSetsExt
LOCAL INSTANCE TLC

CONSTANTS Requests,       \* numbers: the batch is in their order
          Adapter,        \* Adapter[r]: its lora_int_id, 0 for none
          WithLogprobs,   \* requests that want prompt logprobs
          PromptLen, MaxLen,
          MaxLoras,       \* max_loras: adapters on the device
          MaxPrefills,    \* requests of a prompt batch
          Configs         \* [chunked, requests, structured (those with a grammar), columns, pad]

VARIABLES config, computed,
          lora_index_to_id,        \* the adapter of each device slot, 0 for none
          recent,                  \* active adapters, least recently used first
          use_structured_output,   \* as the last step left it
          in_progress,             \* prompt logprobs collected so far
          prompt_logprobs,         \* prompt logprobs returned
          entered,                 \* history: tokens computed when it last entered the batch
          ran                      \* the rows of the last step
vars == <<config, computed, lora_index_to_id, recent, use_structured_output, in_progress, prompt_logprobs, entered, ran>>

Slots == 0..(MaxLoras - 1)
LOCAL Least(a, b) == IF a < b THEN a ELSE b
LOCAL Place(s, x) == CHOOSE i \in DOMAIN s : s[i] = x
LOCAL InOrder(S) == SetToSortSeq(S, <)
\* Token rows with the adapters added to them; the requests of the logits rows;
\* requests with a grammar and the logits rows masked for them; whose logprobs
\* are read from which row; the requests behind an unfinished prompt; whether
\* the inputs were made with the flag of a structured step.
NoRun == [tokens |-> {}, logits |-> <<>>, grammar |-> {}, masked |-> {}, logprobs |-> {}, behind |-> {},
          late |-> FALSE, failed |-> FALSE]
----------------------------------------------------------------------------
(* LoRA.  lora is the manager's state, [slots, recent].                    *)

\* LRUCacheWorkerLoRAManager: an adapter is activated in the first free slot, or
\* in that of the least recently used one.
Activate(lora, id) ==
  LET free == {i \in Slots : lora.slots[i] = 0}
      at == IF free # {} THEN Min(free) ELSE CHOOSE i \in Slots : lora.slots[i] = lora.recent[1]
      kept == IF free # {} THEN lora.recent ELSE Tail(lora.recent)
  IN IF id = 0 THEN lora
     ELSE IF \E i \in Slots : lora.slots[i] = id
     THEN [lora EXCEPT !.recent = Append(SelectSeq(@, LAMBDA a : a # id), id)]
     ELSE [slots |-> [lora.slots EXCEPT ![at] = id], recent |-> Append(kept, id)]
set_active_loras(lora, lora_ids) == FoldLeft(Activate, lora, lora_ids)

\* create_lora_mask: the columns, that is the slots, set in a row.  A prompt has
\* width rows per request, a decode batch one.
lora_index(lora, id) == CHOOSE i \in Slots : lora.slots[i] = id
create_lora_mask(lora, lora_ids, width, rows) ==
  [row \in 0..(rows - 1) |->
     {lora_index(lora, lora_ids[i]) : i \in {i \in DOMAIN lora_ids :
        lora_ids[i] # 0 /\ row \in ((i - 1) * width)..(i * width - 1)}}]

\* dispatch_bgmv_linear, add_shrink and add_expand: x @ A for all slots, masked,
\* @ B, so that the adapters in the slots of the mask are added to the row.
Added(lora, mask, row) == {lora.slots[c] : c \in mask[row]} \ {0}

\* _configure_lora, then the forward call: width columns per request in the
\* mask, columns in the batch.
Call(lora, reqs, width, columns, padding) ==
  LET lora_ids == [i \in 1..Len(reqs) |-> Adapter[reqs[i]]]
      active == set_active_loras(lora, lora_ids)
      mask == create_lora_mask(active, lora_ids, width, (Len(reqs) + padding) * columns)
  IN [lora |-> active,
      tokens |-> {[req |-> reqs[(row \div columns) + 1], added |-> Added(active, mask, row)] :
                    row \in 0..(Len(reqs) * columns - 1)}]
\* The prompt mask spans the padded prompt; the decode mask gives the i-th request
\* the i-th row, whatever the number of tokens of a request.
MaskWidthOne(n) == 1            \* mutant: one row per prompt
MaskWidth(n) == n
PromptCall(lora, reqs, n) ==
  LET width == Max({n[r] : r \in ToSet(reqs)}) + config.pad
  IN Call(lora, reqs, MaskWidth(width), width, config.pad)
DecodeCall(lora, reqs) == Call(lora, reqs, 1, config.columns, config.pad)
----------------------------------------------------------------------------
(* Logits rows.                                                            *)

\* num_output_logits of a prompt: none before its end, but one if the previous
\* step was structured (the flag is reset after the inputs are made).
NumLogitsAtEnd(r, n) == IF computed[r] + n >= PromptLen[r] THEN 1 ELSE 0      \* mutant: flag not read
NumLogits(r, n) == IF computed[r] + n >= PromptLen[r] \/ use_structured_output THEN 1 ELSE 0
LogitsRequests(P, n) == SelectSeq(P, LAMBDA r : NumLogits(r, n[r]) = 1)
Behind(P, n) == {P[i] : i \in {i \in DOMAIN P : \E j \in 1..(i - 1) : computed[P[j]] + n[P[j]] < PromptLen[P[j]]}}

\* grammar_output: the structured requests that will have a token.
GrammarRequests(D, P, n) ==
  {r \in config.structured : r \in ToSet(D) \/ (r \in ToSet(P) /\ computed[r] + n[r] >= PromptLen[r])}

\* apply_grammar_bitmask: the logits row of a request is taken to be its row in
\* the batch; numpy refuses one that the logits do not have.
logit_index(batch, r) == Place(batch, r) - 1
Masked(batch, grammar) == {<<logit_index(batch, r), r>> : r \in grammar}

\* _build_logprobs_output of a structured step: one sampling call for all rows,
\* for the decodes and all prompts.  (Else each call names the requests of its
\* own rows.)
Logprobs(batch, rows) == {<<batch[i], rows[i]>> : i \in 1..Least(Len(batch), Len(rows))}
----------------------------------------------------------------------------
(* Prompt logprobs: entry i of a request is what was read for it, the      *)
(* hidden state of a request's position and the token it is compared with. *)

Nothing(r) == [i \in 0..(PromptLen[r] - 2) |-> <<0, 0, 0>>]
\* Mutant: a chunk that ends one token before the prompt's end is the last one.
LastChunkEarly(num_tokens, num_remaining) == num_tokens >= num_remaining
LastChunk(num_tokens, num_remaining) == num_tokens > num_remaining
num_logits(r, n) ==
  LET num_remaining == PromptLen[r] - (computed[r] + 1)
  IN IF LastChunk(n, num_remaining) THEN num_remaining ELSE n
\* start_idx of the copied slice.
start_idx(r) == computed[r]
Collected(r, n) ==
  [i \in DOMAIN in_progress[r] |->
     IF i \in start_idx(r)..(start_idx(r) + num_logits(r, n) - 1)
     THEN LET j == i - start_idx(r) IN <<r, computed[r] + j, computed[r] + 1 + j>>
     ELSE in_progress[r][i]]
\* remove_request drops what was collected for a request left out of the step
\* (_update_states); a later chunk of it begins with a new tensor.
Kept(batch, r) == IF r \in ToSet(batch) THEN in_progress[r] ELSE Nothing(r)
Wanted(P) == {r \in ToSet(P) : r \in WithLogprobs /\ prompt_logprobs[r] = <<>>}
Returned(P, n) == {r \in Wanted(P) : LastChunk(n[r], PromptLen[r] - (computed[r] + 1))}
----------------------------------------------------------------------------
Init ==
  /\ config \in Configs
  /\ computed = [r \in Requests |-> 0]
  /\ lora_index_to_id = [i \in Slots |-> 0]
  /\ recent = <<>>
  /\ use_structured_output = FALSE
  /\ in_progress = [r \in Requests |-> Nothing(r)]
  /\ prompt_logprobs = [r \in Requests |-> <<>>]
  /\ entered = [r \in Requests |-> 0]
  /\ ran = NoRun

\* Prompt batches of consecutive requests (_can_merge_prefill_contents).
Batches(P) == [i \in 1..((Len(P) + MaxPrefills - 1) \div MaxPrefills) |->
                 SubSeq(P, (i - 1) * MaxPrefills + 1, Least(i * MaxPrefills, Len(P)))]

\* sample_tokens: the prompt batches, the decode batch, the sampling.
Step(D, P, n) ==
  LET lora == [slots |-> lora_index_to_id, recent |-> recent]
      Prompt(acc, reqs) == LET c == PromptCall(acc.lora, reqs, n)
                           IN [lora |-> c.lora, tokens |-> acc.tokens \cup c.tokens]
      prompts == FoldLeft(Prompt, [lora |-> lora, tokens |-> {}], Batches(P))
      both == IF D = <<>> THEN prompts
              ELSE LET c == DecodeCall(prompts.lora, D)
                   IN [lora |-> c.lora, tokens |-> prompts.tokens \cup c.tokens]
      grammar == GrammarRequests(D, P, n)
      rows == D \o LogitsRequests(P, n)
  IN /\ lora_index_to_id' = both.lora.slots
     /\ recent' = both.lora.recent
     /\ use_structured_output' = (grammar # {})
     /\ ran' = [tokens |-> both.tokens, logits |-> rows, grammar |-> grammar, masked |-> Masked(D \o P, grammar),
                logprobs |-> IF grammar # {} THEN Logprobs(D \o P, rows) ELSE {},
                behind |-> Behind(P, n), late |-> use_structured_output,
                failed |-> \E m \in Masked(D \o P, grammar) : m[1] >= Len(rows)]
     /\ computed' = [r \in Requests |-> IF r \in ToSet(P) THEN computed[r] + n[r]
                                        ELSE IF r \in ToSet(D) THEN computed[r] + 1 ELSE computed[r]]
     /\ in_progress' = [r \in Requests |-> IF r \in Wanted(P) THEN Collected(r, n[r]) ELSE Kept(D \o P, r)]
     /\ prompt_logprobs' = [r \in Requests |-> IF r \in Returned(P, n) THEN in_progress'[r] ELSE prompt_logprobs[r]]
     /\ entered' = [r \in Requests |-> IF r \in WithLogprobs \ ToSet(D \o P) /\ prompt_logprobs[r] = <<>>
                                       THEN computed[r] ELSE entered[r]]
     /\ UNCHANGED config

\* The scheduler (external) runs requests with at most MaxLoras adapters; a step
\* that fails is the engine's last.
Next ==
  /\ ~ran.failed
  /\ \E S \in SUBSET {r \in config.requests : computed[r] < MaxLen} \ {{}} :
       LET P == {r \in S : computed[r] < PromptLen[r]}
       IN \E n \in [P -> 1..MaxLen] :
            /\ \A r \in P : IF config.chunked THEN computed[r] + n[r] <= PromptLen[r] ELSE n[r] = PromptLen[r]
            /\ Cardinality({Adapter[r] : r \in S} \ {0}) <= MaxLoras
            /\ Step(InOrder(S \ P), InOrder(P), n)
Spec == Init /\ [][Next]_vars
----------------------------------------------------------------------------
\* Every token row is computed with the adapter of its request and no other,
\* although slots change hands between the calls of one step ("Lora Mask is needed
\* to ensure we match the correct lora weights for the for the request").
AdaptersOwn == \A t \in ran.tokens : t.added = {Adapter[t.req]} \ {0}

\* "Reorder the bitmask to match the order of the requests in the batch": a
\* request with a grammar is constrained on its own logits row and on no other,
\* and the logprobs of a row go to its request, in every step after a structured
\* one however prompts are split ("Always have at least 1 logit when using [...]
\* structured output"), and in any step for a request behind no unfinished prompt.
Aligned(r) == ran.late \/ r \notin ran.behind
GrammarOwn ==
  /\ \A r \in ran.grammar : Aligned(r) =>
       {i \in 1..Len(ran.logits) : <<i - 1, r>> \in ran.masked} = {i \in 1..Len(ran.logits) : ran.logits[i] = r}
  /\ \A p \in ran.logprobs : Aligned(p[2]) => p[1] = p[2]
  /\ ran.late => ~ran.failed
\* What the comment says without the condition.
GrammarAlways == \A r \in ran.grammar : \A m \in ran.masked :
                   m[2] = r => m[1] + 1 \in DOMAIN ran.logits /\ ran.logits[m[1] + 1] = r

\* Prompt logprobs are returned with the first token, once the whole prompt is
\* computed, and entry i is read at position i for the token at position i + 1,
\* however the prompt was chunked, from where the request last entered the batch:
\* one left out between two chunks has lost what was collected before.
PromptLogprobsExact ==
  \A r \in WithLogprobs :
    /\ (prompt_logprobs[r] # <<>>) = (computed[r] >= PromptLen[r])
    /\ prompt_logprobs[r] # <<>> =>
         \A i \in 0..(PromptLen[r] - 2) :
           prompt_logprobs[r][i] = IF i >= entered[r] THEN <<r, i, i + 1>> ELSE <<0, 0, 0>>
\* "If chunked, we'll copy in slice by slice": without that condition.
PromptLogprobsWhole ==
  \A r \in WithLogprobs : prompt_logprobs[r] # <<>> => \A i \in 0..(PromptLen[r] - 2) : prompt_logprobs[r][i] = <<r, i, i + 1>>
=============================================================================
