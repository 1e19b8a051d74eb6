------------------------------- MODULE MCRows --------------------------------
(* The rows of a batch, in one run: what each logits row is sampled with, and  *)
(* whose adapters, grammars and logprobs the rows of a step get.  An initial   *)
(* state begins one of the two; the variables only the other has rest.         *)
EXTENDS MCModelRunner

CONSTANTS Requests, Adapter, WithLogprobs, RowPromptLen, MaxLen, MaxLoras, MaxPrefills, RowConfigs

VARIABLES part,
          config, computed, lora_index_to_id, recent, in_progress, prompt_logprobs, entered, ran

RR == INSTANCE RequestRows WITH PromptLen <- RowPromptLen, Configs <- RowConfigs
rows_vars == <<config, computed, lora_index_to_id, recent, in_progress, prompt_logprobs, entered, ran>>
both_vars == <<part, vars, rows_vars>>

\* Adapters and prompt logprobs of four requests; grammars with the prompts split.
Base == [chunked |-> FALSE, requests |-> 1..4, structured |-> {}, columns |-> 1, pad |-> 1]
MCRowConfigs == {Base, [Base EXCEPT !.chunked = TRUE, !.requests = 1..3, !.structured = {2, 3}, !.pad = 0]}
MCSpecDecode == {[Base EXCEPT !.columns = 2]}
MCAdapter == <<7, 0, 8, 9>>
MCRowPromptLen == <<3, 2, 2, 2>>
-----------------------------------------------------------------------------
RunnerRests ==
  /\ phase = 0 /\ sched = 0 /\ num_scheduled_tokens = 0 /\ block_ids = 0 /\ batch = 0 /\ dev = 0
  /\ batch_changed = 0 /\ gdn = 0 /\ sampled = 0
RowsRest ==
  /\ config = 0 /\ computed = 0 /\ lora_index_to_id = 0 /\ recent = 0 /\ in_progress = 0
  /\ prompt_logprobs = 0 /\ entered = 0 /\ ran = 0

InitBoth == \/ part = "runner" /\ Init /\ RowsRest
            \/ part = "rows" /\ RR!Init /\ RunnerRests
NextBoth == \/ part = "runner" /\ Next /\ UNCHANGED <<part, rows_vars>>
            \/ /\ part = "rows"
               /\ RR!Next
               /\ UNCHANGED <<part, phase, sched, num_scheduled_tokens, block_ids, batch, dev, batch_changed, gdn, sampled>>
SpecBoth == InitBoth /\ [][NextBoth]_both_vars
-----------------------------------------------------------------------------
\* Each logits row is sampled with the parameters, the prompt and the generator
\* of the request it belongs to, although device rows are refreshed only when
\* the batch changes (make_selective_sampling_metadata).
SampledWithOwn ==
  part = "runner" => SampledWithOwnParams /\ SampledWithOwnPrompt /\ SampledWithOwnGenerator

\* A compact GDN slot, and with it a recurrent state, is a request's own until
\* the request is finished: left out, preempted or resumed it keeps the slot,
\* no two have the same, and there is one for everybody (_update_states).
GdnOwn == [][part = "runner" => GdnStays /\ GdnExclusive' /\ GdnSlotAvailable']_both_vars

\* Every token row is computed with the adapter of its request and no other
\* (_configure_lora, create_lora_mask).
AdaptersOwn == part = "rows" => RR!AdaptersOwn

\* Logits rows are masked for, and give their logprobs to, the requests they
\* belong to: in every step after a structured one, and behind no unfinished
\* prompt in the first (apply_grammar_bitmask, _build_logprobs_output).
GrammarOwn == part = "rows" => RR!GrammarOwn
GrammarAlways == part = "rows" => RR!GrammarAlways

\* Prompt logprobs are those of the prompt's own positions, however it was
\* chunked, from where its request last entered the batch
\* (_get_prompt_logprobs_dict, remove_request).
PromptLogprobsOwn == part = "rows" => RR!PromptLogprobsExact
PromptLogprobsWhole == part = "rows" => RR!PromptLogprobsWhole
=============================================================================
