# Verification of the vLLM-Gaudi plugin

TLA+ models of the parts of `vllm-gaudi` (the plugin that runs vLLM on Intel
Gaudi accelerators) whose correctness depends on the order of events or on
index arithmetic no test covers in full: block tables that move under running
requests, staging buffers shared with another instance, the persistent batch and
its reordering, the shapes, slots and masks of every model call, and switching
the served model inside one process. TLC checks them on small instances; TLAPS
proves the core results for every value of the constants.

Paths below are relative to `src/vllm-gaudi/vllm_gaudi/`. vLLM itself (the
scheduler, the KV cache manager, `EngineCore`, `AsyncLLM`, the upstream NIXL
connector) is not part of the repository; it is modelled from how the plugin
uses it and marked external in `PROJECT.json`, and so are the device's kernels.

## 1. The system

One engine core process runs a loop: the scheduler chooses what a step
computes, preempts and finishes, the worker's model runner executes the step,
and the scheduler processes what it sampled. The plugin supplies the worker and
the model runner, the layers and attention the model is made of, parts of the
scheduler and KV connectors, and a server that can switch models.

| Component | State | Operations | Interacts with |
|---|---|---|---|
| Online defragmenter `extension/defragmentation.py` | two mapping tables (logical/physical block), reference counts, block lists per request | `update_state`, `defragment`, `resolve` | called first in every `execute_model`; all block tables are resolved through it |
| Joint-KV staging, prefill side `distributed/.../hetero_hpu_nixl_connector.py` (`NixlConnectorScheduler`, worker save) | free slot list, slots per request, deferred saves, partial block lists, requests to save/send | `update_state_after_alloc`, `build_connector_meta`, `request_finished`, `update_connector_output`, `_save_kv_to_staging` | scheduler calls; metadata to the worker one step later; the decode instance reads slots by remote DMA |
| Joint-KV staging, decode side (same file, worker) | receive slots, pending sub-blocks, transfers in flight | `_read_blocks`, `get_finished`, `post_process_device_kv_on_receive` | NIXL transfers complete asynchronously; scheduler waits for the report |
| Persistent batch `v1/worker/hpu_input_batch.py` | one row per request in a dozen arrays and tables, caches, device copies | `add_request`, `remove_request`, `swap_states`, `condense`, `make_selective_sampling_metadata` | driven by the model runner |
| Model runner `v1/worker/hpu_model_runner.py` | cached request states, the batch, GDN slot free list, flags kept from step to step | `_update_states`, `_ensure_decodes_first`, prefill grouping, `sample_tokens`, `apply_grammar_bitmask` | scheduler output in, sampled tokens out |
| Step inputs and attention (same file, `attention/`, `v1/attention/`, `extension/ops.py`) | the KV cache | `_prepare_prefill_inputs`, `_create_decode_input_data`, block lists, masks, cache insertion, paged attention | made from the batch, with the bucketed shapes and the defragmenter's ids |
| LoRA, grammar and logprob rows (same file, `lora/`) | LoRA slots by recency, prompt logprobs in progress | `_configure_lora`, `create_lora_mask`, `apply_grammar_bitmask`, `_build_logprobs_output`, `_get_prompt_logprobs_dict` | the batch order and the rows of each call |
| Model switching `v1/engine/multi_model_async_llm.py`, `v1/engine/core_patch.py`, `v1/worker/hpu_worker.py`, `entrypoints/openai/multi_model_api_server.py` | current model, lock, frontend processors, engine config and scheduler, executor sleep tags, worker flags, stash of runners | `switch_model`, `gaudi_reconfigure_engine`, `sleep`, `wake_up`, `unload_model`, `load_model`, `restore_stashed_model` | requests, endpoint calls and reconfigurations share the engine core's queue |
| Asynchronous scheduling `v1/core/sched/hpu_async_scheduler.py`, `AsyncHPUModelRunnerOutput` | previous sampled ids by row, invalid rows, -1 placeholders | `_prepare_input_ids`, `get_output`, `_update_request_with_output` | steps scheduled before the last one's tokens are known |
| Speculative decoding `v1/spec_decode/hpu_eagle.py`, `v1/sample/hpu_rejection_sampler.py`, runner | draft tokens by request, the draft model's KV cache | `_prepare_spec_decode_inputs`, `rejection_sample`, `propose`, `take_draft_token_ids` | runner's decode batch, scheduler's draft tokens |
| CPU offloading `v1/kv_offload/worker/cpu_hpu.py` | FIFO of transfers, pools of streams and events | `transfer_async`, `get_finished`, `wait`, `shutdown` | upstream offloading connector, the compute stream, the defragmenter |
| Bucketing `extension/bucketing/` | bucket lists | generation, lookup, fallback | every shape the runner executes |
| Data-parallel steps `v1/worker/hpu_dp_utils.py`, runner, communicator | none beyond the step | `get_dp_padding`, dummy batches, `dispatch`, `combine` | all ranks, one collective at a time |
| Mixture of experts `ops/hpu_fused_moe.py`, `ops/hpu_grouped_topk_router.py` | the rank's experts | routing, slices, fused and gathered forms | dispatched tokens of all ranks |
| Quantised layers `ops/hpu_{gptq,awq,fp8,modelopt,compressed_tensors}.py` | parameters while loading, device weights after | loaders, `process_weights_after_loading`, `apply` | checkpoints; restored stashes |
| Recurrent layers `ops/hpu_gdn_pytorch.py`, `ops/hpu_mamba_mixer2.py`, `ops/ssd_combined.py` | convolution windows and SSM states in slots | chunked scans, single steps, slot indices | runner's metadata, GDN slots or blocks |
| Host-buffer NIXL connector `hpu_nixl_connector.py` | host buffers | layout copies, registration | upstream connector |
| Tool-call parser `entrypoints/openai/tool_parsers/minimax_m3.py` | streaming position | parse, stream | OpenAI server |
| Platform, patches, configuration, remaining operators, profiler | configuration | start-up, kernels | everything |

What is hard, and what each part must guarantee:

* **Defragmenter.** Blocks move while requests hold logical ids; ids are freed,
  shared through the prefix cache and granted again; the scheduler's news of a
  step arrive together. *Must hold:* the tables are inverse permutations, counts
  equal references, no readable data is overwritten, moves compact.
* **Staging.** The pool is a bounded resource with three parties (scheduler,
  worker, remote reader) that learn of each other's steps late. Exhaustion,
  deferral, preemption, aborts, time-outs, failed transfers. *Must hold:* a slot
  is free or has one owner; what the other side reads is the request's own KV;
  nothing is held or deferred for ever; every read is reported.
* **Batch and runner.** Rows are reused, moved, swapped and reordered; metadata
  is cached from one step to the next to save copies. *Must hold:* a row's
  columns belong to one request; decodes come first; each token is sampled with
  its own request's parameters, generator, prompt, adapter and grammar; one token
  per completed step; GDN slots are never shared, lost or unavailable.
* **Step inputs and attention.** One step is cut into padded batches whose slots,
  block lists, masks and positions are computed separately, in half a dozen
  variants (windows, chunks, slices, contiguous cache, shared layers). *Must
  hold:* whatever is written goes to the request's own slot; each query attends
  to its own history only, and to all of it that its mask allows.
* **Asynchronous scheduling.** A step runs before the tokens of the one before
  are known; rows, requests and placeholders change in between. *Must hold:* a
  decode is fed its own request's last token, penalties see its real outputs,
  every token reaches its client once and in order, nobody waits for a token
  that was discarded.
* **Speculative decoding.** Drafts are flattened into the decode batch with
  padding that must neither be accepted nor stored; the draft model has a cache
  of its own that follows with a lag and after rejections. *Must hold:* the
  tokens kept are those of plain decoding; proposals come from the request's own
  tokens.
* **Offloading.** Transfers run on their own streams beside the model, complete
  late, and hold blocks that requests may free, reuse or have moved. *Must hold:*
  a request finds its own prompt in every block it counts as loaded; a stored
  chunk has what it is said to have.
* **Shapes and ranks.** Lists of buckets are filtered, corrected and extended on
  the fly; ranks agree on shapes by collectives that pair calls by order only.
  *Must hold:* a bucket holds its batch; a shape that missed once is prepared
  from then on; all ranks make the same calls.
* **Layers.** A product or a recurrence is computed in another order, from
  packed, sliced, rescaled or chunked pieces, by rank and by loading order. *Must
  hold:* in exact arithmetic it is the same product or recurrence; states are
  loaded from and stored to the request's own slots.
* **Model switching.** A dozen steps over several processes, each of which may
  fail on some workers, with requests and sleep/wake-up calls around them.
  *Must hold:* all parties mean the same model afterwards; whatever may run is
  awake; sleeping models hold no device memory; switches end; requests are
  answered.

The hazards found in the code, each at its line, are listed in `PROJECT.json`
with the properties that would catch them.

## 2. Modules

| Module | Models | Composes |
|---|---|---|
| `Defragmenter` | the defragmenter and the step that drives it | |
| `DefragmenterProofs` | its theorems | extends `Defragmenter`, `TLAPS` |
| `LeftFold` | a loop over a sequence as a recursive function | parameter: the loop's body |
| `SequenceLoops` | three such loops: lists joined to one, the elements of a list that are in a set, the sum of a list | instances of `LeftFold` |
| `SequenceFacts` | induction over a loop; lemmas about joined lists, lists used as stacks, sets as lists | extends `LeftFold`, `SequenceLoops`; parameter: the loop's body |
| `SlotLease` | what a pool of staging slots promises (abstract) | |
| `JointStaging` | prefill side: scheduler, worker, remote reader | implements `SlotLease`; instances of `LeftFold` |
| `JointStagingProofs` | its theorems | extends `JointStaging`; instances of `SequenceFacts` |
| `JointRecv` | decode side | implements `SlotLease`; instances of `LeftFold` |
| `JointRecvProofs` | its theorems | extends `JointRecv`; instances of `SequenceFacts` |
| `InputBatch` | the batch as operators, one per method | |
| `BatchStep` | what every step does to the rows | extends `InputBatch`; instances of `LeftFold` |
| `BatchStepProofs` | lemmas about the operations on the batch, for both runners | extends `BatchStep`, `SequenceLoops`; instances of `SequenceFacts` |
| `ModelRunner` | one engine step in synchronous mode | extends `BatchStep`, `SequenceLoops` |
| `ModelRunnerProofs` | its theorems, about the properties as the runs state them | extends `MCRows`, `BatchStepProofs` |
| `TokenStreams` | what decoding promises each client (abstract) | |
| `AsyncRunner` | steps in flight: runner and scheduler in asynchronous mode | extends `BatchStep`, `SequenceLoops`; implements `TokenStreams` |
| `AsyncRunnerProofs` | its theorems | extends `AsyncRunner`, `BatchStepProofs` |
| `ModelSwitch` | manager, engine core, workers, requests | |
| `ModelSwitchProofs` | its theorems, about the properties as the run states them | extends `MCModelSwitch` |
| `StepInputs` | the prompt and decode batches of a step, their slots, masks and attention | |
| `RequestRows` | adapters, grammar and logprobs by row | |
| `RecurrentStates` | slots of recurrent states in the three layouts | |
| `Offload` | transfers to and from CPU memory beside the runner's step | |
| `SpecDecode` | draft, verify, reject, propose | |
| `Bucketing` | the bucket lists as operators | |
| `BucketManager` | their life: generation, lookups, fallbacks | extends `Bucketing` |
| `FieldArithmetic` | exact tensor arithmetic in a finite field | |
| `Experts` | routing and the forms of an expert layer | extends `FieldArithmetic` |
| `DataParallel` | the collectives of a step of several ranks | extends `Experts` |
| `QuantizedWeights` | conversions of four-bit and of scaled weights | extends `FieldArithmetic` |
| `QuantizedLayers` | a quantised layer from checkpoint to output | extends `QuantizedWeights` |
| `GatedDelta`, `StateSpace` | the two recurrences and their chunked forms | extend `FieldArithmetic` |
| `RecurrentLayers` | prompts in pieces, then decodes, through either | extends both |
| `MCRows` | instance for TLC | `MCModelRunner`, instance of `RequestRows` |
| `MCCaches` | instance for TLC | instances of `StepInputs`, `Offload`, `RecurrentStates` |
| `MCLayers` | instance for TLC | instances of `BucketManager`, `DataParallel`, `QuantizedLayers`, `RecurrentLayers` |
| other `MC...` | instances for TLC: definitions of function-valued constants, properties of a run | extend the module they are named for |

An `MC` module with several instances has a variable `part`: an initial state
begins one of them, the variables of the others rest at 0, and every property
is an implication from its part. The parts do not interact; they share a run
because the question asked of them is one. `MCModelSwitch` uses `part` for two
instances of the same module with different constants.

How state and actions correspond to the code:

* **`Defragmenter`.** `fwd_mapping_table`, `bwd_mapping_table`, `used_blocks`
  and `req_blocks` are the object's attributes; `new` and `fin` are what the
  scheduler output carries; `kv[p]` is ghost state, the logical block whose
  current data physical block `p` holds. `UpdateState` is `update_state` as a
  whole; `DefragmentMoves`/`DefragmentSkips` are `defragment` with and without
  its early return; `Forward` is the model step that writes the granted blocks
  through `resolve`. `Grant`, `Preempt` and `Finish` are the external block
  manager. Pairs of moves are described by their rank (k-th highest used block
  above, k-th lowest free block below), not by the loop that finds them.
* **`JointStaging`.** `conn` has the scheduler-side connector's fields under
  their own names. `Schedule` is a scheduler step: `update_state_after_alloc` for
  started requests, then `build_connector_meta` with its drain of deferred
  saves; `Execute` is the worker's step with that metadata, including the copy
  into the slots; `Update` processes the sampled tokens and calls
  `request_finished` and `update_connector_output`. With `Lookahead = 1` one more
  step may be scheduled before the last is processed, as with asynchronous
  scheduling; a request may be preempted while that step is in flight, and what
  the step samples for it is then discarded. `epoch` tells the device blocks of before a preemption from those
  after it; `staging[s]` says whose current KV a slot holds.
* **`JointRecv`.** `ReadPosted`, `ReadExhausted` and `ReadRefused` are the
  outcomes of `_read_blocks`; `TransferEnds` is the NIXL completion, `PostProcess`
  the unstaging, `GetFinished` the report to the scheduler.
* **`InputBatch`.** Every array indexed by row is a field of a record per row;
  `add_request`, `remove_requests`, `swap_states` and `condense` return the batch
  after the method. Two columns stand for several that the code treats alike.
* **`BatchStep`.** The batch part of `_update_states` (removals, counts of the
  requests that stay, additions, `condense`) and the two reorderings, shared by
  both runners.
* **`ModelRunner`.** `ExecuteModel` is the bookkeeping of `execute_model`
  (`_update_states`), `SampleTokens` that of `sample_tokens`: both reorderings,
  decode and prefill calls, metadata, recorded tokens. `sampled` records with
  whose parameters each logits row was sampled. The scheduler is any scheduler
  that fits the constants. One block holds one token.
* **`AsyncRunner`.** `Step` is `schedule`, `execute_model` and `sample_tokens`
  with the outcome computed by `Ran`; `Update` is `get_output` and
  `update_from_output` for the oldest of at most two `frames` in flight. A token
  is named by its request and place, so a wrong input or a wrong delivery shows
  as a wrong name. `prev` is `prev_sampled_token_ids` with
  `prev_req_id_to_index`, `ids` is `input_ids_hpu`, `cpu[r]` the output part of
  the request's row of `token_ids_cpu`, `outputs[r]` its `output_token_ids` with
  the placeholders. `latest` records which requests the step fed or sampled
  wrongly. A preemption keeps the tokens in flight, as the scheduler's own does,
  or discards them, as a reset of the prefix cache does.
* **`ModelSwitch`.** `manager` is `MultiModelAsyncLLM` with the phase its
  coroutine is in while it holds `_switching_lock`; `core.pc` is the step of
  `gaudi_reconfigure_engine`, one action each, with a disjunct for its failure
  (a `collective_rpc` fails after an arbitrary subset of workers has done it);
  `worker[w]` has the flags, KV config and stash of `HPUWorker`, and the
  attributes of its runner the properties need. Endpoint calls and requests go
  through `inbox` in order.
* **`StepInputs`.** `blocks[r]`, `computed[r]`, `planned[r]` are a request's row
  of the block table, its computed count and the tokens scheduled for it.
  `Plan`/`Admit` are the external scheduler's; `Execute` is the whole step, all
  prompt batches and the decode batch in order: what each writes
  (`PrefillWritten`, `DecodeWritten`) and what each of its queries sees
  (`PrefillSeen`, `DecodeSeen`) through the block lists and masks that the code
  makes for the configuration (`config`: window, chunk, slice, contiguous cache,
  mrope, shared layers). A key in `kv` is a token and its rotary position, and a
  query is the set of keys it sees, so that a wrong slot, mask, position or block
  shows as a wrong key. `Move` is a swap of the defragmenter, with `resolve` its
  table.
* **`RequestRows`.** `Step` is the row bookkeeping of one step: LoRA slots
  (`Activate`, the external LoRA manager's cache by recency), the mask and its
  product, the bitmask rows, the logprob rows, the prompt logprobs collected.
  `config.structured` are the requests with a grammar. `use_structured_output` is
  the flag as the step before left it, which the inputs are made with. A request
  that is left out of a step leaves the batch, and what was collected of its prompt
  logprobs with it (`Kept`); `entered` is history, the tokens it had computed when it
  last came in.
* **`RecurrentStates`.** `conv` and `ssm` are the state tensors by slot; `Prefill`
  and `Decode` load the indices computed from the block table, run the padded
  batch and store, in the order of the stores the code makes. A state is named by
  the tokens it has seen.
* **`Offload`.** `Step` is a runner step with the connector's metadata: deferred
  stores and planned loads are submitted, completed transfers are collected, the
  model writes its blocks. `handlers[dir]` has the queue and the two pools of
  `HpuOffloadingHandler`; a transfer's stream waits for the compute stream and
  for the transfer before it. `chunks` is the external manager's table.
* **`SpecDecode`.** `Step` verifies the drafts of all decodes in one flattened
  batch, runs the prompts, and proposes; `Forward`, `Sampled`, `Speculate` are its
  phases. The model's argmax is any function of the keys a query sees.
* **`BucketManager`.** `PromptLookup` and `DecodeLookup` are the lookups of a
  step with every shape the scheduler may form: the latter for the rows, with the
  most tokens any request has in the step, and for the block list, whose length is
  the number of blocks times those tokens, or with contiguous paged attention the
  highest block id. `Call` is the call made with them; `missed` is ghost state.
* **`DataParallel`.** `Call(r)` enters the next all-reduce of `get_dp_padding`,
  `Return(r)` leaves it when all ranks have; `RunForward` runs the layer of a model
  call on all ranks with `dispatch` and `combine`. `calls` pairs the nth call
  of each rank, as the device does.
* **`QuantizedLayers`.** `Load` is one tensor's loader on every rank, in any
  order; `Process` is `process_weights_after_loading`, `Apply` the product.
* **`RecurrentLayers`.** `DeltaPrompt`, `DeltaVarlen` and `SsmPrompt` are the
  chunked forms on the next piece of each prompt, the decode actions the single
  steps; `state` and `out` are compared with the recurrence run token by token.

The layers compute in a field of `P` elements (`FieldArithmetic`), where
addition and multiplication are exact, `exp` is any homomorphism and a
non-polynomial activation any fixed function: two algebraically equal forms agree
there, and forms that differ agree only by accident, which the chosen inputs
exclude as the mutants show. Rounding is thereby left out on purpose.

Every property is stated in words above its definition. Definitions named as a
mutant in their comment are deliberately wrong variants of the definition that
follows; `PROJECT.json` pairs each checked property with one that violates it,
to show that the property depends on the code.

## 3. Runs

| Run | Configuration | Checks | Shows |
|---|---|---|---|
| `defrag_apc` | `Defrag_apc.cfg` | `MappingInverse`, `RefCountExact`, `DataPreserved`, `MovesCompact` | No interleaving of grants, shared prefix blocks, preemptions and finishes with defragmentations limited by threshold and MaxSwap loses a readable block, a reference or the inverse tables, and every move compacts. |
| `staging` | `Staging.cfg` | `ReadIntact`, `LeaseSpec`, `NothingStuck` | Synchronous scheduling, no aborts, a pool smaller than the load: the decode side always reads the request's own KV, the allocator implements the abstract lease, and every reserved slot returns and every deferral ends under a fair engine loop. |
| `staging_any` | `Staging_any.cfg` | `SlotsPartition` | Aborts, stop tokens, preemption, timeouts, sparse chunks and asynchronous scheduling together still never lose or duplicate a slot. |
| `recv` | `Recv.cfg` | `ReceivedIntact`, `LeaseSpec`, `TakenReadReported` | Concurrent, failing and aborted reads into a pool smaller than the load: no slot is shared or lost, each request finds its own sub-blocks in place, and every read that took slots is reported. |
| `batch_chunked` | `Batch_chunked.cfg` | `RowsOwn`, `OneTokenPerStep` | Three rows, chunked prefill and preemption: through all additions, removals, moves and swaps each row stays its request's own, and each completed step yields one token per request. |
| `rows` | `Rows.cfg` | `SampledWithOwn`, `GdnOwn`, `AdaptersOwn`, `GrammarOwn`, `PromptLogprobsOwn` | What the rows of a step are computed and sampled with, in batches whose requests pause, abort, resume and share LoRA slots: every logits row gets its own request's parameters, prompt, generator and adapter, and, where prompts are split, its grammar after a structured step; prompt logprobs are the request's own since it last entered the batch; and nobody loses its GDN slot before it finishes. |
| `async` | `Async.cfg` | `FedOwn`, `StreamSpec`, `EveryoneFinishes` | Two steps in flight, three requests on two rows, chunked prompts, preemptions that keep what is in flight, and early stops: every decode is fed its request's own last token, penalties see the exact output, and each client gets its tokens once, in order, and to the end. |
| `switch` | `Switch.cfg` | `Agreed`, `Ready`, `RanOnOwn`, `Answered` | Three switches between two models on two workers, loads and KV initialisations that fail on any subset of workers, and the sleep and wake_up endpoints called at any time: all parties end up meaning one model, which serves awake, and every request is answered. With every step allowed to fail, a switch still ends and none leaves the scheduler paused. |
| `layers` | `Layers.cfg` | `BucketHolds`, `NoRepeatedMiss`, `SpecPrepared`, `Lockstep`, `ExpertsExact`, `WeightsExact`, `ScansExact` | The shapes and the algebra of a model call: buckets that hold every schedulable shape, data-parallel ranks that pad alike and take part in the same collectives, experts split over slices and ranks, weights packed and rescaled for the device, and recurrent layers whose chunked forms equal the recurrence. |
| `caches` | `Caches.cfg` | `KvOwn`, `ReadsOwnHistory`, `LoadedIntact`, `StoredIntact`, `StatesOwn` | The caches of a model runner: each step writes the tokens of its requests where their block tables say and attends to their own history, through moved, shared and reused blocks, masks and windows; blocks stored to and loaded from CPU memory stay intact; recurrent states are loaded from and stored to the request's own slots. |
| `spec` | `Spec.cfg` | `GreedyOutputs`, `DraftsOwn` | Greedy decoding with n-gram and EAGLE drafts: the tokens kept are those of decoding without drafts, and the drafter's cache and proposals follow the request's own tokens. |
| `spec_bonus` (violation) | `Spec_bonus.cfg` | `AcceptsLongestPrefix` | A row with fewer drafts than its batch loses the bonus token: its padding columns count as mismatches. |

Passing runs leave out the behaviours under which a property is known not to
hold, or state it with the condition that excludes them. They can be seen by
changing the constants named below in the run's configuration and checking the
property alone. Most contradict no statement of the repository; where one does (a
docstring, a comment, an assertion), the row quotes or cites it.

| Run | With | Violates | What it shows |
|---|---|---|---|
| `defrag_apc` | `Resubmit = TRUE`, `PrefixCaching = FALSE` | `DataPreserved` | an id that finishes and is submitted again between two engine steps has its new blocks forgotten by the defragmenter, which then moves other data over them |
| `staging` | `Need <- AllTwo`, `NumSlots = 4`, `MayStop = TRUE`, `Chunks <- AllOne` | `NoOrphanSlots` | a request that stops or is aborted keeps reserved slots or a deferred save (`request_finished` 536-549 clears neither) |
| `staging` | `Need <- AllTwo`, `NumSlots = 4`, `Chunks <- AllOne`, `Decodes <- NoDecode`, `Lookahead = 1` | `ReadIntact` | with asynchronous scheduling and a full pool, `request_finished` (579) advertises slots the worker has not copied to |
| `staging` | `Need <- AllTwo`, `NumSlots = 4`, `Decodes <- NoDecode`, `MaxPreempts = 1` | `ReadIntact` | `partial_reqs` keeps the device blocks of before a preemption (452) |
| `staging` | `Need <- AllTwo`, `NumSlots = 4`, `Chunks <- AllOne`, `Decodes <- NoDecode` | `ReservationGuaranteed` | a pool sized by `max_num_seqs` (docstring 171-173) runs out: finished requests hold slots until they are read |
| `staging` | `Need <- AllTwo`, `NumSlots = 4`, `Decodes <- NoDecode`, `Sparse = TRUE` | `ReadIntact` | a last prefill chunk that needs no new block schedules no save (441), and the slots advertised are never written |
| `recv` | `NumBlocks = 4` | `ReadReported` | a read that finds too few slots is logged and never reported (1535) |
| `batch_chunked` | the same constants | `SampledWithOwnParams` | reordering in an unchanged batch leaves the device rows of the parameters behind |
| `batch_chunked` | `MaxReqs = 2`, `MaxPreempts = 0`, `PromptLen <- Mixed` | `SampledWithOwnPrompt` | `swap_states` does not invalidate the cached prompt ids |
| `batch_chunked` | `Chunked = FALSE`, `Restricted = {r2}` | `SampledWithOwnMask` | two rows of the allowed-token mask are swapped through views (471) |
| `batch_chunked` | `Chunked = FALSE`, `MayAbort = TRUE` | `SampledWithOwnBadWords` | bad words are keyed by batch row but applied by logits row (702) |
| `batch_chunked` | `Chunked = FALSE`, `MayAbort = TRUE`, `Structured = {r2}` | `SampledWithOwnParams` | with structured output the combined logits are decodes before prompts while the sampling metadata is made for prompts before decodes |
| `batch_chunked` | `Structured = {r1}`, `PromptLen <- R2Long`, `MayAbort = TRUE` | `SampledWithOwnGrammar` | the first structured step has no logits row for an incomplete prompt, the bitmask counts one |
| `batch_chunked` | `Structured = {r1}`, `PromptLen <- R2Long`, `MayAbort = TRUE` | `OneTokenPerStep` | the step after a structured one records a token of an incomplete prompt |
| `batch_chunked` | `Hits = {0, 1}`, `MaxOut = 3`, `Chunked = FALSE` | `OneTokenPerStep` | a resumed request with a prefix-cache hit samples several tokens (279) |
| `batch_chunked` | `MayPause = TRUE`, `MaxOut = 3`, `Reqs = {r1, r2}`, `MaxReqs = 2` | `OneTokenPerStep` | a request left out of a step while it is prefilled again after a preemption joins with its own prompt only (279), and a step that does not complete it samples a token for it |
| `batch_chunked` | `FcfsResume = FALSE`, `MaxReqs = 2` | `GdnSlotAvailable` | the GDN free list runs empty if new requests start before preempted ones resume |
| `batch_chunked` | `Chunked = FALSE`, `MayPause = TRUE`, `PromptLen <- Mixed`, `MaxPrefillBatch = 2`, `Hits = {0, 1}` | `SampledWithOwnParams` | a request that resumes with a prefix-cache hit has several logits rows (279), while the metadata has one entry per request and is padded with the first request's (2408-2410) |
| `rows` | the same constants | `GrammarAlways` | in the first structured step the bitmask "to match the order of the requests" (3922) counts an incomplete prompt that has no logits row: the requests behind it are masked for one another, and a row past the end is an index error of numpy |
| `rows` | the same constants | `PromptLogprobsWhole` | a request left out of a step between two chunks of its prompt loses the prompt logprobs collected (`hpu_input_batch.py` 396): "copy in slice by slice" (3766) goes on in a new, uninitialised tensor |
| `rows` | `RowConfigs <- MCSpecDecode` | `AdaptersOwn` | with speculative decoding the LoRA mask of a decode batch has a row per request, the batch one per token (4003) |
| `async` | `Hits = {0, 1}` | `InputsOwn` | a request that resumes with all but one of its known tokens in the prefix cache runs as a decode, and reads what an earlier step left in its row of `input_ids_hpu` |
| `async` | `MayPause = TRUE` | `InputsOwn` | a running request that is left out of a step decodes from a stale `input_ids_hpu` afterwards |
| `async` | `MayDiscard = TRUE` | `EveryoneFinishes` | a request whose first token is discarded in flight keeps `[-1]` as its outputs (1933 brings them up to date only if there are any), its prompt then counts one token too many (`hpu_input_batch.py` 279), its next token is discarded as a partial prefill's, and the scheduler waits for it for ever |
| `switch` | `MayArrive = TRUE` | `Answered` | a request accepted while a switch is under way is executed after it, and its output meets an `OutputProcessor` that does not know it (194) |
| `switch` | `MayArrive = TRUE` | `RanOnOwn` | a prompt tokenised for the old model is executed by the new one |
| `switch` | `FailAt = {"refresh"}` | `Agreed` | the frontend refresh fails after the engine core has switched |
| `switch` | `FailAt = {"unload"}` | `Ready` | `unload_model` fails on some workers: `stash_created` is still false and nobody restores |
| `switch` | `FailAt = {"sleep"}` | `Ready` | a failed sleep is only logged: a runner is stashed with its weights on the HPU |
| `switch` | the same constants | `StashComplete` | the target of a failed switch has left the stash and its compiled graphs are gone |
| `switch` | the same constants | `Defragments` | a model that is switched away from and back to serves without a defragmenter: `sleep` drops it (689) and warm-up, which would make a new one, is skipped for a runner with graphs (554) |
| `caches` | `StepConfigs <- MCSameStep`, `OffloadConfigs = {}` | `ReadsOwnHistory` | a prefix-cache hit on blocks that another request of the same step only computes is read before they are written: decodes and prompt batches run one after another (1889, 1939) |
| `caches` | `StepConfigs <- MCSpec`, `OffloadConfigs = {}` | `ReadsOwnHistory` | the blocks of a decode batch do not count draft tokens (3107) |
| `caches` | `OffloadConfigs <- MCDefragConfigs`, `StepConfigs = {}` | `StoredIntact` | the defragmenter moves blocks of which a store, planned by logical ids, is still to come |
| `caches` | `OffloadConfigs <- MCAsyncConfigs`, `StepConfigs = {}` | `LoadedIntact` | with asynchronous scheduling a load may overwrite a freed block the running step still writes to (`cpu_hpu.py` 175) |
| `caches` | `StepConfigs <- MCWindow`, `OffloadConfigs = {}` | `WindowWhole` | a decode of any model but gpt_oss takes `sliding_window // block_size` blocks (3260-3267) and drops the tokens of the window before them, which the extra block of a prompt's context is there to keep (2765-2769) |
| `caches` | `StepConfigs <- MCWindow`, `OffloadConfigs = {}` | `WindowOnly` | a prompt's query sees one cached token before its window (the bounds of 7578 and 7584 are one lower than the causal mask's) |
| `layers` | `MaxLookups = 3` | `NeverTwice` | a fallback for more rows than `max_num_seqs` is cut to that (260-261), so the lookup of a decode with drafts that asks for more misses each time |
| `layers` | `RankConfigs <- MCBiasedSlices` | `ExpertsExact` | experts with biases are sliced by their biases only: each slice gets all weights and the bounds of all experts (`ops.py` 786-804) |
| `layers` | `RankConfigs <- MCUnevenSlices`, `ExpertWeights <- MCFiveExperts`, `PadToken <- MCFivePad`, `Steps <- MCFiveSteps` | `ExpertsExact` | a number of experts that the slices do not divide leaves the remainder out (660-662) |
| `layers` | `ScanConfigs <- MCUneven` | `ScansExact` | the varlen path takes the length of the first sequence for all (`hpu_gdn_pytorch.py` 977) |
| `layers` | `WeightConfigs <- MCFused` | `WeightsExact` | the shards of a fused checkpoint but the first keep the scale they were created with (`hpu_compressed_tensors.py` 195) |
| `spec` | `BlockSize = 2`, `Configs <- MCOne` | `GreedyOutputs` | the block count of a decode ignores the drafts (3107), which attend to wrong cells beyond a block's end |
| `spec` | `NumSpec = 3`, `Configs <- MCOne` | `NeverFails` | near `max_model_len` the drafter's blocks exceed the table's row, and the assertion of `hpu_eagle.py` 195 fails |
| `spec` | `Configs <- MCChunked` | `NeverFails` | a step of only an incomplete prompt has nothing to concatenate (7170) |
| `spec` | `Configs <- MCUneven` | `GreedyOutputs` | a decode row with fewer tokens than the longest is padded with position 0, and its padding overwrites the slot of its first token (3137-3156) |

What the properties claim, and do not, where the code departs from the obvious:

* **Grammars** (`GrammarOwn`): in every step after a structured one, and in the first
  for requests behind no unfinished prompt. `GrammarAlways` is the claim without the
  condition.
* **Prompt logprobs** (`PromptLogprobsOwn`): the entries since the request last entered
  the batch; the earlier ones are lost (`PromptLogprobsWhole`).
* **Sliding windows** (`ReadsOwnHistory`): each query attends to the keys from one
  position on. Without a window that is the first token, or the first of the chunk of
  attention. With one, it is the window's start for a prompt's query, or one token
  before it where that lies in the cached context; and for a decode a block boundary,
  the first one in the window (so that up to a block less one token of the window is not
  seen), or with gpt_oss, which takes a block more, the last one before it.
  `WindowWhole` and `WindowOnly` are the two halves of what a window says.
* **Buckets** (`NoRepeatedMiss`): within `max_num_seqs` rows, prompts and decodes. A
  fallback has no more rows than that, so a lookup for more (the block list of a decode
  with drafts) misses whenever it is made (`NeverTwice`); the check at
  `common.py` 312-326 then adds no second copy. `SpecPrepared` is about every number of
  drafts up to the most.
* **Experts** (`ExpertsExact`): slices of experts without biases, in numbers that the
  slices divide. Layers with biases are in the run unsliced.
* **Drafts**: that the drafter's blocks fit the table is not a property of a passing run.
  The assertion of `hpu_eagle.py` 195 fails with 3 drafts near `max_model_len` (`NeverFails`
  in the table), and in the bounds of `spec`, which has 2, no step reaches it.

`Defrag_copy.cfg` checks the defragmenter without prefix caching (blocks copied
one way), and the inductive invariant the proofs use; the theorems cover that
case for every size. The `TypeOK` of each module with one also holds in its run.

### Bounds

* Defragmenter: 4 blocks, 2 requests (interchangeable, hence the symmetry), up
  to 2 blocks each, threshold 0 and up to 2 pairs per step. A move needs a used
  block above a free one; two moves at once, shared blocks, blocks freed after
  a move and granted again all occur. The theorems remove the bounds.
* Staging: 3 slots for requests that need 1, 2 and 2, two of them running at a
  time: the pool is exhausted, a save is deferred, drained, or given up; one
  request prefills in two chunks, one decodes on. A fourth request adds nothing
  a third does not: a deferral needs one holder and one waiter, and overtaking
  one more.
* Receiving: 4 slots, requests of 2 and 3 sub-blocks (a full and a partial last
  block), 3 device blocks, so that both the pool and the blocks run out.
* Batch: 3 rows and 3 requests for reordering (a swap needs two rows out of
  place and a third to tell a rotation from a swap), 2 rows and 3 requests where
  rows must be reused; prompts of 1 or 2 tokens, 2 outputs, one preemption each.
* Asynchronous runner: two steps in flight (the engine core's queue), 2 rows for
  3 requests so that rows change owners, a prompt of two tokens that may be
  split, two outputs each (the second decode is the first that depends on the
  device copy), one preemption each, two of three requests with penalties so
  that the repair is switched on and off.
* Switching: two models and two workers (a partial failure needs one that has
  done the step and one that has not), three switches (there, back, and there
  again: the third meets a stash that was used before), one call of `sleep`,
  two requests. The part `any` lets all nine steps fail and leaves out the
  requests and the third switch.
* Rows: three requests on two rows for sampling; four requests, three adapters
  and two LoRA slots (so that slots change adapters) for masks; prompts of up to
  3 tokens. Then three of them, two with a grammar and two with prompt logprobs, with
  the prompts in chunks of any length (an incomplete prompt before two complete ones).
* Caches: 2 requests of up to 7 tokens that share a prefix block, 5 blocks of 2
  tokens, so that blocks are reused after a preemption, contexts span several
  blocks and pieces of a prompt cross the boundaries of windows and chunks.
  Offloading: 3 requests, 6 device blocks, 2 chunks of 2 blocks, one transfer per
  direction and a deferred one. Recurrent states: 2 requests of up to 6 tokens,
  chunks of 1 and 2, state blocks of 2 tokens.
* Speculative decoding: 2 requests, 2 drafts, prompts of 1 and 2 tokens,
  `max_model_len` 6, so that the end of the model's length is reached with drafts
  left. A block holds a whole request, since the block count of a decode ignores
  its drafts (see the table).
* Layers: buckets of 8 configurations with limits of 12 to 24 tokens, every shape
  within them, looked up twice (a shape that misses and is asked for again); 2 ranks of 1
  or 2 tensor-parallel ranks, 4 experts, steps of up to 3 tokens or two prompt
  batches; 26 quantised layers with 1 to 6 fused shards, each with rows and
  columns that do not divide its blocks where the code handles that; two
  requests of 5 and 6 tokens in chunks of 2 to 4. `P = 31` is large
  enough that no mutant agrees by accident.

Deadlock is checked in `staging`, `staging_any` and `layers` (whose parts stop
only when their bound is reached). The others may really stop: when every request
is finished, when a switch left nothing to do, or when the code's assertion ends
the engine.

### Fairness

Safety needs none. `JointStaging!Fairness`: the engine loop goes on (schedule,
execute and update steps are taken while there is work), and the decode instance
ends the reads it begins. `JointRecv!Fairness`: transfers end, in success or
failure, and the worker is polled (`get_finished` runs in every step).
`AsyncRunner!EngineLoop`: a step is scheduled whenever the scheduler has
something to schedule and the queue has room, and the oldest step in flight is
processed. `MCModelSwitch!PartFairness`: the engine core takes its messages and
finishes its calls, the drain times out (`asyncio.wait_for`), the event loop runs
the output handler and the coroutine of the switch, and the engine executes what
is scheduled while it is neither paused nor reconfigured. No fairness is assumed
of clients, of the sleep and wake-up endpoints, or of failures.

## 4. Proofs

`DefragmenterProofs` proves, for every set of requests, number of blocks,
threshold, swap limit and list length, with or without prefix caching:

* `TypeCorrect`: `Spec => []TypeOK`.
* `MappingCorrect`: `Spec => []MappingInverse`, also when ids are resubmitted.
* `CountsCorrect`: `Spec => []RefCountExact`, likewise.
* `DataSafe`: `Resubmit = FALSE => (Spec => []DataPreserved)`.

The only assumptions are those of `ConstantsAssumption` (naturals, a finite set
of requests, `NONE` not an integer).

The argument of `DefragmenterProofs`: `TableInv` strengthens `MappingInverse /\ RefCountExact` with
types, with both tables having the domain 0..n for the same n (ids are added
without gaps), with the mapping staying in that range, and with every recorded
block being in the tables: counts are kept under physical ids, so a move must
move counts exactly as `resolve` changes, which needs the tables to be a
permutation of their domain. A defragmentation replaces the mapping by its
composition with `Partner`, the involution that exchanges the paired blocks;
`PairsUnique` shows from the ranks that no block is in two pairs, `PartnerFacts`
that it is an involution that stays within the tables. `AppendRefs` and
`DropRefs` say how the number of references changes when lists grow or are
dropped. `IInv` adds the data: every readable block has its data where it
resolves to, whatever a request owns is recorded for it, and what is readable
has been granted in this step or is in the tables. The second fact is the one that a
resubmitted id breaks, and why `DataSafe` assumes there is none. `IInv` is
inductive; `Defrag_copy.cfg` checks it with TLC.

### Joint-KV staging, prefill side

`JointStagingProofs` proves, for every set of requests, pool
size, need, prompt and decode length, from `ConstantsAssumption` alone:

* `SlotsPartitioned`: `Spec => []SlotsPartition`, with no condition: aborts,
  preemption, expiry, sparse chunks, asynchronous scheduling and a pool of any
  size included.
* `ReservationsAreLeases`: `~MayExpire => (Spec => LeaseSpec)`, the refinement of
  `SlotLease`. When unread slots may expire it is false: expiry returns slots the
  other side may be reading.
* `ReadsIntact`: `Spec => []ReadIntact` for `Lookahead = 0`, `MaxPreempts = 0`,
  `~Sparse` and `~MayExpire`. TLC refutes the property when any one of the four is
  dropped (table above), so they are what the code needs, not what the proof needs.

The connector's operations are loops over its queues (the drain of deferred saves,
the saves of scheduled requests, the release of finished ones). `LeftFold` writes
such a loop as a recursive function, and `SequenceFacts` proves the induction once,
from well-foundedness of the naturals: `FoldProgress` and `FoldInvariant` say that a
claim indexed by the position, or a set of states, that every iteration carries over
holds of the result. Each loop of the model is an instance whose parameter is the
loop's body. `SequenceFacts` has what is needed of lists: popping n elements off an
injective list splits its range (`Taking`), appending a disjoint one joins them
(`Joining`), and `SetToSeq` lists each element once.

The invariant behind the first theorem is that the connector is in `Pools`: free
list and reservations are injective and pairwise disjoint, and cover the slots. The
second needs what relates queues to reservations: who is being read, advertised or
offered has slots, and only who is none of these may lose them; `LeaseStep` shows a
step of `SlotLease` for every action. The third is proved from `IntactInv`: every
request is in its first epoch, all blocks in queues are of that epoch (`FirstBlocks`),
a scheduled save is for the slots as reserved (`StepIntact`), every request with slots
or a deferred save has its blocks queued (`Asked`), and what is held or offered after
the worker's step has been copied (`HeldSaved`, `OfferedSaved`).

### Joint-KV staging, decode side

`JointRecvProofs` proves, for every set of requests, pool size, number of device blocks,
ratio of block sizes and number of sub-blocks, with transfers that fail and requests that
are aborted, from `ConstantsAssumption` alone and without a further condition:

* `RecvTypes`: `Spec => []TypeOK`.
* `RecvSlotsPartitioned`: `Spec => []RecvPartition`, a statement no run lists, since
  the two below say more of what a user of the pool notices.
* `ReadsAreLeases`: `Spec => LeaseSpec`, the refinement of `SlotLease`.
* `ReceivesIntact`: `Spec => []ReceivedIntact`.

`SlotsInv` says who has what. Blocks belong to one request from its allocation on
(`BlocksOwned`), reads lie between allocation and report (`ReadsInTime`), no slot and no
place of a block is pending twice and none of the pending slots is free (`PendingOnce`),
none is lost (`AllSlots`), and entries are pending for exactly the reads in progress, one
for every sub-block (`PendingForReads`): a refused read leaves nothing behind, and what an
aborted one has pending stays until its report, for which the scheduler keeps its blocks.
`RecvInv` adds that the slots of a completed read hold its sub-blocks (`Arrived`), from
which the post-processing puts each where `ReceivedIntact` looks for it. That two
sub-blocks never share a place is arithmetic (`Placing`: quotient and remainder determine
the sub-block, and the last quotient is within the allocation). The pending map after
`_read_blocks` (`Recorded`) and the flattened block groups and slots of the post-processing
(`Flattened`) are loops, hence instances of `LeftFold`. The refinement follows from one
equivalence, `Holding`: a request holds slots exactly while its read is in progress.
TLC checked both invariants with 3 requests, 5 slots and 4 blocks in 1.8 million states
before they were proved.

### Persistent batch and model runner

`ModelRunnerProofs` proves, for every set of requests, number of rows, prompt length,
prefix-cache hit and bound on preemptions, with or without chunks, pauses, aborts
and grammars and whatever the order in which preempted requests resume, from the assumptions
`BatchAssumption`, `PromptAssumption` and `RunnerAssumption` (naturals, a finite set of
requests, `NONE` none of them) alone:

* `RowsAreOwn`: `Spec => []RowsOwn`, all three parts: `TypeOK`, `RowsMatch` and
  `PartitionHolds`.
* `SlotsAreOwn`: `SpecBoth => GdnOwn` under `FcfsResume`, the property of the run as
  `MCRows` states it (`SpecBoth` begins either `ModelRunner` or `RequestRows`): no step
  takes the compact slot of an unfinished request or gives two requests one slot, and
  none runs out of slots. The condition is needed: TLC has the free list run empty when
  new requests start before preempted ones resume (table above), since a preempted
  request keeps its slot.
* `TokensOnce`: `Spec => OneTokenPerStep` under `OneEach`: a step gives a request one token
  if it completes what is known of the request, and none otherwise. `OneEach` says that no
  request has a grammar, and that none is preempted or that all start over: nothing resumes
  from the prefix cache, and no request is left out of a step if prompts may be split. TLC
  refutes the property when any one of these is dropped (table above).
* `SampledOwn`: `SpecBoth => []SampledWithOwn` under `OneEach` and without chunks: whatever
  is paused, preempted, aborted and finished, each logits row is sampled with the parameters,
  the prompt and the generator of its own request. TLC refutes it with chunks, with a grammar
  and with a prefix-cache hit after a preemption (table above).

`RunnerInv` is inductive. Its centre is `Table(b, w)`: members and used rows correspond
one for one, the row of each holds what w says of it, and *rows without a request hold no
generator and no bad words*. The last is what makes the invariant inductive: `add_request`
writes these two only for a request that has them, so a row that is reused would
otherwise pass on what its last owner left. Every operation on the batch has a lemma that
it keeps `Table` (`Removed`, `RowsUpdated`, `Added`, `AllAdded`, `Condensed`, `Swapped`,
`ReorderedBatch`, `RowsSampled`), with w the counts before or after the schedule
(`Granted`). All but the last stand in `BatchStepProofs`, which knows nothing of a runner:
the asynchronous one rests on the same lemmas. Three of them carry an argument of their own:

* `Condensed`: the k-th hole is filled from the k-th used row from the end. There are as
  many holes among the first m rows as used rows behind them (`Refilled`), ranks tell
  rows apart (`Ranked`), so each hole gets a row, and none twice.
* `Sorted`: `_ensure_decodes_first` is a `while True` loop. After k swaps the first k rows
  are decodes, so as many iterations as there are rows suffice, and the loop of the model
  is that long.
* `NothingToMove`: behind it, a row whose prompt is computed is a decode, hence scheduled
  for one token, and `ensure_multi_token_decodes_last` moves nothing: in this mode the
  second reordering is the identity, whatever it is given.

`RunningCurrent` adds that members are running and that the cached `block_ids` of every
running request, also one that is left out of a step, are those last granted, which is
what a request is added back with. `SlotsHeld` is the part about slots: the free list is
injective, disjoint from the slots given out and together with them everything
(`Pooled`), and *exactly the running and the preempted requests have a slot*. `GdnExclusive`
speaks of batch members only and is not inductive: who is left out of a step or preempted
must have kept its slot to come back with it. `Freed` and `Allocated` say what the two
loops over the free list do, the second being an instance of `LeftFold` that needs as
many free slots as requests without one; `Enough` shows from the scheduler's bound on
running requests that there are, because a step that starts a request preempts none and
resumes all that wait, so that all holders of slots are counted in that bound. A step
without a slot left kills the runner in the model (`phase = "dead"`), and `RowsAreOwn`, which
does not assume `FcfsResume`, covers that state too. TLC checked `RunnerInv` with four sets
of constants in 90 000 states, dead ones among them, before it was proved.

`OneTokenPerStep` needs more than whose a row is: whether it is a decode's or a prompt's, and
where its prompt ends, since `num_prompt_tokens` decides how many logits a row has and is not
always the request's prompt (279). `OnceInv`, inductive too, adds where each running request
stands between two steps (`Rests`): one token is left to compute and its row is a decode's,
or its prompt is everything known of it and not computed yet. The second is lost for good if
a request leaves the batch between two chunks of a repeated prefill, or resumes with tokens
computed, for it then joins with its original prompt only. Within a step (`Takes`) a decode
has completed its request, and a prompt has one logits row or none as it completes it or not
(`RowLogits`). `CallsOnce` follows these rows through the sampler's calls: the decodes form
one, the prompts are cut into batches that share no row (`InBatches`), so each request with a
logits row has one entry in the results (`GainedOne`). Before it was proved, TLC checked the
invariant in full with pauses and preemptions but no chunks, and with chunks, pauses and
prefix-cache hits but no preemption, and 130 000 states with chunks and preemptions.

`SampledWithOwn` is about copies: device rows are refreshed, and the tensor of prompt ids is
made again, only if the batch changed. `OwnInv` adds to `OnceInv` when they are current.
Between two steps (`Settled`) each device row is its batch row's request, and that request is
a decode with one token to compute, so that the next step, if it adds and removes nobody, has
only decodes and moves no row. Within a step (`Going`) either the batch has changed, and the
cache of prompts is empty and everything is copied, or the rows are still those of the
device. `Cached` says that a cache not dropped lists the rows in their order. `MetaOwn` shows
that the metadata of each call lists exactly its rows' requests, where several logits for one
prompt would be padded with another's, and `SelectsOwn` reads the entry off the row. Chunks
break `Settled`: an incomplete prompt stays, and the reordering of an unchanged batch moves
it. TLC checked `OwnInv` in 25 337 states before it was proved.

### Asynchronous scheduling

`AsyncRunnerProofs` proves, for every set of requests, number of rows, prompt length,
output length and bound on preemptions, with or without chunks, penalties, stops and
discarded tokens, from `BatchAssumption` and the assumptions of `AsyncRunner`:

* `AsyncFedOwn`: `Spec => []FedOwn`. A step computes from its requests' own tokens, also
  those that only the device has yet, and penalties look at complete outputs.
* `AsyncStreams`: `Spec => StreamSpec`, the refinement of `TokenStreams`: every client gets
  its own tokens, each once and in order.

Both assume `~MayPause` (a running request that has tokens to compute is in every step),
`~MayDiscard` (no *first* token is discarded in flight; later ones may be) and
`Hits \subseteq {0}` (nothing resumes from the prefix cache). TLC refutes each of the two
properties when any one of the three is dropped, so they are what the code needs.

`AsyncInv` is inductive. `RowsInv` says what the rows hold, with `Table` of the persistent
batch. `StreamInv` says what is in flight: `num_output_placeholders` counts the steps in
flight that have a token for the request, and these are the token after what the client
has and the one after that (`Flying`). A preemption that discards leaves one token without
a placeholder, which `_update_request_with_output` then drops: this is why `Flying` has two
cases, and why only one step may still be in flight when the request is scheduled again.
`ReqInv` says what each running request is in. Either it `Prefills`: no placeholder, and
`output_token_ids` and the host's row hold all the tokens it has been given. Or it `Decodes`:
its last token is in `prev_sampled_token_ids` under the row it had in the step before, and
`output_token_ids` ends in the one `-1` that stands for it. The first case is the one a
cached prefix would break, since a prompt that is all but computed runs as a decode.

A step is proved in a chain, one predicate for each stage of the code: `Planned` is
what the scheduler may have chosen, `Advanced` its own counts after it, `Laid` how the rows
lie after removals, additions and swaps, `Stepped` what the step leaves. Four links carry
the argument:

* `FlatPlace` and `DecodeFed`: decodes come first and have one token each, so a decode's
  place in the flat `input_ids` is its row, and the token copied there from
  `prev_sampled_token_ids` is its own however rows moved in between.
* `OneLogit`: every scheduled row has exactly one logit, so the sampled ids are indexed by row.
* `PlaceholderRepaired`: the lists that penalties read lose their `-1` for exactly the token
  the step before sampled.
* `ValidSamples`: the rows that are not invalid are those of the requests that computed all
  their known tokens, and they sample the token after those in flight (`NewOutput`).

`UpdateKeeps` is the other half of the interleaving, the oldest step's tokens arriving while
the youngest is in flight. `NextDelivers` maps a step of the runner to a stutter of
`TokenStreams` and the processing of a step's tokens to one `Deliver`. TLC checked `AsyncInv`
with three requests on two rows in 60 000 states, and with two requests, three outputs and
two preemptions in 120 000, before it was proved. `EveryoneFinishes` is liveness and stays with TLC.

### Model switching

`ModelSwitchProofs` proves, for every set of models, workers and requests, any
number of switches, sleep calls and steps, from `SwitchAssumption` (`NONE` is neither
a model nor a reply, keys are defined for models, and the like):

* `SwitchTypes`: `Spec => []TypeOK`, whatever fails wherever.
* `AgreementHolds`: `PartSpec => []Agreed` under `Recoverable`: stash keys tell models
  apart, workers report their memory, and of the nine steps only normalisation,
  pause, sleep, load and KV cache may fail.
* `WorkersStayReady`: `PartSpec => []Ready` under `Recoverable` and `Undisturbed`: of
  these five only pause, load and KV cache fail, and wake-up calls name both tags.
* `RunOnOwnModel`: `PartSpec => []RanOnOwn` under `Recoverable` and `~MayArrive`.

The last three are about `PartSpec`, the specification the run checks, because they
state the run's own properties, which speak of its part `contained`: `ModelSwitch` with
the constants as they are given. TLC refutes `Agreed` with any of unload, rebuild, restore and refresh failing, with a
worker that does not report its memory and with one key for two models; `Ready`
with normalisation or sleep failing or a wake-up of the weights alone; `RanOnOwn`
with requests arriving during a switch. Each condition is thus needed.

Typing alone is not inductive: a rollback needs a previous model, so `TypeInv` adds
the protocol between manager and engine core (`Phases`: the manager waits for exactly
one of its call being taken, the call ending, its own reading of the reply) and that a
reconfiguration is between the manager's two models. `AgreeInv` adds what each step of
`gaudi_reconfigure_engine` finds (`Underway`: whose config, runner and scheduler are
the old model's and whose the new one's, by program counter), that a stash has a
runner of the model whose key it has, and that frontend and manager change together.
`ReadyInv` adds, per program counter, who is asleep and what a stash holds
(`DeviceState`), and the one window in which the executor's tags lag behind the workers
(`Behind`: after a rollback, until the manager's wake-up call is taken, which `WakesFirst`
shows to be the first message to be taken). `OwnInv` adds that requests are queued
ahead of the reconfiguration that makes them stale (`QueuedInTime`). TLC checked each
invariant before it was proved: `TypeInv` with all steps failing in 3.5 million states,
`OwnInv` in 190 000, `ReadyInv` in 60 000; `IntactInv` above in 27 000.

### Only model-checked

All liveness (out of the prover's reach); adapters, grammars and prompt logprobs of rows; the masks, cache, bucket, layer and speculation invariants; and what recursive definitions
compute (the chunked layers, the folds of `StepInputs`). `Agreed`, `Ready`, `ReadIntact`,
`FedOwn`, `StreamSpec`, `OneTokenPerStep` and `SampledWithOwn` outside the conditions above are false, not unproved.

## 5. Not modelled

* Rounding and the numerics of kernels: the layers are compared in exact
  arithmetic, a softmax is the set of keys it ranges over, and the sampler an
  arbitrary choice. INC calibration, mxfp4 and the routed-experts capture.
* MLA, encoder and cross attention, multimodal inputs, pooling models.
* Random sampling in speculative decoding (rejection by probability), Medusa-like
  heads, hybrid models with drafts.
* Data parallelism: the all-reduce of the block list of chunked attention in a decode
  (3277-3289) and the row counts of decodes with drafts; the ranks' decodes have one
  token per request and one block list, or two with a window.
* Merged prefill (`_can_merge_prefill_contents` for one padded sequence); prompt batches
  are two-dimensional.
* The padding of GDN prompts to a bucket by the runner: `RecurrentLayers` pads to whole
  chunks, as the layer does.
* Warm-up and graph capture, except for what model switching makes of them.
* Platform selection, patches, configuration: no state that evolves.
* Vision buckets and buckets read from a file: lists without state.
* Handshake, heterogeneous tensor-parallel sizes and layout transforms in the
  NIXL connectors, and the host-buffer connector, whose protocol is upstream's.
* The tool-call parser: sequential text parsing, tested directly.
* The OpenAI state of the server after a switch (`_init_multi_model_state`).

## 6. Plan

Done: `Defragmenter` and its proofs; `SlotLease`, `JointStaging`, `JointRecv`;
`InputBatch`, `BatchStep`, `ModelRunner`; `ModelSwitch`; `TokenStreams`,
`AsyncRunner`; `StepInputs`, `RequestRows`, `RecurrentStates`, `Offload`;
`Bucketing`, `BucketManager`; `Experts`, `DataParallel`; the quantised and the
recurrent layers; `SpecDecode`.

Left, in this order:

1. Both ends of the staging buffer in one process (`kv_both`), and several prefill
   ranks read by one decode rank.
2. Resets of the prefix cache between two steps of `ModelRunner`; the asynchronous
   scheduler's overrides of splits and invalid blocks.
3. The server's state after a switch; the streaming tool parser against
   whole-text parsing; MLA.

Theorems worth proving next: `LoadedIntact` of `Offload`; `AdaptersOwn` of `RequestRows`;
`KvOwn` of `StepInputs` for plain attention.
