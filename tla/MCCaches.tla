------------------------------ MODULE MCCaches -------------------------------
(* The caches of a model runner, in one run: what a step writes to the KV      *)
(* cache and reads back, the blocks stored to and loaded from CPU memory, and  *)
(* the slots of recurrent states.  An initial state begins one of the three;   *)
(* the variables only the others have rest.                                    *)
EXTENDS Integers, Sequences, TLC

CONSTANTS Requests, PromptLen, MaxLen, Common, BlockSize, NumBlocks, MaxPrefills, MaxTokens, StepConfigs,
          OffloadRequests, Prompt, Length, Factor, GpuBlocks, CpuChunks, Layers, MaxQueue, OffloadConfigs,
          StatePromptLen, StateMaxLen, Groups, StateLen, StateConfigs

VARIABLES part, config, blocks, computed, planned, moves,
          known, resolve, kv, reads, preempts,
          gpu, cpu, status, mapping, pending, chunks, deferred, handlers, leaves,
          active, base, conv, ssm, fresh

SI == INSTANCE StepInputs WITH Configs <- StepConfigs
OF == INSTANCE Offload WITH Configs <- OffloadConfigs, Requests <- OffloadRequests
RS == INSTANCE RecurrentStates WITH Configs <- StateConfigs, PromptLen <- StatePromptLen, MaxLen <- StateMaxLen
vars == <<part, config, blocks, computed, planned, moves,
          known, resolve, kv, reads, preempts,
          gpu, cpu, status, mapping, pending, chunks, deferred, handlers, leaves,
          active, base, conv, ssm, fresh>>

Base == [mrope |-> FALSE, window |-> 0, model |-> "other", chunk |-> 0, slice |-> 0,
         padded_query |-> 1, padded_ctx |-> 1, pad |-> [bs |-> 0, seq |-> 0, blocks |-> 0], bucket |-> 0,
         contiguous |-> FALSE, prefix_caching |-> FALSE, same_step |-> FALSE, num_spec |-> 0, kv_sharing |-> FALSE,
         max_preempts |-> 0, max_moves |-> 0]
MCStepConfigs ==
  {[Base EXCEPT !.prefix_caching = TRUE, !.max_preempts = 1, !.pad = [bs |-> 1, seq |-> 1, blocks |-> 1]],
   [Base EXCEPT !.contiguous = TRUE, !.max_moves = 1, !.mrope = TRUE],
   [Base EXCEPT !.window = 2, !.model = "gemma4", !.contiguous = TRUE],
   [Base EXCEPT !.window = 4, !.model = "gpt_oss"],
   [Base EXCEPT !.chunk = 4, !.contiguous = TRUE, !.kv_sharing = TRUE, !.bucket = 9],
   [Base EXCEPT !.slice = 2, !.prefix_caching = TRUE]}
MCPromptLen == (1 :> 2) @@ (2 :> 6)
\* The prompt's order of rows and the drafts, as the violation runs see them.
MCSameStep == {[Base EXCEPT !.prefix_caching = TRUE, !.same_step = TRUE]}
MCSpec == {[Base EXCEPT !.num_spec = 1]}
MCWindow == {[Base EXCEPT !.window = 2, !.model = "gemma4", !.contiguous = TRUE]}

MCPrompt == (1 :> "p") @@ (2 :> "p") @@ (3 :> "q")
MCLength == (1 :> 4) @@ (2 :> 4) @@ (3 :> 2)
MCLayers == <<<<"k1", "v1">>, <<"k1", "v1">>, <<"c2">>>>
MCOffloadConfigs == {[async |-> FALSE, moves |-> 0, stores |-> TRUE, loads |-> TRUE, leaves |-> 1],
              [async |-> TRUE, moves |-> 0, stores |-> TRUE, loads |-> FALSE, leaves |-> 1],
              [async |-> FALSE, moves |-> 1, stores |-> FALSE, loads |-> FALSE, leaves |-> 1]}
MCDefragConfigs == {[async |-> FALSE, moves |-> 1, stores |-> TRUE, loads |-> TRUE, leaves |-> 1]}
MCAsyncConfigs == {[async |-> TRUE, moves |-> 0, stores |-> TRUE, loads |-> TRUE, leaves |-> 1]}

MCStateConfigs ==
  {[layout |-> "compact", mamba_block |-> 8, chunk |-> 2, pad |-> 1, num_blocks |-> 0, preempts |-> 2],
   [layout |-> "block", mamba_block |-> 8, chunk |-> 2, pad |-> 1, num_blocks |-> 4, preempts |-> 2],
   [layout |-> "cached", mamba_block |-> 2, chunk |-> 1, pad |-> 1, num_blocks |-> 10, preempts |-> 1],
   [layout |-> "cached", mamba_block |-> 2, chunk |-> 2, pad |-> 0, num_blocks |-> 9, preempts |-> 1]}
MCStatePromptLen == (1 :> 3) @@ (2 :> 5)
-----------------------------------------------------------------------------
StepsRest == known = 0 /\ resolve = 0 /\ kv = 0 /\ reads = 0
OffloadRests ==
  /\ gpu = 0 /\ cpu = 0 /\ status = 0 /\ mapping = 0 /\ pending = 0 /\ chunks = 0
  /\ deferred = 0 /\ handlers = 0 /\ leaves = 0
StatesRest == active = 0 /\ base = 0 /\ conv = 0 /\ ssm = 0 /\ fresh = 0

Init == \/ part = "steps" /\ SI!Init /\ OffloadRests /\ StatesRest
        \/ part = "offload" /\ OF!Init /\ StepsRest /\ StatesRest /\ preempts = 0
        \/ part = "states" /\ RS!Init /\ StepsRest /\ OffloadRests /\ planned = 0 /\ moves = 0
StepsStay == UNCHANGED <<known, resolve, kv, reads>>
OffloadStays == UNCHANGED <<gpu, cpu, status, mapping, pending, chunks, deferred, handlers, leaves>>
StatesStay == UNCHANGED <<active, base, conv, ssm, fresh>>
Next == /\ UNCHANGED part
        /\ \/ part = "steps" /\ SI!Next /\ OffloadStays /\ StatesStay
           \/ part = "offload" /\ OF!Next /\ StepsStay /\ StatesStay /\ UNCHANGED preempts
           \/ part = "states" /\ RS!Next /\ StepsStay /\ OffloadStays /\ UNCHANGED <<planned, moves>>
Spec == Init /\ [][Next]_vars
-----------------------------------------------------------------------------
\* Between steps every position computed for a running request is in the slot
\* its block table names, as its own token at its own rotary position
\* (_prepare_inputs, the slot mapping).
KvOwn == part = "steps" => SI!KvOwn

\* Every query of a step attended, once each, to the keys of its own request from
\* the first that its attention reaches, a sliding window's being that of its mask
\* or of its blocks, whatever masks, block lists and padding the step was run with
\* (the attention of extension/ops.py and hpu_attn.py).
ReadsOwnHistory == part = "steps" => SI!ReadsOwnHistory
WindowWhole == part = "steps" => SI!WindowWhole
WindowOnly == part = "steps" => SI!WindowOnly

\* A running request finds its own prompt in every block it counts as
\* computed, loaded ones included (cpu_hpu.py).
LoadedIntact == part = "offload" => OF!LoadedIntact

\* A chunk that can be loaded holds its blocks, of every buffer, and no stream
\* or event is in use twice (cpu_hpu.py).
StoredIntact == part = "offload" => OF!StoredIntact /\ OF!PoolsDisjoint

\* Every running request loads next the state of exactly its own tokens
\* (prepare_mamba_state_idxs, compute_prefix_caching_block_indices).
StatesOwn == part = "states" => RS!StatesOwn
=============================================================================
