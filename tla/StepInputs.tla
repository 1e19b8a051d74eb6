----------------------------- MODULE StepInputs -----------------------------
(***************************************************************************)
(* What one model step reads and writes: the prompt and decode batches     *)
(* that HPUModelRunner._prepare_inputs makes of the persistent batch, the  *)
(* slots they write to the KV cache, and the keys each query attends to,   *)
(* through block lists, masks and the paged attention of extension/ops.py. *)
(*                                                                         *)
(* A key is identified by the token and the rotary position it was         *)
(* computed for.  A step is atomic: the device runs the batches in order.  *)
(* Bucketing and data-parallel padding only make a batch larger: pad says  *)
(* by how much (module BucketManager has the bucket lists).                *)
(***************************************************************************)
EXTENDS Integers, Sequences, FiniteSets
LOCAL INSTANCE SequencesExt
LOCAL INSTANCE FiniteSetsExt
LOCAL INSTANCE TLC

CONSTANTS Requests,      \* a set of numbers: the batch is in their order
          PromptLen,     \* [Requests -> Nat]
          MaxLen,        \* bound on a request's tokens
          Common,        \* requests share their first Common tokens
          BlockSize,     \* attn_block_size
          NumBlocks,     \* blocks of the pool; block 0 is the null block
          MaxPrefills,   \* max_prefill_batch_size
          MaxTokens,     \* max_num_tokens
          Configs        \* the configurations explored, each with its bounds
                         \* on preemptions and block moves

VARIABLES config,
          blocks,     \* blocks[r]: the row of r in the block table (logical ids)
          computed,   \* num_computed_tokens
          known,      \* tokens of r that exist: prompt and generated; 0: finished
          planned,    \* tokens scheduled for the coming step; 0: not in it
          resolve,    \* logical id -> physical id (the defragmenter's table)
          kv,         \* contents of the KV cache, physical block -> offset -> key
          reads,      \* what each query of the step just run attended to
          preempts, moves
vars == <<config, blocks, computed, known, planned, resolve, kv, reads, preempts, moves>>

PAD_BLOCK_ID == NumBlocks + 1
Logical == 0..NumBlocks
Physical == 0..PAD_BLOCK_ID
Junk == <<"junk">>

LOCAL Ceil(a, b) == (a + b - 1) \div b
LOCAL Least(a, b) == IF a < b THEN a ELSE b
LOCAL Most(a, b) == IF a > b THEN a ELSE b
LOCAL LastOf(s, n) == SubSeq(s, Most(1, Len(s) - n + 1), Len(s))   \* s[-n:]
Resolved(b) == IF b \in Logical THEN resolve[b] ELSE b   \* _resolve_block
Running == {r \in Requests : blocks[r] # <<>>}

\* The token at position p of r, up to which prefix caching may share.
Token(r, p) == <<IF p < Common THEN 0 ELSE r, p>>
\* M-RoPE: the second and third prompt tokens are one image patch.
mrope_position_delta == -1
mrope_positions(p) == IF p < 2 THEN p ELSE p - 1
Rope(r, p) == IF ~config.mrope THEN p
              ELSE IF p < PromptLen[r] THEN mrope_positions(p) ELSE p + mrope_position_delta
Key(r, p) == <<Token(r, p), Rope(r, p)>>
----------------------------------------------------------------------------
(* Prompt batches.  An entry is a request with its context and query       *)
(* lengths; a batch is a sequence of entries.                              *)

EntryOf(r, n) == [req |-> r, ctx |-> computed[r], query |-> n,
                  blocks |-> [i \in 1..Ceil(computed[r] + n, BlockSize) |-> Resolved(blocks[r][i])]]

\* _can_merge_prefill_contents: a request with history is alone in its batch,
\* and the padded batch must not exceed the token budget.
CanMerge(batch, e) ==
  LET queries == {b.query : b \in ToSet(batch)} \cup {e.query}
  IN /\ batch # <<>> => e.ctx = 0
     /\ \A b \in ToSet(batch) : b.ctx = 0
     /\ Len(batch) + 1 <= MaxPrefills
     /\ (Len(batch) + 1) * (Max(queries) + config.pad.seq) <= MaxTokens

\* _extract_prefill_batch_contents: all_batch_contents starts with an empty one.
PrefillBatches(entries) ==
  LET Extend(batches, e) == IF CanMerge(Last(batches), e)
                            THEN [batches EXCEPT ![Len(batches)] = Append(@, e)]
                            ELSE Append(batches, <<e>>)
  IN SelectSeq(FoldLeft(Extend, <<<<>>>>, entries), LAMBDA b : b # <<>>)

TargetSeq(batch) == Max({b.query : b \in ToSet(batch)}) + config.pad.seq
ContextBlocks(e) == Ceil(e.ctx, BlockSize)
TargetBlocks(batch) == LET n == Max({ContextBlocks(b) : b \in ToSet(batch)})
                       IN IF n = 0 THEN 0 ELSE n + config.pad.blocks

\* token_slots; _align_and_pad_mrope_positions stitches the prompt's own
\* positions and, beyond them, positions made from the delta.
SlotOf(e, j) == <<e.blocks[((e.ctx + j) \div BlockSize) + 1], (e.ctx + j) % BlockSize>>
PrefillRope(e, j) ==
  LET mp_total == PromptLen[e.req]
      remain == Most(0, mp_total - e.ctx)
  IN IF ~config.mrope THEN e.ctx + j
     ELSE IF j < remain THEN mrope_positions(e.ctx + j)
     ELSE mp_total + (j - remain) + mrope_position_delta + Most(0, e.ctx - mp_total)
PrefillKey(e, j) == <<Token(e.req, e.ctx + j), PrefillRope(e, j)>>

\* The context blocks of a row as the attention gets them: all of them, or for
\* gemma4's sliding layers the last of them; -1 pads.
WindowBlocks == config.window \div BlockSize + 1
ContextList(batch, e) ==
  LET own == SubSeq(e.blocks, 1, ContextBlocks(e))
      trimmed == config.window > 0 /\ config.model = "gemma4"
      real == IF trimmed THEN LastOf(own, WindowBlocks) ELSE own
      width == IF trimmed THEN WindowBlocks ELSE TargetBlocks(batch)
  IN IF TargetBlocks(batch) = 0 THEN <<>> ELSE [i \in 1..width |-> IF i <= Len(real) THEN real[i] ELSE -1]

(* Masks: may query j of entry e see past cell x, current cell i?          *)

\* _set_attn_bias, and the kernel's own causal mask when there is no context.
PlainPast(e, j, x) == x < e.ctx
PlainCurrent(e, j, i) == i <= j /\ i < e.query

\* _set_attn_bias_for_sliding_window; the trimmed frame of gemma4's list.
\* Mutant: positions are compared with the whole context's.
FrameBaseUntrimmed(list, e) == 0
FrameBase(list, e) ==
  IF config.model = "gemma4" THEN Most(0, Ceil(e.ctx, BlockSize) * BlockSize - Len(list) * BlockSize) ELSE 0
WindowPast(list, e, j, x) ==
  LET ctx == e.ctx - FrameBase(list, e)
  IN x > ctx - config.window + j - 1 /\ x < ctx
WindowCurrent(e, j, i) == i <= j /\ i >= j - config.window + 1

\* _set_attn_bias_for_chunked_attention.
ChunkPast(e, j, x) == x >= ((e.ctx + j) \div config.chunk) * config.chunk /\ x < e.ctx
ChunkCurrent(e, j, i) == i <= j /\ (e.ctx + i) \div config.chunk = (e.ctx + j) \div config.chunk

Past(list, e, j, x) ==
  CASE config.window > 0 -> WindowPast(list, e, j, x)
    [] config.chunk > 0  -> ChunkPast(e, j, x)
    [] OTHER             -> PlainPast(e, j, x)
Current(e, j, i) ==
  CASE config.window > 0 -> WindowCurrent(e, j, i)
    [] config.chunk > 0  -> ChunkCurrent(e, j, i)
    [] OTHER             -> PlainCurrent(e, j, i)

\* SlicedFusedSDPABase._chunked_attention, from the end in chunks of
\* config.slice tokens: the mask is applied to the diagonal chunk and to the
\* last padded_query or padded_ctx chunks only, the others are seen whole.
SlicedCurrent(e, j, i, target_seq) ==
  LET q_end == target_seq - ((target_seq - 1 - j) \div config.slice) * config.slice
      chunk == (q_end - 1 - i) \div config.slice
  IN /\ i < q_end
     /\ chunk = 0 \/ chunk < config.padded_query => PlainCurrent(e, j, i)
SlicedPast(e, j, x, prefix) ==
  (prefix - 1 - x) \div config.slice < config.padded_ctx => PlainPast(e, j, x)
Sliced(batch) == config.slice > 0 /\ Len(batch) = 1 /\ config.pad.bs = 0 /\ TargetBlocks(batch) > 0

\* The keys of the tokens of the batch itself: as computed, or in a layer that
\* shares the cache of another one, read back from the slots just written.
CurrentKey(k, e, i) ==
  IF config.kv_sharing THEN k[SlotOf(e, i)[1]][SlotOf(e, i)[2]] ELSE PrefillKey(e, i)

\* _fsdpa_prompt_attention with _include_past: the cells seen by query j of an
\* entry, as pairs of a cell and the key found there in cache k.
PrefillSeen(k, batch, e, j) ==
  LET list == ContextList(batch, e)
      prefix == Len(list) * BlockSize
      Fetched(x) == LET b == list[(x \div BlockSize) + 1]
                    IN IF b = -1 THEN Junk ELSE k[b][x % BlockSize]
      past == {x \in 0..(prefix - 1) : IF Sliced(batch) THEN SlicedPast(e, j, x, prefix) ELSE Past(list, e, j, x)}
      current == {i \in 0..(TargetSeq(batch) - 1) :
                    IF Sliced(batch) THEN SlicedCurrent(e, j, i, TargetSeq(batch)) ELSE Current(e, j, i)}
  IN {<<"past", x, Fetched(x)>> : x \in past}
       \cup {<<"current", i, IF i < e.query THEN CurrentKey(k, e, i) ELSE Junk>> : i \in current}

\* The cache after a batch: padding has slot -1, which no block contains.
PrefillWritten(k, batch) ==
  [p \in Physical |-> [o \in 0..(BlockSize - 1) |->
     LET writers == {<<e, j>> \in ToSet(batch) \X (0..(MaxLen - 1)) : j < e.query /\ SlotOf(e, j) = <<p, o>>}
     IN IF writers = {} THEN k[p][o] ELSE LET w == CHOOSE w \in writers : TRUE IN PrefillKey(w[1], w[2])]]

PrefillReads(k, batch) ==
  {[req |-> e.req, pos |-> e.ctx + j, prompt |-> TRUE, ctx |-> e.ctx, seen |-> PrefillSeen(k, batch, e, j)] :
     <<e, j>> \in {<<e, j>> \in ToSet(batch) \X (0..(MaxLen - 1)) : j < e.query}}
----------------------------------------------------------------------------
(* The decode batch: a row per request and per token.                      *)

Columns(rows) == Max({planned[r] : r \in ToSet(rows)})        \* num_tokens

\* positions: with draft tokens the rows are padded with position 0.
PositionOf(r, j) == IF j < planned[r] THEN computed[r] + j ELSE 0
\* Mutant: the table's ids are used without the defragmenter's table.
DecodeSlotUnresolved(r, j) == LET p == PositionOf(r, j)
                              IN <<blocks[r][(p \div BlockSize) + 1], p % BlockSize>>
DecodeSlot(r, j) == LET p == PositionOf(r, j)
                    IN <<Resolved(blocks[r][(p \div BlockSize) + 1]), p % BlockSize>>
\* M-RoPE positions exist only for single-token rows.
DecodeRope(rows, r, j) ==
  IF config.mrope /\ Columns(rows) = 1 THEN computed[r] + mrope_position_delta ELSE PositionOf(r, j)
DecodeKey(rows, acc, r, j) ==
  IF j < acc[r] THEN <<Token(r, computed[r] + j), DecodeRope(rows, r, j)>> ELSE Junk

\* block_tables_list: the blocks of the context and of the current token.
TableOf(r) == [i \in 1..Ceil(computed[r] + 1, BlockSize) |-> Resolved(blocks[r][i])]
WindowTable(r) ==
  LastOf(TableOf(r), config.window \div BlockSize + (IF config.model = "gpt_oss" THEN 1 ELSE 0))
ChunkTable(r) ==
  LET inChunk == config.chunk \div BlockSize
      chunks == Ceil(Len(TableOf(r)), inChunk) - 1
  IN SubSeq(TableOf(r), chunks * inChunk + 1, Len(TableOf(r)))
AttendedTable(r) ==
  CASE config.window > 0 -> WindowTable(r) [] config.chunk > 0 -> ChunkTable(r) [] OTHER -> TableOf(r)

\* get_habana_paged_attn_buffers: one entry per block of every row, in order;
\* the last block of a row is used up to the row's own slot.
Entries(rows) ==
  FlattenSeq([i \in 1..(Len(rows) * Columns(rows)) |->
    LET r == rows[((i - 1) \div Columns(rows)) + 1]
        j == (i - 1) % Columns(rows)
        t == AttendedTable(r)
    IN [n \in 1..Len(t) |-> [block |-> t[n], group |-> <<r, j>>,
                             usage |-> IF n = Len(t) THEN DecodeSlot(r, j)[2] + 1 ELSE BlockSize]]])

\* Contiguous: the buffers are indexed by block, up to a length at least the
\* largest block's, at most the cache's, and the cache's head is fetched.
\* Otherwise, and for sliding windows, blocks are fetched by id.
Contiguous == config.contiguous /\ config.window = 0
Buffers(rows) ==
  LET es == Entries(rows)
      needed == Max({es[i].block : i \in DOMAIN es}) + 1
      size == Least(Most(config.bucket, needed), PAD_BLOCK_ID + 1)
      At(b) == {i \in DOMAIN es : es[i].block = b}
  IN IF Contiguous THEN {[cell |-> b] @@ es[Max(At(b))] : b \in {b \in 0..(size - 1) : At(b) # {}}}
                   ELSE {[cell |-> i] @@ es[i] : i \in DOMAIN es}

\* _set_block_mapping: a block belongs to the row of its group, and of a block the
\* part in use is not masked; flat_pa attends to what is left.
MappedBlocks(rows, group) == {b \in Buffers(rows) : b.group = group}
UnmaskedSlots(b) == 0..(b.usage - 1)
DecodeSeen(k, rows, r, j) ==
  UNION {{<<"cache", b.cell, o, k[b.block][o]>> : o \in UnmaskedSlots(b)} : b \in MappedBlocks(rows, <<r, j>>)}

DecodeWritten(k, rows, acc) ==
  LET tokens == ToSet(rows) \X (0..(Columns(rows) - 1))
  IN [p \in Physical |-> [o \in 0..(BlockSize - 1) |->
        LET writers == {<<r, j>> \in tokens : DecodeSlot(r, j) = <<p, o>>}
        IN IF writers = {} THEN k[p][o] ELSE LET w == CHOOSE w \in writers : TRUE IN DecodeKey(rows, acc, w[1], w[2])]]
DecodeReads(k, rows, acc) ==
  UNION {{[req |-> r, pos |-> computed[r] + j, prompt |-> FALSE, ctx |-> computed[r], seen |-> DecodeSeen(k, rows, r, j)] : j \in 0..(acc[r] - 1)} : r \in ToSet(rows)}
----------------------------------------------------------------------------
(* The scheduler (external) and the steps.                                 *)

Init ==
  /\ config \in Configs
  /\ blocks = [r \in Requests |-> <<>>]
  /\ computed = [r \in Requests |-> 0]
  /\ known = PromptLen
  /\ planned = [r \in Requests |-> 0]
  /\ resolve = [b \in Logical |-> b]
  /\ kv = [p \in Physical |-> [o \in 0..(BlockSize - 1) |-> Junk]]
  /\ reads = {}
  /\ preempts = 0 /\ moves = 0

Free == (1..NumBlocks) \ UNION {ToSet(blocks[r]) : r \in Requests}
\* The n smallest free blocks; whatever they held is nobody's any more.
Fresh(n) == SubSeq(SetToSortSeq(Free, <), 1, n)
Cleared(new) == [p \in Physical |-> IF \E b \in ToSet(new) : resolve[b] = p
                                    THEN [o \in 0..(BlockSize - 1) |-> Junk] ELSE kv[p]]
Allocate(r, have, n, at) ==
  LET missing == Most(0, Ceil(at + n, BlockSize) - Len(have))
      new == Fresh(missing)
  IN /\ missing <= Cardinality(Free)
     /\ blocks' = [blocks EXCEPT ![r] = have \o new]
     /\ kv' = Cleared(new)

\* Tokens the scheduler may give r: what is known, and draft tokens after it.
Schedulable(r, at, n) ==
  /\ n >= 1 /\ n <= MaxTokens /\ at + n <= MaxLen
  /\ \/ at + n <= known[r]
     \/ /\ at >= PromptLen[r] /\ known[r] - at = 1
        /\ n <= 1 + config.num_spec

Plan(r, n) ==
  /\ r \in Running /\ planned[r] = 0
  /\ Schedulable(r, computed[r], n)
  /\ planned' = [planned EXCEPT ![r] = n]
  /\ Allocate(r, blocks[r], n, computed[r])
  /\ reads' = {}
  /\ UNCHANGED <<config, computed, known, resolve, preempts, moves>>

\* A waiting request joins, with k full blocks of s found in the prefix cache.
\* With hits in the same step, blocks count as cached once they are planned.
Admit(r, s, k, n) ==
  /\ r \notin Running /\ known[r] > 0 /\ s # r
  /\ k * BlockSize <= Least(Common, PromptLen[r] - 1)
  /\ k > 0 => /\ config.prefix_caching
             /\ s \in Running
             /\ k * BlockSize <= computed[s] + (IF config.same_step THEN planned[s] ELSE 0)
  /\ Schedulable(r, k * BlockSize, n)
  /\ planned' = [planned EXCEPT ![r] = n]
  /\ computed' = [computed EXCEPT ![r] = k * BlockSize]
  /\ Allocate(r, SubSeq(blocks[s], 1, k), n, k * BlockSize)
  /\ reads' = {}
  /\ UNCHANGED <<config, known, resolve, preempts, moves>>

\* _is_prompt (module ModelRunner); decodes come first, each kind in row order.
IsPrompt(r) == computed[r] < PromptLen[r] \/ (planned[r] > 1 /\ known[r] - computed[r] > 1)

\* execute_model: the prompt batches one after the other, then the decodes.
Execute(rows, acc) ==
  LET prompts == SelectSeq(rows, IsPrompt)
      decodes == SelectSeq(rows, LAMBDA r : ~IsPrompt(r))
      batches == PrefillBatches([i \in 1..Len(prompts) |-> EntryOf(prompts[i], planned[prompts[i]])])
      Run(at, batch) == LET k == PrefillWritten(at.kv, batch)
                        IN [kv |-> k, reads |-> at.reads \cup PrefillReads(k, batch)]
      prefilled == FoldLeft(Run, [kv |-> kv, reads |-> {}], batches)
      written == IF decodes = <<>> THEN prefilled.kv ELSE DecodeWritten(prefilled.kv, decodes, acc)
      after == [r \in Requests |-> computed[r] + (IF r \in ToSet(decodes) THEN acc[r] ELSE planned[r])]
  IN /\ rows # <<>>
     /\ kv' = written
     /\ reads' = prefilled.reads \cup IF decodes = <<>> THEN {} ELSE DecodeReads(written, decodes, acc)
     /\ computed' = after
     /\ known' = [r \in Requests |-> IF planned[r] > 0 /\ after[r] >= known[r]
                                     THEN Least(after[r] + 1, MaxLen) ELSE known[r]]
     /\ planned' = [r \in Requests |-> 0]
     /\ UNCHANGED <<config, blocks, resolve, preempts, moves>>

\* Between steps a request gives up its blocks, to be resumed or for good.
Release(r) ==
  /\ r \in Running /\ \A s \in Requests : planned[s] = 0
  /\ blocks' = [blocks EXCEPT ![r] = <<>>]
  /\ computed' = [computed EXCEPT ![r] = 0]
  /\ reads' = {}
  /\ UNCHANGED <<config, planned, resolve, kv, moves>>
Preempt(r) == Release(r) /\ preempts < config.max_preempts /\ preempts' = preempts + 1 /\ UNCHANGED known
Finish(r) == Release(r) /\ known[r] > PromptLen[r] /\ known' = [known EXCEPT ![r] = 0] /\ UNCHANGED preempts

\* Before a scheduled step runs, the defragmenter may exchange the physical
\* blocks of two ids (module Defragmenter).
Move(a, b) ==
  /\ a > b /\ a \notin Free /\ b \in Free /\ \E r \in Requests : planned[r] > 0
  /\ moves < config.max_moves /\ moves' = moves + 1
  /\ kv' = [kv EXCEPT ![resolve[a]] = kv[resolve[b]], ![resolve[b]] = kv[resolve[a]]]
  /\ resolve' = [resolve EXCEPT ![a] = resolve[b], ![b] = resolve[a]]
  /\ reads' = {}
  /\ UNCHANGED <<config, blocks, computed, known, planned, preempts>>

Next ==
  \/ \E r \in Requests, n \in 1..MaxTokens : Plan(r, n)
  \/ \E r, s \in Requests, k \in 0..(Common \div BlockSize), n \in 1..MaxTokens : Admit(r, s, k, n)
  \/ \E rows \in SetToSeqs({r \in Requests : planned[r] > 0}) :
       \E acc \in [{r \in ToSet(rows) : ~IsPrompt(r)} -> 1..(1 + config.num_spec)] :
         (\A r \in DOMAIN acc : acc[r] <= planned[r]) /\ Execute(rows, acc)
  \/ \E r \in Requests : Preempt(r) \/ Finish(r)
  \/ \E a, b \in 1..NumBlocks : Move(a, b)

Spec == Init /\ [][Next]_vars
----------------------------------------------------------------------------
\* Between steps every position computed for a running request is in the slot
\* of the cache its block table and the defragmenter's name, as the request's own
\* token at the rotary position it has: over chunked prompts, shared prefix
\* blocks, preemption, block moves and batches of mixed lengths, no token was
\* written to the wrong slot, with the wrong position or over another's.
KvOwn ==
  (\A r \in Requests : planned[r] = 0) =>
    \A r \in Running : \A p \in 0..(computed[r] - 1) :
      kv[Resolved(blocks[r][(p \div BlockSize) + 1])][p % BlockSize] = Key(r, p)

\* Every query of a step attended, exactly once each, to the keys of its own
\* request from some position up to its own, whichever of the masks, block lists,
\* usages and padded shapes the step was run with: from the first token of the
\* request, or of its attention chunk; with a sliding window, a prompt's query from
\* the start of its window, or from one token before where that is in the cache, a
\* decode from a block's first token: within a block after the window's start, or
\* with gpt_oss, which takes a block more, within a block before it.
WindowStart(q) == Most(0, q.pos - config.window + 1)
First(q, lo) ==
  CASE config.chunk > 0 -> lo = (q.pos \div config.chunk) * config.chunk
    [] config.window = 0 -> lo = 0
    [] config.window > 0 /\ q.prompt ->
         lo = IF WindowStart(q) \in 1..q.ctx THEN WindowStart(q) - 1 ELSE WindowStart(q)
    [] OTHER ->
         /\ lo % BlockSize = 0
         /\ IF config.model = "gpt_oss" THEN lo \in (WindowStart(q) - BlockSize)..Most(0, WindowStart(q) - 1)
            ELSE lo \in WindowStart(q)..(WindowStart(q) + BlockSize - 1)
ReadsOwnHistory ==
  \A q \in reads :
    LET keys == {c[Len(c)] : c \in q.seen}
    IN /\ Cardinality(q.seen) = Cardinality(keys)
       /\ \E lo \in 0..q.pos : First(q, lo) /\ keys = {Key(q.req, p) : p \in lo..q.pos}

\* What a sliding window of so many tokens says: all of its keys ("Dropping it would
\* silently mask real in-window tokens"), and no others.
WindowWhole ==
  \A q \in reads : config.window > 0 => {Key(q.req, p) : p \in WindowStart(q)..q.pos} \subseteq {c[Len(c)] : c \in q.seen}
WindowOnly ==
  \A q \in reads : config.window > 0 => {c[Len(c)] : c \in q.seen} \subseteq {Key(q.req, p) : p \in WindowStart(q)..q.pos}
=============================================================================
