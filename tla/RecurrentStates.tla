--------------------------- MODULE RecurrentStates ---------------------------
(***************************************************************************)
(* The recurrent states of hybrid models (mamba, GDN): which slot of the   *)
(* state tensors a step loads a request's convolution window and SSM state *)
(* from, what it makes of them for padded batches of prompts and decodes,  *)
(* and which slots it stores the new states to.                            *)
(*                                                                         *)
(* An SSM state is named by the tokens it has seen, a convolution window   *)
(* by its last tokens (<<>>: none).  The layers at one position of all groups *)
(* share one tensor, so a tensor here serves every group.  Three layouts:  *)
(* "compact" (GDN: a base slot per request), "block" (a block per request) *)
(* and "cached" (prefix caching: a block per mamba_block_size tokens).     *)
(***************************************************************************)
EXTENDS Integers, Sequences, FiniteSets
LOCAL INSTANCE SequencesExt
LOCAL INSTANCE FiniteSetsExt

CONSTANTS Requests,     \* a set of numbers: the batch is in their order
          PromptLen,    \* [Requests -> Nat]
          MaxLen,       \* bound on a request's tokens
          Common,       \* requests share their first Common tokens
          Groups,       \* the mamba groups 0..n
          StateLen,     \* width of the convolution, minus one
          Configs       \* layout, mamba_block_size, chunk, pad, preemptions

VARIABLES config,
          computed,     \* num_computed_tokens
          active,       \* requests of the batch
          blocks,       \* blocks[r][g]: the row of the group's block table
          base,         \* _gdn_req_to_base_slot (-1: none)
          conv, ssm,    \* the state tensors
          fresh,        \* requests that got blocks or hits since their last step
          preempts
vars == <<config, computed, active, blocks, base, conv, ssm, fresh, preempts>>

LOCAL Ceil(a, b) == (a + b - 1) \div b
LOCAL Least(a, b) == IF a < b THEN a ELSE b
LOCAL Most(a, b) == IF a > b THEN a ELSE b
LOCAL InOrder(S) == [i \in 1..Cardinality(S) |-> CHOOSE x \in S : Cardinality({y \in S : y < x}) = i - 1]
NumGroups == Cardinality(Groups)
Compact == config.layout = "compact"
Cached == config.layout = "cached"
Blocks == 1..config.num_blocks
\* initialize_kv_cache: a slot per block and one for padding, or for every
\* request's groups, a 0th and a last one for padding.
NumSlots == IF Compact THEN Cardinality(Requests) * NumGroups + 2 ELSE config.num_blocks + 2
PadSlot == NumSlots - 1

Token(r, p) == <<IF p < Common THEN 0 ELSE r, p>>
Tokens(r, from, n) == [i \in 1..n |-> Token(r, from + i - 1)]
Zeros == [i \in 1..StateLen |-> <<>>]
Window(s) == SubSeq(s, Len(s) - StateLen + 1, Len(s))
----------------------------------------------------------------------------
(* Slots.                                                                  *)

\* compute_prefix_caching_block_indices
LastComputed(r) == Most(0, Ceil(computed[r], config.mamba_block) - 1)
FirstScheduled(r) == Ceil(computed[r] + 1, config.mamba_block) - 1
LastScheduled(r, n) == Ceil(computed[r] + n, config.mamba_block) - 1

\* prepare_mamba_state_idxs; a padding index reads and writes the last slot
\* (compact: -1, brought into range by torch.remainder).
StateIdx(r, g, offset) ==
  IF Compact THEN base[r] * NumGroups + g + 1 ELSE blocks[r][g][offset + 1]
LoadIdx(r, g) == StateIdx(r, g, IF Cached THEN LastComputed(r) ELSE 0)
StoreIdx(r, g, n) == StateIdx(r, g, IF Cached THEN LastScheduled(r, n) ELSE 0)

\* The tensor after a scatter of <<slot, value>> pairs, in their order.
Stored(tensor, pairs) == FoldLeft(LAMBDA t, p : [t EXCEPT ![p[1]] = p[2]], tensor, pairs)
----------------------------------------------------------------------------
(* A prompt batch e = <<request, tokens scheduled>>: one request            *)
(* (_can_merge_prefill_contents), padded to config.pad more rows, of         *)
(* TargetSeq tokens.                                                         *)

TargetSeq(e) == Ceil(e[2] + config.pad, config.chunk) * config.chunk
HasInitial(r) == computed[r] > 0
RowInput(e) == Tokens(e[1], computed[e[1]], e[2]) \o [i \in 1..(TargetSeq(e) - e[2]) |-> <<-1>>]

\* hpu_causal_conv1d_fn and granite_causal_conv1d_fn: the window before the
\* first padded token; a row without tokens keeps its slot.
InitWindow(e, g) == IF HasInitial(e[1]) THEN conv[LoadIdx(e[1], g)] ELSE Zeros
InitState(e, g) == IF HasInitial(e[1]) THEN ssm[LoadIdx(e[1], g)] ELSE <<>>
ConvWindow(e, g) == SubSeq(InitWindow(e, g) \o RowInput(e), e[2] + 1, e[2] + StateLen)
PadRows(tensor) == [i \in 1..config.pad |-> <<PadSlot, tensor[PadSlot]>>]

PlainConv(e, g) == <<<<StoreIdx(e[1], g, e[2]), ConvWindow(e, g)>>>> \o PadRows(conv)
PlainSsm(e, g) ==
  <<<<StoreIdx(e[1], g, e[2]), InitState(e, g) \o Tokens(e[1], computed[e[1]], e[2])>>>> \o PadRows(ssm)

\* With prefix caching: the windows at the end of every
\* block (seqlens_offsets_for_blocks, padded with the last), and the states of
\* all chunks, those that end no block to the padding slot.
CachedOffsets(e) ==
  LET first == config.mamba_block - (computed[e[1]] % config.mamba_block)
  IN InOrder({o \in 1..(e[2] - 1) : o >= first /\ (o - first) % config.mamba_block = 0}) \o <<e[2]>>
MaxCachedBlocks(e) == Ceil(TargetSeq(e), config.mamba_block) + 1
CachingRange(e, g) == SubSeq(blocks[e[1]][g], FirstScheduled(e[1]) + 1, LastScheduled(e[1], e[2]) + 1)
PaddedTo(s, n, x) == s \o [i \in 1..(n - Len(s)) |-> x]

CachedConv(e, g) ==
  LET seq == InitWindow(e, g) \o RowInput(e)
      offsets == PaddedTo(CachedOffsets(e), MaxCachedBlocks(e), e[2])
      range == PaddedTo(CachingRange(e, g), MaxCachedBlocks(e), PadSlot)
  IN [i \in 1..Len(range) |-> <<range[i], SubSeq(seq, offsets[i] + 1, offsets[i] + StateLen)>>]

\* chunk_indices: the scheduled chunk that ends each block, the last one at
\* most the last physical chunk.
\* Mutant: the chunks are counted from the block's start, as for a step that
\* begins at one.
ChunkIndexAligned(e, i) ==
  Least((i + 1) * (config.mamba_block \div config.chunk) - 1, TargetSeq(e) \div config.chunk - 1)
ChunkIndex(e, i) ==
  LET stride == config.mamba_block \div config.chunk
      offset == (FirstScheduled(e[1]) + 1) * stride - 1 - computed[e[1]] \div config.chunk
  IN Least(i * stride + offset, TargetSeq(e) \div config.chunk - 1)
CachedSsm(e, g) ==
  LET range == CachingRange(e, g)
      chunks == TargetSeq(e) \div config.chunk
      ends(c) == {i \in 1..Len(range) : ChunkIndex(e, i - 1) = c}
      \* padding_mask: padded tokens leave the state alone
      state(c) == InitState(e, g) \o Tokens(e[1], computed[e[1]], Least(e[2], (c + 1) * config.chunk))
  IN [c \in 1..chunks |-> <<IF ends(c - 1) = {} THEN PadSlot ELSE range[Max(ends(c - 1))], state(c - 1)>>]

ConvStores(e, g) == IF Cached THEN CachedConv(e, g) ELSE PlainConv(e, g)
SsmStores(e, g) == IF Cached THEN CachedSsm(e, g) ELSE PlainSsm(e, g)
AllGroups(F(_)) == FlattenSeq([g \in 1..NumGroups |-> F(g - 1)])

Ran(n) == [r \in Requests |-> IF r \in DOMAIN n THEN computed[r] + n[r] ELSE computed[r]]

\* What the scheduler may give a prompt: with prefix caching a step begins at
\* a chunk (asserted by _form_prefill_batch).
IsPrompt(r) == computed[r] < PromptLen[r]
Chunkable(r, n) ==
  /\ computed[r] + n <= PromptLen[r]
  /\ Cached => computed[r] + n = PromptLen[r] \/ (computed[r] + n) % config.chunk = 0

\* _form_prefill_batch and the prompt part of the mamba and GDN layers.
Prefill(r, n) ==
  LET e == <<r, n>>
  IN /\ IsPrompt(r) /\ r \in fresh /\ Chunkable(r, n)
     /\ \A g \in Groups : ~Compact => Len(blocks[r][g]) >= 1 + (IF Cached THEN LastScheduled(r, n) ELSE 0)
     /\ conv' = Stored(conv, AllGroups(LAMBDA g : ConvStores(e, g)))
     /\ ssm' = Stored(ssm, AllGroups(LAMBDA g : SsmStores(e, g)))
     /\ computed' = Ran([q \in {r} |-> n])
     /\ fresh' = fresh \ {r}
     /\ UNCHANGED <<config, active, blocks, base, preempts>>

\* The decode batch: hpu_causal_conv1d_fn_update (or Granite's) and the
\* recurrent update, gathered for all rows, then scattered.
Decode(rs) ==
  LET rows == InOrder(rs)
      pads(tensor) == [i \in 1..config.pad |-> <<PadSlot, tensor[PadSlot]>>]
      convs(g) == [i \in 1..Len(rows) |->
                     <<StoreIdx(rows[i], g, 1),
                       Window(conv[LoadIdx(rows[i], g)] \o Tokens(rows[i], computed[rows[i]], 1))>>]
      ssms(g) == [i \in 1..Len(rows) |->
                     <<StoreIdx(rows[i], g, 1), ssm[LoadIdx(rows[i], g)] \o Tokens(rows[i], computed[rows[i]], 1)>>]
  IN /\ rs # {} /\ rs \subseteq active
     /\ \A r \in rs : ~IsPrompt(r) /\ r \in fresh /\ computed[r] < MaxLen
     /\ conv' = Stored(conv, AllGroups(LAMBDA g : convs(g) \o pads(conv)))
     /\ ssm' = Stored(ssm, AllGroups(LAMBDA g : ssms(g) \o pads(ssm)))
     /\ computed' = Ran([r \in rs |-> 1])
     /\ fresh' = fresh \ rs
     /\ UNCHANGED <<config, active, blocks, base, preempts>>
----------------------------------------------------------------------------
(* The scheduler and the block manager (external).                         *)

Init ==
  /\ config \in Configs
  /\ computed = [r \in Requests |-> 0]
  /\ active = {}
  /\ blocks = [r \in Requests |-> [g \in Groups |-> <<>>]]
  /\ base = [r \in Requests |-> -1]
  /\ conv = [s \in 0..PadSlot |-> Zeros]
  /\ ssm = [s \in 0..PadSlot |-> <<>>]
  /\ fresh = {}
  /\ preempts = 0

Used == UNION {ToSet(blocks[r][g]) : r \in Requests, g \in Groups}

\* Blocks for n more tokens of r: with prefix caching one per
\* mamba_block_size tokens and group, otherwise one per group.
Granted(have, r, n) ==
  LET need == IF Compact THEN 0 ELSE IF Cached THEN Ceil(n, config.mamba_block) ELSE 1
      missing == [g \in Groups |-> Most(0, need - Len(have[g]))]
      free == InOrder(Blocks \ (Used \cup UNION {ToSet(have[g]) : g \in Groups}))
      before(g) == MapThenSumSet(LAMBDA h : missing[h], {h \in Groups : h < g})
  IN /\ MapThenSumSet(LAMBDA g : missing[g], Groups) <= Len(free)
     /\ blocks' = [blocks EXCEPT ![r] = [g \in Groups |-> have[g] \o SubSeq(free, before(g) + 1, before(g) + missing[g])]]

\* A request joins, with the states of k blocks of s found in the cache; a
\* base slot stays with its request until it finishes.
Admit(r, s, k) ==
  /\ r \notin active /\ s # r
  /\ k > 0 => Cached /\ s \in active /\ k * config.mamba_block <= Least(computed[s], Least(Common, PromptLen[r] - 1))
  /\ active' = active \cup {r}
  /\ computed' = [computed EXCEPT ![r] = k * config.mamba_block]
  /\ Granted([g \in Groups |-> SubSeq(blocks[s][g], 1, k)], r, PromptLen[r])
  /\ base' = IF Compact /\ base[r] = -1
             THEN [base EXCEPT ![r] = Min((0..(Cardinality(Requests) - 1)) \ {base[q] : q \in Requests})] ELSE base
  /\ fresh' = fresh \cup {r}
  /\ UNCHANGED <<config, conv, ssm, preempts>>

\* A running request is scheduled again.
Plan(r) ==
  /\ r \in active \ fresh /\ computed[r] < MaxLen
  /\ Granted(blocks[r], r, Most(PromptLen[r], computed[r] + 1))
  /\ fresh' = fresh \cup {r}
  /\ UNCHANGED <<config, computed, active, base, conv, ssm, preempts>>

Leave(r) ==
  /\ r \in active \ fresh
  /\ active' = active \ {r}
  /\ computed' = [computed EXCEPT ![r] = 0]
  /\ blocks' = [blocks EXCEPT ![r] = [g \in Groups |-> <<>>]]
  /\ preempts < config.preempts /\ preempts' = preempts + 1
  /\ UNCHANGED <<config, conv, ssm, fresh>>
Preempt(r) == Leave(r) /\ UNCHANGED base
Finish(r) == computed[r] > PromptLen[r] /\ Leave(r) /\ base' = [base EXCEPT ![r] = -1]

Next ==
  \/ \E r, s \in Requests, k \in 0..2 : Admit(r, s, k)
  \/ \E r \in Requests : Plan(r) \/ Preempt(r) \/ Finish(r)
  \/ \E r \in fresh, n \in 1..MaxLen : Prefill(r, n)
  \/ \E rs \in SUBSET fresh : Decode(rs)

Spec == Init /\ [][Next]_vars
----------------------------------------------------------------------------
\* Every group of every running request loads next what it should: the state
\* of the slot it would load is that of exactly its own computed tokens, the
\* window their last, zeros before the first; and with prefix caching every
\* full block holds the states at its end, for whoever shares it.  Slots are
\* shared by groups, reused with stale contents, handed over at block
\* boundaries in the middle of a padded chunked step and written by padding
\* rows.
StatesOwn ==
  \A r \in active, g \in Groups :
    LET Holds(slot, n) == /\ ssm[slot] = Tokens(r, 0, n)
                          /\ conv[slot] = Window(Zeros \o Tokens(r, 0, n))
    IN /\ HasInitial(r) => Holds(LoadIdx(r, g), computed[r])
       /\ Cached => \A i \in 1..(computed[r] \div config.mamba_block) :
                      Holds(blocks[r][g][i], i * config.mamba_block)
=============================================================================
