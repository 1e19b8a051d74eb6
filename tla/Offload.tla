------------------------------- MODULE Offload -------------------------------
(***************************************************************************)
(* Offloading KV blocks to CPU memory: the canonical tensors the caches    *)
(* are registered as, the store and load handlers with their streams,      *)
(* events and queues, and the runner's step, which starts the transfers    *)
(* before it computes.  A CPU chunk holds Factor GPU blocks.               *)
(*                                                                         *)
(* A block's content is <<buffer, prompt, i>>: the i-th block of a prompt  *)
(* in one buffer of the cache.  Blocks and chunks are numbered from 0.     *)
(***************************************************************************)
EXTENDS Integers, Sequences, FiniteSets
LOCAL INSTANCE SequencesExt

CONSTANTS Requests, Prompt,   \* [Requests -> prompts]
          Length,             \* [Requests -> blocks]
          Factor, GpuBlocks, CpuChunks,
          Layers,             \* the buffers of each layer's cache: <<K, V>> or one
          MaxQueue,           \* bound on a handler's transfers
          Configs             \* [async, moves, stores, loads, leaves]: a step may still
                              \* compute when the next is planned; bounds on swaps of
                              \* the defragmenter and on requests that end

VARIABLES config, gpu, cpu,   \* [buffer][block], [tensor][chunk * Factor + j]
          blocks, computed, status,
          mapping,            \* the defragmenter's fwd_mapping_table
          pending,            \* writes of a computation still running, in order
          chunks,             \* the manager's chunks
          planned, deferred,  \* load jobs of the next step, stores of the last
          handlers,           \* a queue of transfers and two pools per direction
          moves, leaves
vars == <<config, gpu, cpu, blocks, computed, status, mapping, pending, chunks, planned, deferred, handlers, moves, leaves>>
----------------------------------------------------------------------------
(* register_kv_caches: layers of the same buffers share canonical tensors. *)

\* Mutant: every layer's references go to the first layer's tensors.
AliasGroupsCoalesced(layers) == <<layers[1]>>
AliasGroups(layers) ==
  FoldLeft(LAMBDA seen, l : IF l \in ToSet(seen) THEN seen ELSE Append(seen, l), <<>>, layers)
Tensors == FlattenSeq(AliasGroups(Layers))
Buffers == UNION {ToSet(l) : l \in ToSet(Layers)}

(* expand_block_ids, and the pairs of transfer_async.                      *)
\* Mutant: the blocks skipped are the last block's.
ExpandBlockIdsTail(ids, factor, skip) ==
  FlattenSeq([i \in DOMAIN ids |->
    LET n == IF i = Len(ids) THEN factor - skip ELSE factor
    IN [j \in 1..n |-> ids[i] * factor + j - 1]])
ExpandBlockIds(ids, factor, skip) ==
  FlattenSeq([i \in DOMAIN ids |->
    LET from == IF i = 1 THEN skip ELSE 0
    IN [j \in 1..(factor - from) |-> ids[i] * factor + from + j - 1]])
SrcFactor(dir) == IF dir = "store" THEN 1 ELSE Factor
DstFactor(dir) == IF dir = "store" THEN Factor ELSE 1
SubBlocksToSkip(job) == (-Len(job.dst)) % SrcFactor(job.dir)
SrcToDst(job) ==
  LET src == ExpandBlockIds(job.src, SrcFactor(job.dir), SubBlocksToSkip(job))
      dst == ExpandBlockIds(job.dst, DstFactor(job.dir), 0)
  IN [i \in DOMAIN dst |-> <<src[i], dst[i]>>]
Copied(to, from, pairs) == FoldLeft(LAMBDA t, p : [t EXCEPT ![p[2]] = from[p[1]]], to, pairs)

(* Device memory.  A write is <<block, prompt, i>>, for every buffer.      *)
Written(mem, ws) ==
  FoldLeft(LAMBDA m, w : [b \in Buffers |-> [m[b] EXCEPT ![w[1]] = <<b, w[2], w[3]>>]], mem, ws)

\* transfer_async on the memory m = [gpu, cpu, pending].  A store's stream waits
\* for the computation; a load's does not, and its copy may fall between two
\* of the pending writes.  torch.hpu.synchronize ends both.
Transferred(m, job, k) ==
  LET before == SubSeq(m.pending, 1, IF job.dir = "store" THEN Len(m.pending) ELSE k)
      settled == Written(m.gpu, before)
      late == SubSeq(m.pending, Len(before) + 1, Len(m.pending))
      pairs == SrcToDst(job)
      TensorOf(b) == CHOOSE t \in DOMAIN Tensors : Tensors[t] = b
  IN IF job.dir = "store"
     THEN [gpu |-> settled, pending |-> <<>>,
           cpu |-> [t \in DOMAIN Tensors |-> Copied(m.cpu[t], settled[Tensors[t]], pairs)]]
     ELSE [gpu |-> Written([b \in Buffers |->
                      IF b \in ToSet(Tensors) THEN Copied(settled[b], m.cpu[TensorOf(b)], pairs) ELSE settled[b]], late),
           pending |-> <<>>, cpu |-> m.cpu]
----------------------------------------------------------------------------
(* The handlers' bookkeeping.                                              *)

Created(h) == 2 * Len(h.transfers) + Len(h.events)
\* The pool's last element, or a new one, and what the pool keeps.
Taken(pool, new) == IF pool = <<>> THEN <<new, pool>> ELSE <<Last(pool), Front(pool)>>
Enqueued(h, job) ==
  LET stream == Taken(h.streams, Len(h.transfers) + Len(h.streams))
      start == Taken(h.events, Created(h))
      end == Taken(start[2], Created(h) + (IF h.events = <<>> THEN 1 ELSE 0))
  IN [transfers |-> Append(h.transfers, [job |-> job, stream |-> stream[1], start |-> start[1], end |-> end[1]]),
      streams |-> stream[2], events |-> end[2]]

\* get_finished: the first n transfers have ended, and give back what they used.
Finished(h, n) ==
  [transfers |-> SubSeq(h.transfers, n + 1, Len(h.transfers)),
   streams |-> h.streams \o [i \in 1..n |-> h.transfers[i].stream],
   events |-> h.events \o FlattenSeq([i \in 1..n |-> <<h.transfers[i].end, h.transfers[i].start>>])]
----------------------------------------------------------------------------
NoChunk == [key |-> <<>>, ready |-> FALSE, pins |-> 0]
Idle == [transfers |-> <<>>, streams |-> <<>>, events |-> <<>>]
Init ==
  /\ config \in Configs
  /\ gpu = [b \in Buffers |-> [x \in 0..(GpuBlocks - 1) |-> <<>>]]
  /\ cpu = [t \in DOMAIN Tensors |-> [x \in 0..(CpuChunks * Factor - 1) |-> <<>>]]
  /\ blocks = [r \in Requests |-> <<>>]
  /\ computed = [r \in Requests |-> 0]
  /\ status = [r \in Requests |-> "waiting"]
  /\ mapping = [x \in 0..(GpuBlocks - 1) |-> x]
  /\ pending = <<>>
  /\ chunks = [c \in 0..(CpuChunks - 1) |-> NoChunk]
  /\ planned = <<>>
  /\ deferred = <<>>
  /\ handlers = [dir \in {"store", "load"} |-> Idle]
  /\ moves = 0
  /\ leaves = 0

Used == UNION {ToSet(blocks[r]) : r \in Requests}
Free == (0..(GpuBlocks - 1)) \ Used
InOrder(S) == [i \in 1..Cardinality(S) |-> CHOOSE x \in S : Cardinality({y \in S : y < x}) = i - 1]
ChunkOf(key) == {c \in DOMAIN chunks : chunks[c].key = key}
Pinned(cs, by) == [c \in DOMAIN chunks |-> IF c \in cs THEN [chunks[c] EXCEPT !.pins = @ + by] ELSE chunks[c]]

(* The scheduler and the offloading manager (external).                    *)

\* The longest cached prefix of g blocks is shared with a running request; the
\* next n chunks, from the one block g lies in, are found in CPU memory.
Admit(r) ==
  LET sharers == {q \in Requests : status[q] = "running" /\ Prompt[q] = Prompt[r]}
      s == CHOOSE q \in sharers : \A p \in sharers : computed[p] <= computed[q]
      g == IF sharers = {} THEN 0 ELSE computed[s]
      from == g \div Factor
      Ready(i) == \E c \in ChunkOf(<<Prompt[r], i>>) : chunks[c].ready
      found == {m \in 0..(Length[r] \div Factor - from) : \A i \in from..(from + m - 1) : Ready(i)}
      n == IF config.loads THEN CHOOSE m \in found : \A o \in found : o <= m ELSE 0
      hits == [i \in 1..n |-> CHOOSE c \in ChunkOf(<<Prompt[r], from + i - 1>>) : TRUE]
      got == (IF g = 0 THEN <<>> ELSE SubSeq(blocks[s], 1, g)) \o SubSeq(InOrder(Free), 1, Length[r] - g)
      upto == IF n = 0 THEN g ELSE (from + n) * Factor
  IN /\ status[r] = "waiting"
     /\ Length[r] - g <= Cardinality(Free)
     /\ Len(planned) + Len(handlers["load"].transfers) < MaxQueue
     /\ blocks' = [blocks EXCEPT ![r] = got]
     /\ computed' = [computed EXCEPT ![r] = upto]
     /\ status' = [status EXCEPT ![r] = IF upto = g THEN "running" ELSE "loading"]
     /\ chunks' = IF upto = g THEN chunks ELSE Pinned(ToSet(hits), 1)
     /\ planned' = IF upto = g THEN planned
                   ELSE Append(planned, [dir |-> "load", req |-> r, src |-> hits, dst |-> SubSeq(got, g + 1, upto)])
     /\ UNCHANGED <<config, gpu, cpu, mapping, pending, deferred, handlers, moves, leaves>>

\* A running request ends or is preempted; its stores may still be deferred.
Leave(r) ==
  /\ status[r] = "running"
  /\ leaves < config.leaves /\ leaves' = leaves + 1
  /\ status' = [status EXCEPT ![r] = "waiting"]
  /\ blocks' = [blocks EXCEPT ![r] = <<>>]
  /\ computed' = [computed EXCEPT ![r] = 0]
  /\ UNCHANGED <<config, gpu, cpu, mapping, pending, chunks, planned, deferred, handlers, moves>>

(* The worker.                                                             *)

\* The computation of the last step makes progress on its own.
ComputeDone ==
  /\ pending # <<>>
  /\ gpu' = Written(gpu, <<Head(pending)>>)
  /\ pending' = Tail(pending)
  /\ UNCHANGED <<config, cpu, blocks, computed, status, mapping, chunks, planned, deferred, handlers, moves, leaves>>

\* The step's transfers, in the order they are submitted: the stores of the
\* last step first.  k: where the first one meets the running computation.
Jobs == deferred \o planned
AfterTransfers(k) ==
  FoldLeft(LAMBDA m, job : Transferred(m, job, IF m.pending = <<>> THEN 0 ELSE k),
           [gpu |-> gpu, cpu |-> cpu, pending |-> pending], Jobs)
AfterSubmits == FoldLeft(LAMBDA h, job : [h EXCEPT ![job.dir] = Enqueued(@, job)], handlers, Jobs)

\* What the reports of finished jobs do: a stored chunk can be loaded, a loaded
\* one evicted, and its request run.
Completed(cs, done) ==
  [c \in DOMAIN cs |->
    [cs[c] EXCEPT !.ready = @ \/ \E job \in done : job.dir = "store" /\ c \in ToSet(job.dst),
                  !.pins = @ - Cardinality({job \in done : job.dir = "load" /\ c \in ToSet(job.src)})]]

\* execute_model: the transfers, the computation of rs's next blocks (none:
\* kv_connector_no_forward), the new stores (wait_for_save keeps them for the
\* next step) and the finished transfers, ends[dir] of each queue.
Step(rs, k, ends) ==
  LET m == AfterTransfers(k)
      writes == [i \in 1..Cardinality(rs) |->
                   LET r == InOrder(rs)[i]
                   IN <<mapping[blocks[r][computed[r] + 1]], Prompt[r], computed[r] + 1>>]
      full == {r \in rs : config.stores /\ (computed[r] + 1) % Factor = 0 
                         /\ ChunkOf(<<Prompt[r], computed[r] \div Factor>>) = {}}
      empty == {c \in DOMAIN chunks : chunks[c] = NoChunk}
      room == IF empty # {} THEN empty ELSE {c \in DOMAIN chunks : chunks[c].ready /\ chunks[c].pins = 0}
      h == AfterSubmits
      done == UNION {{h[d].transfers[i].job : i \in 1..ends[d]} : d \in DOMAIN h}
      Store(r, c) == [dir |-> "store", req |-> r, dst |-> <<c>>,
                      src |-> SubSeq(blocks[r], computed[r] + 2 - Factor, computed[r] + 1)]
  IN /\ rs \subseteq {r \in Requests : status[r] = "running" /\ computed[r] < Length[r]}
     /\ rs # {} \/ Jobs # <<>> \/ \E d \in DOMAIN h : h[d].transfers # <<>>
     /\ k <= Len(pending)
     /\ \A d \in DOMAIN h : ends[d] <= Len(h[d].transfers) /\ Len(h[d].transfers) - ends[d] < MaxQueue
     /\ gpu' = IF config.async THEN m.gpu ELSE Written(m.gpu, m.pending \o writes)
     /\ pending' = IF config.async THEN m.pending \o writes ELSE <<>>
     /\ cpu' = m.cpu
     /\ handlers' = [d \in DOMAIN h |-> Finished(h[d], ends[d])]
     /\ computed' = [r \in Requests |-> computed[r] + (IF r \in rs THEN 1 ELSE 0)]
     /\ status' = [r \in Requests |-> IF \E job \in done : job.dir = "load" /\ job.req = r THEN "running" ELSE status[r]]
     /\ planned' = <<>>
     /\ \/ /\ full # {} /\ \E r \in full, c \in {x \in room : \A y \in room : x <= y} :
              /\ deferred' = <<Store(r, c)>>
              /\ chunks' = Completed([chunks EXCEPT ![c] = [key |-> <<Prompt[r], computed[r] \div Factor>>,
                                                             ready |-> FALSE, pins |-> 0]], done)
        \/ /\ full = {} \/ room = {}
           /\ deferred' = <<>> /\ chunks' = Completed(chunks, done)
     /\ UNCHANGED <<config, blocks, mapping, moves, leaves>>

\* The defragmenter swaps two blocks, before a step's transfers.
Defragment(a, b) ==
  /\ moves < config.moves /\ moves' = moves + 1 /\ a # b
  /\ mapping' = [x \in DOMAIN mapping |->
                   IF mapping[x] = a THEN b ELSE IF mapping[x] = b THEN a ELSE mapping[x]]
  /\ LET settled == Written(gpu, pending)
     IN gpu' = [buf \in Buffers |-> [settled[buf] EXCEPT ![a] = settled[buf][b], ![b] = settled[buf][a]]]
  /\ pending' = <<>>
  /\ UNCHANGED <<config, cpu, blocks, computed, status, chunks, planned, deferred, handlers, leaves>>

\* shutdown, of both handlers.
Shutdown ==
  /\ \E d \in DOMAIN handlers : handlers[d] # Idle
  /\ \A r \in Requests : status[r] = "waiting"
  /\ status' = [r \in Requests |-> "closed"]
  /\ handlers' = [d \in DOMAIN handlers |-> Idle]
  /\ deferred' = <<>> /\ planned' = <<>>
  /\ UNCHANGED <<config, gpu, cpu, blocks, computed, mapping, pending, chunks, moves, leaves>>

Next ==
  \/ \E r \in Requests : Admit(r) \/ Leave(r)
  \/ ComputeDone
  \/ \E rs \in {{}} \cup {{r} : r \in Requests}, k \in 0..1, ends \in [{"store", "load"} -> 0..(MaxQueue + 1)] :
       Step(rs, k, ends)
  \/ \E a, b \in DOMAIN mapping : Defragment(a, b)
  \/ Shutdown

Spec == Init /\ [][Next]_vars
----------------------------------------------------------------------------
\* A running request finds its own prompt in every block it counts as computed,
\* in every buffer of every layer, once the running computation has ended:
\* also the blocks loaded from the middle of a chunk, over blocks freed while
\* their store was still to come.
LoadedIntact ==
  \A r \in Requests : status[r] = "running" =>
    \A i \in 1..computed[r], b \in Buffers :
      Written(gpu, pending)[b][mapping[blocks[r][i]]] = <<b, Prompt[r], i>>

\* A chunk that can be loaded holds its blocks, of every buffer, although the
\* request that computed them may have gone before they were copied.
StoredIntact ==
  \A c \in DOMAIN chunks : chunks[c].ready =>
    \A b \in Buffers : \E t \in DOMAIN Tensors :
      /\ Tensors[t] = b
      /\ \A j \in 0..(Factor - 1) :
           cpu[t][c * Factor + j] = <<b, chunks[c].key[1], chunks[c].key[2] * Factor + j + 1>>

\* No stream or event is in two places: with two transfers, with a transfer and
\* in the pool, or twice in the pool, where the next transfers would take it.
PoolsDisjoint ==
  \A d \in DOMAIN handlers :
    LET h == handlers[d]
        streams == h.streams \o [i \in DOMAIN h.transfers |-> h.transfers[i].stream]
        events == h.events \o FlattenSeq([i \in DOMAIN h.transfers |-> <<h.transfers[i].start, h.transfers[i].end>>])
    IN IsInjective(streams) /\ IsInjective(events)
=============================================================================
