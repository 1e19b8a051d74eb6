--------------------------- MODULE Defragmenter ---------------------------
(***************************************************************************)
(* The online KV-cache defragmenter (extension/defragmentation.py) and the *)
(* engine step that drives it (HPUModelRunner.run_defragmenter, called     *)
(* first by execute_model).                                                *)
(*                                                                         *)
(* The scheduler's block manager hands out LOGICAL block ids; the          *)
(* defragmenter keeps a permutation from logical to PHYSICAL blocks and    *)
(* moves KV contents between physical blocks when the used ones are spread *)
(* too far.  The block manager is vLLM's and external: its actions here    *)
(* are what the handlers in src/ can observe of it.                        *)
(***************************************************************************)
EXTENDS Integers, Sequences, FiniteSets

CONSTANTS
  Reqs,           \* request ids
  NumBlocks,      \* KV blocks 1..NumBlocks; block 0 is the null block
  MaxNew,         \* bound: blocks handed to one request in one step
  MaxRefs,        \* bound: blocks recorded for one request
  Threshold,      \* VLLM_DEFRAG_THRESHOLD
  MaxSwap,        \* to_swap_pad_thresholds[-1]
  PrefixCaching,  \* enable_prefix_caching
  Resubmit,       \* may an id finish and be submitted again between two steps?
  NONE            \* marks a physical block that holds no current data

ASSUME ConstantsAssumption ==
  /\ IsFiniteSet(Reqs)
  /\ NumBlocks \in Nat \ {0}
  /\ MaxNew \in Nat
  /\ MaxRefs \in Nat
  /\ Threshold \in Nat
  /\ MaxSwap \in Nat \ {0}
  /\ PrefixCaching \in BOOLEAN
  /\ Resubmit \in BOOLEAN
  /\ NONE \notin Int

Block == 1..NumBlocks

(* The block lists one step may hand to a request.  The order inside a list *)
(* is not observable to the defragmenter, so ascending lists stand for all. *)
BlockLists ==
  {s \in UNION {[1..n -> Block] : n \in 0..MaxNew} :
     \A i, j \in DOMAIN s : i < j => s[i] < s[j]}

VARIABLES
  phase,              \* "schedule" -> "defragment" -> "forward" -> ...
  live,               \* requests the scheduler knows, running or preempted
  owned,              \* the logical blocks the block manager granted each request
  valid,              \* logical blocks whose contents someone may still read
  new,                \* scheduler_output: block ids handed out in this step
  fin,                \* scheduler_output.finished_req_ids
  req_blocks,         \* OnlineDefragmenter.req_blocks
  used_blocks,        \* OnlineDefragmenter.used_blocks (0 = no entry)
  fwd_mapping_table,  \* logical -> physical
  bwd_mapping_table,  \* physical -> logical
  kv                  \* kv[p]: the logical block whose current data p holds

schedVars == <<live, owned, valid, new, fin>>
defragVars == <<req_blocks, used_blocks, fwd_mapping_table, bwd_mapping_table>>
vars == <<phase, schedVars, defragVars, kv>>

Elems(s) == {s[i] : i \in DOMAIN s}

Init ==
  /\ phase = "schedule"
  /\ live = {}
  /\ owned = [r \in Reqs |-> {}]
  /\ valid = {}
  /\ new = [r \in Reqs |-> <<>>]
  /\ fin = {}
  /\ req_blocks = [r \in Reqs |-> <<>>]
  /\ used_blocks = [p \in Block |-> 0]
  /\ fwd_mapping_table = [b \in {} |-> b]
  /\ bwd_mapping_table = [b \in {} |-> b]
  /\ kv = [p \in Block |-> NONE]

-----------------------------------------------------------------------------
(* The block manager between two engine steps (external).                   *)

OwnedByOthers(r) == UNION {owned[q] : q \in Reqs \ {r}}

(* Blocks that stay readable once r gives its blocks up: without prefix      *)
(* caching only the blocks some other request still owns.                    *)
ValidWithout(r) ==
  IF PrefixCaching THEN valid ELSE valid \cap OwnedByOthers(r)

(* r is given blocks: a new, running or resumed request.  A hit shares a     *)
(* block with valid cached contents; every other block is overwritten later. *)
Grant(r) ==
  /\ phase = "schedule"
  /\ r \notin fin \/ Resubmit
  /\ new[r] = <<>>
  /\ \E bl \in BlockLists, hits \in SUBSET valid :
       /\ bl # <<>>
       /\ Len(req_blocks[r]) + Len(bl) <= MaxRefs
       /\ hits \subseteq Elems(bl)
       /\ hits # {} => PrefixCaching
       /\ Elems(bl) \cap owned[r] = {}
       /\ (Elems(bl) \ hits) \cap OwnedByOthers(r) = {}
       /\ new' = [new EXCEPT ![r] = bl]
       /\ owned' = [owned EXCEPT ![r] = @ \union Elems(bl)]
       /\ valid' = valid \ (Elems(bl) \ hits)
  /\ live' = live \union {r}
  /\ UNCHANGED <<phase, fin, defragVars, kv>>

(* r loses its blocks but stays known; the worker is not told.               *)
Preempt(r) ==
  /\ phase = "schedule"
  /\ r \in live
  /\ owned[r] # {}
  /\ new[r] = <<>>
  /\ owned' = [owned EXCEPT ![r] = {}]
  /\ valid' = ValidWithout(r)
  /\ UNCHANGED <<phase, live, new, fin, defragVars, kv>>

Finish(r) ==
  /\ phase = "schedule"
  /\ r \in live
  /\ new[r] = <<>>
  /\ live' = live \ {r}
  /\ owned' = [owned EXCEPT ![r] = {}]
  /\ valid' = ValidWithout(r)
  /\ fin' = fin \union {r}
  /\ UNCHANGED <<phase, new, defragVars, kv>>

-----------------------------------------------------------------------------
(* _extend_mapping_table: grow a table with identity entries up to the         *)
(* highest of the given blocks.                                                *)
Extend(table, blocks) ==
  [b \in DOMAIN table \union UNION {0..n : n \in blocks} |->
     IF b \in DOMAIN table THEN table[b] ELSE b]

(* resolve: ids beyond the table map to themselves.                          *)
ResolveIn(table, b) == IF b \in DOMAIN table THEN table[b] ELSE b
resolve(b) == ResolveIn(fwd_mapping_table, b)

(* The references of a block-list table that resolve to physical block p.    *)
RefsTo(lists, table, p) ==
  {x \in Reqs \X (1..(MaxRefs + MaxNew)) :
     /\ x[2] \in DOMAIN lists[x[1]]
     /\ ResolveIn(table, lists[x[1]][x[2]]) = p}

(* update_state: first every list in new is recorded and its blocks'          *)
(* ref-counts go up, then every finished request is dropped with ALL the      *)
(* blocks recorded for its id.                                                *)
UpdateStateUnresolved ==  \* mutant: releases blocks under their logical ids
  LET granted == UNION {Elems(new[r]) : r \in Reqs}
      added   == [r \in Reqs |-> req_blocks[r] \o new[r]]
      dropped == [r \in Reqs |-> IF r \in fin THEN added[r] ELSE <<>>]
  IN  /\ phase = "schedule"
      /\ fwd_mapping_table' = Extend(fwd_mapping_table, granted)
      /\ bwd_mapping_table' = Extend(bwd_mapping_table, granted)
      /\ used_blocks' = [p \in Block |->
           used_blocks[p] + Cardinality(RefsTo(new, fwd_mapping_table', p))
                          - Cardinality(RefsTo(dropped, <<>>, p))]
      /\ req_blocks' = [r \in Reqs |-> IF r \in fin THEN <<>> ELSE added[r]]
      /\ phase' = "defragment"
      /\ UNCHANGED <<schedVars, kv>>

UpdateState ==
  LET granted == UNION {Elems(new[r]) : r \in Reqs}
      fwd     == Extend(fwd_mapping_table, granted)
      added   == [r \in Reqs |-> req_blocks[r] \o new[r]]
      dropped == [r \in Reqs |-> IF r \in fin THEN added[r] ELSE <<>>]
  IN  /\ phase = "schedule"
      /\ fwd_mapping_table' = fwd
      /\ bwd_mapping_table' = Extend(bwd_mapping_table, granted)
      /\ used_blocks' = [p \in Block |->
           used_blocks[p] + Cardinality(RefsTo(new, fwd, p))
                          - Cardinality(RefsTo(dropped, fwd, p))]
      /\ req_blocks' = [r \in Reqs |-> IF r \in fin THEN <<>> ELSE added[r]]
      /\ phase' = "defragment"
      /\ UNCHANGED <<schedVars, kv>>

-----------------------------------------------------------------------------
Used == {p \in Block : used_blocks[p] > 0}
Free == Block \ Used

(* defragment pairs the used blocks from the highest down with the free ones *)
(* from the lowest up, while the free one is below, at most MaxSwap pairs.    *)
to_swap_unpaired ==  \* mutant: the same block may appear in several pairs
  {pr \in Used \X Free : pr[2] < pr[1]}

to_swap ==
  {pr \in Used \X Free :
     LET above == {u \in Used : u > pr[1]}
         below == {f \in Free : f < pr[2]}
     IN  /\ pr[2] < pr[1]
         /\ Cardinality(above) = Cardinality(below)
         /\ Cardinality(above) < MaxSwap}

MaxElem(S) == CHOOSE m \in S : \A x \in S : x <= m

TriggeredAlways == Used # {}  \* mutant: ignores the fragmentation test

Triggered ==
  /\ Used # {}
  /\ MaxElem(Used) - Threshold > Cardinality(Used)

(* The block that p trades places with (the pairs are disjoint).              *)
Partner(p) ==
  IF \E q \in Block : <<p, q>> \in to_swap \/ <<q, p>> \in to_swap
    THEN CHOOSE q \in Block : <<p, q>> \in to_swap \/ <<q, p>> \in to_swap
    ELSE p

(* CacheSwapUtils.forward: used contents go to the free block; the free       *)
(* block's contents come back only under prefix caching.                      *)
SwappedOneWay ==  \* mutant: never brings the free block's contents back
  [p \in Block |-> IF p \in Used THEN kv[p] ELSE kv[Partner(p)]]

Swapped ==
  [p \in Block |->
     IF p \in Used /\ ~PrefixCaching THEN kv[p] ELSE kv[Partner(p)]]

DefragmentMoves ==
  /\ phase = "defragment"
  /\ Triggered
  /\ used_blocks' = [p \in Block |-> used_blocks[Partner(p)]]
  /\ fwd_mapping_table' = [b \in DOMAIN fwd_mapping_table |-> Partner(fwd_mapping_table[b])]
  /\ bwd_mapping_table' = [p \in DOMAIN bwd_mapping_table |-> bwd_mapping_table[Partner(p)]]
  /\ kv' = Swapped
  /\ phase' = "forward"
  /\ UNCHANGED <<schedVars, req_blocks>>

DefragmentSkips ==
  /\ phase = "defragment"
  /\ ~Triggered
  /\ phase' = "forward"
  /\ UNCHANGED <<schedVars, defragVars, kv>>

-----------------------------------------------------------------------------
(* The forward pass writes KV entries through resolve: every granted block    *)
(* that is not a cache hit, and possibly the last block of any owner.  A      *)
(* write makes the written physical block the only current copy.              *)
Forward ==
  /\ phase = "forward"
  /\ \E written \in SUBSET UNION {owned[r] : r \in Reqs} :
       /\ UNION {Elems(new[r]) : r \in Reqs} \ valid \subseteq written
       /\ kv' = [p \in Block |->
            IF \E b \in written : resolve(b) = p
              THEN CHOOSE b \in written : resolve(b) = p
              ELSE IF kv[p] \in written THEN NONE ELSE kv[p]]
       /\ valid' = valid \union written
  /\ new' = [r \in Reqs |-> <<>>]
  /\ fin' = {}
  /\ phase' = "schedule"
  /\ UNCHANGED <<live, owned, defragVars>>

Next ==
  \/ \E r \in Reqs : Grant(r) \/ Preempt(r) \/ Finish(r)
  \/ UpdateState
  \/ DefragmentMoves
  \/ DefragmentSkips
  \/ Forward

Spec == Init /\ [][Next]_vars

-----------------------------------------------------------------------------
TypeOK ==
  /\ phase \in {"schedule", "defragment", "forward"}
  /\ live \subseteq Reqs
  /\ owned \in [Reqs -> SUBSET Block]
  /\ valid \subseteq Block
  /\ new \in [Reqs -> BlockLists]
  /\ fin \subseteq Reqs
  /\ req_blocks \in [Reqs -> Seq(Block)]
  /\ \A r \in Reqs : Len(req_blocks[r]) <= MaxRefs
  /\ used_blocks \in [Block -> Int]
  /\ DOMAIN fwd_mapping_table \subseteq 0..NumBlocks
  /\ \A b \in DOMAIN fwd_mapping_table : 0..b \subseteq DOMAIN fwd_mapping_table
  /\ fwd_mapping_table \in [DOMAIN fwd_mapping_table -> DOMAIN fwd_mapping_table]
  /\ bwd_mapping_table \in [DOMAIN fwd_mapping_table -> DOMAIN fwd_mapping_table]
  /\ kv \in [Block -> Block \union {NONE}]

(* The two mapping tables stay inverse permutations of each other over all    *)
(* the table growth of _extend_mapping_table and all the two-by-two rewrites  *)
(* of defragment: no two logical blocks ever share a physical one.            *)
MappingInverse ==
  \A b \in DOMAIN fwd_mapping_table :
       /\ bwd_mapping_table[fwd_mapping_table[b]] = b
       /\ fwd_mapping_table[bwd_mapping_table[b]] = b

(* used_blocks[p] is exactly the number of recorded references that resolve   *)
(* to p now, although blocks were counted under one mapping and are released  *)
(* under another: free_block never hits a missing key and nothing leaks.      *)
RefCountExact ==
  \A p \in Block :
    used_blocks[p] = Cardinality(RefsTo(req_blocks, fwd_mapping_table, p))

(* Every block some request may still read is found, through resolve, at a    *)
(* physical block that holds its current data: moving blocks around a live    *)
(* cache loses nothing.                                                       *)
DataPreserved ==
  \A b \in valid : kv[resolve(b)] = b

(* The inductive invariant.  Beyond the parts above: the null block never moves *)
(* and every recorded block is inside the tables; no id may finish and hold blocks at once; whatever the   *)
(* block manager granted to a request is recorded for it once update_state     *)
(* has run; and without prefix caching only owned blocks are readable.         *)
BlocksInTable ==
  /\ 0 \in DOMAIN fwd_mapping_table => fwd_mapping_table[0] = 0 /\ bwd_mapping_table[0] = 0
  /\ \A r \in Reqs :
       /\ Elems(req_blocks[r]) \subseteq DOMAIN fwd_mapping_table
       /\ phase = "schedule" => Len(req_blocks[r]) + Len(new[r]) <= MaxRefs

OwnedRecorded ==
  /\ \A r \in fin : owned[r] = {} /\ new[r] = <<>>
  /\ \A r \in Reqs :
       owned[r] \subseteq Elems(req_blocks[r]) \union
                         (IF phase = "schedule" THEN Elems(new[r]) ELSE {})
  /\ ~PrefixCaching => valid \subseteq UNION {owned[r] : r \in Reqs}

TableInv ==
  /\ TypeOK
  /\ MappingInverse
  /\ RefCountExact
  /\ BlocksInTable

IInv ==
  /\ TableInv
  /\ OwnedRecorded
  /\ DataPreserved

(* A defragmentation that is not cut off by the MaxSwap limit leaves the used  *)
(* blocks packed at 1..n, and one that is cut off still lowers the highest    *)
(* used block.  A trigger with nothing to swap would raise in _swap.              *)
MovesCompact ==
  [][DefragmentMoves =>
       /\ to_swap # {}
       /\ MaxElem(Used') < MaxElem(Used)
       /\ Cardinality(to_swap) < MaxSwap => Used' = 1..Cardinality(Used)]_vars

=============================================================================
