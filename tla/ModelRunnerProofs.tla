------------------------- MODULE ModelRunnerProofs --------------------------
(***************************************************************************)
(* For every set of requests, size of the batch and schedule: each row of  *)
(* the persistent batch is its request's own and current, through removals,*)
(* additions, condense and both reorderings, and a step that samples sees  *)
(* decodes followed by prompts (RowsAreOwn).  The compact slot of its      *)
(* recurrent state stays a request's own until it is finished              *)
(* (SlotsAreOwn).  A step gives a request one token if it completes what   *)
(* is known of the request, none otherwise (TokensOnce), and samples it    *)
(* with what is the request's own (SampledOwn).                            *)
(***************************************************************************)
EXTENDS MCRows, BatchStepProofs

(* What the scheduler has granted, after scheduling n, for requests with the   *)
(* prompts p in their rows.                                                    *)
Granted(s, n, p) ==
  [comp   |-> [r \in Reqs |-> s.comp[r] - n[r]],
   prompt |-> p,
   tokens |-> [r \in Reqs |-> NumTokens(s, r)],
   blocks |-> [r \in Reqs |-> [of |-> r, epoch |-> s.epoch[r], len |-> s.comp[r]]]]

(* The logits rows are those of requests.                                      *)
LEMMA LogitsType ==
  ASSUME NEW b, NEW w, Table(b, w), Holes(b) = {}, num_scheduled_tokens \in [Reqs -> Nat],
         NEW first \in Int, NEW last \in Int, first >= 1, last <= Len(b.req_ids)
  PROVE  LogitsRequests(b, first, last) \in Seq(Reqs)
<1> DEFINE lists == [k \in 1..(last - first + 1) |->
                       [j \in 1..NumLogits(b, first + k - 1) |-> b.req_ids[first + k - 1]]]
<1>1. /\ Len(b.req_ids) \in Nat /\ DOMAIN b.req_ids = 1..Len(b.req_ids)
      /\ DOMAIN b.req_ids \subseteq Rows /\ \A i \in 1..Len(b.req_ids) : b.req_ids[i] \in Reqs
      /\ b.row \in [Rows -> Row]
  BY FullRows, ZenonT(30) DEF Table
<1>2. ASSUME NEW i \in 1..Len(b.req_ids)
      PROVE  NumLogits(b, i) \in Int
  <2> DEFINE n == num_scheduled_tokens[b.req_ids[i]]
             extra == b.row[i].comp + n - b.row[i].prompt + 1
  <2>1. n \in Int /\ extra \in Int
    <3>1. b.row[i] \in Row
      BY <1>1
    <3>2. b.row[i].comp \in Nat /\ b.row[i].prompt \in Nat
      BY <3>1 DEF Row
    <3>3. n \in Nat
      BY <1>1
    <3>4. QED BY <3>2, <3>3
  <2>2. NumLogits(b, i) = IF extra < 1 THEN (IF use_structured_output THEN 1 ELSE 0) ELSE Min({extra, n})
    BY DEF NumLogits
  <2> HIDE DEF n, extra
  <2>3. Min({extra, n}) \in Int
    BY <2>1, MinOfTwo
  <2>4. QED BY <2>2, <2>3
<1>3. ASSUME NEW k \in 1..(last - first + 1)
      PROVE  [j \in 1..NumLogits(b, first + k - 1) |-> b.req_ids[first + k - 1]] \in Seq(Reqs)
  <2> DEFINE i == first + k - 1
  <2>1. i \in 1..Len(b.req_ids)
    BY <1>1
  <2> HIDE DEF i
  <2>2. NumLogits(b, i) \in Int /\ b.req_ids[i] \in Reqs
    BY <1>1, <1>2, <2>1
  <2>3. [j \in 1..NumLogits(b, i) |-> b.req_ids[i]] \in [1..NumLogits(b, i) -> Reqs]
    BY <2>2
  <2>4. [j \in 1..NumLogits(b, i) |-> b.req_ids[i]] \in Seq(Reqs)
    BY <2>2, <2>3, FunctionSeqInt
  <2>5. QED BY <2>4 DEF i
<1>4. lists \in Seq(Seq(Reqs))
  <2>1. lists \in [1..(last - first + 1) -> Seq(Reqs)]
    BY <1>3
  <2>2. last - first + 1 \in Int
    OBVIOUS
  <2> HIDE DEF lists
  <2>3. QED BY <2>1, <2>2, FunctionSeqInt
<1>5. QED
  <2> HIDE DEF lists
  <2>1. Flat(lists) \in Seq(Reqs)
    BY <1>4, FlatType
  <2>2. QED BY <2>1 DEF LogitsRequests, lists

(* The sampling calls of a step are for requests.                              *)
LEMMA CallsType ==
  ASSUME NEW b, NEW w, Table(b, w), Holes(b) = {}, num_scheduled_tokens \in [Reqs -> Nat],
         NumDecodes(b, num_scheduled_tokens) \in 0..Len(b.req_ids)
  PROVE  LET calls == SamplingCalls(b)
         IN  /\ Len(calls) \in Nat /\ DOMAIN calls = 1..Len(calls)
             /\ \A k \in DOMAIN calls : calls[k].rows \in Seq(Reqs)
<1> DEFINE d == NumDecodes(b, num_scheduled_tokens)
           m == Len(b.req_ids)
           decodes == SubSeq(b.req_ids, 1, d)
           prompts == SubSeq(b.req_ids, d + 1, m)
           call(first, last) ==
             LET rows == LogitsRequests(b, first, last)
             IN  [rows |-> rows, meta |-> MetadataRequests(SubSeq(b.req_ids, first, last), rows, rows)]
           first(k) == d + 1 + (k - 1) * MaxPrefillBatch
           last(k) == Min({d + k * MaxPrefillBatch, m})
           count == (m - d + MaxPrefillBatch - 1) \div MaxPrefillBatch
           prefills == [k \in 1..count |-> call(first(k), last(k))]
           together == decodes \o LogitsRequests(b, d + 1, m)
           all == [rows |-> together, meta |-> MetadataRequests(prompts \o decodes, together, <<>>)]
           kept == OnlyIn(prefills, {c \in Range(prefills) : c.rows # <<>>})
           front == [rows |-> decodes, meta |-> decodes]
           calls == SamplingCalls(b)
<1>1. m \in Nat /\ d \in Nat /\ d <= m /\ b.req_ids \in Seq(Reqs) /\ MaxPrefillBatch \in Nat \ {0}
  BY FullRows, RunnerAssumption
<1>2. calls = IF GrammarRequests # {} THEN <<all>>
              ELSE kept \o (IF d = 0 THEN <<>> ELSE <<front>>)
  BY DEF SamplingCalls
<1>3. decodes \in Seq(Reqs)
  <2> HIDE DEF d, m
  <2>1. QED BY <1>1 DEF m
<1> HIDE DEF d
<1>4. LogitsRequests(b, d + 1, m) \in Seq(Reqs)
  <2> HIDE DEF decodes, prompts, prefills, together
  <2>1. d + 1 \in Int /\ m \in Int /\ d + 1 >= 1 /\ m <= Len(b.req_ids)
    BY <1>1
  <2> HIDE DEF m
  <2>2. QED BY <2>1, LogitsType
<1>5. ASSUME NEW k \in 1..count
      PROVE  call(first(k), last(k)).rows \in Seq(Reqs)
  <2>1. k \in Nat /\ k - 1 \in Nat
    BY <1>1
  <2>2. (k - 1) * MaxPrefillBatch \in Nat /\ k * MaxPrefillBatch \in Nat
    BY <1>1, <2>1
  <2>3. first(k) \in Int /\ first(k) >= 1
    BY <1>1, <2>2
  <2>4. last(k) \in Int /\ last(k) <= m
    <3> DEFINE x == d + k * MaxPrefillBatch
    <3>1. x \in Int /\ m \in Int
      BY <1>1, <2>2
    <3> HIDE DEF x, m
    <3>2. Min({x, m}) \in Int /\ Min({x, m}) <= m
      BY <3>1, MinOfTwo
    <3>3. QED BY <3>2 DEF x
  <2> HIDE DEF first, last
  <2>5. LogitsRequests(b, first(k), last(k)) \in Seq(Reqs)
    BY <2>3, <2>4, LogitsType
  <2>6. QED BY <2>5
<1>6. count \in Nat
  <2> DEFINE x == m - d + MaxPrefillBatch - 1
  <2>1. x \in Nat
    BY <1>1
  <2> HIDE DEF x, m, d
  <2>2. (x \div MaxPrefillBatch) \in Nat
    BY <1>1, <2>1, SMTT(30)
  <2>3. QED BY <2>2 DEF x
<1> HIDE DEF count, call, first, last
<1>7. prefills \in Seq(Range(prefills)) /\ \A c \in Range(prefills) : c.rows \in Seq(Reqs)
  <2>1. prefills \in [1..count -> Range(prefills)]
    BY DEF Range
  <2>2. \A k \in 1..count : prefills[k].rows \in Seq(Reqs)
    BY <1>5
  <2>3. DOMAIN prefills = 1..count
    OBVIOUS
  <2> HIDE DEF prefills
  <2>4. prefills \in Seq(Range(prefills))
    BY <1>6, <2>1, FunctionSeq
  <2>5. \A c \in Range(prefills) : c.rows \in Seq(Reqs)
    BY <2>2, <2>3 DEF Range
  <2>6. QED BY <2>4, <2>5
<1>8. together \in Seq(Reqs)
  <2> HIDE DEF decodes, m
  <2>1. QED BY <1>3, <1>4
<1> DEFINE C == Range(prefills) \union {all, front}
<1>9. \A c \in C : c.rows \in Seq(Reqs)
  <2>1. all.rows = together /\ front.rows = decodes
    OBVIOUS
  <2> HIDE DEF all, front, prefills, together, decodes
  <2>2. QED BY <1>3, <1>7, <1>8, <2>1
<1>10. calls \in Seq(C)
  <2> HIDE DEF all, front, prefills, together, decodes
  <2> DEFINE R == Range(prefills)
             K == {c \in R : c.rows # <<>>}
  <2>1. kept \in Seq(R \cap K)
    <3>1. kept = OnlyIn(prefills, K)
      OBVIOUS
    <3> HIDE DEF R, K, kept
    <3>2. prefills \in Seq(R)
      BY <1>7 DEF R
    <3>3. QED BY <3>1, <3>2, OnlyInType
  <2>2. kept \in Seq(C)
    <3>1. R \cap K \subseteq C
      OBVIOUS
    <3> HIDE DEF R, K, kept, C
    <3>2. QED BY <2>1, <3>1
  <2>3. <<all>> \in Seq(C) /\ <<front>> \in Seq(C) /\ <<>> \in Seq(C)
    <3>1. all \in C /\ front \in C
      OBVIOUS
    <3> HIDE DEF C
    <3>2. QED BY <3>1
  <2> HIDE DEF C, kept, calls
  <2>4. kept \o <<front>> \in Seq(C) /\ kept \o <<>> \in Seq(C)
    BY <2>2, <2>3
  <2>5. QED BY <1>2, <2>3, <2>4
<1>11. Len(calls) \in Nat /\ DOMAIN calls = 1..Len(calls) /\ \A k \in DOMAIN calls : calls[k] \in C
  <2> HIDE DEF C, calls
  <2>1. QED BY <1>10
<1>12. QED
  <2> HIDE DEF C, calls
  <2>1. \A k \in DOMAIN calls : calls[k].rows \in Seq(Reqs)
    BY <1>9, <1>11
  <2>2. QED BY <1>11, <2>1 DEF calls

(* The entry of a logits row is for the row's request.                         *)
LEMMA SelectiveRows ==
  ASSUME NEW b, NEW c, c.rows \in Seq(Reqs)
  PROVE  /\ DOMAIN Selective(b, c) = 1..Len(c.rows)
         /\ Selective(b, c) = [j \in 1..Len(c.rows) |-> Selective(b, c)[j]]
         /\ \A j \in 1..Len(c.rows) : Selective(b, c)[j].req = c.rows[j]
<1>1. DOMAIN c.rows = 1..Len(c.rows) /\ Len(c.rows) \in Nat
  OBVIOUS
<1>2. DOMAIN Selective(b, c) = DOMAIN c.rows
  BY SMTT(30) DEF Selective
<1>3. Selective(b, c) = [j \in 1..Len(c.rows) |-> Selective(b, c)[j]]
  BY <1>1, ZenonT(30) DEF Selective
<1>4. ASSUME NEW j \in 1..Len(c.rows), j > Len(c.meta) PROVE Selective(b, c)[j].req = c.rows[j]
  <2>1. Selective(b, c)[j] = PastMetadata(c.rows[j])
    BY <1>1, <1>4, ZenonT(30) DEF Selective
  <2>2. QED BY <2>1 DEF PastMetadata
<1>5. ASSUME NEW j \in 1..Len(c.rows), ~(j > Len(c.meta)) PROVE Selective(b, c)[j].req = c.rows[j]
  BY <1>1, <1>5 DEF Selective
<1>6. QED BY <1>1, <1>2, <1>3, <1>4, <1>5

(* The entries are those of the calls' rows.                                   *)
FromCalls(b, calls, entries) ==
  \A j \in DOMAIN entries : \E k \in DOMAIN calls : \E i \in 1..Len(calls[k].rows) :
    entries[j] = Selective(b, calls[k])[i]

(* Every logits row is sampled for a request, in one of the calls.             *)
LEMMA EntriesType ==
  ASSUME NEW b, NEW calls, Len(calls) \in Nat, DOMAIN calls = 1..Len(calls),
         \A k \in DOMAIN calls : calls[k].rows \in Seq(Reqs)
  PROVE  LET entries == Flat([k \in DOMAIN calls |-> Selective(b, calls[k])])
         IN  /\ Len(entries) \in Nat /\ DOMAIN entries = 1..Len(entries)
             /\ \A j \in DOMAIN entries : entries[j].req \in Reqs
             /\ FromCalls(b, calls, entries)
<1> DEFINE lists == [k \in DOMAIN calls |-> Selective(b, calls[k])]
           S == UNION {Range(lists[k]) : k \in DOMAIN calls}
           entries == Flat(lists)
<1>1. ASSUME NEW c, c.rows \in Seq(Reqs)
      PROVE  /\ DOMAIN Selective(b, c) = 1..Len(c.rows) /\ Len(c.rows) \in Nat
             /\ Selective(b, c) = [j \in 1..Len(c.rows) |-> Selective(b, c)[j]]
             /\ \A j \in 1..Len(c.rows) : Selective(b, c)[j].req \in Reqs
  <2>1. Len(c.rows) \in Nat /\ \A j \in 1..Len(c.rows) : c.rows[j] \in Reqs
    BY <1>1
  <2>2. QED BY <1>1, <2>1, SelectiveRows
<1>2. ASSUME NEW k \in DOMAIN calls
      PROVE  lists[k] \in Seq(S) /\ \A e \in Range(lists[k]) : e.req \in Reqs
  <2> DEFINE c == calls[k]
             s == Selective(b, c)
  <2>1. /\ lists[k] = s /\ DOMAIN s = 1..Len(c.rows) /\ Len(c.rows) \in Nat
        /\ s = [j \in 1..Len(c.rows) |-> s[j]]
        /\ \A j \in 1..Len(c.rows) : s[j].req \in Reqs
    BY <1>1
  <2>2. Range(lists[k]) \subseteq S
    OBVIOUS
  <2> HIDE DEF s, S, lists
  <2>3. \A j \in 1..Len(c.rows) : s[j] \in S
    BY <2>1, <2>2 DEF Range
  <2>4. s \in [1..Len(c.rows) -> S]
    BY <2>1, <2>3
  <2>5. s \in Seq(S)
    BY <2>1, <2>4, FunctionSeq
  <2>6. \A e \in Range(lists[k]) : e.req \in Reqs
    BY <2>1 DEF Range
  <2>7. QED BY <2>1, <2>5, <2>6
<1>3. \A e \in S : e.req \in Reqs
  BY <1>2
<1>4. ASSUME NEW e \in S
      PROVE  \E k \in DOMAIN calls : \E i \in 1..Len(calls[k].rows) : e = Selective(b, calls[k])[i]
  <2>1. PICK k \in DOMAIN calls : e \in Range(lists[k])
    OBVIOUS
  <2>2. lists[k] = Selective(b, calls[k]) /\ DOMAIN Selective(b, calls[k]) = 1..Len(calls[k].rows)
    BY <1>1
  <2> HIDE DEF lists, S
  <2>3. QED BY <2>1, <2>2 DEF Range
<1>5. lists \in Seq(Seq(S))
  <2>1. lists \in [1..Len(calls) -> Seq(S)]
    <3>1. DOMAIN lists = 1..Len(calls) /\ lists = [k \in 1..Len(calls) |-> lists[k]]
      OBVIOUS
    <3> HIDE DEF S, lists
    <3>2. QED BY <1>2, <3>1
  <2> HIDE DEF lists, S
  <2>2. QED BY <2>1, FunctionSeq
<1>6. entries \in Seq(S)
  <2> HIDE DEF lists, S
  <2>1. QED BY <1>5, FlatType
<1>7. QED
  <2> HIDE DEF S
  <2>1. Len(entries) \in Nat /\ DOMAIN entries = 1..Len(entries) /\ \A j \in DOMAIN entries : entries[j] \in S
    <3> HIDE DEF entries
    <3>1. QED BY <1>6
  <2>2. \A j \in DOMAIN entries : entries[j].req \in Reqs
    <3> HIDE DEF entries
    <3>1. QED BY <1>3, <2>1
  <2>3. FromCalls(b, calls, entries)
    <3> HIDE DEF entries
    <3>1. QED BY <1>4, <2>1 DEF FromCalls
  <2>4. QED BY <2>1, <2>2, <2>3

(* The loop that gives out the GDN slots.                                      *)
AllocatingFacts == INSTANCE SequenceFacts WITH Step <- AllocSlot

(* The batch is exactly what is scheduled, every row as granted, no holes.     *)
BatchHolds ==
  /\ \E p \in [Reqs -> Nat] : Table(batch, Granted(sched, num_scheduled_tokens, p))
  /\ Holes(batch) = {}
  /\ Members(batch) = {r \in Reqs : num_scheduled_tokens[r] > 0}

(* What it takes for that to hold after a step.                                *)
LEMMA BatchHoldsAfter ==
  ASSUME NEW p \in [Reqs -> Nat], Table(batch', Granted(sched', num_scheduled_tokens', p)),
         Holes(batch') = {}, Members(batch') = {r \in Reqs : num_scheduled_tokens'[r] > 0}
  PROVE  BatchHolds'
<1>1. Granted(sched, num_scheduled_tokens, p)' = Granted(sched', num_scheduled_tokens', p)
  BY DEF Granted, NumTokens
<1>2. Table(batch, Granted(sched, num_scheduled_tokens, p))'
  BY <1>1 DEF Table, IsBatch, Holes, Members, HasRow, Clean, Vacant
<1>3. Holes(batch)' = {} /\ Members(batch)' = {r \in Reqs : num_scheduled_tokens'[r] > 0}
  BY DEF Holes, Members
<1>4. QED BY <1>2, <1>3 DEF BatchHolds

(* Only running requests are in the batch, and their cached state is current.  *)
RunningCurrent ==
  /\ sched = [st |-> sched.st, comp |-> sched.comp, outs |-> sched.outs, epoch |-> sched.epoch]
  /\ Members(batch) \subseteq In("running")
  /\ \A r \in In("running") :
       block_ids[r] = [of |-> r, epoch |-> sched.epoch[r], len |-> sched.comp[r]]

(* Every GDN slot is free or one request's.                                    *)
Pooled(g) ==
  /\ g.free \in Seq(Rows) /\ g.slot \in [Reqs -> 0..MaxReqs] /\ IsInjective(g.free)
  /\ \A q, r \in Reqs : g.slot[q] = g.slot[r] /\ g.slot[q] # 0 => q = r
  /\ \A r \in Reqs : g.slot[r] \notin Range(g.free)
  /\ \A s \in Rows : s \in Range(g.free) \/ \E r \in Reqs : g.slot[r] = s


(* Slots are exclusive, and a request has one from the step that first         *)
(* schedules it until it is finished, preempted or not.                        *)
Unfinished(state) == state \in {"running", "preempted"}
SlotsHeld ==
  /\ Pooled(gdn)
  /\ phase # "dead" => \A r \in Reqs : gdn.slot[r] # 0 <=> Unfinished(sched.st[r])

(* The inductive invariant.                                                    *)
RunnerInv == TypeOK /\ BatchHolds /\ RunningCurrent /\ SlotsHeld

(* The tokens of a sampling step are appended to the rows.                     *)
LEMMA TokensRow ==
  ASSUME NEW row \in Row, NEW k \in Nat
  PROVE  LET x == [row EXCEPT !.tokens = @ + k]
         IN  /\ x \in Row
             /\ x.own = row.own /\ x.comp = row.comp /\ x.prompt = row.prompt /\ x.tokens = row.tokens + k
             /\ x.gen = row.gen /\ x.bad = row.bad /\ x.blocks = row.blocks
<1> DEFINE x == [row EXCEPT !.tokens = @ + k]
<1>1. x \in Row
  BY DEF Row
<1>2. /\ x.own = row.own /\ x.comp = row.comp /\ x.prompt = row.prompt /\ x.tokens = row.tokens + k
      /\ x.gen = row.gen /\ x.bad = row.bad /\ x.blocks = row.blocks
  BY DEF Row
<1>3. QED BY <1>1, <1>2

(* The batch with g more tokens for each of its requests.                      *)
Extended(b, g, cache) ==
  [b EXCEPT !.row = [i \in Rows |->
              IF i \in DOMAIN b.req_ids
                THEN [b.row[i] EXCEPT !.tokens = @ + g[b.req_ids[i]]] ELSE b.row[i]],
            !.cache = cache]

(* v has g more tokens than w for each of them.                                *)
Gains(M, w, v, g) ==
  \A r \in M : /\ v.comp[r] = w.comp[r] /\ v.prompt[r] = w.prompt[r]
                /\ v.tokens[r] = w.tokens[r] + g[r] /\ v.blocks[r] = w.blocks[r]

(* Appending the sampled tokens keeps the table.                               *)
LEMMA RowsSampled ==
  ASSUME NEW b, NEW w, Table(b, w), Holes(b) = {}, NEW g \in [Reqs -> Nat], NEW cache \in Seq(Reqs),
         NEW v, Gains(Members(b), w, v, g)
  PROVE  LET c == Extended(b, g, cache)
         IN  Table(c, v) /\ Members(c) = Members(b) /\ Holes(c) = {}
<1>0. \A r \in Members(b) :
        /\ v.comp[r] = w.comp[r] /\ v.prompt[r] = w.prompt[r]
        /\ v.tokens[r] = w.tokens[r] + g[r] /\ v.blocks[r] = w.blocks[r]
  BY DEF Gains
<1> DEFINE c == Extended(b, g, cache)
           rows == [i \in Rows |->
                      IF i \in DOMAIN b.req_ids
                        THEN [b.row[i] EXCEPT !.tokens = @ + g[b.req_ids[i]]] ELSE b.row[i]]
<1>1. IsBatch(c) /\ c.req_ids = b.req_ids /\ c.index = b.index /\ c.row = rows /\ c.cache = cache
  <2>1. c = [b EXCEPT !.row = rows, !.cache = cache]
    BY DEF Extended
  <2> HIDE DEF rows, c
  <2>2. QED BY <2>1 DEF Table, IsBatch
<1> HIDE DEF c
<1>2. Members(c) = Members(b) /\ Holes(c) = {}
  BY <1>1 DEF Members, Holes
<1>3. /\ b.req_ids \in Seq(Reqs \union {NONE}) /\ Len(b.req_ids) <= MaxReqs
      /\ Members(b) \subseteq Reqs /\ b.index \in [Members(b) -> DOMAIN b.req_ids]
      /\ b.row \in [Rows -> Row] /\ DOMAIN b.req_ids \subseteq Rows
      /\ \A r \in Members(b) : b.req_ids[b.index[r]] = r /\ HasRow(b.row[b.index[r]], r, w)
      /\ \A i \in DOMAIN b.req_ids :
           b.req_ids[i] \in Members(b) /\ b.req_ids[i] \in Reqs /\ b.index[b.req_ids[i]] = i
      /\ \A i \in Rows : Vacant(b, i) => Clean(b.row[i])
  BY FullRows DEF Table
<1>4. ASSUME NEW i \in DOMAIN b.req_ids
      PROVE  rows[i] \in Row /\ HasRow(rows[i], b.req_ids[i], v)
  <2> DEFINE r == b.req_ids[i]
             x == b.row[i]
             y == [x EXCEPT !.tokens = @ + g[r]]
  <2>1. i \in Rows /\ r \in Reqs /\ r \in Members(b) /\ x \in Row /\ g[r] \in Nat
    BY <1>3
  <2>2. HasRow(x, r, w)
    BY <1>3
  <2>3. rows[i] = y
    BY <2>1
  <2>4. /\ y \in Row /\ y.own = x.own /\ y.comp = x.comp /\ y.prompt = x.prompt /\ y.tokens = x.tokens + g[r]
        /\ y.gen = x.gen /\ y.bad = x.bad /\ y.blocks = x.blocks
    BY <2>1, TokensRow
  <2> HIDE DEF y, x, r
  <2>5. HasRow(y, r, v)
    BY <1>0, <2>1, <2>2, <2>4 DEF HasRow
  <2>6. QED BY <2>3, <2>4, <2>5 DEF r
<1>5. ASSUME NEW i \in Rows, i \notin DOMAIN b.req_ids PROVE rows[i] = b.row[i] /\ b.row[i] \in Row
  BY <1>3, <1>5
<1>6. rows \in [Rows -> Row]
  <2>1. \A i \in Rows : rows[i] \in Row
    BY <1>4, <1>5
  <2>2. DOMAIN rows = Rows /\ rows = [i \in Rows |-> rows[i]]
    OBVIOUS
  <2> HIDE DEF rows
  <2>3. QED BY <2>1, <2>2
<1>7. \A r \in Members(c) : c.req_ids[c.index[r]] = r /\ HasRow(c.row[c.index[r]], r, v)
  <2>1. SUFFICES ASSUME NEW r \in Members(b) PROVE b.req_ids[b.index[r]] = r /\ HasRow(rows[b.index[r]], r, v)
    BY <1>1, <1>2
  <2>2. b.index[r] \in DOMAIN b.req_ids /\ b.req_ids[b.index[r]] = r
    BY <1>3
  <2> HIDE DEF rows
  <2>3. QED BY <1>4, <2>2
<1>8. \A i \in Rows : Vacant(c, i) => Clean(c.row[i])
  <2>1. SUFFICES ASSUME NEW i \in Rows, Vacant(c, i) PROVE Clean(c.row[i])
    OBVIOUS
  <2>2. i \notin DOMAIN b.req_ids /\ Vacant(b, i)
    BY <1>1, <1>3, <2>1, BatchAssumption DEF Vacant
  <2>3. QED BY <1>1, <1>3, <1>5, <2>2
<1>9. Table(c, v)
  BY <1>1, <1>2, <1>3, <1>6, <1>7, <1>8 DEF Table
<1>10. QED BY <1>2, <1>9 DEF c

-----------------------------------------------------------------------------
(* Initially the batch is empty.                                               *)
LEMMA RunnerInit == Init => RunnerInv
<1> SUFFICES ASSUME Init PROVE RunnerInv
  OBVIOUS
<1>1. /\ phase = "execute"
      /\ sched = [st    |-> [r \in Reqs |-> "new"], comp  |-> [r \in Reqs |-> 0],
                  outs  |-> [r \in Reqs |-> 0], epoch |-> [r \in Reqs |-> 0]]
      /\ num_scheduled_tokens = [r \in Reqs |-> 0]
      /\ block_ids = [r \in Reqs |-> NoBlocks]
      /\ batch = EmptyBatch
      /\ dev = [i \in Rows |-> NONE]
      /\ batch_changed = FALSE /\ use_structured_output = FALSE
      /\ gdn = [free |-> Reverse([i \in 1..MaxReqs |-> i]), slot |-> [r \in Reqs |-> 0]]
      /\ sampled = <<>>
  BY DEF Init
<1>2. /\ sched.st = [r \in Reqs |-> "new"] /\ sched.comp = [r \in Reqs |-> 0]
      /\ sched.outs = [r \in Reqs |-> 0] /\ sched.epoch = [r \in Reqs |-> 0]
      /\ sched = [st |-> sched.st, comp |-> sched.comp, outs |-> sched.outs, epoch |-> sched.epoch]
  BY <1>1
<1>3. /\ batch.req_ids = <<>> /\ batch.index = [r \in {} |-> 0] /\ batch.row = [i \in Rows |-> EmptyRow]
      /\ batch.cache = <<>> /\ IsBatch(batch)
  BY <1>1 DEF EmptyBatch, IsBatch
<1>4. Members(batch) = {} /\ Holes(batch) = {} /\ DOMAIN batch.req_ids = {}
  BY <1>3 DEF Members, Holes
<1>5. EmptyRow \in Row /\ Clean(EmptyRow)
  BY DEF EmptyRow, Row, NoBlocks, Clean
<1>6. Len(batch.req_ids) <= MaxReqs /\ batch.cache \in Seq(Reqs) /\ batch.req_ids \in Seq(Reqs)
      /\ batch.req_ids \in Seq(Reqs \union {NONE})
  BY <1>3, BatchAssumption
<1>7. batch.row \in [Rows -> Row] /\ \A i \in Rows : Clean(batch.row[i])
  BY <1>3, <1>5
<1>8. batch.index \in [Members(batch) -> DOMAIN batch.req_ids] /\ batch.index \in [Members(batch) -> Rows]
  BY <1>3, <1>4
<1>9. \A p : Table(batch, Granted(sched, num_scheduled_tokens, p))
  BY <1>3, <1>4, <1>6, <1>7, <1>8 DEF Table
<1>10. BatchHolds
  <2>1. [r \in Reqs |-> 0] \in [Reqs -> Nat]
    OBVIOUS
  <2>2. Members(batch) = {r \in Reqs : num_scheduled_tokens[r] > 0}
    BY <1>1, <1>4
  <2>3. QED BY <1>4, <1>9, <2>1, <2>2 DEF BatchHolds
<1>11. RunningCurrent
  <2>1. In("running") = {}
    BY <1>2 DEF In
  <2>2. QED BY <1>2, <1>4, <2>1 DEF RunningCurrent
<1>12. SlotsHeld /\ gdn.free \in Seq(Rows) /\ gdn.slot \in [Reqs -> 0..MaxReqs]
  <2> DEFINE t == [i \in 1..MaxReqs |-> i]
  <2>1. MaxReqs \in Nat /\ t \in [1..MaxReqs -> Rows]
    BY BatchAssumption DEF Rows
  <2>2. t \in Seq(Rows) /\ Len(t) = MaxReqs
    <3> HIDE DEF t
    <3>1. QED BY <2>1, FunctionSeq
  <2>3. Reverse(t) \in [1..MaxReqs -> Rows]
    <3>1. \A i \in 1..MaxReqs : (MaxReqs - i) + 1 \in 1..MaxReqs
      BY <2>1
    <3> HIDE DEF t
    <3>2. Reverse(t) = [i \in 1..MaxReqs |-> t[(MaxReqs - i) + 1]]
      BY <2>2 DEF Reverse
    <3>3. QED BY <2>1, <3>1, <3>2
  <2>4. Reverse(t) \in Seq(Rows)
    <3> HIDE DEF t
    <3>1. QED BY <2>1, <2>3, FunctionSeq
  <2>5. gdn.free = Reverse(t) /\ gdn.slot = [r \in Reqs |-> 0]
    BY <1>1
  <2>6. /\ Len(gdn.free) = MaxReqs /\ DOMAIN gdn.free = 1..MaxReqs
        /\ \A i \in 1..MaxReqs : gdn.free[i] = (MaxReqs - i) + 1
    <3>1. Reverse(t) = [i \in 1..Len(t) |-> t[(Len(t) - i) + 1]]
      BY DEF Reverse
    <3>2. \A i \in 1..MaxReqs : (MaxReqs - i) + 1 \in 1..MaxReqs
      BY <2>1
    <3>3. \A i \in 1..MaxReqs : t[(MaxReqs - i) + 1] = (MaxReqs - i) + 1
      BY <3>2
    <3> HIDE DEF t
    <3>4. QED BY <2>1, <2>2, <2>4, <2>5, <3>1, <3>3
  <2>7. IsInjective(gdn.free)
    BY <2>1, <2>6 DEF IsInjective
  <2>8. Range(gdn.free) = Rows
    <3>1. \A s \in Rows : s \in 1..MaxReqs /\ (MaxReqs - s) + 1 \in 1..MaxReqs
                          /\ gdn.free[(MaxReqs - s) + 1] = s
      BY <2>1, <2>6 DEF Rows
    <3>2. \A i \in 1..MaxReqs : gdn.free[i] \in Rows
      BY <2>1, <2>6 DEF Rows
    <3>3. QED BY <2>6, <3>1, <3>2 DEF Range
  <2> HIDE DEF t
  <2>9. gdn.slot \in [Reqs -> 0..MaxReqs] /\ \A r \in Reqs : gdn.slot[r] = 0 /\ gdn.slot[r] \notin Rows
    BY <2>1, <2>5 DEF Rows
  <2>10. Pooled(gdn)
    BY <2>4, <2>5, <2>7, <2>8, <2>9 DEF Pooled
  <2>11. \A r \in Reqs : ~Unfinished(sched.st[r])
    BY <1>2 DEF Unfinished
  <2>12. QED BY <2>9, <2>10, <2>11 DEF SlotsHeld, Pooled
<1>13. TypeOK
  <2>1. /\ sched.st \in [Reqs -> {"new", "running", "preempted", "done"}]
        /\ sched.comp \in [Reqs -> Nat] /\ sched.outs \in [Reqs -> Nat] /\ sched.epoch \in [Reqs -> 0..MaxPreempts]
    BY <1>2, RunnerAssumption
  <2>2. num_scheduled_tokens \in [Reqs -> Nat]
        /\ block_ids \in [Reqs -> [of : Reqs \union {NONE}, epoch : Nat, len : Nat]]
    BY <1>1 DEF NoBlocks
  <2>3. BatchTypeOK(batch)
    BY <1>4, <1>6, <1>7, <1>8 DEF BatchTypeOK
  <2>4. dev \in [Rows -> Reqs \union {NONE}] /\ batch_changed \in BOOLEAN /\ use_structured_output \in BOOLEAN
    BY <1>1
  <2>5. \A j \in DOMAIN sampled : sampled[j].req \in Reqs
    BY <1>1
  <2>6. phase \in {"execute", "sample", "dead"}
    BY <1>1
  <2>7. QED BY <1>12, <2>1, <2>2, <2>3, <2>4, <2>5, <2>6 DEF TypeOK
<1>14. QED BY <1>10, <1>11, <1>12, <1>13 DEF RunnerInv

(* The prompts that the rows hold.                                             *)
Prompted(p) == Table(batch, Granted(sched, num_scheduled_tokens, p))
PromptedNext(p) == Table(batch', Granted(sched', num_scheduled_tokens', p))

(* A step of sample_tokens: the rows keep their prompts.                       *)
LEMMA SampleStep ==
  ASSUME RunnerInv, SampleTokens, NEW p \in [Reqs -> Nat], Prompted(p)
  PROVE  RunnerInv' /\ PromptedNext(p)
<1> DEFINE n == num_scheduled_tokens
           w == Granted(sched, n, p)
           b == Reordered(batch, n)
           calls == SamplingCalls(b)
           entries == Flat([k \in DOMAIN calls |-> Selective(b, calls[k])])
           gained(r) == Cardinality({j \in DOMAIN entries : entries[j].req = r})
           copied == UNION {{b.index[r] : r \in Range(calls[k].meta)} : k \in DOMAIN calls}
           g == [r \in Reqs |-> gained(r)]
           v == Granted(sched', n, p)
<1>1. /\ TypeOK /\ BatchHolds /\ RunningCurrent /\ SlotsHeld /\ n \in [Reqs -> Nat]
  BY DEF RunnerInv, TypeOK
<1>2. /\ sampled' = entries
      /\ batch' = [b EXCEPT
                     !.row = [i \in Rows |->
                        IF i \in DOMAIN b.req_ids
                          THEN [b.row[i] EXCEPT !.tokens = @ + gained(b.req_ids[i])] ELSE b.row[i]],
                     !.cache = IF ~batch_changed /\ calls # <<>> THEN cached_prompt_token_ids(b) ELSE @]
      /\ dev' = [i \in Rows |-> IF batch_changed /\ i \in copied THEN b.row[i].own ELSE dev[i]]
      /\ sched' = [sched EXCEPT !.outs = [r \in Reqs |-> @[r] + gained(r)]]
      /\ use_structured_output' = (GrammarRequests # {})
      /\ phase' = "execute"
      /\ num_scheduled_tokens' = n /\ block_ids' = block_ids /\ batch_changed' = batch_changed /\ gdn' = gdn
  BY DEF SampleTokens
<1>3. Table(batch, w) /\ Holes(batch) = {} /\ \A r \in Members(batch) : n[r] \in Nat \ {0}
  BY <1>1 DEF Prompted, BatchHolds
<1>4. /\ Table(b, w) /\ Holes(b) = {} /\ Members(b) = Members(batch)
      /\ NumDecodes(b, n) \in 0..Len(b.req_ids)
  <2> HIDE DEF w, n
  <2>1. QED BY <1>3, ReorderedBatch
<1> HIDE DEF b, w, v
<1>5. Len(calls) \in Nat /\ DOMAIN calls = 1..Len(calls) /\ \A k \in DOMAIN calls : calls[k].rows \in Seq(Reqs)
  BY <1>1, <1>4, CallsType
<1> HIDE DEF calls
<1>6. Len(entries) \in Nat /\ DOMAIN entries = 1..Len(entries) /\ \A j \in DOMAIN entries : entries[j].req \in Reqs
  BY <1>5, EntriesType
<1> HIDE DEF entries
<1>7. \A r \in Reqs : gained(r) \in Nat
  <2>1. SUFFICES ASSUME NEW r \in Reqs PROVE gained(r) \in Nat
    OBVIOUS
  <2> DEFINE S == {j \in DOMAIN entries : entries[j].req = r}
  <2>2. S \in SUBSET (1..Len(entries))
    BY <1>6
  <2>3. IsFiniteSet(1..Len(entries))
    BY <1>6, Counted
  <2> HIDE DEF S
  <2>4. Cardinality(S) \in Nat
    BY <2>2, <2>3, FS_Subset, FS_CardinalityType
  <2>5. QED BY <2>4 DEF S
<1> HIDE DEF gained, copied
<1>8. /\ b.req_ids \in Seq(Reqs) /\ DOMAIN b.req_ids \subseteq Rows
      /\ \A i \in DOMAIN b.req_ids : b.req_ids[i] \in Reqs /\ b.row[i].own \in Reqs
      /\ b.row \in [Rows -> Row] /\ Members(b) \subseteq Reqs /\ b.cache \in Seq(Reqs)
  BY <1>4, FullRows DEF Table
<1>9. g \in [Reqs -> Nat] /\ \A r \in Reqs : g[r] = gained(r)
  BY <1>7
<1>10. /\ sched'.st = sched.st /\ sched'.comp = sched.comp /\ sched'.epoch = sched.epoch
       /\ sched'.outs = [r \in Reqs |-> sched.outs[r] + g[r]]
       /\ sched' = [st |-> sched'.st, comp |-> sched'.comp, outs |-> sched'.outs, epoch |-> sched'.epoch]
  <2> DEFINE outs == [r \in Reqs |-> sched.outs[r] + gained(r)]
  <2>1. sched' = [sched EXCEPT !.outs = outs]
    BY <1>2
  <2>2. outs = [r \in Reqs |-> sched.outs[r] + g[r]]
    BY <1>9
  <2> HIDE DEF outs
  <2>3. /\ sched'.st = sched.st /\ sched'.comp = sched.comp /\ sched'.epoch = sched.epoch
        /\ sched'.outs = outs
        /\ sched' = [st |-> sched'.st, comp |-> sched'.comp, outs |-> sched'.outs, epoch |-> sched'.epoch]
    BY <1>1, <2>1 DEF RunningCurrent
  <2>4. QED BY <2>2, <2>3
<1> HIDE DEF g
<1>11. /\ sched.comp \in [Reqs -> Nat] /\ sched.outs \in [Reqs -> Nat]
       /\ sched.st \in [Reqs -> {"new", "running", "preempted", "done"}]
       /\ sched.epoch \in [Reqs -> 0..MaxPreempts] /\ PromptLen \in [Reqs -> Nat \ {0}]
  BY <1>1, PromptAssumption DEF TypeOK
<1>12. \A r \in Reqs : /\ v.comp[r] = w.comp[r] /\ v.prompt[r] = w.prompt[r]
                        /\ v.tokens[r] = w.tokens[r] + g[r] /\ v.blocks[r] = w.blocks[r]
  <2>1. SUFFICES ASSUME NEW r \in Reqs
                 PROVE  /\ v.comp[r] = w.comp[r] /\ v.prompt[r] = w.prompt[r]
                        /\ v.tokens[r] = w.tokens[r] + g[r] /\ v.blocks[r] = w.blocks[r]
    OBVIOUS
  <2>2. v.comp[r] = w.comp[r] /\ v.prompt[r] = w.prompt[r] /\ v.blocks[r] = w.blocks[r]
    BY <1>10 DEF v, w, Granted
  <2>3. v.tokens[r] = PromptLen[r] + sched'.outs[r] /\ w.tokens[r] = PromptLen[r] + sched.outs[r]
    BY DEF v, w, Granted, NumTokens
  <2>4. sched'.outs[r] = sched.outs[r] + g[r] /\ sched.outs[r] \in Nat /\ g[r] \in Nat /\ PromptLen[r] \in Nat
    BY <1>9, <1>10, <1>11
  <2>5. QED BY <2>2, <2>3, <2>4
<1> DEFINE rows == [i \in Rows |->
                      IF i \in DOMAIN b.req_ids
                        THEN [b.row[i] EXCEPT !.tokens = @ + g[b.req_ids[i]]] ELSE b.row[i]]
           cache == IF ~batch_changed /\ calls # <<>> THEN cached_prompt_token_ids(b) ELSE b.cache
<1>13. batch' = Extended(b, g, cache)
  <2>1. \A i \in Rows : i \in DOMAIN b.req_ids => gained(b.req_ids[i]) = g[b.req_ids[i]]
    BY <1>8, <1>9
  <2> DEFINE rows2 == [i \in Rows |->
                         IF i \in DOMAIN b.req_ids
                           THEN [b.row[i] EXCEPT !.tokens = @ + gained(b.req_ids[i])] ELSE b.row[i]]
  <2>2. rows2 = rows
    BY <2>1
  <2>3. batch' = [b EXCEPT !.row = rows2, !.cache = cache]
    BY <1>2
  <2>4. Extended(b, g, cache) = [b EXCEPT !.row = rows, !.cache = cache]
    BY DEF Extended
  <2> HIDE DEF rows2, rows, cache
  <2>5. QED BY <2>2, <2>3, <2>4
<1>14. cache \in Seq(Reqs)
  <2>1. cached_prompt_token_ids(b) \in Seq(Reqs)
    <3>1. CASE b.cache = <<>>
      <4> DEFINE t == [i \in DOMAIN b.req_ids |-> b.row[i].own]
      <4>1. Len(b.req_ids) \in Nat /\ DOMAIN b.req_ids = 1..Len(b.req_ids)
        BY <1>8
      <4>2. t \in [1..Len(b.req_ids) -> Reqs]
        BY <1>8, <4>1
      <4>3. cached_prompt_token_ids(b) = t
        BY <3>1 DEF cached_prompt_token_ids
      <4> HIDE DEF t
      <4>4. QED BY <4>1, <4>2, <4>3, FunctionSeq
    <3>2. CASE b.cache # <<>>
      BY <1>8, <3>2 DEF cached_prompt_token_ids
    <3>3. QED BY <3>1, <3>2
  <2>2. QED BY <1>8, <2>1
<1>15. Table(batch', v) /\ Members(batch') = Members(b) /\ Holes(batch') = {}
  <2>1. Gains(Members(b), w, v, g)
    BY <1>8, <1>12 DEF Gains
  <2> HIDE DEF cache, rows, n
  <2>2. /\ Table(Extended(b, g, cache), v) /\ Members(Extended(b, g, cache)) = Members(b)
        /\ Holes(Extended(b, g, cache)) = {}
    BY <1>4, <1>9, <1>14, <2>1, RowsSampled
  <2>3. QED BY <1>13, <2>2
<1>16. BatchHolds' /\ PromptedNext(p)
  <2>1. Granted(sched', num_scheduled_tokens', p) = v
    BY <1>2 DEF v
  <2>2. Members(batch') = {r \in Reqs : n[r] > 0}
    BY <1>1, <1>4, <1>15 DEF BatchHolds
  <2>3. Table(batch', Granted(sched', num_scheduled_tokens', p)) /\ Holes(batch') = {}
    BY <1>15, <2>1, SMTT(30)
  <2>4. Members(batch') = {r \in Reqs : num_scheduled_tokens'[r] > 0}
    BY <1>2, <2>2
  <2>5. BatchHolds'
    BY <2>3, <2>4, BatchHoldsAfter
  <2>6. QED BY <2>3, <2>5 DEF PromptedNext
<1>17. RunningCurrent'
  <2>1. In("running")' = In("running")
    BY <1>10 DEF In
  <2>2. Members(batch)' = Members(batch)
    BY <1>4, <1>15
  <2>3. Members(batch)' \subseteq In("running")'
    BY <1>1, <2>1, <2>2 DEF RunningCurrent
  <2>4. \A r \in In("running")' :
          block_ids'[r] = [of |-> r, epoch |-> sched'.epoch[r], len |-> sched'.comp[r]]
    BY <1>1, <1>2, <1>10, <2>1 DEF RunningCurrent
  <2>5. QED BY <1>10, <2>3, <2>4 DEF RunningCurrent
<1>18. TypeOK'
  <2>1. /\ sched'.st \in [Reqs -> {"new", "running", "preempted", "done"}]
        /\ sched'.comp \in [Reqs -> Nat] /\ sched'.epoch \in [Reqs -> 0..MaxPreempts]
        /\ sched'.outs \in [Reqs -> Nat]
    BY <1>9, <1>10, <1>11
  <2>2. BatchTypeOK(batch')
    <3>1. DOMAIN batch'.req_ids \subseteq Rows /\ batch'.req_ids \in Seq(Reqs)
      BY <1>15, FullRows
    <3>2. QED BY <1>15, <3>1 DEF BatchTypeOK, Table
  <2>3. dev' \in [Rows -> Reqs \union {NONE}]
    <3>1. dev \in [Rows -> Reqs \union {NONE}]
      BY <1>1 DEF TypeOK
    <3>2. \A i \in Rows : b.row[i].own \in Reqs \union {NONE}
      BY <1>8 DEF Row
    <3>3. QED BY <1>2, <3>1, <3>2
  <2>4. \A j \in DOMAIN sampled' : sampled'[j].req \in Reqs
    BY <1>2, <1>6
  <2>5. /\ num_scheduled_tokens' \in [Reqs -> Nat]
        /\ block_ids' \in [Reqs -> [of : Reqs \union {NONE}, epoch : Nat, len : Nat]]
        /\ batch_changed' \in BOOLEAN /\ use_structured_output' \in BOOLEAN
        /\ gdn'.free \in Seq(Rows) /\ gdn'.slot \in [Reqs -> 0..MaxReqs]
        /\ phase' \in {"execute", "sample", "dead"}
    BY <1>1, <1>2 DEF TypeOK
  <2>6. QED BY <2>1, <2>2, <2>3, <2>4, <2>5 DEF TypeOK
<1>19. SlotsHeld'
  <2>1. phase # "dead"
    BY DEF SampleTokens
  <2>2. QED BY <1>1, <1>2, <1>10, <2>1 DEF SlotsHeld, Pooled
<1>20. QED BY <1>16, <1>17, <1>18, <1>19 DEF RunnerInv

(* What scheduling n makes of the requests: those scheduled run and have come  *)
(* n tokens further, unless they start or resume; the others that run have not *)
(* changed.                                                                    *)
Advances(s, n) ==
  /\ s = [st |-> s.st, comp |-> s.comp, outs |-> s.outs, epoch |-> s.epoch]
  /\ s.st \in [Reqs -> {"new", "running", "preempted", "done"}]
  /\ s.comp \in [Reqs -> Nat] /\ s.outs = sched.outs /\ s.epoch \in [Reqs -> 0..MaxPreempts]
  /\ \A r \in Reqs : n[r] > 0 =>
       /\ s.comp[r] - n[r] \in Nat /\ s.st[r] = "running" /\ s.epoch[r] = sched.epoch[r]
       /\ sched.st[r] = "running" => s.comp[r] = sched.comp[r] + n[r]
  /\ \A r \in Reqs : s.st[r] = "running" /\ n[r] = 0 =>
       sched.st[r] = "running" /\ s.comp[r] = sched.comp[r] /\ s.epoch[r] = sched.epoch[r]

(* A legal schedule does that.                                                 *)
LEMMA Schedules ==
  ASSUME TypeOK, NEW fin \in SUBSET (In("running") \union In("preempted")), NEW pre \in SUBSET In("running"),
         NEW n \in [Reqs -> Nat], NEW hit \in Hits, fin \cap pre = {}, LegalSchedule(fin, pre, n, hit)
  PROVE  Advances(Scheduled(fin, pre, n, hit), n)
<1> DEFINE s == Scheduled(fin, pre, n, hit)
           join == Starting(n)
           stay == In("running") \ (fin \union pre)
<1>1. /\ sched.st \in [Reqs -> {"new", "running", "preempted", "done"}]
      /\ sched.comp \in [Reqs -> Nat] /\ sched.outs \in [Reqs -> Nat] /\ sched.epoch \in [Reqs -> 0..MaxPreempts]
      /\ hit \in Nat /\ MaxPreempts \in Nat
  BY RunnerAssumption DEF TypeOK
<1>2. /\ \A r \in pre : sched.epoch[r] < MaxPreempts
      /\ \A r \in Reqs : n[r] > 0 => r \in stay \union (join \ fin)
  BY DEF LegalSchedule
<1>3. /\ s.st = [r \in Reqs |-> IF r \in fin THEN "done"
                                ELSE IF r \in pre THEN "preempted"
                                ELSE IF r \in join THEN "running" ELSE sched.st[r]]
      /\ s.comp = [r \in Reqs |-> IF r \in pre THEN 0
                                  ELSE IF r \in join THEN hit + n[r] ELSE sched.comp[r] + n[r]]
      /\ s.outs = sched.outs
      /\ s.epoch = [r \in Reqs |-> IF r \in pre THEN sched.epoch[r] + 1 ELSE sched.epoch[r]]
      /\ s = [st |-> s.st, comp |-> s.comp, outs |-> s.outs, epoch |-> s.epoch]
  BY DEF Scheduled
<1>4. /\ \A r \in join : n[r] > 0 /\ sched.st[r] # "running" /\ r \in Reqs
      /\ \A r \in Reqs : r \in In("running") <=> sched.st[r] = "running"
      /\ \A r \in pre : r \in Reqs /\ sched.st[r] = "running"
      /\ \A r \in Reqs : sched.st[r] # "running" => r \notin stay
      /\ \A r \in stay : r \notin fin /\ r \notin pre /\ sched.st[r] = "running"
  BY DEF Starting, In
<1> HIDE DEF s, join, stay
<1>5. s.st \in [Reqs -> {"new", "running", "preempted", "done"}]
  BY <1>1, <1>3
<1>6. s.comp \in [Reqs -> Nat]
  <2>1. \A r \in Reqs : n[r] \in Nat /\ sched.comp[r] \in Nat
    BY <1>1
  <2>2. QED BY <1>1, <1>3, <2>1
<1>7. s.epoch \in [Reqs -> 0..MaxPreempts]
  <2>1. \A r \in Reqs : sched.epoch[r] \in 0..MaxPreempts
    BY <1>1
  <2>2. \A r \in pre : sched.epoch[r] + 1 \in 0..MaxPreempts
    BY <1>1, <1>2, <1>4, <2>1
  <2>3. QED BY <1>3, <2>1, <2>2
<1>8. ASSUME NEW r \in Reqs, n[r] > 0
      PROVE  /\ s.comp[r] - n[r] \in Nat /\ s.st[r] = "running" /\ s.epoch[r] = sched.epoch[r]
             /\ sched.st[r] = "running" => s.comp[r] = sched.comp[r] + n[r]
  <2>1. n[r] \in Nat /\ sched.comp[r] \in Nat /\ (r \in stay \/ r \in join \ fin)
    BY <1>1, <1>2, <1>8
  <2>2. r \notin pre /\ r \notin fin
    BY <1>4, <2>1
  <2>3. s.comp[r] = IF r \in join THEN hit + n[r] ELSE sched.comp[r] + n[r]
    BY <1>3, <2>2
  <2>4. s.st[r] = "running" /\ s.epoch[r] = sched.epoch[r]
    BY <1>3, <1>4, <2>1, <2>2
  <2>5. s.comp[r] - n[r] \in Nat
    BY <1>1, <2>1, <2>3
  <2>6. sched.st[r] = "running" => r \notin join
    BY <1>4
  <2>7. QED BY <2>3, <2>4, <2>5, <2>6
<1>9. ASSUME NEW r \in Reqs, s.st[r] = "running", n[r] = 0
      PROVE  sched.st[r] = "running" /\ s.comp[r] = sched.comp[r] /\ s.epoch[r] = sched.epoch[r]
  <2>1. r \notin fin /\ r \notin pre /\ r \notin join
    BY <1>3, <1>4, <1>9
  <2>2. sched.comp[r] \in Nat
    BY <1>1
  <2>3. QED BY <1>3, <1>9, <2>1, <2>2
<1>10. Advances(s, n)
  BY <1>3, <1>5, <1>6, <1>7, <1>8, <1>9 DEF Advances
<1>11. QED BY <1>10 DEF s

(* Taking the last element off a list.                                         *)
LEMMA Popped ==
  ASSUME NEW S, NEW q \in Seq(S), Len(q) # 0
  PROVE  Front(q) \in Seq(S) /\ Len(Front(q)) = Len(q) - 1 /\ Last(q) \in S
<1> DEFINE front == SubSeq(q, 1, Len(q) - 1)
<1>1. front \in Seq(S) /\ Len(front) = Len(q) - 1
  OBVIOUS
<1>2. q[Len(q)] \in S
  OBVIOUS
<1>3. Front(q) = front /\ Last(q) = q[Len(q)]
  BY DEF Front, Last
<1> HIDE DEF front
<1>4. QED BY <1>1, <1>2, <1>3

(* It is counted once.                                                         *)
LEMMA SlotsExclusive ==
  ASSUME NEW g, Pooled(g), NEW s \in Rows
  PROVE  Cardinality({i \in DOMAIN g.free : g.free[i] = s}) + Cardinality({r \in Reqs : g.slot[r] = s}) = 1
<1> DEFINE A == {i \in DOMAIN g.free : g.free[i] = s}
           B == {r \in Reqs : g.slot[r] = s}
<1>1. /\ s # 0 /\ \A i, j \in DOMAIN g.free : g.free[i] = g.free[j] => i = j
      /\ \A q, r \in Reqs : g.slot[q] = g.slot[r] /\ g.slot[q] # 0 => q = r
  BY BatchAssumption DEF Pooled, IsInjective, Rows
<1>2. CASE s \in Range(g.free)
  <2>1. PICK i \in DOMAIN g.free : g.free[i] = s
    BY <1>2 DEF Range
  <2>2. A = {i}
    BY <1>1, <2>1
  <2>3. B = {}
    BY <1>2 DEF Pooled
  <2> HIDE DEF A, B
  <2>4. Cardinality(A) = 1 /\ Cardinality(B) = 0
    BY <2>2, <2>3, FS_Singleton, FS_EmptySet
  <2>5. QED BY <2>4 DEF A, B
<1>3. CASE s \notin Range(g.free)
  <2>1. PICK r \in Reqs : g.slot[r] = s
    BY <1>3 DEF Pooled
  <2>2. B = {r}
    BY <1>1, <2>1
  <2>3. A = {}
    BY <1>3 DEF Range
  <2> HIDE DEF A, B
  <2>4. Cardinality(B) = 1 /\ Cardinality(A) = 0
    BY <2>2, <2>3, FS_Singleton, FS_EmptySet
  <2>5. QED BY <2>4 DEF A, B
<1>4. QED BY <1>2, <1>3

(* There are as many slots as rows.                                            *)
LEMMA SlotsCount ==
  ASSUME NEW g, Pooled(g)
  PROVE  Len(g.free) + Cardinality({r \in Reqs : g.slot[r] # 0}) >= MaxReqs
<1> DEFINE H == {r \in Reqs : g.slot[r] # 0}
           f == [r \in H |-> g.slot[r]]
           held == {g.slot[r] : r \in H}
           idle == Range(g.free)
<1>1. /\ g.free \in Seq(Rows) /\ IsInjective(g.free) /\ Len(g.free) \in Nat
      /\ \A r \in Reqs : g.slot[r] \in 0..MaxReqs /\ g.slot[r] \notin idle
      /\ \A s \in Rows : s \in idle \/ \E r \in Reqs : g.slot[r] = s
      /\ MaxReqs \in Nat /\ \A s \in Rows : s # 0
  BY BatchAssumption DEF Pooled, Rows
<1>2. IsFiniteSet(Rows) /\ Cardinality(Rows) = MaxReqs
  BY <1>1, Counted DEF Rows
<1>3. IsFiniteSet(H) /\ Cardinality(H) \in Nat
  <2>1. H \in SUBSET Reqs
    OBVIOUS
  <2> HIDE DEF H
  <2>2. QED BY <2>1, FS_Subset, FS_CardinalityType, BatchAssumption
<1>4. IsFiniteSet(held) /\ Cardinality(held) <= Cardinality(H) /\ Cardinality(held) \in Nat
  <2>1. f \in Surjection(H, held)
    BY DEF Surjection
  <2> HIDE DEF f, H, held
  <2>2. IsFiniteSet(held) /\ Cardinality(held) <= Cardinality(H)
    BY <1>3, <2>1, FS_Surjection
  <2>3. QED BY <2>2, FS_CardinalityType
<1>5. IsFiniteSet(idle) /\ Cardinality(idle) = Len(g.free)
  <2> HIDE DEF idle
  <2>1. idle \subseteq Rows
    BY <1>1 DEF idle, Range
  <2>2. IsFiniteSet(idle)
    BY <1>2, <2>1, FS_Subset
  <2>3. QED BY <1>1, <2>2, InjectiveCard DEF idle
<1>6. Rows \subseteq idle \union held
  <2> SUFFICES ASSUME NEW s \in Rows, s \notin idle PROVE s \in held
    OBVIOUS
  <2>1. PICK r \in Reqs : g.slot[r] = s
    BY <1>1
  <2>2. r \in H
    BY <1>1, <2>1
  <2>3. QED BY <2>1, <2>2
<1> HIDE DEF H, held, idle, f
<1>7. IsFiniteSet(idle \union held) /\ Cardinality(idle \union held) <= Cardinality(idle) + Cardinality(held)
  <2>1. IsFiniteSet(idle \union held)
    BY <1>4, <1>5, FS_Union
  <2>2. Cardinality(idle \union held) = Cardinality(idle) + Cardinality(held) - Cardinality(idle \intersect held)
    BY <1>4, <1>5, FS_Union
  <2>3. IsFiniteSet(idle \intersect held) /\ Cardinality(idle \intersect held) \in Nat
    BY <1>4, <1>5, FS_Intersection, FS_CardinalityType
  <2>4. QED BY <1>1, <1>4, <1>5, <2>1, <2>2, <2>3
<1>8. MaxReqs <= Cardinality(idle \union held) /\ Cardinality(idle \union held) \in Nat
  BY <1>2, <1>6, <1>7, FS_Subset, FS_CardinalityType
<1>9. QED BY <1>1, <1>3, <1>4, <1>5, <1>7, <1>8 DEF H

(* Slots of finished requests go back to the list.                             *)
LEMMA Freed ==
  ASSUME Pooled(gdn), NEW fin \in SUBSET Reqs
  PROVE  LET f == FreedSlots(fin)
         IN  Pooled(f) /\ \A r \in Reqs : f.slot[r] = IF r \in fin THEN 0 ELSE gdn.slot[r]
<1> DEFINE S == {r \in fin : gdn.slot[r] # 0}
           list == SetToSeq(S)
           back == [i \in DOMAIN list |-> gdn.slot[list[i]]]
           f == FreedSlots(fin)
<1>1. /\ gdn.free \in Seq(Rows) /\ gdn.slot \in [Reqs -> 0..MaxReqs] /\ IsInjective(gdn.free)
      /\ \A q, r \in Reqs : gdn.slot[q] = gdn.slot[r] /\ gdn.slot[q] # 0 => q = r
      /\ \A r \in Reqs : gdn.slot[r] \notin Range(gdn.free)
      /\ \A s \in Rows : s \in Range(gdn.free) \/ \E r \in Reqs : gdn.slot[r] = s
      /\ MaxReqs \in Nat /\ \A s \in Rows : s # 0
  BY BatchAssumption DEF Pooled, Rows
<1>2. list \in Seq(S) /\ Len(list) \in Nat /\ IsInjective(list) /\ Range(list) = S
  <2>1. S \in SUBSET Reqs
    OBVIOUS
  <2> HIDE DEF S
  <2>2. IsFiniteSet(S)
    BY <2>1, FS_Subset, BatchAssumption
  <2>3. QED BY <2>2, Listing
<1>3. \A r \in S : gdn.slot[r] \in Rows /\ r \in Reqs /\ r \in fin /\ gdn.slot[r] # 0
  BY <1>1 DEF Rows
<1>4. /\ DOMAIN list = 1..Len(list) /\ \A i \in 1..Len(list) : list[i] \in S
      /\ \A i, j \in 1..Len(list) : list[i] = list[j] => i = j
  <2> HIDE DEF S, list
  <2>1. QED BY <1>2 DEF IsInjective
<1>5. /\ back \in Seq(Rows) /\ IsInjective(back) /\ Range(back) = {gdn.slot[r] : r \in S}
  <2> HIDE DEF S, list
  <2>1. back \in [1..Len(list) -> Rows]
    BY <1>3, <1>4
  <2>2. back \in Seq(Rows) /\ DOMAIN back = 1..Len(list)
    BY <1>2, <2>1, FunctionSeq
  <2>3. \A i \in 1..Len(list) : back[i] = gdn.slot[list[i]]
    BY <1>4
  <2>4. \A i, j \in 1..Len(list) : back[i] = back[j] => i = j
    BY <1>1, <1>3, <1>4, <2>3
  <2>5. \A r \in S : \E i \in 1..Len(list) : list[i] = r
    BY <1>2, <1>4 DEF Range
  <2> HIDE DEF back
  <2>6. Range(back) = {back[i] : i \in 1..Len(list)}
    BY <2>2 DEF Range
  <2>7. Range(back) = {gdn.slot[r] : r \in S}
    BY <1>4, <2>3, <2>5, <2>6
  <2>8. QED BY <2>2, <2>4, <2>7 DEF IsInjective
<1>6. f.free = gdn.free \o back /\ f.slot = [r \in Reqs |-> IF r \in fin THEN 0 ELSE gdn.slot[r]]
  BY DEF FreedSlots
<1> HIDE DEF back, f, list
<1>7. Range(gdn.free) \intersect Range(back) = {}
  BY <1>1, <1>3, <1>5
<1>8. /\ f.free \in Seq(Rows) /\ IsInjective(f.free) /\ Range(f.free) = Range(gdn.free) \union {gdn.slot[r] : r \in S}
  BY <1>1, <1>5, <1>6, <1>7, Joining
<1>9. /\ f.slot \in [Reqs -> 0..MaxReqs] /\ \A r \in Reqs : f.slot[r] = IF r \in fin THEN 0 ELSE gdn.slot[r]
  BY <1>1, <1>6
<1>10. \A q, r \in Reqs : f.slot[q] = f.slot[r] /\ f.slot[q] # 0 => q = r
  BY <1>1, <1>9
<1>11. \A r \in Reqs : f.slot[r] \notin Range(f.free)
  <2> SUFFICES ASSUME NEW r \in Reqs PROVE f.slot[r] \notin Range(f.free)
    OBVIOUS
  <2>1. CASE r \in fin
    <3>1. f.slot[r] = 0
      BY <1>9, <2>1
    <3>2. \A s \in Range(f.free) : s \in Rows
      BY <1>8 DEF Range
    <3>3. QED BY <1>1, <3>1, <3>2
  <2>2. CASE r \notin fin
    <3>1. f.slot[r] = gdn.slot[r]
      BY <1>9, <2>2
    <3>2. gdn.slot[r] \notin {gdn.slot[q] : q \in S}
      BY <1>1, <1>3, <2>2
    <3>3. QED BY <1>1, <1>8, <3>1, <3>2
  <2>3. QED BY <2>1, <2>2
<1>12. \A s \in Rows : s \in Range(f.free) \/ \E r \in Reqs : f.slot[r] = s
  <2> SUFFICES ASSUME NEW s \in Rows, s \notin Range(f.free) PROVE \E r \in Reqs : f.slot[r] = s
    OBVIOUS
  <2>1. PICK r \in Reqs : gdn.slot[r] = s
    BY <1>1, <1>8
  <2>2. r \notin fin
    BY <1>1, <1>8, <2>1
  <2>3. QED BY <1>9, <2>1, <2>2
<1>13. Pooled(f)
  BY <1>8, <1>9, <1>10, <1>11, <1>12 DEF Pooled
<1>14. QED BY <1>9, <1>13 DEF f

(* One slot is popped for a request without one.                               *)
LEMMA AllocOne ==
  ASSUME NEW g, Pooled(g), Len(g.free) # 0, NEW r \in Reqs, g.slot[r] = 0
  PROVE  LET h == AllocSlot(g, r)
         IN  /\ Pooled(h) /\ Len(h.free) = Len(g.free) - 1
             /\ h.slot[r] # 0 /\ \A q \in Reqs : q # r => h.slot[q] = g.slot[q]
             /\ h = [free |-> h.free, slot |-> h.slot]
<1> DEFINE h == AllocSlot(g, r)
           last == g.free[Len(g.free)]
<1>1. /\ g.free \in Seq(Rows) /\ g.slot \in [Reqs -> 0..MaxReqs]
      /\ \A i, j \in DOMAIN g.free : g.free[i] = g.free[j] => i = j
      /\ \A q, p \in Reqs : g.slot[q] = g.slot[p] /\ g.slot[q] # 0 => q = p
      /\ \A q \in Reqs : g.slot[q] \notin Range(g.free)
      /\ \A s \in Rows : s \in Range(g.free) \/ \E q \in Reqs : g.slot[q] = s
      /\ MaxReqs \in Nat /\ \A s \in Rows : s # 0 /\ s \in 0..MaxReqs
  BY BatchAssumption DEF Pooled, Rows, IsInjective
<1>2. /\ DOMAIN g.free = 1..Len(g.free) /\ Len(g.free) \in Nat /\ Len(g.free) \in 1..Len(g.free)
      /\ \A i \in 1..Len(g.free) : g.free[i] \in Rows
  BY <1>1
<1>3. /\ h.free = Front(g.free) /\ h.slot = [g.slot EXCEPT ![r] = last]
      /\ h = [free |-> h.free, slot |-> h.slot]
  BY DEF AllocSlot, Last
<1>4. Front(g.free) \in Seq(Rows) /\ Len(Front(g.free)) = Len(g.free) - 1
  BY <1>1, Popped
<1>5. \A i \in 1..(Len(g.free) - 1) : Front(g.free)[i] = g.free[i] /\ i \in 1..Len(g.free) /\ i # Len(g.free)
  <2>1. Front(g.free) = SubSeq(g.free, 1, Len(g.free) - 1)
    BY DEF Front
  <2>2. QED BY <1>1, <1>2, <2>1
<1> HIDE DEF h
<1>6. /\ h.free \in Seq(Rows) /\ Len(h.free) = Len(g.free) - 1 /\ DOMAIN h.free = 1..(Len(g.free) - 1)
      /\ \A i \in 1..(Len(g.free) - 1) : h.free[i] = g.free[i]
  BY <1>2, <1>3, <1>4, <1>5
<1>7. h.slot \in [Reqs -> 0..MaxReqs] /\ h.slot[r] = last /\ \A q \in Reqs : q # r => h.slot[q] = g.slot[q]
  BY <1>1, <1>2, <1>3
<1>8. IsInjective(h.free)
  <2>1. \A i, j \in 1..(Len(g.free) - 1) : g.free[i] = g.free[j] => i = j
    BY <1>1, <1>2, <1>5
  <2>2. QED BY <1>6, <2>1 DEF IsInjective
<1>9. last \in Range(g.free) /\ last \in Rows /\ last # 0
  BY <1>1, <1>2 DEF Range
<1>10. Range(h.free) \subseteq Range(g.free) /\ last \notin Range(h.free)
  <2>1. ASSUME NEW i \in 1..(Len(g.free) - 1)
        PROVE  h.free[i] \in Range(g.free) /\ h.free[i] # last
    <3>1. i \in DOMAIN g.free /\ h.free[i] = g.free[i] /\ i # Len(g.free) /\ Len(g.free) \in DOMAIN g.free
      BY <1>2, <1>5, <1>6
    <3>2. g.free[i] # g.free[Len(g.free)]
      BY <1>1, <3>1
    <3>3. QED BY <3>1, <3>2 DEF Range
  <2>2. QED BY <1>6, <2>1 DEF Range
<1>11. \A s \in Range(g.free) : s = last \/ s \in Range(h.free)
  <2> SUFFICES ASSUME NEW i \in 1..Len(g.free), g.free[i] # last PROVE g.free[i] \in Range(h.free)
    BY <1>2 DEF Range
  <2>1. i \in 1..(Len(g.free) - 1)
    BY <1>2
  <2>2. QED BY <1>6, <2>1 DEF Range
<1> HIDE DEF last
<1>12. \A q, p \in Reqs : h.slot[q] = h.slot[p] /\ h.slot[q] # 0 => q = p
  BY <1>1, <1>7, <1>9
<1>13. \A q \in Reqs : h.slot[q] \notin Range(h.free)
  BY <1>1, <1>7, <1>10
<1>14. \A s \in Rows : s \in Range(h.free) \/ \E q \in Reqs : h.slot[q] = s
  <2> SUFFICES ASSUME NEW s \in Rows, s \notin Range(h.free) PROVE \E q \in Reqs : h.slot[q] = s
    OBVIOUS
  <2>1. CASE s = last
    BY <1>7, <2>1
  <2>2. CASE s # last
    <3>1. PICK q \in Reqs : g.slot[q] = s
      BY <1>1, <1>11, <2>2
    <3>2. q # r
      BY <1>1, <3>1
    <3>3. QED BY <1>7, <3>1, <3>2
  <2>3. QED BY <2>1, <2>2
<1>15. Pooled(h)
  BY <1>6, <1>7, <1>8, <1>12, <1>13, <1>14 DEF Pooled
<1>16. QED BY <1>3, <1>6, <1>7, <1>9, <1>15 DEF h

(* The requests of order get a slot each; who has one keeps it.                *)
LEMMA Allocated ==
  ASSUME NEW f, Pooled(f), NEW order \in Seq(Reqs), IsInjective(order),
         Cardinality({r \in Range(order) : f.slot[r] = 0}) <= Len(f.free)
  PROVE  LET g == AllocSlots(f, order)
         IN  /\ Pooled(g)
             /\ \A r \in Reqs : IF r \in Range(order) /\ f.slot[r] = 0 THEN g.slot[r] # 0
                                ELSE g.slot[r] = f.slot[r]
<1> DEFINE L == Len(order)
           Done(i) == {order[k] : k \in 1..i}
           Rest(i) == {order[k] : k \in (i + 1)..L}
           Lacking(i) == {r \in Rest(i) : f.slot[r] = 0}
           G == {f} \union [free : Seq(Rows), slot : [Reqs -> 0..MaxReqs]]
           J == [i \in 0..L |->
                   {g \in G : /\ Pooled(g) /\ Cardinality(Lacking(i)) <= Len(g.free)
                              /\ \A r \in Reqs : IF r \in Done(i) /\ f.slot[r] = 0 THEN g.slot[r] # 0
                                                 ELSE g.slot[r] = f.slot[r]}]
<1>1. /\ L \in Nat /\ DOMAIN order = 1..L /\ \A i \in 1..L : order[i] \in Reqs
      /\ \A i, k \in 1..L : order[i] = order[k] => i = k
  BY DEF IsInjective
<1>2. f \in J[0]
  <2>1. Rest(0) = Range(order) /\ Done(0) = {}
    BY <1>1 DEF Range
  <2>2. Cardinality(Lacking(0)) <= Len(f.free)
    BY <2>1
  <2>3. 0 \in 0..L
    BY <1>1
  <2> HIDE DEF Lacking, Rest, Done
  <2>4. QED BY <2>1, <2>2, <2>3
<1>3. ASSUME NEW i \in 1..L, NEW g \in J[i - 1]
      PROVE  AllocSlot(g, order[i]) \in J[i]
  <2> DEFINE r == order[i]
             h == AllocSlot(g, r)
  <2>1. i - 1 \in 0..L /\ i \in 0..L /\ r \in Reqs
    BY <1>1
  <2>2. /\ g \in G /\ Pooled(g) /\ Cardinality(Lacking(i - 1)) <= Len(g.free)
        /\ \A q \in Reqs : IF q \in Done(i - 1) /\ f.slot[q] = 0 THEN g.slot[q] # 0
                           ELSE g.slot[q] = f.slot[q]
    <3> HIDE DEF Rest, Done, Lacking, G
    <3>1. QED BY <2>1
  <2>3. Rest(i - 1) = Rest(i) \union {r} /\ r \notin Rest(i) /\ Done(i) = Done(i - 1) \union {r} /\ r \notin Done(i - 1)
    <3>1. /\ ((i - 1) + 1)..L = ((i + 1)..L) \union {i} /\ i \notin (i + 1)..L
          /\ 1..i = (1..(i - 1)) \union {i} /\ i \notin 1..(i - 1)
      BY <1>1
    <3>2. (\A k \in (i + 1)..L : k \in 1..L /\ k # i) /\ (\A k \in 1..(i - 1) : k \in 1..L /\ k # i)
      BY <1>1
    <3>3. r \notin Rest(i) /\ r \notin Done(i - 1)
      BY <1>1, <3>2
    <3>4. QED BY <3>1, <3>3
  <2>4. /\ IsFiniteSet(Lacking(i)) /\ Cardinality(Lacking(i)) \in Nat
        /\ Cardinality(Lacking(i - 1)) = IF f.slot[r] = 0 THEN Cardinality(Lacking(i)) + 1 ELSE Cardinality(Lacking(i))
    <3>1. Lacking(i) \in SUBSET Reqs
      <4>1. \A k \in (i + 1)..L : k \in 1..L
        BY <1>1
      <4>2. \A k \in (i + 1)..L : order[k] \in Reqs
        BY <1>1, <4>1
      <4>3. QED BY <4>2
    <3>2. IsFiniteSet(Lacking(i)) /\ Cardinality(Lacking(i)) \in Nat
      <4> HIDE DEF Lacking
      <4>1. QED BY <3>1, FS_Subset, FS_CardinalityType, BatchAssumption
    <3>3. r \notin Lacking(i) /\ Lacking(i - 1) = IF f.slot[r] = 0 THEN Lacking(i) \union {r} ELSE Lacking(i)
      <4> HIDE DEF Rest, r
      <4>1. QED BY <2>3
    <3> HIDE DEF Lacking, Rest, Done, G, r, h
    <3>4. CASE f.slot[r] = 0
      <4>1. Lacking(i - 1) = Lacking(i) \union {r}
        BY <3>3, <3>4
      <4>2. Cardinality(Lacking(i) \union {r}) = Cardinality(Lacking(i)) + 1
        BY <3>2, <3>3, FS_AddElement
      <4>3. QED BY <3>2, <3>4, <4>1, <4>2
    <3>5. CASE f.slot[r] # 0
      BY <3>2, <3>3, <3>5
    <3>6. QED BY <3>4, <3>5
  <2>5. g.slot[r] = f.slot[r]
    <3> HIDE DEF Done, r
    <3>1. QED BY <2>1, <2>2, <2>3
  <2> HIDE DEF r
  <2>6. /\ h \in G /\ Pooled(h) /\ Cardinality(Lacking(i)) <= Len(h.free)
        /\ \A q \in Reqs : IF q \in Done(i) /\ f.slot[q] = 0 THEN h.slot[q] # 0
                           ELSE h.slot[q] = f.slot[q]
    <3>1. CASE g.slot[r] # 0
      <4>1. h = g
        BY <3>1 DEF AllocSlot
      <4>2. Cardinality(Lacking(i)) = Cardinality(Lacking(i - 1))
        <5> HIDE DEF Lacking
        <5>1. QED BY <2>4, <2>5, <3>1
      <4> HIDE DEF h, Rest, Done, Lacking, G
      <4>3. \A q \in Reqs : IF q \in Done(i) /\ f.slot[q] = 0 THEN g.slot[q] # 0
                            ELSE g.slot[q] = f.slot[q]
        BY <2>2, <2>3, <2>5, <3>1
      <4>4. QED BY <2>2, <4>1, <4>2, <4>3
    <3>2. CASE g.slot[r] = 0
      <4>1. Cardinality(Lacking(i)) + 1 <= Len(g.free) /\ Len(g.free) \in Nat /\ Len(g.free) # 0
        <5>1. Len(g.free) \in Nat
          BY <2>2 DEF Pooled
        <5> HIDE DEF Lacking, h, Rest, Done, G
        <5>2. QED BY <2>2, <2>4, <2>5, <3>2, <5>1
      <4> HIDE DEF Lacking, Rest, Done, G
      <4>2. /\ Pooled(h) /\ Len(h.free) = Len(g.free) - 1
            /\ h.slot[r] # 0 /\ \A q \in Reqs : q # r => h.slot[q] = g.slot[q]
            /\ h = [free |-> h.free, slot |-> h.slot]
        BY <2>1, <2>2, <3>2, <4>1, AllocOne
      <4> HIDE DEF h
      <4>3. h.free \in Seq(Rows) /\ h.slot \in [Reqs -> 0..MaxReqs]
        BY <4>2 DEF Pooled
      <4>4. h \in G
        <5>1. h \in [free : Seq(Rows), slot : [Reqs -> 0..MaxReqs]]
          BY <4>2, <4>3
        <5>2. QED BY <5>1 DEF G
      <4>5. Cardinality(Lacking(i)) <= Len(h.free)
        BY <2>4, <4>1, <4>2
      <4>6. \A q \in Reqs : IF q \in Done(i) /\ f.slot[q] = 0 THEN h.slot[q] # 0
                            ELSE h.slot[q] = f.slot[q]
        <5> SUFFICES ASSUME NEW q \in Reqs
                     PROVE  IF q \in Done(i) /\ f.slot[q] = 0 THEN h.slot[q] # 0 ELSE h.slot[q] = f.slot[q]
          OBVIOUS
        <5>1. CASE q = r
          BY <2>3, <2>5, <3>2, <4>2, <5>1
        <5>2. CASE q # r
          BY <2>2, <2>3, <4>2, <5>2
        <5>3. QED BY <5>1, <5>2
      <4>7. QED BY <4>2, <4>4, <4>5, <4>6
    <3> HIDE DEF h, Rest, Done, Lacking, G
    <3>3. QED BY <3>1, <3>2
  <2>7. h \in J[i]
    <3> HIDE DEF Rest, Done, Lacking, G, h
    <3>1. QED BY <2>1, <2>6
  <2>8. QED BY <2>7 DEF r
<1>4. Allocating!Fold(f, order) \in J[L]
  <2> HIDE DEF J
  <2>1. QED BY <1>1, <1>2, <1>3, AllocatingFacts!FoldProgress DEF Allocating!Fold, AllocatingFacts!Fold
<1>5. L \in 0..L /\ Done(L) = Range(order)
  BY <1>1 DEF Range
<1>6. QED
  <2> HIDE DEF Rest, Done, Lacking, G
  <2>1. QED BY <1>4, <1>5 DEF AllocSlots

(* Scheduling keeps requests from losing or taking a place unnoticed.          *)
LEMMA Lives ==
  ASSUME NEW fin \in SUBSET Reqs, NEW pre \in SUBSET In("running"),
         NEW n \in [Reqs -> Nat], NEW hit, NEW r \in Reqs
  PROVE  LET s == Scheduled(fin, pre, n, hit)
         IN  /\ r \in fin => s.st[r] = "done"
             /\ r \notin fin /\ (sched.st[r] # "new" \/ n[r] = 0) => (Unfinished(s.st[r]) <=> Unfinished(sched.st[r]))
             /\ r \notin fin /\ sched.st[r] = "new" /\ n[r] > 0 => s.st[r] = "running"
<1> DEFINE s == Scheduled(fin, pre, n, hit)
           join == Starting(n)
<1>1. s.st[r] = IF r \in fin THEN "done" ELSE IF r \in pre THEN "preempted"
                ELSE IF r \in join THEN "running" ELSE sched.st[r]
  BY DEF Scheduled
<1>2. /\ r \in pre => sched.st[r] = "running"
      /\ r \in join <=> n[r] > 0 /\ (sched.st[r] = "new" \/ sched.st[r] = "preempted")
  BY DEF Starting, In
<1>3. n[r] \in Nat
  OBVIOUS
<1> HIDE DEF s, join
<1>4. QED BY <1>1, <1>2, <1>3 DEF s, Unfinished

(* When preempted requests come first there is a slot for everyone who starts. *)
LEMMA Enough ==
  ASSUME FcfsResume, TypeOK, SlotsHeld, phase # "dead",
         NEW fin \in SUBSET (In("running") \union In("preempted")), NEW pre \in SUBSET In("running"),
         NEW n \in [Reqs -> Nat], NEW hit, LegalSchedule(fin, pre, n, hit),
         NEW f, Pooled(f), \A r \in Reqs : f.slot[r] = IF r \in fin THEN 0 ELSE gdn.slot[r]
  PROVE  Cardinality({r \in Reqs : n[r] > 0 /\ f.slot[r] = 0}) <= Len(f.free)
<1> DEFINE short == {r \in Reqs : n[r] > 0 /\ f.slot[r] = 0}
           held == {r \in Reqs : f.slot[r] # 0}
           join == Starting(n)
           stay == In("running") \ (fin \union pre)
           all == stay \union join
<1>1. /\ \A r \in Reqs : gdn.slot[r] # 0 <=> sched.st[r] \in {"running", "preempted"}
      /\ \A r \in Reqs : f.slot[r] = IF r \in fin THEN 0 ELSE gdn.slot[r]
      /\ f.free \in Seq(Rows) /\ Len(f.free) \in Nat /\ MaxReqs \in Nat
  BY BatchAssumption DEF SlotsHeld, Unfinished, Pooled
<1>2. /\ pre # {} => join = {}
      /\ Cardinality(all) <= MaxReqs
      /\ join \cap In("new") # {} => In("preempted") \ fin \subseteq join
      /\ \A r \in Reqs : n[r] > 0 => r \in stay \union (join \ fin)
  BY DEF LegalSchedule
<1>3. /\ \A r \in Reqs : r \in join <=> n[r] > 0 /\ (sched.st[r] = "new" \/ sched.st[r] = "preempted")
      /\ \A r \in Reqs : r \in stay <=> sched.st[r] = "running" /\ r \notin fin /\ r \notin pre
      /\ \A r \in Reqs : r \in In("new") <=> sched.st[r] = "new"
      /\ \A r \in Reqs : r \in In("preempted") <=> sched.st[r] = "preempted"
  BY DEF Starting, In
<1>4. short \in SUBSET Reqs /\ held \in SUBSET Reqs /\ all \in SUBSET Reqs
  BY DEF In, Starting
<1>5. Len(f.free) + Cardinality(held) >= MaxReqs
  BY SlotsCount
<1> HIDE DEF join, stay
<1>6. CASE short = {}
  <2> HIDE DEF short
  <2>1. Cardinality(short) = 0
    BY <1>6, FS_EmptySet
  <2>2. QED BY <1>1, <2>1 DEF short
<1>7. CASE short # {}
  <2>1. PICK r \in Reqs : n[r] > 0 /\ f.slot[r] = 0
    BY <1>7
  <2>2. r \in stay \/ r \in join \ fin
    BY <1>2, <2>1
  <2>3. r \notin fin
    BY <1>3, <2>2
  <2>4. gdn.slot[r] = 0
    BY <1>1, <2>1, <2>3
  <2>5. r \in join /\ sched.st[r] = "new"
    BY <1>1, <1>3, <2>1, <2>2, <2>4
  <2>6. pre = {} /\ In("preempted") \ fin \subseteq join
    BY <1>2, <1>3, <2>5
  <2>7. \A q \in held : q \in stay \/ q \in join
    BY <1>1, <1>3, <2>6
  <2>8. held \union short \in SUBSET all /\ held \intersect short = {}
    BY <1>2, <2>7
  <2> HIDE DEF held, short, all
  <2>9. IsFiniteSet(held) /\ IsFiniteSet(short) /\ IsFiniteSet(all) /\ IsFiniteSet(held \union short)
    BY <1>4, <2>8, FS_Subset, BatchAssumption
  <2>10. /\ Cardinality(held) \in Nat /\ Cardinality(short) \in Nat /\ Cardinality(all) \in Nat
         /\ Cardinality(held \union short) \in Nat
    BY <2>9, FS_CardinalityType
  <2>11. Cardinality(held \union short) <= Cardinality(all)
    BY <2>8, <2>9, FS_Subset
  <2>12. Cardinality(held \union short) = Cardinality(held) + Cardinality(short)
    <3>1. Cardinality(held \union short) = Cardinality(held) + Cardinality(short) - Cardinality(held \intersect short)
      BY <2>9, FS_Union
    <3>2. Cardinality(held \intersect short) = 0
      BY <2>8, FS_EmptySet
    <3>3. QED BY <2>10, <3>1, <3>2
  <2>13. Cardinality(short) <= Len(f.free)
    BY <1>1, <1>2, <1>5, <2>10, <2>11, <2>12
  <2>14. QED BY <2>13 DEF short
<1>8. QED BY <1>6, <1>7

(* What a step of execute_model does to the slots.                             *)
LEMMA ExecuteSlots ==
  ASSUME TypeOK, RunningCurrent, SlotsHeld, ExecuteModel
  PROVE  SlotsHeld' /\ GdnStays /\ (FcfsResume => phase' # "dead")
<1>1. PICK fin \in SUBSET (In("running") \union In("preempted")), pre \in SUBSET In("running"),
           n \in [Reqs -> 0..(Max(Range(PromptLen)) + MaxOut)], hit \in Hits :
        /\ fin \cap pre = {}
        /\ LegalSchedule(fin, pre, n, hit)
        /\ LET s       == Scheduled(fin, pre, n, hit)
               blocks  == UpdatedBlockIds(s, n)
               adding  == {r \in Reqs : n[r] > 0} \ Members(batch)
               leaving == {r \in Members(batch) : n[r] = 0}
               freed   == FreedSlots(fin)
               lacking == Cardinality({r \in adding : freed.slot[r] = 0}) > Len(freed.free)
           IN \E order \in SetToSeqs(adding) :
                LET b == UpdatedBatch(batch, s, n, order, blocks)
                IN  /\ \A i, j \in DOMAIN order :
                         sched.st[order[j]] = "new" /\ sched.st[order[i]] # "new" => j < i
                    /\ sched' = s
                    /\ num_scheduled_tokens' = n
                    /\ block_ids' = blocks
                    /\ batch' = b
                    /\ batch_changed' = (leaving \union adding # {})
                    /\ dev' = IF batch_changed' THEN [i \in Rows |-> b.row[i].own] ELSE dev
                    /\ gdn' = IF lacking THEN freed ELSE AllocSlots(freed, order)
                    /\ phase' = IF lacking THEN "dead"
                                ELSE IF \E r \in Reqs : n[r] > 0 THEN "sample" ELSE "execute"
  BY DEF ExecuteModel
<1> DEFINE s       == Scheduled(fin, pre, n, hit)
           adding  == {r \in Reqs : n[r] > 0} \ Members(batch)
           freed   == FreedSlots(fin)
           short   == {r \in adding : freed.slot[r] = 0}
           lacking == Cardinality(short) > Len(freed.free)
<1>2. PICK order \in SetToSeqs(adding) :
        /\ sched' = s
        /\ gdn' = IF lacking THEN freed ELSE AllocSlots(freed, order)
        /\ phase' = IF lacking THEN "dead" ELSE IF \E r \in Reqs : n[r] > 0 THEN "sample" ELSE "execute"
  BY <1>1
<1>3. LegalSchedule(fin, pre, n, hit) /\ phase # "dead"
  BY <1>1 DEF ExecuteModel
<1> HIDE <1>1
<1>4. n \in [Reqs -> Nat] /\ fin \in SUBSET Reqs /\ \A r \in Reqs : n[r] \in Nat
  BY DEF In
<1>5. Pooled(freed) /\ \A r \in Reqs : freed.slot[r] = IF r \in fin THEN 0 ELSE gdn.slot[r]
  BY <1>4, Freed DEF SlotsHeld
<1>6. /\ \A r \in Reqs : gdn.slot[r] # 0 <=> Unfinished(sched.st[r])
      /\ \A r \in Members(batch) : r \in Reqs /\ gdn.slot[r] # 0
  <2>1. \A r \in Members(batch) : r \in Reqs /\ sched.st[r] = "running"
    BY DEF RunningCurrent, In
  <2>2. QED BY <1>3, <2>1 DEF SlotsHeld, Unfinished
<1>7. \A r \in Reqs :
        /\ r \in fin => s.st[r] = "done"
        /\ r \notin fin /\ (sched.st[r] # "new" \/ n[r] = 0) => (Unfinished(s.st[r]) <=> Unfinished(sched.st[r]))
        /\ r \notin fin /\ sched.st[r] = "new" /\ n[r] > 0 => s.st[r] = "running"
  <2> HIDE DEF adding, freed, lacking, short
  <2>1. QED BY <1>4, Lives
<1>8. \A r \in Reqs : n[r] > 0 => r \notin fin
  BY <1>3 DEF LegalSchedule, In
<1>9. short = {r \in Reqs : n[r] > 0 /\ freed.slot[r] = 0}
  <2>1. \A r \in Reqs : n[r] > 0 /\ freed.slot[r] = 0 => r \notin Members(batch)
    <3> HIDE DEF freed
    <3>1. QED BY <1>5, <1>6, <1>8
  <2> HIDE DEF freed
  <2>2. QED BY <2>1
<1> HIDE DEF s, freed
<1>10. \A r \in short : r \in adding
  OBVIOUS
<1> HIDE DEF short
<1>11. IsFiniteSet(adding) /\ Cardinality(short) \in Nat /\ Len(freed.free) \in Nat
  <2>1. adding \in SUBSET Reqs /\ short \in SUBSET Reqs
    BY <1>10
  <2> HIDE DEF adding
  <2>2. IsFiniteSet(adding) /\ Cardinality(short) \in Nat
    BY <2>1, FS_Subset, FS_CardinalityType, BatchAssumption
  <2>3. Len(freed.free) \in Nat
    BY <1>5 DEF Pooled
  <2>4. QED BY <2>2, <2>3
<1>12. /\ order \in Seq(Reqs) /\ Range(order) = adding /\ IsInjective(order)
  <2>1. adding \subseteq Reqs
    OBVIOUS
  <2> HIDE DEF adding
  <2>2. QED BY <1>11, <2>1, Listings
<1>13. FcfsResume => ~lacking
  <2> SUFFICES ASSUME FcfsResume PROVE ~lacking
    OBVIOUS
  <2>1. Cardinality({r \in Reqs : n[r] > 0 /\ freed.slot[r] = 0}) <= Len(freed.free)
    BY <1>3, <1>4, <1>5, Enough
  <2>2. Cardinality(short) <= Len(freed.free)
    BY <1>9, <2>1
  <2>3. QED BY <1>11, <2>2
<1>14. ~lacking =>
         /\ Pooled(gdn')
         /\ \A r \in Reqs : IF r \in adding /\ freed.slot[r] = 0 THEN gdn'.slot[r] # 0
                            ELSE gdn'.slot[r] = freed.slot[r]
  <2> SUFFICES ASSUME ~lacking
               PROVE  /\ Pooled(gdn')
                      /\ \A r \in Reqs : IF r \in adding /\ freed.slot[r] = 0 THEN gdn'.slot[r] # 0
                                         ELSE gdn'.slot[r] = freed.slot[r]
    OBVIOUS
  <2>1. {r \in Range(order) : freed.slot[r] = 0} = short
    BY <1>12 DEF short
  <2>2. Cardinality({r \in Range(order) : freed.slot[r] = 0}) <= Len(freed.free)
    <3>1. ~(Cardinality(short) > Len(freed.free))
      OBVIOUS
    <3>2. Cardinality(short) <= Len(freed.free)
      BY <1>11, <3>1
    <3>3. QED BY <2>1, <3>2
  <2> HIDE DEF adding
  <2>3. LET g == AllocSlots(freed, order)
        IN  /\ Pooled(g)
            /\ \A r \in Reqs : IF r \in Range(order) /\ freed.slot[r] = 0 THEN g.slot[r] # 0
                               ELSE g.slot[r] = freed.slot[r]
    BY <1>5, <1>12, <2>2, Allocated
  <2>4. gdn' = AllocSlots(freed, order)
    BY <1>2
  <2>5. QED BY <1>12, <2>3, <2>4
<1>15. lacking => gdn' = freed /\ phase' = "dead"
  BY <1>2
<1>16. phase' = "dead" => lacking
  BY <1>2
<1> HIDE DEF lacking
<1>17. Pooled(gdn')
  BY <1>5, <1>14, <1>15
<1>18. ASSUME NEW r \in Reqs
       PROVE  /\ ~lacking => (gdn'.slot[r] # 0 <=> Unfinished(s.st[r]))
              /\ gdn.slot[r] # 0 /\ s.st[r] # "done" => gdn'.slot[r] = gdn.slot[r]
  <2>1. CASE r \in fin
    <3>1. freed.slot[r] = 0 /\ s.st[r] = "done" /\ r \notin adding
      BY <1>5, <1>7, <1>8, <2>1
    <3> HIDE DEF adding
    <3>2. QED BY <1>14, <3>1 DEF Unfinished
  <2>2. CASE r \notin fin
    <3>1. freed.slot[r] = gdn.slot[r] /\ (gdn.slot[r] # 0 <=> Unfinished(sched.st[r]))
      BY <1>5, <1>6, <2>2
    <3>2. gdn.slot[r] # 0 => gdn'.slot[r] = gdn.slot[r]
      <4> HIDE DEF adding
      <4>1. QED BY <1>14, <1>15, <3>1
    <3>3. ~lacking => (gdn'.slot[r] # 0 <=> Unfinished(s.st[r]))
      <4>1. CASE n[r] > 0 /\ gdn.slot[r] = 0
        <5>1. r \in adding
          BY <1>6, <4>1
        <5> HIDE DEF adding
        <5>2. ~lacking => gdn'.slot[r] # 0
          BY <1>14, <3>1, <4>1, <5>1
        <5>3. Unfinished(s.st[r])
          <6>1. sched.st[r] = "new" \/ sched.st[r] = "done"
            BY <3>1, <4>1 DEF Unfinished, TypeOK
          <6>2. sched.st[r] # "done"
            BY <1>3, <4>1 DEF LegalSchedule, Starting, In
          <6>3. s.st[r] = "running"
            BY <1>7, <2>2, <4>1, <6>1, <6>2
          <6>4. QED BY <6>3 DEF Unfinished
        <5>4. QED BY <5>2, <5>3
      <4>2. CASE n[r] = 0 \/ gdn.slot[r] # 0
        <5>1. n[r] = 0 => r \notin adding
          OBVIOUS
        <5>2. ~lacking => gdn'.slot[r] = gdn.slot[r]
          <6> HIDE DEF adding
          <6>1. QED BY <1>14, <3>1, <4>2, <5>1
        <5>3. sched.st[r] # "new" \/ n[r] = 0
          BY <3>1, <4>2 DEF Unfinished
        <5> HIDE DEF adding
        <5>4. Unfinished(s.st[r]) <=> Unfinished(sched.st[r])
          BY <1>7, <2>2, <5>3
        <5>5. QED BY <3>1, <5>2, <5>4
      <4>3. QED BY <1>4, <4>1, <4>2
    <3>4. QED BY <3>2, <3>3
  <2>3. QED BY <2>1, <2>2
<1>19. SlotsHeld'
  BY <1>2, <1>15, <1>17, <1>18 DEF SlotsHeld
<1>20. GdnStays
  BY <1>2, <1>18 DEF GdnStays
<1>21. QED BY <1>13, <1>16, <1>19, <1>20

(* What the rows hold as prompts after the schedule: add_request takes the     *)
(* tokens so far of a request that has computed nothing for its prompt.        *)
Reprompted(p, q) ==
  \A r \in Reqs :
    q[r] = IF r \in Members(batch) THEN p[r]
           ELSE IF sched'.comp[r] - num_scheduled_tokens'[r] = 0 THEN NumTokens(sched', r) ELSE PromptLen[r]

(* What is built anew when the batch changes, and stays as it is otherwise.    *)
Refreshed ==
  IF batch_changed' THEN batch'.cache = <<>>
  ELSE dev' = dev /\ batch' = UpdateRows(batch, sched', num_scheduled_tokens')

(* A step of execute_model.                                                    *)
LEMMA ExecuteStep ==
  ASSUME RunnerInv, ExecuteModel, NEW p \in [Reqs -> Nat], Prompted(p)
  PROVE  /\ RunnerInv' /\ Refreshed
         /\ \E q \in [Reqs -> Nat] : PromptedNext(q) /\ Reprompted(p, q)
<1>1. TypeOK /\ BatchHolds /\ RunningCurrent /\ SlotsHeld
  BY DEF RunnerInv
<1>2. PICK fin \in SUBSET (In("running") \union In("preempted")), pre \in SUBSET In("running"),
           n \in [Reqs -> 0..(Max(Range(PromptLen)) + MaxOut)], hit \in Hits :
        /\ fin \cap pre = {}
        /\ LegalSchedule(fin, pre, n, hit)
        /\ LET s       == Scheduled(fin, pre, n, hit)
               blocks  == UpdatedBlockIds(s, n)
               adding  == {r \in Reqs : n[r] > 0} \ Members(batch)
               leaving == {r \in Members(batch) : n[r] = 0}
               freed   == FreedSlots(fin)
               lacking == Cardinality({r \in adding : freed.slot[r] = 0}) > Len(freed.free)
           IN \E order \in SetToSeqs(adding) :
                LET b == UpdatedBatch(batch, s, n, order, blocks)
                IN  /\ \A i, j \in DOMAIN order :
                         sched.st[order[j]] = "new" /\ sched.st[order[i]] # "new" => j < i
                    /\ sched' = s
                    /\ num_scheduled_tokens' = n
                    /\ block_ids' = blocks
                    /\ batch' = b
                    /\ batch_changed' = (leaving \union adding # {})
                    /\ dev' = IF batch_changed' THEN [i \in Rows |-> b.row[i].own] ELSE dev
                    /\ gdn' = IF lacking THEN freed ELSE AllocSlots(freed, order)
                    /\ phase' = IF lacking THEN "dead"
                                ELSE IF \E r \in Reqs : n[r] > 0 THEN "sample" ELSE "execute"
  BY DEF ExecuteModel
<1>3. sampled' = <<>> /\ use_structured_output' = use_structured_output
  BY DEF ExecuteModel
<1> DEFINE s       == Scheduled(fin, pre, n, hit)
           blocks  == UpdatedBlockIds(s, n)
           wanted  == {r \in Reqs : n[r] > 0}
           adding  == wanted \ Members(batch)
           leaving == {r \in Members(batch) : n[r] = 0}
           freed   == FreedSlots(fin)
           lacking == Cardinality({r \in adding : freed.slot[r] = 0}) > Len(freed.free)
           w       == Granted(sched, num_scheduled_tokens, p)
           q       == [r \in Reqs |-> IF r \in Members(batch) THEN p[r]
                                      ELSE IF s.comp[r] - n[r] = 0 THEN NumTokens(s, r) ELSE PromptLen[r]]
           v       == Granted(s, n, q)
<1>4. PICK order \in SetToSeqs(adding) :
        /\ sched' = s
        /\ num_scheduled_tokens' = n
        /\ block_ids' = blocks
        /\ batch' = UpdatedBatch(batch, s, n, order, blocks)
        /\ batch_changed' = (leaving \union adding # {})
        /\ dev' = IF batch_changed' THEN [i \in Rows |-> batch'.row[i].own] ELSE dev
        /\ gdn' = IF lacking THEN freed ELSE AllocSlots(freed, order)
        /\ phase' = IF lacking THEN "dead" ELSE IF \E r \in Reqs : n[r] > 0 THEN "sample" ELSE "execute"
  BY <1>2
<1>5. fin \cap pre = {} /\ LegalSchedule(fin, pre, n, hit)
  BY <1>2
<1>6. n \in [Reqs -> Nat] /\ fin \in SUBSET Reqs
  BY DEF In
<1> HIDE <1>2
<1>7. /\ s = [st |-> s.st, comp |-> s.comp, outs |-> s.outs, epoch |-> s.epoch]
      /\ s.st \in [Reqs -> {"new", "running", "preempted", "done"}]
      /\ s.comp \in [Reqs -> Nat] /\ s.outs = sched.outs /\ s.epoch \in [Reqs -> 0..MaxPreempts]
      /\ \A r \in Reqs : n[r] > 0 =>
           /\ s.comp[r] - n[r] \in Nat /\ s.st[r] = "running" /\ s.epoch[r] = sched.epoch[r]
           /\ sched.st[r] = "running" => s.comp[r] = sched.comp[r] + n[r]
      /\ \A r \in Reqs : s.st[r] = "running" /\ n[r] = 0 =>
           sched.st[r] = "running" /\ s.comp[r] = sched.comp[r] /\ s.epoch[r] = sched.epoch[r]
  <2>1. fin \in SUBSET (In("running") \union In("preempted")) /\ pre \in SUBSET In("running") /\ hit \in Hits
    OBVIOUS
  <2> HIDE DEF wanted, adding, leaving, freed, lacking, blocks
  <2>2. Advances(s, n)
    BY <1>1, <1>5, <1>6, <2>1, Schedules
  <2> HIDE DEF s
  <2>3. QED BY <2>2 DEF Advances
<1> HIDE DEF s
<1>8. /\ sched.comp \in [Reqs -> Nat] /\ sched.outs \in [Reqs -> Nat]
      /\ sched.epoch \in [Reqs -> 0..MaxPreempts] /\ PromptLen \in [Reqs -> Nat \ {0}]
      /\ block_ids \in [Reqs -> [of : Reqs \union {NONE}, epoch : Nat, len : Nat]]
      /\ dev \in [Rows -> Reqs \union {NONE}] /\ use_structured_output \in BOOLEAN
      /\ MaxPreempts \in Nat
  BY <1>1, PromptAssumption, RunnerAssumption DEF TypeOK
<1>9. /\ Table(batch, w) /\ Members(batch) \subseteq Reqs
      /\ \A r \in Members(batch) : sched.st[r] = "running"
      /\ \A r \in Reqs : sched.st[r] = "running" =>
           block_ids[r] = [of |-> r, epoch |-> sched.epoch[r], len |-> sched.comp[r]]
  <2>1. Table(batch, w) /\ Members(batch) \subseteq Reqs
    BY DEF Prompted, Table
  <2>2. \A r \in Reqs : r \in In("running") <=> sched.st[r] = "running"
    BY DEF In
  <2>3. QED BY <1>1, <2>1, <2>2 DEF RunningCurrent
<1>10. \A r \in Reqs : n[r] \in Nat /\ s.comp[r] \in Nat /\ sched.comp[r] \in Nat
  BY <1>6, <1>7, <1>8
<1>11. /\ \A r \in Reqs : v.comp[r] = s.comp[r] - n[r]
       /\ \A r \in Reqs : v.tokens[r] = PromptLen[r] + s.outs[r]
       /\ \A r \in Reqs : v.tokens[r] = w.tokens[r]
       /\ w.prompt = p /\ v.prompt = q
       /\ \A r \in Reqs : v.blocks[r] = [of |-> r, epoch |-> s.epoch[r], len |-> s.comp[r]]
       /\ \A r \in Reqs : w.blocks[r] = [of |-> r, epoch |-> sched.epoch[r], len |-> sched.comp[r]]
  BY <1>7 DEF Granted, NumTokens
<1>12. \A r \in Reqs : n[r] > 0 /\ sched.st[r] = "running" =>
         v.blocks[r] = [w.blocks[r] EXCEPT !.len = @ + n[r]]
  <2> SUFFICES ASSUME NEW r \in Reqs, n[r] > 0, sched.st[r] = "running"
               PROVE  v.blocks[r] = [w.blocks[r] EXCEPT !.len = @ + n[r]]
    OBVIOUS
  <2>1. s.comp[r] = sched.comp[r] + n[r] /\ s.epoch[r] = sched.epoch[r]
    BY <1>7
  <2> HIDE DEF v, w
  <2> DEFINE x == w.blocks[r]
             y == [x EXCEPT !.len = @ + n[r]]
  <2>2. x = [of |-> r, epoch |-> sched.epoch[r], len |-> sched.comp[r]]
    BY <1>11
  <2>3. y = [of |-> r, epoch |-> sched.epoch[r], len |-> sched.comp[r] + n[r]]
    BY <2>2
  <2>4. v.blocks[r] = [of |-> r, epoch |-> s.epoch[r], len |-> s.comp[r]]
    BY <1>11
  <2> HIDE DEF y
  <2>5. v.blocks[r] = y
    BY <2>1, <2>3, <2>4
  <2>6. QED BY <2>5 DEF y
<1>13. \A r \in wanted : blocks[r] = v.blocks[r]
  <2> SUFFICES ASSUME NEW r \in Reqs, n[r] > 0 PROVE blocks[r] = v.blocks[r]
    OBVIOUS
  <2>1. n[r] # 0
    BY <1>10
  <2>2. CASE sched.st[r] # "running"
    <3>1. blocks[r] = [of |-> r, epoch |-> s.epoch[r], len |-> s.comp[r]]
      BY <2>1, <2>2 DEF UpdatedBlockIds
    <3> HIDE DEF v, blocks
    <3>2. QED BY <1>11, <3>1
  <2>3. CASE sched.st[r] = "running"
    <3>1. blocks[r] = [block_ids[r] EXCEPT !.len = @ + n[r]]
      BY <2>1, <2>3 DEF UpdatedBlockIds
    <3>2. block_ids[r] = w.blocks[r]
      <4> HIDE DEF w, v, blocks
      <4>1. QED BY <1>9, <1>11, <2>3
    <3> HIDE DEF v, blocks, w
    <3>3. QED BY <1>12, <2>3, <3>1, <3>2
  <2> HIDE DEF v, blocks
  <2>4. QED BY <2>2, <2>3
<1>14. \A r \in Reqs : n[r] = 0 => blocks[r] = block_ids[r]
  BY DEF UpdatedBlockIds
<1>15. DOMAIN blocks = Reqs /\ blocks = [r \in Reqs |-> blocks[r]]
  BY DEF UpdatedBlockIds
<1> HIDE DEF v, w, blocks
<1>16. \A r \in wanted : v.blocks[r] \in [of : Reqs \union {NONE}, epoch : Nat, len : Nat]
  <2>1. \A r \in Reqs : s.epoch[r] \in Nat
    BY <1>7, <1>8
  <2> SUFFICES ASSUME NEW r \in Reqs
               PROVE  v.blocks[r] \in [of : Reqs \union {NONE}, epoch : Nat, len : Nat]
    OBVIOUS
  <2>2. v.blocks[r] = [of |-> r, epoch |-> s.epoch[r], len |-> s.comp[r]]
    BY <1>11
  <2>3. QED BY <1>10, <2>1, <2>2
<1>17. IsFiniteSet(adding) /\ IsFiniteSet(wanted)
  <2>1. adding \in SUBSET Reqs /\ wanted \in SUBSET Reqs
    OBVIOUS
  <2> HIDE DEF adding, wanted
  <2>2. QED BY <2>1, FS_Subset, BatchAssumption
<1>18. Cardinality(wanted) <= MaxReqs /\ Cardinality(wanted) \in Nat
  <2> DEFINE all == (In("running") \ (fin \union pre)) \union Starting(n)
  <2>1. Cardinality(all) <= MaxReqs /\ \A r \in wanted : r \in all
    BY <1>5 DEF LegalSchedule
  <2>2. all \in SUBSET Reqs
    BY DEF In, Starting
  <2> HIDE DEF all, wanted
  <2>3. IsFiniteSet(all) /\ wanted \in SUBSET all
    BY <2>1, <2>2, FS_Subset, BatchAssumption
  <2>4. Cardinality(wanted) <= Cardinality(all) /\ Cardinality(wanted) \in Nat /\ Cardinality(all) \in Nat
    BY <1>17, <2>3, FS_Subset, FS_CardinalityType
  <2>5. QED BY <2>1, <2>4, BatchAssumption
<1>19. /\ order \in Seq(adding) /\ Range(order) = adding /\ IsInjective(order)
       /\ order \in Seq(Reqs)
  <2>1. adding \subseteq Reqs
    OBVIOUS
  <2> HIDE DEF adding
  <2>2. QED BY <1>17, <2>1, Listings
<1>20. \A r \in Reqs : v.prompt[r] = IF r \in Members(batch) THEN w.prompt[r]
                                     ELSE IF v.comp[r] = 0 THEN v.tokens[r] ELSE PromptLen[r]
  BY <1>11 DEF NumTokens
<1>21. Reprompted(p, q)
  <2>1. \A r \in Reqs : q[r] = IF r \in Members(batch) THEN p[r]
                           ELSE IF s.comp[r] - n[r] = 0 THEN NumTokens(s, r) ELSE PromptLen[r]
    OBVIOUS
  <2> HIDE DEF q
  <2>2. QED BY <1>4, <2>1 DEF Reprompted
<1>22. q \in [Reqs -> Nat]
  <2>1. \A r \in Reqs : NumTokens(s, r) \in Nat
    BY <1>7, <1>8 DEF NumTokens
  <2>2. QED BY <1>8, <2>1
<1> HIDE DEF q
<1>23. Continues({r \in Members(batch) : n[r] > 0}, w, v, s, n)
  <2>1. \A r \in Members(batch) : n[r] > 0 =>
          /\ s.comp[r] - n[r] \in Nat /\ v.comp[r] = s.comp[r] - n[r]
          /\ v.prompt[r] = w.prompt[r] /\ v.tokens[r] = w.tokens[r]
          /\ v.blocks[r] = [w.blocks[r] EXCEPT !.len = @ + n[r]]
    BY <1>7, <1>9, <1>11, <1>12, <1>20
  <2>2. QED BY <2>1 DEF Continues
<1>24. Joins(order, v, s, n, blocks)
  <2>1. \A r \in Range(order) :
          /\ s.comp[r] - n[r] \in Nat /\ v.comp[r] = s.comp[r] - n[r]
          /\ s.outs[r] \in Nat /\ v.tokens[r] = PromptLen[r] + s.outs[r]
          /\ v.prompt[r] = IF v.comp[r] = 0 THEN v.tokens[r] ELSE PromptLen[r]
          /\ blocks[r] \in [of : Reqs \union {NONE}, epoch : Nat, len : Nat]
          /\ v.blocks[r] = blocks[r]
    BY <1>7, <1>8, <1>11, <1>13, <1>16, <1>19, <1>20
  <2>2. QED BY <2>1 DEF Joins
<1>25. order \in SetToSeqs({r \in Reqs : n[r] > 0} \ Members(batch)) /\ Cardinality({r \in Reqs : n[r] > 0}) <= MaxReqs
  BY <1>18
<1>26. /\ Table(batch', v) /\ Members(batch') = wanted /\ Holes(batch') = {}
       /\ Rebuilt(batch, batch', s, n)
  <2>1. LET c == UpdatedBatch(batch, s, n, order, blocks)
        IN  /\ Table(c, v) /\ Members(c) = {r \in Reqs : n[r] > 0} /\ Holes(c) = {}
            /\ Rebuilt(batch, c, s, n)
    BY <1>6, <1>9, <1>23, <1>24, <1>25, StepUpdated
  <2>2. QED BY <1>4, <2>1
<1>27. BatchHolds' /\ PromptedNext(q)
  <2>1. Granted(sched', num_scheduled_tokens', q) = v
    BY <1>4 DEF v
  <2>2. Members(batch') = {r \in Reqs : num_scheduled_tokens'[r] > 0}
    BY <1>4, <1>26
  <2>3. BatchHolds'
    BY <1>22, <1>26, <2>1, <2>2, BatchHoldsAfter
  <2>4. QED BY <1>26, <2>1, <2>3 DEF PromptedNext
<1>28. RunningCurrent'
  <2>1. In("running")' = {r \in Reqs : s.st[r] = "running"}
    BY <1>4 DEF In
  <2>2. Members(batch)' \subseteq In("running")'
    BY <1>7, <1>26, <2>1
  <2>3. ASSUME NEW r \in Reqs, s.st[r] = "running"
        PROVE  blocks[r] = [of |-> r, epoch |-> s.epoch[r], len |-> s.comp[r]]
    <3>1. CASE n[r] > 0
      BY <1>11, <1>13, <3>1
    <3>2. CASE n[r] = 0
      BY <1>7, <1>9, <1>14, <2>3, <3>2
    <3>3. QED BY <1>10, <3>1, <3>2
  <2>4. \A r \in In("running")' :
          block_ids'[r] = [of |-> r, epoch |-> sched'.epoch[r], len |-> sched'.comp[r]]
    BY <1>4, <2>1, <2>3
  <2>5. sched' = [st |-> sched'.st, comp |-> sched'.comp, outs |-> sched'.outs, epoch |-> sched'.epoch]
    BY <1>4, <1>7
  <2>6. QED BY <2>2, <2>4, <2>5 DEF RunningCurrent
<1>29. SlotsHeld' /\ gdn'.free \in Seq(Rows) /\ gdn'.slot \in [Reqs -> 0..MaxReqs]
  <2>1. SlotsHeld'
    BY <1>1, ExecuteSlots
  <2>2. QED BY <2>1 DEF SlotsHeld, Pooled
<1>30. TypeOK'
  <2>1. /\ sched'.st \in [Reqs -> {"new", "running", "preempted", "done"}]
        /\ sched'.comp \in [Reqs -> Nat] /\ sched'.epoch \in [Reqs -> 0..MaxPreempts]
        /\ sched'.outs \in [Reqs -> Nat]
    BY <1>4, <1>7, <1>8
  <2>2. BatchTypeOK(batch')
    <3>1. DOMAIN batch'.req_ids \subseteq Rows /\ batch'.req_ids \in Seq(Reqs)
      BY <1>26, FullRows
    <3>2. QED BY <1>26, <3>1 DEF BatchTypeOK, Table
  <2>3. dev' \in [Rows -> Reqs \union {NONE}]
    <3>1. \A i \in Rows : batch'.row[i].own \in Reqs \union {NONE}
      BY <1>26 DEF Table, Row
    <3>2. CASE batch_changed'
      BY <1>4, <3>1, <3>2
    <3>3. CASE ~batch_changed'
      BY <1>4, <1>8, <3>3
    <3>4. QED BY <3>2, <3>3
  <2>4. block_ids' \in [Reqs -> [of : Reqs \union {NONE}, epoch : Nat, len : Nat]]
    <3>1. \A r \in Reqs : blocks[r] \in [of : Reqs \union {NONE}, epoch : Nat, len : Nat]
      <4> SUFFICES ASSUME NEW r \in Reqs
                   PROVE  blocks[r] \in [of : Reqs \union {NONE}, epoch : Nat, len : Nat]
        OBVIOUS
      <4>1. CASE n[r] > 0
        BY <1>13, <1>16, <4>1
      <4>2. CASE n[r] = 0
        <5>1. blocks[r] = block_ids[r]
          BY <1>14, <4>2
        <5>2. QED BY <1>8, <5>1
      <4>3. QED BY <1>10, <4>1, <4>2
    <3>2. QED BY <1>4, <1>15, <3>1
  <2>5. batch_changed' \in BOOLEAN
    BY <1>4
  <2>6. phase' \in {"execute", "sample", "dead"}
    <3> HIDE DEF lacking
    <3>1. QED BY <1>4
  <2>7. /\ num_scheduled_tokens' \in [Reqs -> Nat] /\ use_structured_output' \in BOOLEAN
        /\ \A j \in DOMAIN sampled' : sampled'[j].req \in Reqs
    BY <1>3, <1>4, <1>6, <1>8
  <2>8. QED BY <1>29, <2>1, <2>2, <2>3, <2>4, <2>5, <2>6, <2>7 DEF TypeOK
<1>31. Refreshed
  <2>1. leaving \union adding = {} <=> Members(batch) = wanted
    BY <1>9, <1>10
  <2>2. Holes(batch) = {}
    BY <1>1 DEF BatchHolds
  <2>3. IF Members(batch) = wanted THEN batch' = UpdateRows(batch, s, n) ELSE batch'.cache = <<>>
    BY <1>26, <2>2 DEF Rebuilt
  <2> HIDE DEF wanted, leaving, adding, lacking, freed
  <2>4. QED BY <1>4, <2>1, <2>3 DEF Refreshed
<1>32. QED BY <1>21, <1>22, <1>27, <1>28, <1>29, <1>30, <1>31 DEF RunnerInv

(* Every step keeps it.                                                        *)
LEMMA RunnerStep == RunnerInv /\ [Next]_vars => RunnerInv'
<1> SUFFICES ASSUME RunnerInv, [Next]_vars PROVE RunnerInv'
  OBVIOUS
<1>0. PICK p \in [Reqs -> Nat] : Prompted(p)
  BY DEF RunnerInv, BatchHolds, Prompted
<1>1. CASE ExecuteModel
  BY <1>0, <1>1, ExecuteStep
<1>2. CASE SampleTokens
  BY <1>0, <1>2, SampleStep
<1>3. CASE UNCHANGED vars
  <2>1. /\ phase' = phase /\ sched' = sched /\ num_scheduled_tokens' = num_scheduled_tokens
        /\ block_ids' = block_ids /\ batch' = batch /\ dev' = dev /\ batch_changed' = batch_changed
        /\ use_structured_output' = use_structured_output /\ gdn' = gdn /\ sampled' = sampled
    BY <1>3 DEF vars
  <2>2. TypeOK /\ BatchHolds /\ RunningCurrent /\ SlotsHeld
    BY DEF RunnerInv
  <2>3. TypeOK'
    BY <2>1, <2>2 DEF TypeOK
  <2>5. BatchHolds'
    <3>1. PICK q \in [Reqs -> Nat] : Table(batch, Granted(sched, num_scheduled_tokens, q))
      BY <2>2 DEF BatchHolds
    <3>2. /\ Table(batch', Granted(sched', num_scheduled_tokens', q)) /\ Holes(batch') = {}
          /\ Members(batch') = {r \in Reqs : num_scheduled_tokens'[r] > 0}
      BY <2>1, <2>2, <3>1 DEF BatchHolds
    <3>3. QED BY <3>1, <3>2, BatchHoldsAfter
  <2>6. RunningCurrent'
    <3>1. In("running")' = In("running")
      BY <2>1 DEF In
    <3>2. QED BY <2>1, <2>2, <3>1 DEF RunningCurrent
  <2>7. SlotsHeld'
    BY <2>1, <2>2 DEF SlotsHeld, Pooled
  <2>8. QED BY <2>3, <2>5, <2>6, <2>7 DEF RunnerInv
<1>4. QED BY <1>1, <1>2, <1>3 DEF Next

(* The rows of a batch without holes are as RowsMatch says.                    *)
LEMMA RowsFollow == RunnerInv => RowsMatch
<1> SUFFICES ASSUME RunnerInv PROVE RowsMatch
  OBVIOUS
<1>0. PICK p \in [Reqs -> Nat] : Table(batch, Granted(sched, num_scheduled_tokens, p))
  BY DEF RunnerInv, BatchHolds
<1> DEFINE n == num_scheduled_tokens
           w == Granted(sched, n, p)
<1>1. TypeOK /\ Table(batch, w) /\ Holes(batch) = {} /\ Members(batch) = {r \in Reqs : n[r] > 0}
  BY <1>0 DEF RunnerInv, BatchHolds
<1>2. /\ \A r \in Reqs : w.comp[r] = sched.comp[r] - n[r]
      /\ \A r \in Reqs : w.tokens[r] = NumTokens(sched, r)
      /\ \A r \in Reqs : w.blocks[r] = [of |-> r, epoch |-> sched.epoch[r], len |-> sched.comp[r]]
      /\ \A r \in Reqs : n[r] \in Nat /\ sched.comp[r] \in Nat
  BY <1>1 DEF Granted, TypeOK
<1> HIDE DEF w
<1>3. Len(batch.req_ids) = NumReqs(batch)
  BY <1>1, FullRows
<1>4. ASSUME NEW r \in Members(batch)
      PROVE  LET row == batch.row[batch.index[r]]
             IN  /\ batch.req_ids[batch.index[r]] = r
                 /\ row.own = r
                 /\ row.comp + n[r] = sched.comp[r]
                 /\ row.tokens = NumTokens(sched, r)
                 /\ row.blocks = [of |-> r, epoch |-> sched.epoch[r], len |-> sched.comp[r]]
                 /\ row.gen = (IF r \in HasGenerator THEN r ELSE NONE)
                 /\ row.bad = (IF r \in HasBadWords THEN r ELSE NONE)
  <2>1. r \in Reqs /\ batch.req_ids[batch.index[r]] = r /\ HasRow(batch.row[batch.index[r]], r, w)
    BY <1>1 DEF Table
  <2>2. QED BY <1>2, <2>1 DEF HasRow
<1>5. QED BY <1>1, <1>3, <1>4 DEF RowsMatch

(* The reordered batch is decodes followed by prompts.                         *)
LEMMA PartitionFollows == RunnerInv => PartitionHolds
<1> SUFFICES ASSUME RunnerInv PROVE PartitionHolds
  OBVIOUS
<1>0. PICK p \in [Reqs -> Nat] : Table(batch, Granted(sched, num_scheduled_tokens, p))
  BY DEF RunnerInv, BatchHolds
<1> DEFINE n == num_scheduled_tokens
           w == Granted(sched, n, p)
           b == Reordered(batch, n)
<1>1. Table(batch, w) /\ Holes(batch) = {} /\ Members(batch) = {r \in Reqs : n[r] > 0} /\ n \in [Reqs -> Nat]
  BY <1>0 DEF RunnerInv, BatchHolds, TypeOK
<1>2. \A r \in Members(batch) : n[r] \in Nat \ {0}
  BY <1>1
<1>3. /\ Table(b, w) /\ Holes(b) = {} /\ Members(b) = Members(batch)
      /\ \A i \in DOMAIN b.req_ids : i > NumDecodes(b, n) => IsPrompt(b, n, i)
  <2> HIDE DEF w, n
  <2>1. QED BY <1>1, <1>2, ReorderedBatch
<1>4. Range(b.req_ids) = Members(batch)
  <2> HIDE DEF w, b
  <2>1. QED BY <1>3, FullRows
<1>5. QED BY <1>3, <1>4 DEF PartitionHolds

(* Whatever the scheduler finishes, preempts, pauses, starts and resumes, and  *)
(* however condense and the swaps move the rows: each row is its own request's *)
(* and current, and the batch is decodes followed by prompts when it samples   *)
(* (RowsOwn of MCModelRunner, every part of it).                               *)
THEOREM RowsAreOwn == Spec => []RowsOwn
<1>1. Init => RunnerInv
  BY RunnerInit
<1>2. RunnerInv /\ [Next]_vars => RunnerInv'
  BY RunnerStep
<1>3. RunnerInv => RowsOwn
  BY RowsFollow, PartitionFollows DEF RowsOwn, RunnerInv
<1>4. QED BY <1>1, <1>2, <1>3, PTL DEF Spec

(* No slot has two owners, and who is in the batch has one.                    *)
LEMMA SlotsFollow == RunnerInv => GdnExclusive
<1> SUFFICES ASSUME RunnerInv PROVE GdnExclusive
  OBVIOUS
<1>1. SlotsHeld /\ RunningCurrent
  BY DEF RunnerInv
<1>2. \A s \in Rows :
        Cardinality({i \in DOMAIN gdn.free : gdn.free[i] = s}) + Cardinality({r \in Reqs : gdn.slot[r] = s}) = 1
  BY <1>1, SlotsExclusive DEF SlotsHeld
<1>3. ASSUME phase # "dead", NEW r \in Members(batch) PROVE gdn.slot[r] # 0
  <2>1. r \in Reqs /\ sched.st[r] = "running"
    BY <1>1 DEF RunningCurrent, In
  <2>2. QED BY <1>1, <1>3, <2>1 DEF SlotsHeld, Unfinished
<1>4. QED BY <1>2, <1>3 DEF GdnExclusive

(* A step frees no unfinished request's slot, nor fails for want of one.       *)
LEMMA SlotsStep ==
  RunnerInv /\ (FcfsResume => phase # "dead") /\ [Next]_vars
    => GdnStays /\ GdnExclusive' /\ (FcfsResume => phase' # "dead")
<1> SUFFICES ASSUME RunnerInv, FcfsResume => phase # "dead", [Next]_vars
             PROVE  GdnStays /\ GdnExclusive' /\ (FcfsResume => phase' # "dead")
  OBVIOUS
<1>1. GdnExclusive'
  <2>1. RunnerInv'
    BY RunnerStep
  <2>2. QED BY <2>1, SlotsFollow, PTL
<1>2. CASE ExecuteModel
  <2>1. TypeOK /\ RunningCurrent /\ SlotsHeld
    BY DEF RunnerInv
  <2>2. QED BY <1>1, <1>2, <2>1, ExecuteSlots
<1>3. CASE SampleTokens
  BY <1>1, <1>3 DEF SampleTokens, GdnStays
<1>4. CASE UNCHANGED vars
  BY <1>1, <1>4 DEF vars, GdnStays
<1>5. QED BY <1>2, <1>3, <1>4 DEF Next

(* When the scheduler resumes preempted requests before it starts new ones, a  *)
(* request keeps the compact slot of its recurrent state until it is finished, *)
(* no two have the same, and no step runs out of slots, however many requests  *)
(* there are (GdnOwn of MCRows, every part of it).                             *)
THEOREM SlotsAreOwn ==
  ASSUME FcfsResume
  PROVE  SpecBoth => GdnOwn
<1> DEFINE Inv == part = "runner" => RunnerInv /\ phase # "dead"
           Own == part = "runner" => GdnStays /\ GdnExclusive' /\ GdnSlotAvailable'
<1>1. InitBoth => Inv
  <2>1. Init => phase # "dead"
    BY DEF Init
  <2>2. QED BY <2>1, RunnerInit DEF InitBoth
<1>2. Inv /\ [NextBoth]_both_vars => Inv' /\ [Own]_both_vars
  <2> SUFFICES ASSUME Inv, [NextBoth]_both_vars PROVE Inv' /\ Own
    OBVIOUS
  <2>1. part' = part /\ (part = "runner" => [Next]_vars)
    BY DEF NextBoth, both_vars
  <2>2. CASE part = "runner"
    <3>1. RunnerInv /\ phase # "dead" /\ [Next]_vars
      BY <2>1, <2>2
    <3>2. RunnerInv'
      BY <3>1, RunnerStep
    <3>3. GdnStays /\ GdnExclusive' /\ phase' # "dead"
      BY <3>1, SlotsStep
    <3>4. QED BY <3>2, <3>3 DEF GdnSlotAvailable
  <2>3. CASE part # "runner"
    BY <2>1, <2>3
  <2>4. QED BY <2>2, <2>3
<1>3. QED
  <2> HIDE DEF Inv
  <2>1. QED BY <1>1, <1>2, PTL DEF SpecBoth, GdnOwn

-----------------------------------------------------------------------------
(* A list of at most one element.                                              *)
LEMMA AtMostOne ==
  ASSUME NEW S, NEW x \in S, NEW k \in {0, 1}
  PROVE  LET t == [j \in 1..k |-> x]
         IN  t \in Seq(S) /\ IsInjective(t) /\ Range(t) = IF k = 1 THEN {x} ELSE {}
<1> DEFINE t == [j \in 1..k |-> x]
<1>1. t \in Seq(S)
  BY FunctionSeq
<1>2. \A i, j \in 1..k : i = j
  OBVIOUS
<1>3. IsInjective(t)
  BY <1>2 DEF IsInjective
<1>4. Range(t) = {x : j \in 1..k}
  BY DEF Range
<1>5. {x : j \in 1..k} = IF k = 1 THEN {x} ELSE {}
  <2>1. CASE k = 1
    <3>1. 1 \in 1..k
      BY <2>1
    <3>2. QED BY <2>1, <3>1
  <2>2. CASE k = 0
    BY <2>2
  <2>3. QED BY <2>1, <2>2
<1>6. QED BY <1>1, <1>3, <1>4, <1>5

(* The rows of a batch where prompts give at most one logit: each request that *)
(* does has one logits row.                                                    *)
LEMMA LogitsOnce ==
  ASSUME NEW b, NEW w, Table(b, w), Holes(b) = {},
         NEW first \in Int, NEW last \in Int, first >= 1, last <= Len(b.req_ids),
         \A i \in first..last : NumLogits(b, i) \in {0, 1}
  PROVE  LET rows == LogitsRequests(b, first, last)
         IN  /\ rows \in Seq(Reqs) /\ IsInjective(rows)
             /\ Range(rows) = {b.req_ids[i] : i \in {i \in first..last : NumLogits(b, i) = 1}}
<1> DEFINE m == last - first + 1
           lists == [k \in 1..m |-> [j \in 1..NumLogits(b, first + k - 1) |-> b.req_ids[first + k - 1]]]
           due == {i \in first..last : NumLogits(b, i) = 1}
<1>1. /\ Len(b.req_ids) \in Nat /\ DOMAIN b.req_ids = 1..Len(b.req_ids)
      /\ \A i \in DOMAIN b.req_ids : b.req_ids[i] \in Reqs /\ b.index[b.req_ids[i]] = i
  BY FullRows
<1>2. m \in Int /\ \A k \in 1..m : first + k - 1 \in first..last
  OBVIOUS
<1>3. \A i \in first..last : i \in DOMAIN b.req_ids
  BY <1>1
<1>4. ASSUME NEW k \in 1..m
      PROVE  /\ lists[k] \in Seq(Reqs) /\ IsInjective(lists[k])
             /\ Range(lists[k]) = IF NumLogits(b, first + k - 1) = 1 THEN {b.req_ids[first + k - 1]} ELSE {}
  <2> DEFINE i == first + k - 1
             t == [j \in 1..NumLogits(b, i) |-> b.req_ids[i]]
  <2>1. lists[k] = t
    OBVIOUS
  <2>2. i \in first..last
    BY <1>2
  <2> HIDE DEF i
  <2>3. b.req_ids[i] \in Reqs /\ NumLogits(b, i) \in {0, 1}
    BY <1>1, <1>3, <2>2
  <2>4. t \in Seq(Reqs) /\ IsInjective(t) /\ Range(t) = IF NumLogits(b, i) = 1 THEN {b.req_ids[i]} ELSE {}
    BY <2>3, AtMostOne
  <2> HIDE DEF t, lists
  <2>5. QED BY <2>1, <2>4 DEF i
<1>5. lists \in Seq(Seq(Reqs)) /\ DOMAIN lists = 1..m
  <2>1. lists \in [1..m -> Seq(Reqs)]
    <3>1. lists = [k \in 1..m |-> lists[k]]
      OBVIOUS
    <3> HIDE DEF lists, m
    <3>2. QED BY <1>4, <3>1
  <2> HIDE DEF lists, m
  <2>2. QED BY <1>2, <2>1, FunctionSeqInt
<1> HIDE DEF lists
<1>6. 1..Len(lists) = 1..m
  <2> HIDE DEF m
  <2>1. DOMAIN lists = 1..Len(lists)
    BY <1>5
  <2>2. QED BY <1>5, <2>1
<1>7. ASSUME NEW i \in 1..m, NEW k \in 1..m, i # k
      PROVE  Range(lists[i]) \cap Range(lists[k]) = {}
  <2>1. first + i - 1 \in DOMAIN b.req_ids /\ first + k - 1 \in DOMAIN b.req_ids /\ first + i - 1 # first + k - 1
    BY <1>2, <1>3, <1>7
  <2>2. b.req_ids[first + i - 1] # b.req_ids[first + k - 1]
    <3> DEFINE x == first + i - 1
               y == first + k - 1
    <3>1. x \in DOMAIN b.req_ids /\ y \in DOMAIN b.req_ids /\ x # y
      BY <2>1
    <3> HIDE DEF x, y
    <3>2. b.req_ids[x] # b.req_ids[y]
      BY <1>1, <3>1
    <3>3. QED BY <3>2 DEF x, y
  <2> HIDE DEF m
  <2>3. QED BY <1>4, <2>2
<1>8. /\ Flat(lists) \in Seq(Reqs) /\ IsInjective(Flat(lists))
      /\ Range(Flat(lists)) = UNION {Range(lists[i]) : i \in 1..Len(lists)}
  <2> HIDE DEF m
  <2>1. \A i \in 1..Len(lists) : IsInjective(lists[i])
    BY <1>4, <1>6
  <2>2. \A i, k \in 1..Len(lists) : i # k => Range(lists[i]) \cap Range(lists[k]) = {}
    BY <1>6, <1>7
  <2>3. QED BY <1>5, <2>1, <2>2, Flattened
<1>9. UNION {Range(lists[i]) : i \in 1..m} = {b.req_ids[i] : i \in due}
  <2>1. ASSUME NEW k \in 1..m, NEW x \in Range(lists[k]) PROVE x \in {b.req_ids[i] : i \in due}
    <3>1. NumLogits(b, first + k - 1) = 1 /\ x = b.req_ids[first + k - 1]
      BY <1>4, <2>1
    <3>2. first + k - 1 \in due
      BY <1>2, <3>1
    <3>3. QED BY <3>1, <3>2
  <2>2. ASSUME NEW i \in due PROVE \E k \in 1..m : b.req_ids[i] \in Range(lists[k])
    <3> DEFINE k == i - first + 1
    <3>1. k \in 1..m /\ first + k - 1 = i
      OBVIOUS
    <3>2. NumLogits(b, i) = 1
      OBVIOUS
    <3> HIDE DEF k, m
    <3>3. Range(lists[k]) = {b.req_ids[i]}
      BY <1>4, <3>1, <3>2
    <3>4. QED BY <3>1, <3>3
  <2> DEFINE A == UNION {Range(lists[i]) : i \in 1..m}
             B == {b.req_ids[i] : i \in due}
  <2>3. \A x \in A : x \in B
    BY <2>1
  <2>4. \A x \in B : x \in A
    BY <2>2
  <2> HIDE DEF A, B
  <2>5. A = B
    BY <2>3, <2>4
  <2>6. QED BY <2>5 DEF A, B
<1>10. LogitsRequests(b, first, last) = Flat(lists)
  BY DEF LogitsRequests, lists
<1>11. QED BY <1>6, <1>8, <1>9, <1>10

(* Products and order.                                                         *)
LEMMA Multiples ==
  ASSUME NEW x \in Int, NEW y \in Int, x <= y, NEW n \in Nat
  PROVE  x * n \in Int /\ y * n \in Int /\ x * n <= y * n /\ (x - 1) * n = x * n - n
<1>1. (y - x) * n \in Nat
  OBVIOUS
<1>2. (y - x) * n = y * n - x * n /\ (x - 1) * n = x * n - n /\ x * n \in Int /\ y * n \in Int
  OBVIOUS
<1>3. QED BY <1>1, <1>2

(* The least of two integers is one of them.                                   *)
LEMMA MinMember ==
  ASSUME NEW x \in Int, NEW y \in Int
  PROVE  Min({x, y}) \in {x, y}
<1> DEFINE S == {x, y}
<1>1. \E z \in S : \A v \in S : z <= v
  <2>1. CASE x <= y
    BY <2>1
  <2>2. CASE y <= x
    BY <2>2
  <2>3. QED BY <2>1, <2>2
<1>2. Min(S) \in S
  <2> HIDE DEF S
  <2>1. QED BY <1>1 DEF Min
<1>3. QED BY <1>2

(* The prompts d + 1..m in batches of n rows.                                  *)
FirstOf(d, n, k) == d + 1 + (k - 1) * n
LastOf(d, n, m, k) == Min({d + k * n, m})
BatchesOf(d, n, m) == (m - d + n - 1) \div n

(* Every one of them is in one batch.                                          *)
LEMMA InBatches ==
  ASSUME NEW d \in Nat, NEW m \in Nat, d <= m, NEW n \in Nat \ {0}
  PROVE  /\ BatchesOf(d, n, m) \in Nat
         /\ \A k \in 1..BatchesOf(d, n, m) :
              /\ FirstOf(d, n, k) \in Int /\ FirstOf(d, n, k) >= d + 1
              /\ LastOf(d, n, m, k) \in Int /\ LastOf(d, n, m, k) <= m
         /\ \A i \in (d + 1)..m : \E k \in 1..BatchesOf(d, n, m) : i \in FirstOf(d, n, k)..LastOf(d, n, m, k)
         /\ \A k, l \in 1..BatchesOf(d, n, m) : k < l => LastOf(d, n, m, k) < FirstOf(d, n, l)
<1> DEFINE x == m - d + n - 1
           count == x \div n
<1>1. x \in Nat
  OBVIOUS
<1>2. count \in Nat /\ x = n * count + (x % n) /\ x % n \in 0..(n - 1)
  <2> HIDE DEF x
  <2>1. count \in Nat /\ x % n \in 0..(n - 1)
    BY <1>1
  <2>2. x = n * count + (x % n)
    BY <1>1
  <2>3. QED BY <2>1, <2>2
<1> HIDE DEF x
<1>3. ASSUME NEW k \in 1..count
      PROVE  /\ FirstOf(d, n, k) = d + 1 + k * n - n /\ k * n \in Int /\ n <= k * n
             /\ FirstOf(d, n, k) \in Int /\ FirstOf(d, n, k) >= d + 1
             /\ LastOf(d, n, m, k) \in Int /\ LastOf(d, n, m, k) <= m
             /\ LastOf(d, n, m, k) <= d + k * n
             /\ LastOf(d, n, m, k) = d + k * n \/ LastOf(d, n, m, k) = m
  <2>1. k \in Int /\ 1 <= k
    BY <1>2
  <2>2. k * n \in Int /\ 1 * n <= k * n /\ (k - 1) * n = k * n - n
    BY <2>1, Multiples
  <2> DEFINE y == d + k * n
  <2>3. y \in Int
    BY <2>2
  <2>4. Min({y, m}) \in Int /\ Min({y, m}) <= y /\ Min({y, m}) <= m /\ Min({y, m}) \in {y, m}
    <3> HIDE DEF y
    <3>1. Min({y, m}) \in Int /\ Min({y, m}) <= y /\ Min({y, m}) <= m
      BY <2>3, MinOfTwo
    <3>2. Min({y, m}) \in {y, m}
      BY <2>3, MinMember
    <3>3. QED BY <3>1, <3>2
  <2>5. FirstOf(d, n, k) = d + 1 + k * n - n
    BY <2>2 DEF FirstOf
  <2>6. LastOf(d, n, m, k) = Min({y, m})
    BY DEF LastOf
  <2> HIDE DEF count
  <2>7. n <= k * n
    BY <2>2
  <2>8. FirstOf(d, n, k) \in Int /\ FirstOf(d, n, k) >= d + 1
    <3> DEFINE z == k * n
    <3>1. z \in Int /\ n <= z /\ FirstOf(d, n, k) = d + 1 + z - n
      BY <2>2, <2>5, <2>7
    <3> HIDE DEF z
    <3>2. QED BY <3>1
  <2>9. QED BY <2>2, <2>4, <2>5, <2>6, <2>7, <2>8 DEF y
<1>4. ASSUME NEW i \in (d + 1)..m
      PROVE  \E k \in 1..count : i \in FirstOf(d, n, k)..LastOf(d, n, m, k)
  <2> DEFINE j == i - d - 1
             c == j \div n
  <2>1. j \in Nat /\ j <= m - d - 1
    OBVIOUS
  <2>2. c \in Nat /\ j = n * c + (j % n) /\ j % n \in 0..(n - 1)
    <3> HIDE DEF j
    <3>1. QED BY <2>1
  <2> HIDE DEF j, c
  <2> DEFINE z == n * c
             y == n * count
  <2>3. z \in Int /\ y \in Int /\ (c + 1) * n = z + n
    BY <1>2, <2>2
  <2>4. c + 1 <= count
    <3>1. CASE count <= c
      <4>1. count * n <= c * n
        BY <1>2, <2>2, <3>1, Multiples
      <4>2. y <= z
        BY <1>2, <2>2, <4>1
      <4> HIDE DEF y, z, count
      <4>3. x = m - d + n - 1 /\ x = y + (x % n) /\ j = z + (j % n)
        BY <1>2, <2>2 DEF x, y, z
      <4>4. QED BY <1>2, <2>1, <2>2, <2>3, <4>2, <4>3
    <3>2. QED BY <1>2, <2>2, <3>1
  <2>5. c + 1 \in 1..count
    BY <1>2, <2>2, <2>4
  <2>6. FirstOf(d, n, c + 1) = d + 1 + z /\ (LastOf(d, n, m, c + 1) = d + z + n \/ LastOf(d, n, m, c + 1) = m)
    <3>1. FirstOf(d, n, c + 1) = d + 1 + (c + 1) * n - n
      BY <1>3, <2>5
    <3>2. LastOf(d, n, m, c + 1) = d + (c + 1) * n \/ LastOf(d, n, m, c + 1) = m
      BY <1>3, <2>5
    <3>3. QED BY <2>3, <3>1, <3>2
  <2>7. i = d + 1 + j
    BY DEF j
  <2>8. i \in FirstOf(d, n, c + 1)..LastOf(d, n, m, c + 1)
    <3>1. j = z + (j % n)
      BY <2>2
    <3> HIDE DEF z
    <3>2. QED BY <2>1, <2>2, <2>3, <2>6, <2>7, <3>1
  <2>9. QED BY <2>5, <2>8
<1>5. ASSUME NEW k \in 1..count, NEW l \in 1..count, k < l
      PROVE  LastOf(d, n, m, k) < FirstOf(d, n, l)
  <2>1. k \in Int /\ l - 1 \in Int /\ k <= l - 1 /\ l \in Int
    BY <1>2, <1>5
  <2>2. k * n <= (l - 1) * n /\ k * n \in Int /\ (l - 1) * n \in Int
    BY <2>1, Multiples
  <2>3. LastOf(d, n, m, k) <= d + k * n /\ LastOf(d, n, m, k) \in Int
    BY <1>3
  <2>4. FirstOf(d, n, l) = d + 1 + (l - 1) * n
    BY DEF FirstOf
  <2> DEFINE y == k * n
             z == (l - 1) * n
  <2>5. y <= z /\ y \in Int /\ z \in Int /\ LastOf(d, n, m, k) <= d + y /\ FirstOf(d, n, l) = d + 1 + z
    BY <2>2, <2>3, <2>4
  <2> HIDE DEF y, z
  <2>6. QED BY <2>3, <2>5
<1>6. BatchesOf(d, n, m) = count
  BY DEF BatchesOf, x
<1>7. QED
  <2> HIDE DEF count
  <2>1. \A k \in 1..BatchesOf(d, n, m) :
          /\ FirstOf(d, n, k) \in Int /\ FirstOf(d, n, k) >= d + 1
          /\ LastOf(d, n, m, k) \in Int /\ LastOf(d, n, m, k) <= m
    BY <1>3, <1>6
  <2>2. \A i \in (d + 1)..m : \E k \in 1..BatchesOf(d, n, m) : i \in FirstOf(d, n, k)..LastOf(d, n, m, k)
    BY <1>4, <1>6
  <2>3. \A k, l \in 1..BatchesOf(d, n, m) : k < l => LastOf(d, n, m, k) < FirstOf(d, n, l)
    BY <1>5, <1>6
  <2>4. BatchesOf(d, n, m) \in Nat
    BY <1>2, <1>6
  <2>5. QED BY <2>1, <2>2, <2>3, <2>4

(* Calls with rows of different requests.                                      *)
Apart(C) == \A x, y \in C : x # y => Range(x.rows) \cap Range(y.rows) = {}
Separate(C) == Apart(C) /\ \A x \in C : x.rows \in Seq(Reqs) /\ IsInjective(x.rows)

(* The requests whose token a step yields: the decodes and the prompts with a  *)
(* logit.                                                                      *)
Yields(b, d) ==
  {b.req_ids[i] : i \in 1..d} \union {b.req_ids[i] : i \in {i \in (d + 1)..Len(b.req_ids) : NumLogits(b, i) = 1}}

(* Without grammars each of them has one row in one call, and no other has.    *)
LEMMA CallsOnce ==
  ASSUME NEW b, NEW w, Table(b, w), Holes(b) = {}, GrammarRequests = {},
         NEW d, d = NumDecodes(b, num_scheduled_tokens), d \in 0..Len(b.req_ids),
         \A i \in (d + 1)..Len(b.req_ids) : NumLogits(b, i) \in {0, 1}
  PROVE  LET calls == SamplingCalls(b)
         IN  /\ Len(calls) \in Nat /\ DOMAIN calls = 1..Len(calls) /\ IsInjective(calls)
             /\ Separate(Range(calls))
             /\ UNION {Range(c.rows) : c \in Range(calls)} = Yields(b, d)
<1> DEFINE m == Len(b.req_ids)
           n == MaxPrefillBatch
           decodes == SubSeq(b.req_ids, 1, d)
           prompts == SubSeq(b.req_ids, d + 1, m)
           call(first, last) ==
             LET rows == LogitsRequests(b, first, last)
             IN  [rows |-> rows, meta |-> MetadataRequests(SubSeq(b.req_ids, first, last), rows, rows)]
           count == BatchesOf(d, n, m)
           prefills == [k \in 1..count |-> call(FirstOf(d, n, k), LastOf(d, n, m, k))]
           K == {c \in Range(prefills) : c.rows # <<>>}
           kept == OnlyIn(prefills, K)
           front == [rows |-> decodes, meta |-> decodes]
           calls == SamplingCalls(b)
           due(i, j) == {b.req_ids[x] : x \in {x \in i..j : NumLogits(b, x) = 1}}
<1>1. /\ m \in Nat /\ d \in Nat /\ d <= m /\ b.req_ids \in Seq(Reqs) /\ n \in Nat \ {0}
      /\ DOMAIN b.req_ids = 1..m
      /\ \A i \in 1..m : b.req_ids[i] \in Reqs /\ b.index[b.req_ids[i]] = i
  BY FullRows, RunnerAssumption
<1>2. calls = kept \o (IF d = 0 THEN <<>> ELSE <<front>>)
  BY DEF SamplingCalls, FirstOf, LastOf, BatchesOf
<1>3. /\ count \in Nat
      /\ \A k \in 1..count :
           /\ FirstOf(d, n, k) \in Int /\ FirstOf(d, n, k) >= d + 1
           /\ LastOf(d, n, m, k) \in Int /\ LastOf(d, n, m, k) <= m
      /\ \A i \in (d + 1)..m : \E k \in 1..count : i \in FirstOf(d, n, k)..LastOf(d, n, m, k)
      /\ \A k, l \in 1..count : k < l => LastOf(d, n, m, k) < FirstOf(d, n, l)
  <2> HIDE DEF m, n
  <2>1. QED BY <1>1, InBatches
<1> DEFINE span(k) == FirstOf(d, n, k)..LastOf(d, n, m, k)
<1> HIDE DEF count
<1>4. ASSUME NEW k \in 1..count
      PROVE  /\ prefills[k].rows \in Seq(Reqs) /\ IsInjective(prefills[k].rows)
             /\ Range(prefills[k].rows) = {b.req_ids[i] : i \in {i \in span(k) : NumLogits(b, i) = 1}}
             /\ span(k) \subseteq (d + 1)..m
  <2> DEFINE first == FirstOf(d, n, k)
             last == LastOf(d, n, m, k)
  <2>1. first \in Int /\ first >= d + 1 /\ first >= 1 /\ last \in Int /\ last <= m
    <3>1. first \in Int /\ first >= d + 1 /\ last \in Int /\ last <= m
      BY <1>3
    <3> HIDE DEF first, last, m, n
    <3>2. QED BY <1>1, <3>1
  <2>2. prefills[k].rows = LogitsRequests(b, first, last)
    OBVIOUS
  <2> HIDE DEF first, last, prefills
  <2>3. first..last \subseteq (d + 1)..m
    BY <1>1, <2>1
  <2>4. \A i \in first..last : NumLogits(b, i) \in {0, 1}
    BY <2>3
  <2>5. LET rows == LogitsRequests(b, first, last)
         IN  /\ rows \in Seq(Reqs) /\ IsInjective(rows)
             /\ Range(rows) = {b.req_ids[i] : i \in {i \in first..last : NumLogits(b, i) = 1}}
    BY <2>1, <2>4, LogitsOnce
  <2>6. QED BY <2>2, <2>3, <2>5 DEF first, last
<1>5. ASSUME NEW k \in 1..count, NEW l \in 1..count, NEW r \in Range(prefills[k].rows), r \in Range(prefills[l].rows)
      PROVE  k = l
  <2>1. PICK i \in span(k) : r = b.req_ids[i]
    <3> HIDE DEF span, prefills
    <3>1. QED BY <1>4
  <2>2. PICK j \in span(l) : r = b.req_ids[j]
    <3> HIDE DEF span, prefills
    <3>1. r \in {b.req_ids[x] : x \in {x \in span(l) : NumLogits(b, x) = 1}}
      BY <1>4, <1>5
    <3>2. QED BY <3>1
  <2>3. i \in (d + 1)..m /\ j \in (d + 1)..m
    <3> HIDE DEF span, prefills
    <3>1. QED BY <1>4, <2>1, <2>2
  <2>4. i = j
    <3>1. i \in 1..m /\ j \in 1..m
      BY <1>1, <2>3
    <3>2. QED BY <1>1, <2>1, <2>2, <3>1
  <2> HIDE DEF prefills
  <2> DEFINE f(x) == FirstOf(d, n, x)
             g(x) == LastOf(d, n, m, x)
  <2>5. /\ f(k) \in Int /\ g(k) \in Int /\ f(l) \in Int /\ g(l) \in Int
        /\ k < l => g(k) < f(l)
        /\ l < k => g(l) < f(k)
        /\ i \in f(k)..g(k) /\ i \in f(l)..g(l)
    BY <1>3, <2>1, <2>2, <2>4
  <2> HIDE DEF f, g
  <2>6. ~(k < l) /\ ~(l < k)
    BY <2>5
  <2>7. QED BY <1>3, <2>6
<1>6. /\ DOMAIN prefills = 1..count /\ Len(prefills) = count /\ prefills \in Seq(Range(prefills))
  <2>1. prefills \in [1..count -> Range(prefills)]
    BY DEF Range
  <2> HIDE DEF prefills
  <2>2. QED BY <1>3, <2>1, FunctionSeq
<1> HIDE DEF prefills
<1>7. kept \in Seq(Range(prefills)) /\ IsInjective(kept) /\ Range(kept) = K
  <2>1. ASSUME NEW k \in 1..count, NEW l \in 1..count, prefills[k] \in K, prefills[k] = prefills[l]
        PROVE  k = l
    <3>1. prefills[k].rows # <<>> /\ prefills[k].rows \in Seq(Reqs)
      BY <1>4, <2>1
    <3>2. PICK r \in Range(prefills[k].rows) : TRUE
      <4> DEFINE rows == prefills[k].rows
      <4>1. rows # <<>> /\ rows \in Seq(Reqs)
        BY <3>1
      <4> HIDE DEF rows
      <4>2. 1 \in DOMAIN rows
        BY <4>1
      <4>3. rows[1] \in Range(rows)
        BY <4>2 DEF Range
      <4>4. QED BY <4>3 DEF rows
    <3>3. QED BY <1>5, <2>1, <3>2
  <2>2. \A k, l \in 1..Len(prefills) : prefills[k] \in K /\ prefills[k] = prefills[l] => k = l
    BY <1>6, <2>1
  <2> DEFINE R == Range(prefills)
  <2>3. prefills \in Seq(R)
    BY <1>6
  <2>4. R \cap K = K
    OBVIOUS
  <2> HIDE DEF R, K
  <2>5. OnlyIn(prefills, K) \in Seq(R) /\ IsInjective(OnlyIn(prefills, K)) /\ Range(OnlyIn(prefills, K)) = Range(prefills) \cap K
    BY <2>2, <2>3, OnlyInOnce
  <2>6. QED BY <2>4, <2>5 DEF R
<1> HIDE DEF kept
<1>8. \A c \in K : \E k \in 1..count : c = prefills[k]
  BY <1>6 DEF Range
<1>9. Separate(K)
  <2>1. ASSUME NEW x \in K, NEW y \in K, NEW r \in Range(x.rows), r \in Range(y.rows) PROVE x = y
    <3>1. PICK k \in 1..count : x = prefills[k]
      BY <1>8
    <3>2. PICK l \in 1..count : y = prefills[l]
      BY <1>8
    <3> HIDE DEF K
    <3>3. QED BY <1>5, <2>1, <3>1, <3>2
  <2>2. \A x \in K : x.rows \in Seq(Reqs) /\ IsInjective(x.rows)
    <3> HIDE DEF K, span
    <3>1. QED BY <1>4, <1>8
  <2> HIDE DEF K
  <2>3. QED BY <2>1, <2>2 DEF Separate, Apart
<1>10. \A c \in K : \A r \in Range(c.rows) : \E i \in (d + 1)..m : NumLogits(b, i) = 1 /\ r = b.req_ids[i]
  <2> SUFFICES ASSUME NEW c \in K, NEW r \in Range(c.rows)
               PROVE  \E i \in (d + 1)..m : NumLogits(b, i) = 1 /\ r = b.req_ids[i]
    OBVIOUS
  <2>1. PICK k \in 1..count : c = prefills[k]
    BY <1>8
  <2> HIDE DEF K, span
  <2>2. r \in {b.req_ids[x] : x \in {x \in span(k) : NumLogits(b, x) = 1}} /\ span(k) \subseteq (d + 1)..m
    BY <1>4, <2>1
  <2>3. QED BY <2>2
<1>11. ASSUME NEW i \in (d + 1)..m, NumLogits(b, i) = 1
       PROVE  \E c \in K : b.req_ids[i] \in Range(c.rows)
  <2>1. PICK k \in 1..count : i \in span(k)
    BY <1>3
  <2>2. b.req_ids[i] \in Range(prefills[k].rows)
    <3> HIDE DEF span
    <3>1. QED BY <1>4, <1>11, <2>1
  <2>3. prefills[k].rows # <<>>
    <3>1. Range(<<>>) = {}
      BY DEF Range
    <3>2. QED BY <2>2, <3>1
  <2>4. prefills[k] \in Range(prefills)
    BY <1>6 DEF Range
  <2>5. QED BY <2>2, <2>3, <2>4
<1> HIDE DEF K, span
<1>12. /\ decodes \in Seq(Reqs) /\ IsInjective(decodes) /\ Range(decodes) = {b.req_ids[i] : i \in 1..d}
       /\ front.rows = decodes /\ (d = 0 => decodes = <<>>)
  <2>1. /\ Len(decodes) = d /\ DOMAIN decodes = 1..d /\ \A i \in 1..d : decodes[i] = b.req_ids[i] /\ i \in 1..m
        /\ decodes \in Seq(Reqs)
    <3> DEFINE s == b.req_ids
    <3>1. s \in Seq(Reqs) /\ Len(s) = m /\ d \in Nat /\ d <= m /\ m \in Nat
      BY <1>1
    <3> HIDE DEF s, m
    <3>2. /\ Len(SubSeq(s, 1, d)) = d /\ DOMAIN SubSeq(s, 1, d) = 1..d
          /\ \A i \in 1..d : SubSeq(s, 1, d)[i] = s[i] /\ i \in 1..m
          /\ SubSeq(s, 1, d) \in Seq(Reqs)
      BY <3>1
    <3>3. QED BY <3>2 DEF s
  <2>2. front.rows = decodes
    OBVIOUS
  <2> HIDE DEF decodes, m
  <2>3. IsInjective(decodes)
    <3>1. ASSUME NEW i \in 1..d, NEW j \in 1..d, decodes[i] = decodes[j] PROVE i = j
      BY <1>1, <2>1, <3>1
    <3>2. QED BY <2>1, <3>1 DEF IsInjective
  <2>4. Range(decodes) = {b.req_ids[i] : i \in 1..d}
    BY <2>1 DEF Range
  <2>5. d = 0 => decodes = <<>>
    BY <2>1
  <2>6. QED BY <2>1, <2>2, <2>3, <2>4, <2>5
<1>13. ASSUME NEW c \in K PROVE Range(c.rows) \cap Range(decodes) = {}
  <2> HIDE DEF decodes
  <2>1. ASSUME NEW r \in Range(c.rows), r \in Range(decodes) PROVE FALSE
    <3>1. PICK i \in (d + 1)..m : r = b.req_ids[i]
      BY <1>10, <2>1
    <3>2. PICK j \in 1..d : r = b.req_ids[j]
      BY <1>12, <2>1
    <3>3. i \in 1..m /\ j \in 1..m /\ i # j
      BY <1>1
    <3> HIDE DEF m
    <3>4. QED BY <1>1, <3>1, <3>2, <3>3
  <2>2. QED BY <2>1
<1> DEFINE C == K \union (IF d = 0 THEN {} ELSE {front})
<1>14. calls \in Seq(C) /\ IsInjective(calls) /\ Range(calls) = C
  <2>1. kept \in Seq(K) /\ kept \in Seq(C)
    <3>1. Len(kept) \in Nat /\ DOMAIN kept = 1..Len(kept) /\ kept \in [1..Len(kept) -> Range(kept)]
      BY <1>7 DEF Range
    <3>2. K \subseteq C
      OBVIOUS
    <3> HIDE DEF C
    <3>3. QED BY <1>7, <3>1, <3>2
  <2>2. CASE d = 0
    <3>1. calls = kept /\ C = K
      <4>1. calls = kept \o <<>> /\ C = K
        BY <1>2, <2>2
      <4> HIDE DEF calls, C
      <4>2. kept \o <<>> = kept
        BY <2>1
      <4>3. QED BY <4>1, <4>2
    <3> HIDE DEF calls, C
    <3>2. QED BY <1>7, <2>1, <3>1
  <2>3. CASE d # 0
    <3>1. calls = kept \o <<front>> /\ front \in C
      BY <1>2, <2>3
    <3>2. front \notin K
      <4>1. b.req_ids[1] \in Range(decodes)
        <5>1. 1 \in 1..d
          BY <1>1, <2>3
        <5> HIDE DEF decodes
        <5>2. QED BY <1>12, <5>1
      <4> HIDE DEF decodes
      <4>2. QED BY <1>12, <1>13, <4>1
    <3>3. C = K \union {front}
      BY <2>3
    <3> HIDE DEF front, calls, C
    <3>4. <<front>> \in Seq(C) /\ IsInjective(<<front>>) /\ Range(<<front>>) = {front}
      BY <3>1 DEF IsInjective, Range
    <3>5. Range(kept) \cap Range(<<front>>) = {}
      BY <1>7, <3>2, <3>4
    <3>6. /\ kept \o <<front>> \in Seq(C) /\ IsInjective(kept \o <<front>>)
          /\ Range(kept \o <<front>>) = Range(kept) \union Range(<<front>>)
      <4> DEFINE last == <<front>>
      <4>1. last \in Seq(C) /\ IsInjective(last) /\ Range(kept) \cap Range(last) = {}
        BY <3>4, <3>5
      <4> HIDE DEF last
      <4>2. kept \in Seq(C) /\ IsInjective(kept)
        BY <1>7, <2>1
      <4>3. /\ kept \o last \in Seq(C) /\ IsInjective(kept \o last)
            /\ Range(kept \o last) = Range(kept) \union Range(last)
        BY <4>1, <4>2, Joining
      <4>4. QED BY <4>3 DEF last
    <3>7. QED BY <1>7, <3>1, <3>3, <3>4, <3>6
  <2>4. QED BY <2>2, <2>3
<1>15. Separate(C)
  <2>1. \A x \in C : x \in K \/ x = front
    OBVIOUS
  <2>2. front.rows \in Seq(Reqs) /\ IsInjective(front.rows)
    <3> HIDE DEF decodes
    <3>1. QED BY <1>12
  <2>3. \A x \in K : Range(x.rows) \cap Range(front.rows) = {}
    <3> HIDE DEF decodes
    <3>1. QED BY <1>12, <1>13
  <2> HIDE DEF C, front
  <2>4. ASSUME NEW x \in C, NEW y \in C, x # y PROVE Range(x.rows) \cap Range(y.rows) = {}
    <3>1. CASE x \in K /\ y \in K
      BY <1>9, <2>4, <3>1 DEF Separate, Apart
    <3>2. CASE x \notin K
      <4>1. x = front /\ y \in K
        BY <2>1, <2>4, <3>2
      <4>2. QED BY <2>3, <4>1
    <3>3. CASE y \notin K
      <4>1. y = front /\ x \in K
        BY <2>1, <2>4, <3>3
      <4>2. QED BY <2>3, <4>1
    <3>4. QED BY <3>1, <3>2, <3>3
  <2>5. \A x \in C : x.rows \in Seq(Reqs) /\ IsInjective(x.rows)
    BY <1>9, <2>1, <2>2 DEF Separate
  <2>6. QED BY <2>4, <2>5 DEF Separate, Apart
<1>16. UNION {Range(c.rows) : c \in C} = Yields(b, d)
  <2> DEFINE A == UNION {Range(c.rows) : c \in C}
  <2>1. ASSUME NEW c \in C, NEW r \in Range(c.rows) PROVE r \in Yields(b, d)
    <3>1. CASE c \in K
      <4>1. PICK i \in (d + 1)..m : NumLogits(b, i) = 1 /\ r = b.req_ids[i]
        BY <1>10, <2>1, <3>1
      <4>2. QED BY <4>1 DEF Yields
    <3>2. CASE c \notin K
      <4>1. c = front
        BY <3>2
      <4>2. r \in {b.req_ids[i] : i \in 1..d}
        <5> HIDE DEF decodes
        <5>1. QED BY <1>12, <2>1, <4>1
      <4>3. QED BY <4>2 DEF Yields
    <3>3. QED BY <3>1, <3>2
  <2>2. ASSUME NEW r \in Yields(b, d) PROVE \E c \in C : r \in Range(c.rows)
    <3>1. CASE r \in {b.req_ids[i] : i \in 1..d}
      <4>1. d # 0
        BY <1>1, <3>1
      <4>2. front \in C /\ r \in Range(front.rows)
        <5> HIDE DEF decodes
        <5>1. QED BY <1>12, <3>1, <4>1
      <4> HIDE DEF C, front
      <4>3. QED BY <4>2
    <3>2. CASE r \notin {b.req_ids[i] : i \in 1..d}
      <4>1. PICK i \in (d + 1)..m : NumLogits(b, i) = 1 /\ r = b.req_ids[i]
        BY <2>2, <3>2 DEF Yields
      <4>2. PICK c \in K : r \in Range(c.rows)
        BY <1>11, <4>1
      <4>3. QED BY <4>2
    <3>3. QED BY <3>1, <3>2
  <2>3. \A r : r \in A <=> r \in Yields(b, d)
    BY <2>1, <2>2
  <2> HIDE DEF A
  <2>4. A = Yields(b, d)
    BY <2>3
  <2>5. QED BY <2>4 DEF A
<1>17. QED
  <2> HIDE DEF C, calls
  <2>1. Len(calls) \in Nat /\ DOMAIN calls = 1..Len(calls)
    BY <1>14
  <2>2. IsInjective(calls) /\ Range(calls) = C
    BY <1>14
  <2>3. QED BY <1>15, <1>16, <2>1, <2>2 DEF calls

(* Rows with one logit each are sampled with the metadata of their requests.   *)
LEMMA WholeRows ==
  ASSUME NEW b, NEW w, Table(b, w), Holes(b) = {},
         NEW first \in Int, NEW last \in Int, first >= 1, last <= Len(b.req_ids),
         \A i \in first..last : NumLogits(b, i) = 1
  PROVE  LET rows == LogitsRequests(b, first, last)
             reqs == SubSeq(b.req_ids, first, last)
         IN  rows # <<>> => MetadataRequests(reqs, rows, rows) = rows
<1> DEFINE m == last - first + 1
           lists == [k \in 1..m |-> [j \in 1..NumLogits(b, first + k - 1) |-> b.req_ids[first + k - 1]]]
           reqs == SubSeq(b.req_ids, first, last)
           rows == LogitsRequests(b, first, last)
<1>1. /\ b.req_ids \in Seq(Reqs) /\ Len(b.req_ids) \in Nat /\ DOMAIN b.req_ids = 1..Len(b.req_ids)
      /\ \A i \in DOMAIN b.req_ids : b.req_ids[i] \in Reqs
  BY FullRows
<1>2. rows = Flat(lists)
  BY DEF LogitsRequests
<1> DEFINE f == [k \in 1..m |-> b.req_ids[first + k - 1]]
<1>3. m \in Int /\ \A k \in 1..m : first + k - 1 \in first..last
  OBVIOUS
<1>4. \A i \in first..last : i \in DOMAIN b.req_ids
  BY <1>1
<1>5. lists = [k \in 1..m |-> <<f[k]>>]
  <2>1. ASSUME NEW k \in 1..m PROVE lists[k] = <<f[k]>>
    <3> DEFINE x == b.req_ids[first + k - 1]
               l == NumLogits(b, first + k - 1)
    <3>1. l = 1
      BY <1>3
    <3>2. lists[k] = [j \in 1..l |-> x] /\ f[k] = x
      OBVIOUS
    <3> HIDE DEF x, l, lists, f
    <3>3. [j \in 1..1 |-> x] = <<x>>
      OBVIOUS
    <3>4. QED BY <3>1, <3>2, <3>3
  <2>2. lists = [k \in 1..m |-> lists[k]]
    OBVIOUS
  <2> HIDE DEF lists, f, m
  <2>3. QED BY <2>1, <2>2
<1>6. CASE m \in Nat
  <2>1. f \in [1..m -> Reqs]
    <3>1. \A k \in 1..m : f[k] \in Reqs
      BY <1>1, <1>3, <1>4
    <3>2. f = [k \in 1..m |-> f[k]]
      OBVIOUS
    <3> HIDE DEF f, m
    <3>3. QED BY <3>1, <3>2
  <2>2. rows = f
    <3> HIDE DEF f, m, lists, rows
    <3>1. QED BY <1>2, <1>5, <1>6, <2>1, FlatSingles
  <2>3. reqs = f
    <3>1. Len(reqs) = m /\ \A k \in 1..m : reqs[k] = b.req_ids[first + k - 1]
      BY <1>1, <1>6
    <3>2. reqs \in Seq(Reqs)
      BY <1>1
    <3>3. \A k \in 1..m : f[k] = b.req_ids[first + k - 1]
      OBVIOUS
    <3> HIDE DEF reqs, m
    <3>4. reqs = [k \in 1..m |-> reqs[k]]
      BY <3>1, <3>2
    <3>5. QED BY <3>1, <3>3, <3>4
  <2> HIDE DEF f
  <2>4. Len(f) = m /\ f \in Seq(Reqs)
    BY <1>6, <2>1, FunctionSeq
  <2> HIDE DEF m, rows, reqs
  <2>5. MetadataRequests(f, f, f) = [j \in 1..Max({m, m}) |-> IF j <= m THEN f[j] ELSE f[1]]
    BY <1>6, <2>4 DEF MetadataRequests
  <2>6. Max({m, m}) = m
    <3>1. {m, m} = {m}
      OBVIOUS
    <3>2. Max({m}) = m
      BY <1>6 DEF Max
    <3>3. QED BY <3>1, <3>2
  <2>7. f = [j \in 1..m |-> f[j]]
    BY <2>1
  <2>8. [j \in 1..m |-> IF j <= m THEN f[j] ELSE f[1]] = [j \in 1..m |-> f[j]]
    BY <1>6
  <2>9. MetadataRequests(f, f, f) = f
    BY <2>5, <2>6, <2>7, <2>8
  <2>10. MetadataRequests(reqs, rows, rows) = rows
    BY <2>2, <2>3, <2>9
  <2>11. QED BY <2>10 DEF reqs, rows
<1>7. CASE m \notin Nat
  <2>1. 1..m = 1..0
    BY <1>3, <1>7
  <2>2. lists = [k \in 1..0 |-> <<b.req_ids[k]>>]
    <3>1. lists = [k \in 1..m |-> <<f[k]>>]
      BY <1>5
    <3> HIDE DEF lists, f, m
    <3>2. \A k \in 1..m : FALSE
      BY <2>1
    <3>3. QED BY <2>1, <3>1, <3>2
  <2> DEFINE e == [k \in 1..0 |-> b.req_ids[k]]
  <2>3. e \in [1..0 -> Reqs] /\ lists = [k \in 1..0 |-> <<e[k]>>]
    BY <2>2
  <2>4. e = <<>>
    OBVIOUS
  <2> HIDE DEF lists, e, rows
  <2>5. Flat(lists) = e
    BY <2>3, FlatSingles
  <2>6. rows = <<>>
    BY <1>2, <2>4, <2>5
  <2>7. QED BY <2>6 DEF rows
<1>8. QED BY <1>6, <1>7

(* Without grammars, when every prompt has one logit, each call has metadata   *)
(* for exactly its rows.                                                       *)
LEMMA MetaOwn ==
  ASSUME NEW b, NEW w, Table(b, w), Holes(b) = {}, GrammarRequests = {},
         NEW d, d = NumDecodes(b, num_scheduled_tokens), d \in 0..Len(b.req_ids),
         \A i \in (d + 1)..Len(b.req_ids) : NumLogits(b, i) = 1,
         NEW c \in Range(SamplingCalls(b))
  PROVE  c.meta = c.rows
<1> DEFINE m == Len(b.req_ids)
           n == MaxPrefillBatch
           decodes == SubSeq(b.req_ids, 1, d)
           call(first, last) ==
             LET rows == LogitsRequests(b, first, last)
             IN  [rows |-> rows, meta |-> MetadataRequests(SubSeq(b.req_ids, first, last), rows, rows)]
           count == BatchesOf(d, n, m)
           prefills == [k \in 1..count |-> call(FirstOf(d, n, k), LastOf(d, n, m, k))]
           K == {x \in Range(prefills) : x.rows # <<>>}
           kept == OnlyIn(prefills, K)
           front == [rows |-> decodes, meta |-> decodes]
           calls == SamplingCalls(b)
<1>1. m \in Nat /\ d \in Nat /\ d <= m /\ n \in Nat \ {0}
  BY FullRows, RunnerAssumption
<1>2. calls = kept \o (IF d = 0 THEN <<>> ELSE <<front>>)
  BY DEF SamplingCalls, FirstOf, LastOf, BatchesOf
<1>3. /\ count \in Nat
      /\ \A k \in 1..count :
           /\ FirstOf(d, n, k) \in Int /\ FirstOf(d, n, k) >= d + 1
           /\ LastOf(d, n, m, k) \in Int /\ LastOf(d, n, m, k) <= m
  <2> HIDE DEF m, n
  <2>1. QED BY <1>1, InBatches
<1> HIDE DEF count
<1>4. ASSUME NEW k \in 1..count, prefills[k].rows # <<>>
      PROVE  prefills[k].meta = prefills[k].rows
  <2> DEFINE first == FirstOf(d, n, k)
             last == LastOf(d, n, m, k)
             rows == LogitsRequests(b, first, last)
  <2>1. first \in Int /\ first >= d + 1 /\ first >= 1 /\ last \in Int /\ last <= m
    <3>1. first \in Int /\ first >= d + 1 /\ last \in Int /\ last <= m
      BY <1>3
    <3> HIDE DEF first, last, m, n
    <3>2. QED BY <1>1, <3>1
  <2>2. prefills[k].rows = rows /\ prefills[k].meta = MetadataRequests(SubSeq(b.req_ids, first, last), rows, rows)
    OBVIOUS
  <2> HIDE DEF first, last, prefills
  <2>3. first..last \subseteq (d + 1)..m
    BY <1>1, <2>1
  <2>4. \A i \in first..last : NumLogits(b, i) = 1
    BY <2>3
  <2>5. rows # <<>> => MetadataRequests(SubSeq(b.req_ids, first, last), rows, rows) = rows
    BY <2>1, <2>4, WholeRows
  <2> HIDE DEF rows
  <2>6. QED BY <1>4, <2>2, <2>5
<1>5. /\ DOMAIN prefills = 1..count /\ prefills \in Seq(Range(prefills))
  <2>1. prefills \in [1..count -> Range(prefills)]
    BY DEF Range
  <2> HIDE DEF prefills
  <2>2. QED BY <1>3, <2>1, FunctionSeq
<1> HIDE DEF prefills
<1>6. kept \in Seq(K)
  <2> DEFINE R == Range(prefills)
  <2>1. prefills \in Seq(R) /\ R \cap K = K
    BY <1>5
  <2> HIDE DEF R, K
  <2>2. QED BY <2>1, OnlyInType
<1>7. \A x \in K : x.meta = x.rows
  <2> SUFFICES ASSUME NEW x \in K PROVE x.meta = x.rows
    OBVIOUS
  <2>1. PICK k \in 1..count : x = prefills[k]
    BY <1>5 DEF Range
  <2>2. x.rows # <<>>
    OBVIOUS
  <2>3. QED BY <1>4, <2>1, <2>2
<1> HIDE DEF kept, K
<1>8. front.meta = front.rows
  OBVIOUS
<1> HIDE DEF front
<1>9. calls \in Seq(K \union {front})
  <2> DEFINE A == K \union {front}
             tail == IF d = 0 THEN <<>> ELSE <<front>>
  <2>1. kept \in Seq(A) /\ front \in A
    BY <1>6
  <2> HIDE DEF A, calls
  <2>2. tail \in Seq(A)
    BY <2>1
  <2>3. calls = kept \o tail
    BY <1>2
  <2> HIDE DEF tail
  <2>4. calls \in Seq(A)
    BY <2>1, <2>2, <2>3
  <2>5. QED BY <2>4 DEF A
<1>10. c \in K \union {front}
  <2>1. c \in Range(calls)
    OBVIOUS
  <2> HIDE DEF calls
  <2>2. QED BY <1>9, <2>1 DEF Range
<1>11. QED BY <1>7, <1>8, <1>10

(* The entries that a step's calls have for a request.                         *)
EntriesOf(b, calls, r) ==
  LET entries == Flat([k \in DOMAIN calls |-> Selective(b, calls[k])])
  IN  {j \in DOMAIN entries : entries[j].req = r}

(* A request has one entry if it has a logits row.                             *)
LEMMA GainedOne ==
  ASSUME NEW b, NEW calls, Len(calls) \in Nat, DOMAIN calls = 1..Len(calls), IsInjective(calls),
         Separate(Range(calls)), NEW r \in Reqs
  PROVE  Cardinality(EntriesOf(b, calls, r)) =
           IF r \in UNION {Range(c.rows) : c \in Range(calls)} THEN 1 ELSE 0
<1> DEFINE lists == [k \in DOMAIN calls |-> Selective(b, calls[k])]
           S == UNION {Range(lists[k]) : k \in DOMAIN calls}
           entries == Flat(lists)
           mine == {j \in DOMAIN entries : entries[j].req = r}
<1>1. ASSUME NEW k \in DOMAIN calls
      PROVE  LET s == Selective(b, calls[k])
                 rows == calls[k].rows
             IN  /\ lists[k] = s /\ s = [j \in 1..Len(rows) |-> s[j]] /\ Len(rows) \in Nat
                 /\ DOMAIN s = 1..Len(rows) /\ DOMAIN rows = 1..Len(rows)
                 /\ \A j \in 1..Len(rows) : s[j].req = rows[j]
                 /\ IsInjective(rows)
  <2> DEFINE c == calls[k]
  <2>1. c \in Range(calls)
    BY DEF Range
  <2>2. c.rows \in Seq(Reqs) /\ IsInjective(c.rows)
    <3> HIDE DEF c
    <3>1. QED BY <2>1 DEF Separate
  <2>3. lists[k] = Selective(b, c)
    OBVIOUS
  <2> HIDE DEF c, lists
  <2>4. DOMAIN c.rows = 1..Len(c.rows) /\ Len(c.rows) \in Nat
    BY <2>2
  <2>5. /\ Selective(b, c) = [j \in 1..Len(c.rows) |-> Selective(b, c)[j]]
        /\ \A j \in 1..Len(c.rows) : Selective(b, c)[j].req = c.rows[j]
    BY <2>2, SelectiveRows
  <2>6. DOMAIN Selective(b, c) = 1..Len(c.rows)
    BY <2>5
  <2>7. QED BY <2>2, <2>3, <2>4, <2>5, <2>6 DEF c
<1> HIDE DEF lists
<1>2. ASSUME NEW k \in DOMAIN calls
      PROVE  /\ lists[k] \in Seq(S) /\ IsInjective(lists[k])
             /\ \A j \in 1..Len(lists[k]) : lists[k][j].req = calls[k].rows[j]
             /\ \A q : (\E e \in Range(lists[k]) : e.req = q) <=> q \in Range(calls[k].rows)
  <2> DEFINE s == Selective(b, calls[k])
             rows == calls[k].rows
  <2>1. /\ lists[k] = s /\ s = [j \in 1..Len(rows) |-> s[j]] /\ Len(rows) \in Nat
        /\ DOMAIN s = 1..Len(rows) /\ DOMAIN rows = 1..Len(rows)
        /\ \A j \in 1..Len(rows) : s[j].req = rows[j]
        /\ IsInjective(rows) /\ Range(lists[k]) \subseteq S
    BY <1>1
  <2> HIDE DEF s, rows, S
  <2>2. s \in [1..Len(rows) -> S]
    BY <2>1 DEF Range
  <2>3. s \in Seq(S) /\ Len(s) = Len(rows)
    BY <2>1, <2>2, FunctionSeq
  <2>4. IsInjective(s)
    BY <2>1 DEF IsInjective
  <2>5. \A q : (\E e \in Range(s) : e.req = q) <=> q \in Range(rows)
    BY <2>1 DEF Range
  <2>6. QED BY <2>1, <2>3, <2>4, <2>5 DEF rows
<1>3. ASSUME NEW k \in DOMAIN calls, NEW l \in DOMAIN calls, k # l,
             NEW q \in Range(calls[k].rows), q \in Range(calls[l].rows)
      PROVE  FALSE
  <2>1. calls[k] # calls[l] /\ calls[k] \in Range(calls) /\ calls[l] \in Range(calls)
    BY <1>3 DEF IsInjective, Range
  <2>2. QED BY <1>3, <2>1 DEF Separate, Apart
<1>4. lists \in Seq(Seq(S)) /\ DOMAIN lists = 1..Len(calls) /\ Len(lists) = Len(calls)
  <2>1. lists \in [1..Len(calls) -> Seq(S)]
    <3>1. DOMAIN lists = 1..Len(calls) /\ lists = [k \in 1..Len(calls) |-> lists[k]]
      BY DEF lists
    <3> HIDE DEF S
    <3>2. QED BY <1>2, <3>1
  <2> HIDE DEF S
  <2>2. QED BY <2>1, FunctionSeq
<1> HIDE DEF S
<1>5. /\ entries \in Seq(S) /\ IsInjective(entries)
      /\ Range(entries) = UNION {Range(lists[i]) : i \in 1..Len(lists)}
  <2>1. \A i \in 1..Len(lists) : IsInjective(lists[i])
    BY <1>2, <1>4
  <2>2. ASSUME NEW i \in 1..Len(lists), NEW k \in 1..Len(lists), i # k, NEW e \in Range(lists[i]), e \in Range(lists[k])
        PROVE  FALSE
    <3>1. i \in DOMAIN calls /\ k \in DOMAIN calls
      BY <1>4
    <3>2. e.req \in Range(calls[i].rows) /\ e.req \in Range(calls[k].rows)
      BY <1>2, <2>2, <3>1
    <3>3. QED BY <1>3, <2>2, <3>1, <3>2
  <2>3. \A i, k \in 1..Len(lists) : i # k => Range(lists[i]) \cap Range(lists[k]) = {}
    BY <2>2
  <2>4. QED BY <1>4, <2>1, <2>3, Flattened
<1> HIDE DEF entries
<1>6. ASSUME NEW e \in Range(entries)
      PROVE  \E k \in DOMAIN calls : e \in Range(lists[k]) /\ e.req \in Range(calls[k].rows)
  <2>1. PICK k \in DOMAIN calls : e \in Range(lists[k])
    BY <1>4, <1>5
  <2>2. e.req \in Range(calls[k].rows)
    BY <1>2, <2>1
  <2>3. QED BY <2>1, <2>2
<1>7. ASSUME NEW e \in Range(entries), NEW f \in Range(entries), e.req = f.req
      PROVE  e = f
  <2>1. PICK k \in DOMAIN calls : e \in Range(lists[k]) /\ e.req \in Range(calls[k].rows)
    BY <1>6
  <2>2. PICK l \in DOMAIN calls : f \in Range(lists[l]) /\ f.req \in Range(calls[l].rows)
    BY <1>6
  <2>3. k = l
    BY <1>3, <1>7, <2>1, <2>2
  <2>4. PICK i \in DOMAIN lists[k] : e = lists[k][i]
    BY <2>1 DEF Range
  <2>5. PICK j \in DOMAIN lists[k] : f = lists[k][j]
    BY <2>2, <2>3 DEF Range
  <2>6. /\ DOMAIN lists[k] = 1..Len(lists[k]) /\ DOMAIN lists[k] = DOMAIN calls[k].rows
        /\ IsInjective(calls[k].rows)
    <3>1. DOMAIN lists[k] = DOMAIN calls[k].rows /\ IsInjective(calls[k].rows)
      BY <1>1
    <3>2. lists[k] \in Seq(S)
      BY <1>2
    <3>3. DOMAIN lists[k] = 1..Len(lists[k])
      BY <3>2
    <3>4. QED BY <3>1, <3>3
  <2>7. calls[k].rows[i] = calls[k].rows[j]
    BY <1>2, <1>7, <2>4, <2>5, <2>6
  <2>8. i = j
    BY <2>4, <2>5, <2>6, <2>7 DEF IsInjective
  <2>9. QED BY <2>4, <2>5, <2>8
<1>8. \A i, j \in mine : i = j
  <2> SUFFICES ASSUME NEW i \in DOMAIN entries, NEW j \in DOMAIN entries, entries[i].req = r, entries[j].req = r
               PROVE  i = j
    OBVIOUS
  <2>1. entries[i] = entries[j]
    BY <1>7 DEF Range
  <2>2. QED BY <1>5, <2>1 DEF IsInjective
<1>9. ASSUME r \in UNION {Range(c.rows) : c \in Range(calls)}
      PROVE  \E j \in mine : TRUE
  <2>1. PICK k \in DOMAIN calls : r \in Range(calls[k].rows)
    BY <1>9 DEF Range
  <2>2. PICK e \in Range(lists[k]) : e.req = r
    BY <1>2, <2>1
  <2>3. e \in Range(entries)
    BY <1>4, <1>5
  <2>4. PICK j \in DOMAIN entries : entries[j] = e
    BY <2>3 DEF Range
  <2>5. QED BY <2>2, <2>4
<1>10. ASSUME r \notin UNION {Range(c.rows) : c \in Range(calls)}, NEW j \in mine
       PROVE  FALSE
  <2>1. entries[j] \in Range(entries) /\ entries[j].req = r
    BY DEF Range
  <2>2. PICK k \in DOMAIN calls : r \in Range(calls[k].rows)
    BY <1>6, <2>1
  <2>3. calls[k] \in Range(calls)
    BY DEF Range
  <2>4. QED BY <1>10, <2>2, <2>3
<1>11. CASE r \in UNION {Range(c.rows) : c \in Range(calls)}
  <2>1. PICK j \in mine : TRUE
    BY <1>9, <1>11
  <2>2. mine = {j}
    <3> HIDE DEF mine
    <3>1. QED BY <1>8, <2>1
  <2> HIDE DEF mine
  <2>3. Cardinality(mine) = 1
    BY <2>2, FS_Singleton
  <2>4. QED BY <1>11, <2>3 DEF mine, entries, lists, EntriesOf
<1>12. CASE r \notin UNION {Range(c.rows) : c \in Range(calls)}
  <2>1. mine = {}
    <3> HIDE DEF mine
    <3>1. QED BY <1>10, <1>12
  <2> HIDE DEF mine
  <2>2. Cardinality(mine) = 0
    BY <2>1, FS_EmptySet
  <2>3. QED BY <1>12, <2>2 DEF mine, entries, lists, EntriesOf
<1>13. QED BY <1>11, <1>12

-----------------------------------------------------------------------------
(* A request that is preempted may be prefilled again in several steps.        *)
Redo == Chunked /\ MaxPreempts > 0

(* Where a running request stands between two steps, in a batch with the       *)
(* members M and the prompts p: one token is left to compute and the row is a  *)
(* decode's (also when the request is paused and joins again), or its prompt   *)
(* is everything known of it and not computed yet.                             *)
Rests(s, M, p, r) ==
  LET c == s.comp[r]
      known == NumTokens(s, r)
  IN  \/ c + 1 = known /\ PromptLen[r] <= c /\ (r \in M => p[r] <= c)
      \/ c < known /\ (s.outs[r] = 0 \/ (Redo /\ r \in M)) /\ (r \in M => p[r] = known)

(* Where one stands that the step has scheduled.                               *)
Takes(s, n, p, r) ==
  LET c == s.comp[r]
      known == NumTokens(s, r)
  IN  \/ c = known /\ (p[r] = known \/ (n[r] = 1 /\ p[r] < c))
      \/ c < known /\ p[r] = known /\ (s.outs[r] = 0 \/ Redo)

(* Where every running request stands, between two steps or within one.        *)
Follows(s, n, M, p, sampling) ==
  \A r \in Reqs : s.st[r] = "running" =>
    IF sampling /\ n[r] > 0 THEN Takes(s, n, p, r) ELSE Rests(s, M, p, r)

(* Requests are preempted where the scheduler may; a new one has no output.    *)
Fresh(s) ==
  \A r \in Reqs : /\ s.st[r] = "preempted" => MaxPreempts > 0
                  /\ s.st[r] = "new" => s.outs[r] = 0

(* The inductive invariant for the tokens of a step.                           *)
OnceInv ==
  /\ RunnerInv /\ use_structured_output = FALSE /\ Fresh(sched)
  /\ phase # "dead" => \E p \in [Reqs -> Nat] :
       Prompted(p) /\ Follows(sched, num_scheduled_tokens, Members(batch), p, phase = "sample")

(* No grammars; and a preempted request starts over, with a prompt that is not *)
(* split if the request may be left out of steps.                              *)
StartsOver == MaxPreempts = 0 \/ (Hits \subseteq {0} /\ ~(Chunked /\ MayPause))
(* The conditions for one token per completed request and step.                *)
OneEach == Structured = {} /\ StartsOver

(* The parts of the invariant, of the state after a step.                      *)
LEMMA PromptedAfter ==
  ASSUME NEW p \in [Reqs -> Nat], PromptedNext(p)
  PROVE  Prompted(p)'
<1>1. Granted(sched, num_scheduled_tokens, p)' = Granted(sched', num_scheduled_tokens', p)
  BY DEF Granted, NumTokens
<1>2. Table(batch, Granted(sched, num_scheduled_tokens, p))'
  BY <1>1 DEF PromptedNext, Table, IsBatch, Holes, Members, HasRow, Clean, Vacant
<1>3. QED BY <1>2 DEF Prompted

(* The same for where the requests stand.                                      *)
LEMMA FollowsAfter ==
  ASSUME NEW p \in [Reqs -> Nat], Follows(sched', num_scheduled_tokens', Members(batch'), p, phase' = "sample")
  PROVE  Follows(sched, num_scheduled_tokens, Members(batch), p, phase = "sample")'
BY DEF Follows, Takes, Rests, NumTokens, Members, Redo

(* The same for the requests that wait.                                        *)
LEMMA FreshAfter ==
  ASSUME Fresh(sched')
  PROVE  Fresh(sched)'
BY DEF Fresh

(* What it takes for the invariant to hold after a step.                       *)
LEMMA OnceAfter ==
  ASSUME RunnerInv', use_structured_output' = FALSE, Fresh(sched'),
         phase' # "dead" => \E p \in [Reqs -> Nat] :
           PromptedNext(p) /\ Follows(sched', num_scheduled_tokens', Members(batch'), p, phase' = "sample")
  PROVE  OnceInv'
<1>1. phase' # "dead" => \E p \in [Reqs -> Nat] :
        Prompted(p)' /\ Follows(sched, num_scheduled_tokens, Members(batch), p, phase = "sample")'
  BY PromptedAfter, FollowsAfter
<1>2. Fresh(sched)'
  BY FreshAfter
<1>3. QED BY <1>1, <1>2 DEF OnceInv

(* The invariant holds at the start.                                           *)
LEMMA OnceInit == Init => OnceInv
<1> SUFFICES ASSUME Init PROVE OnceInv
  OBVIOUS
<1>1. RunnerInv
  BY RunnerInit
<1>2. PICK p \in [Reqs -> Nat] : Prompted(p)
  BY <1>1 DEF RunnerInv, BatchHolds, Prompted
<1>3. /\ use_structured_output = FALSE /\ \A r \in Reqs : sched.st[r] = "new" /\ sched.outs[r] = 0
  BY DEF Init
<1>4. Fresh(sched) /\ Follows(sched, num_scheduled_tokens, Members(batch), p, phase = "sample")
  BY <1>3 DEF Fresh, Follows
<1>5. QED BY <1>1, <1>2, <1>3, <1>4 DEF OnceInv

(* The scheduling of a step of execute_model.                                  *)
LEMMA ScheduleOf ==
  ASSUME ExecuteModel
  PROVE  \E fin \in SUBSET (In("running") \union In("preempted")), pre \in SUBSET In("running"),
            n \in [Reqs -> Nat], hit \in Hits :
           /\ fin \cap pre = {} /\ LegalSchedule(fin, pre, n, hit)
           /\ sched' = Scheduled(fin, pre, n, hit) /\ num_scheduled_tokens' = n
<1>1. PICK fin \in SUBSET (In("running") \union In("preempted")), pre \in SUBSET In("running"),
           n \in [Reqs -> 0..(Max(Range(PromptLen)) + MaxOut)], hit \in Hits :
        /\ fin \cap pre = {}
        /\ LegalSchedule(fin, pre, n, hit)
        /\ LET s       == Scheduled(fin, pre, n, hit)
               blocks  == UpdatedBlockIds(s, n)
               adding  == {r \in Reqs : n[r] > 0} \ Members(batch)
               leaving == {r \in Members(batch) : n[r] = 0}
               freed   == FreedSlots(fin)
               lacking == Cardinality({r \in adding : freed.slot[r] = 0}) > Len(freed.free)
           IN \E order \in SetToSeqs(adding) :
                LET b == UpdatedBatch(batch, s, n, order, blocks)
                IN  /\ \A i, j \in DOMAIN order :
                         sched.st[order[j]] = "new" /\ sched.st[order[i]] # "new" => j < i
                    /\ sched' = s
                    /\ num_scheduled_tokens' = n
                    /\ block_ids' = blocks
                    /\ batch' = b
                    /\ batch_changed' = (leaving \union adding # {})
                    /\ dev' = IF batch_changed' THEN [i \in Rows |-> b.row[i].own] ELSE dev
                    /\ gdn' = IF lacking THEN freed ELSE AllocSlots(freed, order)
                    /\ phase' = IF lacking THEN "dead"
                                ELSE IF \E r \in Reqs : n[r] > 0 THEN "sample" ELSE "execute"
  BY DEF ExecuteModel
<1>2. sched' = Scheduled(fin, pre, n, hit) /\ num_scheduled_tokens' = n
  BY <1>1
<1>3. n \in [Reqs -> Nat] /\ fin \cap pre = {} /\ LegalSchedule(fin, pre, n, hit)
  BY <1>1
<1>4. QED BY <1>2, <1>3

(* After it something is scheduled only if sampling follows.                   *)
LEMMA PhaseAfter ==
  ASSUME ExecuteModel, phase' # "dead", phase' # "sample", NEW q \in Reqs
  PROVE  ~(num_scheduled_tokens'[q] > 0)
<1>1. PICK fin \in SUBSET (In("running") \union In("preempted")), pre \in SUBSET In("running"),
           n \in [Reqs -> 0..(Max(Range(PromptLen)) + MaxOut)], hit \in Hits :
        /\ fin \cap pre = {}
        /\ LegalSchedule(fin, pre, n, hit)
        /\ LET s       == Scheduled(fin, pre, n, hit)
               blocks  == UpdatedBlockIds(s, n)
               adding  == {r \in Reqs : n[r] > 0} \ Members(batch)
               leaving == {r \in Members(batch) : n[r] = 0}
               freed   == FreedSlots(fin)
               lacking == Cardinality({r \in adding : freed.slot[r] = 0}) > Len(freed.free)
           IN \E order \in SetToSeqs(adding) :
                LET b == UpdatedBatch(batch, s, n, order, blocks)
                IN  /\ \A i, j \in DOMAIN order :
                         sched.st[order[j]] = "new" /\ sched.st[order[i]] # "new" => j < i
                    /\ sched' = s
                    /\ num_scheduled_tokens' = n
                    /\ block_ids' = blocks
                    /\ batch' = b
                    /\ batch_changed' = (leaving \union adding # {})
                    /\ dev' = IF batch_changed' THEN [i \in Rows |-> b.row[i].own] ELSE dev
                    /\ gdn' = IF lacking THEN freed ELSE AllocSlots(freed, order)
                    /\ phase' = IF lacking THEN "dead"
                                ELSE IF \E r \in Reqs : n[r] > 0 THEN "sample" ELSE "execute"
  BY DEF ExecuteModel
<1>2. QED BY <1>1

(* What a legal schedule does to the count of one request.                     *)
Granting(s, n, hit, r) ==
  LET left(c) == n[r] = NumTokens(sched, r) - c \/ (Chunked /\ n[r] < NumTokens(sched, r) - c)
  IN  /\ s.st[r] = "running" /\ n[r] = 0 =>
           MayPause /\ sched.st[r] = "running" /\ s.comp[r] = sched.comp[r]
      /\ n[r] > 0 => \/ sched.st[r] = "running" /\ s.comp[r] = sched.comp[r] + n[r] /\ left(sched.comp[r])
                     \/ sched.st[r] \in {"new", "preempted"} /\ s.comp[r] = hit + n[r] /\ left(hit)

(* Every legal schedule does that.                                             *)
LEMMA Grants ==
  ASSUME TypeOK, NEW fin \in SUBSET (In("running") \union In("preempted")), NEW pre \in SUBSET In("running"),
         NEW n \in [Reqs -> Nat], NEW hit \in Hits, fin \cap pre = {}, LegalSchedule(fin, pre, n, hit),
         NEW r \in Reqs
  PROVE  Granting(Scheduled(fin, pre, n, hit), n, hit, r)
<1> DEFINE s == Scheduled(fin, pre, n, hit)
           join == Starting(n)
           stay == In("running") \ (fin \union pre)
<1>1. s.st[r] = IF r \in fin THEN "done"
                ELSE IF r \in pre THEN "preempted"
                ELSE IF r \in join THEN "running" ELSE sched.st[r]
  BY DEF Scheduled
<1>2. s.comp[r] = IF r \in pre THEN 0
                  ELSE IF r \in join THEN hit + n[r] ELSE sched.comp[r] + n[r]
  BY DEF Scheduled
<1>3. n[r] > 0 => /\ r \in stay \union (join \ fin)
                  /\ LET left == NumTokens(sched, r) - (IF r \in join THEN hit ELSE sched.comp[r])
                     IN  n[r] = left \/ (Chunked /\ n[r] < left)
  BY DEF LegalSchedule
<1>4. ~MayPause => \A q \in stay : n[q] > 0
  BY DEF LegalSchedule
<1>5. /\ r \in In("running") <=> sched.st[r] = "running"
      /\ r \in join <=> sched.st[r] \in {"new", "preempted"} /\ n[r] > 0
      /\ r \in stay <=> sched.st[r] = "running" /\ r \notin fin /\ r \notin pre
      /\ n[r] \in Nat /\ sched.comp[r] \in Nat
  BY DEF Starting, In, TypeOK
<1> HIDE DEF s, join, stay
<1>6. ASSUME s.st[r] = "running", n[r] = 0
      PROVE  MayPause /\ sched.st[r] = "running" /\ s.comp[r] = sched.comp[r]
  <2>1. r \notin fin /\ r \notin pre /\ r \notin join /\ sched.st[r] = "running"
    BY <1>1, <1>5, <1>6
  <2>2. r \in stay
    BY <1>5, <2>1
  <2>3. MayPause
    BY <1>4, <1>6, <2>2
  <2>4. s.comp[r] = sched.comp[r]
    BY <1>2, <1>5, <1>6, <2>1
  <2>5. QED BY <2>1, <2>3, <2>4
<1>7. ASSUME n[r] > 0
      PROVE  \/ /\ sched.st[r] = "running" /\ s.comp[r] = sched.comp[r] + n[r]
                /\ n[r] = NumTokens(sched, r) - sched.comp[r] \/ (Chunked /\ n[r] < NumTokens(sched, r) - sched.comp[r])
             \/ /\ sched.st[r] \in {"new", "preempted"} /\ s.comp[r] = hit + n[r]
                /\ n[r] = NumTokens(sched, r) - hit \/ (Chunked /\ n[r] < NumTokens(sched, r) - hit)
  <2>1. CASE r \in join
    <3>1. r \notin pre
      BY <1>5, <2>1 DEF In
    <3>2. QED BY <1>2, <1>3, <1>5, <1>7, <2>1, <3>1
  <2>2. CASE r \notin join
    <3>1. r \in stay
      BY <1>3, <1>7, <2>2
    <3>2. QED BY <1>2, <1>3, <1>5, <1>7, <2>2, <3>1
  <2>3. QED BY <2>1, <2>2
<1>8. QED BY <1>6, <1>7 DEF Granting, s

(* A running request of the next step is where the invariant says.             *)
LEMMA GrantFollows ==
  ASSUME OneEach, TypeOK, Fresh(sched), NEW s, NEW n \in [Reqs -> Nat], NEW hit \in Hits, NEW M, NEW r \in Reqs,
         NEW p \in [Reqs -> Nat], NEW q \in [Reqs -> Nat],
         s.st[r] = "running", s.outs = sched.outs, Granting(s, n, hit, r),
         r \in M => sched.st[r] = "running",
         sched.st[r] = "running" => Rests(sched, M, p, r),
         q[r] = IF r \in M THEN p[r] ELSE IF s.comp[r] - n[r] = 0 THEN NumTokens(s, r) ELSE PromptLen[r]
  PROVE  /\ n[r] > 0 => Takes(s, n, q, r)
         /\ n[r] = 0 => Rests(s, {x \in Reqs : n[x] > 0}, q, r)
<1> DEFINE c == sched.comp[r]
           N == NumTokens(sched, r)
           o == sched.outs[r]
           k == n[r]
           P == PromptLen[r]
           d == s.comp[r]
           a == p[r]
           z == q[r]
           inM == r \in M
<1>1. /\ c \in Nat /\ o \in Nat /\ k \in Nat /\ P \in Nat \ {0} /\ N = P + o /\ a \in Nat /\ z \in Nat
      /\ hit \in Nat /\ NumTokens(s, r) = N /\ s.outs[r] = o /\ MaxPreempts \in Nat
  BY PromptAssumption, RunnerAssumption DEF TypeOK, NumTokens
<1>2. MaxPreempts = 0 \/ (Hits \subseteq {0} /\ ~(Chunked /\ MayPause))
  BY DEF OneEach, StartsOver
<1>3. sched.st[r] = "running" =>
        \/ c + 1 = N /\ P <= c /\ (inM => a <= c)
        \/ c < N /\ (o = 0 \/ (Redo /\ inM)) /\ (inM => a = N)
  BY DEF Rests
<1>4. z = IF inM THEN a ELSE IF d - k = 0 THEN N ELSE P
  BY <1>1
<1>5. sched.st[r] = "preempted" => MaxPreempts > 0 /\ hit = 0
  BY <1>1, <1>2 DEF Fresh
<1>6. sched.st[r] = "new" => o = 0
  BY DEF Fresh
<1>7. inM => sched.st[r] = "running"
  OBVIOUS
<1>8. k = 0 => MayPause /\ sched.st[r] = "running" /\ d = c
  BY DEF Granting
<1>9. k > 0 => \/ sched.st[r] = "running" /\ d = c + k /\ (k = N - c \/ (Chunked /\ k < N - c))
               \/ sched.st[r] \in {"new", "preempted"} /\ d = hit + k /\ (k = N - hit \/ (Chunked /\ k < N - hit))
  BY DEF Granting
<1>10. ASSUME (d = N /\ (z = N \/ (k = 1 /\ z < d))) \/ (d < N /\ z = N /\ (o = 0 \/ Redo))
       PROVE  Takes(s, n, q, r)
  BY <1>1, <1>10 DEF Takes
<1>11. ASSUME k = 0, (d + 1 = N /\ P <= d) \/ (d < N /\ o = 0)
       PROVE  Rests(s, {x \in Reqs : n[x] > 0}, q, r)
  <2>1. r \notin {x \in Reqs : n[x] > 0}
    BY <1>11
  <2>2. QED BY <1>1, <1>11, <2>1 DEF Rests
<1> DEFINE st == sched.st[r]
<1> HIDE DEF c, N, o, k, P, d, a, z, inM, st
<1>12. ASSUME k > 0, st = "running" PROVE Takes(s, n, q, r)
  <2>1. d = c + k /\ (k = N - c \/ (Chunked /\ k < N - c))
    BY <1>9, <1>12 DEF st
  <2>2. CASE c + 1 = N /\ P <= c /\ (inM => a <= c)
    <3>1. k = 1 /\ d = N /\ d - k # 0
      BY <1>1, <1>12, <2>1, <2>2
    <3>2. z < d
      BY <1>1, <1>4, <2>1, <2>2, <3>1
    <3>3. QED BY <1>10, <3>1, <3>2
  <2>3. CASE c < N /\ (o = 0 \/ (Redo /\ inM)) /\ (inM => a = N)
    <3>1. z = N
      BY <1>1, <1>4, <2>3
    <3>2. d = N \/ d < N
      BY <1>1, <2>1
    <3>3. QED BY <1>10, <2>3, <3>1, <3>2
  <2>4. QED BY <1>3, <1>12, <2>2, <2>3 DEF st
<1>13. ASSUME k > 0, st # "running" PROVE Takes(s, n, q, r)
  <2>1. st \in {"new", "preempted"} /\ d = hit + k /\ (k = N - hit \/ (Chunked /\ k < N - hit)) /\ ~inM
    BY <1>7, <1>9, <1>13 DEF st
  <2>2. d = N \/ (d < N /\ Chunked)
    BY <1>1, <2>1
  <2>3. CASE st = "new"
    <3>1. z = N /\ o = 0
      BY <1>1, <1>4, <1>6, <2>1, <2>3 DEF st
    <3>2. QED BY <1>10, <2>2, <3>1
  <2>4. CASE st = "preempted"
    <3>1. hit = 0 /\ MaxPreempts > 0
      BY <1>5, <2>4 DEF st
    <3>2. z = N
      BY <1>1, <1>4, <2>1, <3>1
    <3>3. QED BY <1>10, <2>2, <3>1, <3>2 DEF Redo
  <2>5. QED BY <2>1, <2>3, <2>4
<1>14. ASSUME k = 0 PROVE Rests(s, {x \in Reqs : n[x] > 0}, q, r)
  <2>1. MayPause /\ st = "running" /\ d = c
    BY <1>8, <1>14 DEF st
  <2>2. ~Redo
    BY <1>1, <1>2, <2>1 DEF Redo
  <2>3. (d + 1 = N /\ P <= d) \/ (d < N /\ o = 0)
    BY <1>3, <2>1, <2>2 DEF st
  <2>4. QED BY <1>11, <1>14, <2>3
<1>15. QED BY <1>1, <1>12, <1>13, <1>14 DEF k

(* A step of execute_model keeps the invariant.                                *)
LEMMA OnceExecute ==
  ASSUME OneEach, OnceInv, ExecuteModel
  PROVE  OnceInv'
<1>1. /\ RunnerInv /\ TypeOK /\ use_structured_output = FALSE /\ Fresh(sched)
      /\ phase = "execute" /\ use_structured_output' = use_structured_output
  BY DEF OnceInv, RunnerInv, ExecuteModel
<1>2. PICK p \in [Reqs -> Nat] :
        Prompted(p) /\ Follows(sched, num_scheduled_tokens, Members(batch), p, phase = "sample")
  BY <1>1 DEF OnceInv
<1>3. PICK q \in [Reqs -> Nat] : PromptedNext(q) /\ Reprompted(p, q)
  BY <1>1, <1>2, ExecuteStep
<1>4. RunnerInv'
  BY <1>1, <1>2, ExecuteStep
<1>5. PICK fin \in SUBSET (In("running") \union In("preempted")), pre \in SUBSET In("running"),
           n \in [Reqs -> Nat], hit \in Hits :
        /\ fin \cap pre = {} /\ LegalSchedule(fin, pre, n, hit)
        /\ sched' = Scheduled(fin, pre, n, hit) /\ num_scheduled_tokens' = n
  BY ScheduleOf
<1>6. Advances(sched', n)
  BY <1>1, <1>5, Schedules
<1>7. \A r \in Reqs : Granting(sched', n, hit, r)
  BY <1>1, <1>5, Grants
<1>8. sched'.outs = sched.outs
  BY <1>6 DEF Advances
<1>9. Members(batch') = {r \in Reqs : n[r] > 0}
  <2>1. BatchHolds'
    BY <1>4 DEF RunnerInv
  <2>2. QED BY <1>5, <2>1 DEF BatchHolds, Members
<1>10. \A r \in Members(batch) : sched.st[r] = "running"
  BY <1>1 DEF RunnerInv, RunningCurrent, In
<1>11. \A r \in Reqs : sched.st[r] = "running" => Rests(sched, Members(batch), p, r)
  BY <1>1, <1>2 DEF Follows
<1>12. ASSUME NEW r \in Reqs, sched'.st[r] = "running"
       PROVE  /\ n[r] > 0 => Takes(sched', n, q, r)
              /\ n[r] = 0 => Rests(sched', {x \in Reqs : n[x] > 0}, q, r)
  <2>1. q[r] = IF r \in Members(batch) THEN p[r]
               ELSE IF sched'.comp[r] - n[r] = 0 THEN NumTokens(sched', r) ELSE PromptLen[r]
    BY <1>3, <1>5 DEF Reprompted
  <2>2. /\ Granting(sched', n, hit, r) /\ (r \in Members(batch) => sched.st[r] = "running")
        /\ (sched.st[r] = "running" => Rests(sched, Members(batch), p, r))
    BY <1>7, <1>10, <1>11
  <2> DEFINE s == sched'
             M == Members(batch)
  <2>3. /\ s.st[r] = "running" /\ s.outs = sched.outs /\ Granting(s, n, hit, r)
        /\ q[r] = IF r \in M THEN p[r] ELSE IF s.comp[r] - n[r] = 0 THEN NumTokens(s, r) ELSE PromptLen[r]
        /\ (r \in M => sched.st[r] = "running") /\ (sched.st[r] = "running" => Rests(sched, M, p, r))
    BY <1>8, <1>12, <2>1, <2>2
  <2> HIDE DEF s, M
  <2>4. /\ n[r] > 0 => Takes(s, n, q, r)
        /\ n[r] = 0 => Rests(s, {x \in Reqs : n[x] > 0}, q, r)
    BY <1>1, <2>3, GrantFollows
  <2>5. QED BY <2>4 DEF s
<1>13. ASSUME phase' # "dead"
       PROVE  Follows(sched', num_scheduled_tokens', Members(batch'), q, phase' = "sample")
  <2>1. phase' # "sample" => \A r \in Reqs : ~(n[r] > 0)
    BY <1>5, <1>13, PhaseAfter
  <2>2. \A r \in Reqs : n[r] > 0 \/ n[r] = 0
    OBVIOUS
  <2>3. QED BY <1>5, <1>9, <1>12, <2>1, <2>2 DEF Follows
<1>14. Fresh(sched')
  <2> SUFFICES ASSUME NEW r \in Reqs
               PROVE  /\ sched'.st[r] = "preempted" => MaxPreempts > 0
                      /\ sched'.st[r] = "new" => sched'.outs[r] = 0
    BY DEF Fresh
  <2>1. sched'.st[r] = IF r \in fin THEN "done"
                       ELSE IF r \in pre THEN "preempted"
                       ELSE IF r \in Starting(n) THEN "running" ELSE sched.st[r]
    BY <1>5 DEF Scheduled
  <2>2. r \in pre => sched.epoch[r] < MaxPreempts /\ sched.epoch[r] \in Nat /\ MaxPreempts \in Nat
    BY <1>1, <1>5, RunnerAssumption DEF LegalSchedule, TypeOK
  <2>3. r \in pre => MaxPreempts > 0
    BY <2>2
  <2>4. QED BY <1>1, <1>8, <2>1, <2>3 DEF Fresh
<1>15. QED BY <1>1, <1>3, <1>4, <1>13, <1>14, OnceAfter

(* A scheduled request all of whose known tokens are computed.                 *)
Complete(r) == num_scheduled_tokens[r] > 0 /\ sched.comp[r] = NumTokens(sched, r)

(* A row's logits: none but the last of a prompt that is complete.             *)
LEMMA RowLogits ==
  ASSUME TypeOK, use_structured_output = FALSE, NEW p \in [Reqs -> Nat], NEW r \in Reqs, NEW b,
         NEW i, b.req_ids[i] = r, num_scheduled_tokens[r] > 0, Takes(sched, num_scheduled_tokens, p, r),
         HasRow(b.row[i], r, Granted(sched, num_scheduled_tokens, p))
  PROVE  IF IsPrompt(b, num_scheduled_tokens, i) THEN NumLogits(b, i) = IF Complete(r) THEN 1 ELSE 0
                                                 ELSE Complete(r)
<1> DEFINE c == sched.comp[r]
           N == NumTokens(sched, r)
           k == num_scheduled_tokens[r]
           a == p[r]
           extra == (c - k) + k - a + 1
<1>1. c \in Nat /\ N \in Nat /\ k \in Nat /\ k > 0 /\ a \in Nat
  BY PromptAssumption DEF TypeOK, NumTokens
<1>2. b.row[i].comp = c - k /\ b.row[i].prompt = a
  BY DEF HasRow, Granted
<1>3. \/ c = N /\ (a = N \/ (k = 1 /\ a < c))
      \/ c < N /\ a = N
  BY DEF Takes
<1>4. IsPrompt(b, num_scheduled_tokens, i) <=> c - k < a \/ k > 1
  BY <1>2 DEF IsPrompt
<1>5. NumLogits(b, i) = IF extra < 1 THEN 0 ELSE Min({extra, k})
  BY <1>2 DEF NumLogits
<1>6. Complete(r) <=> c = N
  BY <1>1 DEF Complete
<1> HIDE DEF c, N, k, a
<1>7. extra = c - a + 1
  BY <1>1
<1>8. CASE c = N /\ a = N
  <2>1. extra = 1 /\ ~(extra < 1)
    BY <1>1, <1>7, <1>8
  <2>2. Min({1, k}) = 1
    <3>1. Min({1, k}) \in {1, k} /\ Min({1, k}) <= 1 /\ Min({1, k}) <= k
      BY <1>1, MinOfTwo, MinMember
    <3>2. QED BY <1>1, <3>1
  <2>3. NumLogits(b, i) = 1
    BY <1>5, <2>1, <2>2
  <2>4. c - k < a
    BY <1>1, <1>8
  <2>5. QED BY <1>4, <1>6, <1>8, <2>3, <2>4
<1>9. CASE c = N /\ k = 1 /\ a < c
  <2>1. ~(c - k < a) /\ ~(k > 1)
    BY <1>1, <1>9
  <2>2. QED BY <1>4, <1>6, <1>9, <2>1
<1>10. CASE c < N /\ a = N
  <2>1. extra < 1 /\ c - k < a /\ c # N
    BY <1>1, <1>7, <1>10
  <2>2. QED BY <1>4, <1>5, <1>6, <2>1
<1>11. QED BY <1>3, <1>8, <1>9, <1>10

(* Each request of the batch that is complete has one row in one call, and no  *)
(* other has; if all are complete, the metadata is theirs, too.                *)
Served(b, calls) ==
  /\ Len(calls) \in Nat /\ DOMAIN calls = 1..Len(calls) /\ IsInjective(calls) /\ Separate(Range(calls))
  /\ UNION {Range(c.rows) : c \in Range(calls)} = {r \in Members(b) : Complete(r)}
  /\ (\A r \in Members(b) : Complete(r)) => \A c \in Range(calls) : c.meta = c.rows

LEMMA StepCalls ==
  ASSUME Structured = {}, TypeOK, BatchHolds, RunningCurrent, use_structured_output = FALSE,
         NEW p \in [Reqs -> Nat], Prompted(p),
         Follows(sched, num_scheduled_tokens, Members(batch), p, TRUE)
  PROVE  LET b == Reordered(batch, num_scheduled_tokens)
         IN  /\ Table(b, Granted(sched, num_scheduled_tokens, p)) /\ Holes(b) = {} /\ Members(b) = Members(batch)
             /\ Served(b, SamplingCalls(b))
<1> DEFINE n == num_scheduled_tokens
           w == Granted(sched, n, p)
           b == Reordered(batch, n)
           d == NumDecodes(b, n)
           m == Len(b.req_ids)
           calls == SamplingCalls(b)
<1>2. /\ Table(batch, w) /\ Holes(batch) = {} /\ Members(batch) = {r \in Reqs : n[r] > 0}
      /\ n \in [Reqs -> Nat] /\ \A r \in Members(batch) : sched.st[r] = "running"
  BY DEF Prompted, BatchHolds, TypeOK, RunningCurrent, In
<1>3. \A r \in Members(batch) : n[r] \in Nat \ {0}
  BY <1>2
<1>4. /\ Table(b, w) /\ Holes(b) = {} /\ Members(b) = Members(batch)
      /\ d \in 0..m /\ \A i \in DOMAIN b.req_ids : IsPrompt(b, n, i) <=> i > d
  <2> HIDE DEF w, n
  <2>1. QED BY <1>2, <1>3, ReorderedBatch
<1>5. /\ m \in Nat /\ DOMAIN b.req_ids = 1..m
      /\ \A i \in 1..m : b.req_ids[i] \in Members(b) /\ b.req_ids[i] \in Reqs /\ b.index[b.req_ids[i]] = i
      /\ \A r \in Members(b) : b.index[r] \in 1..m /\ b.req_ids[b.index[r]] = r
  <2> HIDE DEF b, w
  <2>1. m \in Nat /\ DOMAIN b.req_ids = 1..m
        /\ \A i \in 1..m : b.req_ids[i] \in Members(b) /\ b.req_ids[i] \in Reqs /\ b.index[b.req_ids[i]] = i
    BY <1>4, FullRows
  <2>2. \A r \in Members(b) : b.index[r] \in DOMAIN b.req_ids /\ b.req_ids[b.index[r]] = r
    BY <1>4 DEF Table
  <2>3. QED BY <2>1, <2>2
<1> HIDE DEF b
<1>6. ASSUME NEW i \in 1..m
      PROVE  /\ i > d => NumLogits(b, i) = IF Complete(b.req_ids[i]) THEN 1 ELSE 0
             /\ ~(i > d) => Complete(b.req_ids[i])
  <2> DEFINE r == b.req_ids[i]
  <2>1. r \in Reqs /\ r \in Members(b) /\ b.index[r] = i /\ n[r] > 0 /\ sched.st[r] = "running"
    BY <1>2, <1>4, <1>5
  <2>2. Takes(sched, n, p, r)
    BY <2>1 DEF Follows
  <2>3. HasRow(b.row[i], r, w)
    <3> HIDE DEF w, r
    <3>1. HasRow(b.row[b.index[r]], r, w)
      BY <1>4, <2>1 DEF Table
    <3>2. QED BY <2>1, <3>1
  <2>4. b.req_ids[i] = r
    OBVIOUS
  <2> HIDE DEF r
  <2>5. IF IsPrompt(b, n, i) THEN NumLogits(b, i) = IF Complete(r) THEN 1 ELSE 0 ELSE Complete(r)
    BY <2>1, <2>2, <2>3, <2>4, RowLogits
  <2>6. IsPrompt(b, n, i) <=> i > d
    BY <1>4, <1>5
  <2>7. QED BY <2>4, <2>5, <2>6
<1> HIDE DEF w, d, n, m
<1>7. d \in Nat /\ d <= m /\ \A i \in (d + 1)..m : i \in 1..m /\ i > d /\ NumLogits(b, i) \in {0, 1}
  <2>1. d \in Nat /\ d <= m
    BY <1>4, <1>5
  <2>2. \A i \in (d + 1)..m : i \in 1..m /\ i > d
    BY <1>5, <2>1
  <2>3. QED BY <1>6, <2>1, <2>2
<1>8. GrammarRequests = {}
  BY DEF GrammarRequests
<1>9. /\ Len(calls) \in Nat /\ DOMAIN calls = 1..Len(calls) /\ IsInjective(calls)
      /\ Separate(Range(calls))
      /\ UNION {Range(c.rows) : c \in Range(calls)} = Yields(b, d)
  BY <1>4, <1>7, <1>8, CallsOnce DEF d, n, m
<1>10. Yields(b, d) = {r \in Members(b) : Complete(r)}
  <2>1. ASSUME NEW r \in Yields(b, d) PROVE r \in Members(b) /\ Complete(r)
    <3>1. CASE r \in {b.req_ids[i] : i \in 1..d}
      <4>1. PICK i \in 1..d : r = b.req_ids[i]
        BY <3>1
      <4>2. i \in 1..m /\ ~(i > d)
        BY <1>5, <1>7
      <4>3. QED BY <1>5, <1>6, <4>1, <4>2
    <3>2. CASE r \notin {b.req_ids[i] : i \in 1..d}
      <4>1. PICK i \in (d + 1)..m : NumLogits(b, i) = 1 /\ r = b.req_ids[i]
        BY <2>1, <3>2 DEF Yields, m
      <4>2. i \in 1..m /\ i > d
        BY <1>7
      <4>3. NumLogits(b, i) = IF Complete(r) THEN 1 ELSE 0
        BY <1>6, <4>1, <4>2
      <4>4. QED BY <1>5, <4>1, <4>2, <4>3
    <3>3. QED BY <3>1, <3>2
  <2>2. ASSUME NEW r \in Members(b), Complete(r) PROVE r \in Yields(b, d)
    <3> DEFINE i == b.index[r]
    <3>1. i \in 1..m /\ b.req_ids[i] = r
      BY <1>5
    <3> HIDE DEF i
    <3>2. CASE i > d
      <4>1. i \in (d + 1)..m /\ NumLogits(b, i) = 1
        BY <1>5, <1>6, <1>7, <2>2, <3>1, <3>2
      <4>2. QED BY <3>1, <4>1 DEF Yields, m
    <3>3. CASE ~(i > d)
      <4>1. i \in 1..d
        BY <1>5, <1>7, <3>1, <3>3
      <4>2. QED BY <3>1, <4>1 DEF Yields
    <3>4. QED BY <3>2, <3>3
  <2>3. QED BY <2>1, <2>2
<1>11. ASSUME \A r \in Members(b) : Complete(r), NEW c \in Range(calls)
       PROVE  c.meta = c.rows
  <2>1. \A i \in (d + 1)..m : NumLogits(b, i) = 1
    BY <1>5, <1>6, <1>7, <1>11
  <2>2. QED BY <1>4, <1>8, <2>1, MetaOwn DEF d, n, m
<1> HIDE DEF calls
<1>12. Served(b, calls)
  BY <1>9, <1>10, <1>11 DEF Served
<1>13. QED BY <1>4, <1>12 DEF calls, b, w, n

(* Every request that is complete gains a token, and no other does.            *)
LEMMA TokensGained ==
  ASSUME Structured = {}, TypeOK, BatchHolds, RunningCurrent, use_structured_output = FALSE, SampleTokens,
         NEW p \in [Reqs -> Nat], Prompted(p),
         Follows(sched, num_scheduled_tokens, Members(batch), p, TRUE)
  PROVE  sched' = [sched EXCEPT !.outs = [r \in Reqs |-> sched.outs[r] + IF Complete(r) THEN 1 ELSE 0]]
<1> DEFINE b == Reordered(batch, num_scheduled_tokens)
           calls == SamplingCalls(b)
           entries == Flat([k \in DOMAIN calls |-> Selective(b, calls[k])])
           gained(r) == Cardinality({j \in DOMAIN entries : entries[j].req = r})
<1>1. sched' = [sched EXCEPT !.outs = [r \in Reqs |-> sched.outs[r] + gained(r)]]
  BY DEF SampleTokens
<1>2. Members(b) = Members(batch) /\ Served(b, calls)
  BY StepCalls
<1>3. Members(batch) = {r \in Reqs : num_scheduled_tokens[r] > 0}
  BY DEF BatchHolds
<1> HIDE DEF b, calls
<1>4. ASSUME NEW r \in Reqs
      PROVE  gained(r) = IF Complete(r) THEN 1 ELSE 0
  <2>1. gained(r) = IF r \in UNION {Range(c.rows) : c \in Range(calls)} THEN 1 ELSE 0
    <3>1. Cardinality(EntriesOf(b, calls, r)) = IF r \in UNION {Range(c.rows) : c \in Range(calls)} THEN 1 ELSE 0
      BY <1>2, GainedOne DEF Served
    <3>2. gained(r) = Cardinality(EntriesOf(b, calls, r))
      BY DEF EntriesOf
    <3> HIDE DEF gained
    <3>3. QED BY <3>1, <3>2
  <2> HIDE DEF gained
  <2>2. gained(r) = IF r \in Members(b) /\ Complete(r) THEN 1 ELSE 0
    BY <1>2, <2>1 DEF Served
  <2>3. Complete(r) => r \in Members(b)
    BY <1>2, <1>3 DEF Complete
  <2>4. QED BY <2>2, <2>3
<1> HIDE DEF gained
<1>5. [r \in Reqs |-> sched.outs[r] + gained(r)] = [r \in Reqs |-> sched.outs[r] + IF Complete(r) THEN 1 ELSE 0]
  BY <1>4
<1>6. QED BY <1>1, <1>5

(* A step of sample_tokens keeps the invariant.                                *)
LEMMA OnceSample ==
  ASSUME Structured = {}, OnceInv, SampleTokens
  PROVE  /\ OnceInv'
         /\ \A r \in Reqs : sched'.outs[r] = sched.outs[r] + IF Complete(r) THEN 1 ELSE 0
<1>1. /\ RunnerInv /\ TypeOK /\ BatchHolds /\ RunningCurrent /\ use_structured_output = FALSE /\ Fresh(sched)
      /\ phase = "sample" /\ num_scheduled_tokens' = num_scheduled_tokens /\ phase' = "execute"
      /\ use_structured_output' = (GrammarRequests # {})
  BY DEF OnceInv, RunnerInv, SampleTokens
<1>2. PICK p \in [Reqs -> Nat] :
        Prompted(p) /\ Follows(sched, num_scheduled_tokens, Members(batch), p, phase = "sample")
  BY <1>1 DEF OnceInv
<1>3. RunnerInv' /\ PromptedNext(p)
  BY <1>1, <1>2, SampleStep
<1>4. Follows(sched, num_scheduled_tokens, Members(batch), p, TRUE)
  BY <1>1, <1>2 DEF Follows
<1> DEFINE outs == [r \in Reqs |-> sched.outs[r] + IF Complete(r) THEN 1 ELSE 0]
<1>5. sched' = [sched EXCEPT !.outs = outs]
  BY <1>1, <1>2, <1>4, TokensGained
<1>6. \A r \in Reqs : outs[r] = sched.outs[r] + IF Complete(r) THEN 1 ELSE 0
  OBVIOUS
<1> HIDE DEF outs
<1>7. sched'.outs = outs /\ sched'.st = sched.st /\ sched'.comp = sched.comp
  BY <1>1, <1>5 DEF RunningCurrent
<1>8. Members(batch') = Members(batch) /\ Members(batch) = {r \in Reqs : num_scheduled_tokens[r] > 0}
  <2>1. BatchHolds'
    BY <1>3 DEF RunnerInv
  <2>2. Members(batch') = {r \in Reqs : num_scheduled_tokens'[r] > 0}
    BY <2>1 DEF BatchHolds, Members
  <2>3. QED BY <1>1, <2>2 DEF BatchHolds
<1>9. ASSUME NEW r \in Reqs, sched.st[r] = "running"
      PROVE  Rests(sched', Members(batch), p, r)
  <2> DEFINE c == sched.comp[r]
             N == NumTokens(sched, r)
             k == num_scheduled_tokens[r]
             P == PromptLen[r]
             o == sched.outs[r]
             a == p[r]
             new == outs[r]
             inM == r \in Members(batch)
  <2>1. /\ c \in Nat /\ N \in Nat /\ k \in Nat /\ P \in Nat /\ o \in Nat /\ a \in Nat /\ N = P + o
        /\ new = o + IF k > 0 /\ c = N THEN 1 ELSE 0
        /\ NumTokens(sched', r) = P + new /\ sched'.comp[r] = c /\ sched'.outs[r] = new
    BY <1>1, <1>6, <1>7, PromptAssumption DEF TypeOK, NumTokens, Complete
  <2>2. inM <=> k > 0
    BY <1>8
  <2>3. k > 0 => \/ c = N /\ (a = N \/ (k = 1 /\ a < c))
                 \/ c < N /\ a = N /\ (o = 0 \/ Redo)
    BY <1>4, <1>9 DEF Follows, Takes
  <2>4. ~(k > 0) => \/ c + 1 = N /\ P <= c /\ (inM => a <= c)
                    \/ c < N /\ (o = 0 \/ (Redo /\ inM)) /\ (inM => a = N)
    BY <1>4, <1>9 DEF Follows, Rests
  <2>5. ASSUME \/ c + 1 = P + new /\ P <= c /\ (inM => a <= c)
               \/ c < P + new /\ (new = 0 \/ (Redo /\ inM)) /\ (inM => a = P + new)
        PROVE  Rests(sched', Members(batch), p, r)
    BY <2>1, <2>5 DEF Rests
  <2> HIDE DEF c, N, k, P, o, a, new, inM
  <2>6. CASE k > 0 /\ c = N
    BY <2>1, <2>3, <2>5, <2>6
  <2>7. CASE k > 0 /\ c # N
    BY <2>1, <2>2, <2>3, <2>5, <2>7
  <2>8. CASE ~(k > 0)
    BY <2>1, <2>2, <2>4, <2>5, <2>8
  <2>9. QED BY <2>6, <2>7, <2>8
<1>10. Follows(sched', num_scheduled_tokens', Members(batch'), p, phase' = "sample")
  BY <1>1, <1>7, <1>8, <1>9 DEF Follows
<1>11. Fresh(sched')
  <2> SUFFICES ASSUME NEW r \in Reqs
               PROVE  /\ sched'.st[r] = "preempted" => MaxPreempts > 0
                      /\ sched'.st[r] = "new" => sched'.outs[r] = 0
    BY DEF Fresh
  <2>1. ASSUME sched.st[r] = "new" PROVE outs[r] = 0
    <3>1. ~Complete(r)
      BY <1>1, <1>8, <2>1 DEF Complete, RunningCurrent, In
    <3>2. sched.outs[r] = 0
      BY <1>1, <2>1 DEF Fresh
    <3>3. QED BY <1>6, <3>1, <3>2
  <2>2. QED BY <1>1, <1>7, <2>1 DEF Fresh
<1>12. use_structured_output' = FALSE
  BY <1>1 DEF GrammarRequests
<1>13. OnceInv'
  BY <1>1, <1>3, <1>10, <1>11, <1>12, OnceAfter
<1>14. QED BY <1>6, <1>7, <1>13

(* The same, for a stuttering step.                                            *)
LEMMA OnceStutter ==
  ASSUME OnceInv, UNCHANGED vars
  PROVE  OnceInv'
<1>1. /\ phase' = phase /\ sched' = sched /\ num_scheduled_tokens' = num_scheduled_tokens
      /\ batch' = batch /\ use_structured_output' = use_structured_output
  BY DEF vars
<1>2. RunnerInv'
  BY RunnerStep DEF OnceInv
<1>3. /\ use_structured_output' = FALSE /\ Fresh(sched')
      /\ phase' # "dead" => \E p \in [Reqs -> Nat] :
           PromptedNext(p) /\ Follows(sched', num_scheduled_tokens', Members(batch'), p, phase' = "sample")
  BY <1>1 DEF OnceInv, Prompted, PromptedNext
<1>4. QED BY <1>2, <1>3, OnceAfter

(* Without grammars, and with preempted requests that start over (no prefix-   *)
(* cache hit, no pause within a split prompt): whatever the scheduler splits,  *)
(* pauses, preempts and finishes, a step gives each request one token if it    *)
(* completes what is known of the request, and none otherwise.                 *)
THEOREM TokensOnce ==
  ASSUME OneEach
  PROVE  Spec => OneTokenPerStep
<1> DEFINE Step == SampleTokens => \A r \in Reqs :
              sched'.outs[r] - sched.outs[r] =
                IF num_scheduled_tokens[r] > 0 /\ sched.comp[r] = NumTokens(sched, r) THEN 1 ELSE 0
<1>1. Init => OnceInv
  BY OnceInit
<1>2. OnceInv /\ [Next]_vars => OnceInv' /\ [Step]_vars
  <2> SUFFICES ASSUME OnceInv, [Next]_vars PROVE OnceInv' /\ [Step]_vars
    OBVIOUS
  <2>1. CASE ExecuteModel
    <3>1. OnceInv'
      BY <2>1, OnceExecute
    <3>2. ~SampleTokens
      BY <2>1 DEF ExecuteModel, SampleTokens
    <3>3. QED BY <3>1, <3>2
  <2>2. CASE SampleTokens
    <3>1. OnceInv' /\ \A r \in Reqs : sched'.outs[r] = sched.outs[r] + IF Complete(r) THEN 1 ELSE 0
      BY <2>2, OnceSample DEF OneEach
    <3>2. \A r \in Reqs : sched.outs[r] \in Nat
      BY DEF OnceInv, RunnerInv, TypeOK
    <3>3. ASSUME NEW r \in Reqs
          PROVE  sched'.outs[r] - sched.outs[r] = IF Complete(r) THEN 1 ELSE 0
      <4> DEFINE x == sched.outs[r]
                 y == sched'.outs[r]
      <4>1. x \in Nat /\ y = x + IF Complete(r) THEN 1 ELSE 0
        BY <3>1, <3>2
      <4> HIDE DEF x, y
      <4>2. y - x = IF Complete(r) THEN 1 ELSE 0
        BY <4>1
      <4>3. QED BY <4>2 DEF x, y
    <3>4. Step
      BY <3>3 DEF Complete
    <3> HIDE DEF Step
    <3>5. QED BY <3>1, <3>4
  <2>3. CASE UNCHANGED vars
    <3>1. OnceInv'
      BY <2>3, OnceStutter
    <3> HIDE DEF Step
    <3>2. QED BY <2>3, <3>1
  <2> HIDE DEF Step
  <2>4. QED BY <2>1, <2>2, <2>3 DEF Next
<1>3. QED BY <1>1, <1>2, PTL DEF Spec, OneTokenPerStep

-----------------------------------------------------------------------------
(* What a logits row is sampled with is its request's.                         *)
OwnEntry(e) ==
  /\ e.params = e.req /\ e.prompt = e.req
  /\ e.gen = (IF e.req \in HasGenerator THEN e.req ELSE NONE)

(* The device rows and the cached prompts are the requests' when they are used.*)
RowsCurrent(b) ==
  /\ b.cache = <<>> \/ b.cache = b.req_ids
  /\ ~batch_changed => \A i \in DOMAIN b.req_ids : dev[i] = b.req_ids[i]

(* A row with the metadata of its request is sampled with what is its own.     *)
LEMMA SelectsOwn ==
  ASSUME NEW b, NEW w, Table(b, w), Holes(b) = {}, RowsCurrent(b),
         NEW c, c.rows \in Seq(Reqs), c.meta = c.rows, NEW j \in 1..Len(c.rows), c.rows[j] \in Members(b)
  PROVE  OwnEntry(Selective(b, c)[j])
<1> DEFINE e == Selective(b, c)[j]
           r == c.rows[j]
           i == b.index[r]
           cache == cached_prompt_token_ids(b)
<1>1. e.req = r
  BY SelectiveRows
<1>2. i \in DOMAIN b.req_ids /\ b.req_ids[i] = r /\ b.row[i].own = r
      /\ b.row[i].gen = (IF r \in HasGenerator THEN r ELSE NONE)
  BY DEF Table, HasRow
<1>3. j \in DOMAIN c.rows /\ ~(j > Len(c.meta)) /\ c.meta[j] = r
  OBVIOUS
<1>4. /\ e.params = (IF batch_changed THEN b.row[i].own ELSE dev[i])
      /\ e.prompt = (IF batch_changed THEN b.row[i].own ELSE cache[i])
      /\ e.gen = b.row[i].gen
  BY <1>3 DEF Selective
<1>5. cache[i] = r
  <2>1. CASE b.cache = <<>>
    <3>1. cache = [x \in DOMAIN b.req_ids |-> b.row[x].own]
      BY <2>1 DEF cached_prompt_token_ids
    <3> HIDE DEF cache, i, r
    <3>2. QED BY <1>2, <3>1
  <2>2. CASE b.cache # <<>>
    <3>1. cache = b.req_ids
      BY <2>2 DEF cached_prompt_token_ids, RowsCurrent
    <3> HIDE DEF cache, i, r
    <3>2. QED BY <1>2, <3>1
  <2>3. QED BY <2>1, <2>2
<1>6. ~batch_changed => dev[i] = r
  BY <1>2 DEF RowsCurrent
<1> HIDE DEF e, r, i, cache
<1>7. OwnEntry(e)
  BY <1>1, <1>2, <1>4, <1>5, <1>6 DEF OwnEntry
<1>8. QED BY <1>7 DEF e

(* The cached prompts are those of the rows.                                   *)
Cached == batch.cache = <<>> \/ batch.cache = batch.req_ids

(* Between two steps each row is its device row's request, and a decode with   *)
(* one token to compute.                                                       *)
Settled ==
  \A i \in DOMAIN batch.req_ids :
    LET r == batch.req_ids[i]
    IN  dev[i] = r /\ sched.comp[r] + 1 = NumTokens(sched, r) /\ batch.row[i].prompt <= sched.comp[r]

(* Within one every request is complete; a batch that did not change is all    *)
(* decodes, with the device rows it had.                                       *)
Going ==
  /\ \A r \in Members(batch) : Complete(r)
  /\ IF batch_changed THEN batch.cache = <<>>
     ELSE \A i \in DOMAIN batch.req_ids :
            dev[i] = batch.req_ids[i] /\ ~IsPrompt(batch, num_scheduled_tokens, i)

(* The inductive invariant for what the rows are sampled with.                 *)
OwnInv ==
  /\ OnceInv /\ \A j \in DOMAIN sampled : OwnEntry(sampled[j])
  /\ phase # "dead" => Cached
  /\ phase = "execute" => Settled
  /\ phase = "sample" => Going

(* A step of execute_model keeps it.                                           *)
LEMMA OwnExecute ==
  ASSUME OneEach, ~Chunked, OwnInv, ExecuteModel
  PROVE  OwnInv'
<1>1. /\ OnceInv /\ RunnerInv /\ TypeOK /\ BatchHolds /\ RunningCurrent
      /\ phase = "execute" /\ sampled' = <<>> /\ Cached /\ Settled
  BY DEF OwnInv, OnceInv, RunnerInv, ExecuteModel
<1>2. OnceInv' /\ RunnerInv' /\ BatchHolds' /\ TypeOK'
  BY <1>1, OnceExecute DEF OnceInv, RunnerInv
<1>3. PICK p \in [Reqs -> Nat] : Prompted(p)
  BY <1>1 DEF BatchHolds, Prompted
<1>4. PICK q \in [Reqs -> Nat] : PromptedNext(q)
  BY <1>1, <1>3, ExecuteStep
<1>5. Refreshed
  BY <1>1, <1>3, ExecuteStep
<1>6. PICK fin \in SUBSET (In("running") \union In("preempted")), pre \in SUBSET In("running"),
           n \in [Reqs -> Nat], hit \in Hits :
        /\ fin \cap pre = {} /\ LegalSchedule(fin, pre, n, hit)
        /\ sched' = Scheduled(fin, pre, n, hit) /\ num_scheduled_tokens' = n
  BY ScheduleOf
<1>7. sched'.outs = sched.outs
  <2>1. Advances(sched', n)
    BY <1>1, <1>6, Schedules
  <2>2. QED BY <2>1 DEF Advances
<1>8. ASSUME NEW r \in Reqs, n[r] > 0
      PROVE  /\ sched'.comp[r] = NumTokens(sched', r) /\ NumTokens(sched', r) = NumTokens(sched, r)
             /\ sched.st[r] = "running" => n[r] = NumTokens(sched, r) - sched.comp[r]
  <2>1. Granting(sched', n, hit, r)
    BY <1>1, <1>6, Grants
  <2>2. NumTokens(sched', r) = NumTokens(sched, r)
    BY <1>7 DEF NumTokens
  <2> DEFINE c == sched.comp[r]
             N == NumTokens(sched, r)
             k == n[r]
             d == sched'.comp[r]
             st == sched.st[r]
  <2>3. c \in Nat /\ N \in Nat /\ k \in Nat /\ hit \in Nat
    BY <1>1, PromptAssumption, RunnerAssumption DEF TypeOK, NumTokens
  <2>4. \/ st = "running" /\ d = c + k /\ k = N - c
        \/ st \in {"new", "preempted"} /\ d = hit + k /\ k = N - hit
    BY <1>8, <2>1 DEF Granting
  <2>5. d = N /\ (st = "running" => k = N - c)
    <3> HIDE DEF c, N, k, d, st
    <3>1. QED BY <2>3, <2>4
  <2>6. QED BY <2>2, <2>5
<1>9. /\ Members(batch') = {r \in Reqs : n[r] > 0}
      /\ \A i \in DOMAIN batch'.req_ids : batch'.req_ids[i] \in Members(batch')
  <2>1. Holes(batch') = {} /\ Members(batch') = {r \in Reqs : n[r] > 0}
    BY <1>2, <1>6 DEF BatchHolds, Holes, Members
  <2>2. QED BY <1>4, <2>1, FullRows DEF PromptedNext
<1>10. ASSUME batch_changed' # TRUE
       PROVE  /\ dev' = dev /\ batch' = UpdateRows(batch, sched', n)
              /\ batch'.req_ids = batch.req_ids /\ batch'.cache = batch.cache
  <2>1. dev' = dev /\ batch' = UpdateRows(batch, sched', n)
    BY <1>5, <1>6, <1>10 DEF Refreshed
  <2>2. IsBatch(batch)
    BY <1>3 DEF Prompted, Table
  <2>3. batch'.req_ids = batch.req_ids /\ batch'.cache = batch.cache
    BY <2>1, <2>2 DEF UpdateRows, IsBatch
  <2>4. QED BY <2>1, <2>3
<1>11. Cached'
  <2>1. CASE batch_changed'
    BY <1>5, <2>1 DEF Refreshed, Cached
  <2>2. CASE ~batch_changed'
    BY <1>1, <1>10, <2>2 DEF Cached
  <2>3. QED BY <2>1, <2>2
<1>12. ASSUME phase' = "execute" PROVE Settled'
  <2>1. Members(batch') = {}
    BY <1>6, <1>9, <1>12, PhaseAfter
  <2>2. QED BY <1>9, <2>1 DEF Settled
<1>13. \A r \in Members(batch') : Complete(r)'
  BY <1>6, <1>8, <1>9 DEF Complete, NumTokens
<1>14. ASSUME ~batch_changed', NEW i \in DOMAIN batch'.req_ids
       PROVE  dev'[i] = batch'.req_ids[i] /\ ~IsPrompt(batch', num_scheduled_tokens', i)
  <2> DEFINE r == batch.req_ids[i]
  <2>1. i \in DOMAIN batch.req_ids /\ batch'.req_ids[i] = r /\ r \in Members(batch') /\ r \in Reqs /\ n[r] > 0
    BY <1>9, <1>10, <1>14
  <2>2. /\ r \in Members(batch) /\ r # NONE /\ i \in Rows /\ batch.row \in [Rows -> Row]
        /\ sched.st[r] = "running"
    <3>1. r \in Members(batch) /\ i \in Rows /\ batch.row \in [Rows -> Row]
      <4>1. Holes(batch) = {}
        BY <1>1 DEF BatchHolds
      <4>2. QED BY <1>3, <2>1, <4>1, FullRows DEF Prompted, Table
    <3>2. QED BY <1>1, <2>1, <3>1, BatchAssumption DEF RunningCurrent, In
  <2>3. dev[i] = r /\ sched.comp[r] + 1 = NumTokens(sched, r) /\ batch.row[i].prompt <= sched.comp[r]
    BY <1>1, <2>1 DEF Settled
  <2>4. n[r] = NumTokens(sched, r) - sched.comp[r] /\ sched'.comp[r] = NumTokens(sched, r)
    BY <1>8, <2>1, <2>2
  <2>5. batch'.row[i].comp = sched'.comp[r] - n[r] /\ batch'.row[i].prompt = batch.row[i].prompt
    <3> DEFINE row == batch.row[i]
               k == n[r]
               x == sched'.comp[r] - k
    <3>1. batch'.row = [h \in Rows |->
             IF h \in DOMAIN batch.req_ids /\ batch.req_ids[h] # NONE
               THEN LET z == batch.req_ids[h]
                    IN  [batch.row[h] EXCEPT !.comp = sched'.comp[z] - n[z], !.blocks.len = @ + n[z]]
               ELSE batch.row[h]]
      <4>1. IsBatch(batch)
        BY <1>3 DEF Prompted, Table
      <4>2. QED BY <1>10, <1>14, <4>1 DEF UpdateRows, IsBatch
    <3>2. batch'.row[i] = [row EXCEPT !.comp = x, !.blocks.len = @ + k]
      BY <2>1, <2>2, <3>1
    <3>3. row \in Row
      BY <2>2
    <3> HIDE DEF row, k, x
    <3>4. batch'.row[i].comp = x /\ batch'.row[i].prompt = row.prompt
      BY <3>2, <3>3 DEF Row
    <3>5. QED BY <3>4 DEF row, k, x
  <2> DEFINE c == sched.comp[r]
             N == NumTokens(sched, r)
             a == batch.row[i].prompt
  <2>6. c \in Nat /\ N \in Nat /\ a \in Nat
    <3>1. c \in Nat /\ N \in Nat
      BY <1>1, <2>1, PromptAssumption DEF TypeOK, NumTokens
    <3>2. batch.row[i] \in Row
      BY <2>2
    <3>3. a \in Nat
      BY <3>2 DEF Row
    <3>4. QED BY <3>1, <3>3
  <2>7. n[r] = 1 /\ batch'.row[i].comp = c /\ batch'.row[i].prompt = a /\ a <= c
    <3>1. c + 1 = N /\ n[r] = N - c /\ sched'.comp[r] = N /\ batch'.row[i].comp = sched'.comp[r] - n[r]
      BY <2>3, <2>4, <2>5
    <3>2. batch'.row[i].prompt = a /\ a <= c
      BY <2>3, <2>5
    <3> HIDE DEF c, N, a
    <3>3. QED BY <2>6, <3>1, <3>2
  <2>8. num_scheduled_tokens'[batch'.req_ids[i]] = 1
    BY <1>6, <2>1, <2>7
  <2>9. ~IsPrompt(batch', num_scheduled_tokens', i)
    <3> HIDE DEF c, a
    <3>1. QED BY <2>6, <2>7, <2>8 DEF IsPrompt
  <2>10. QED BY <1>10, <1>14, <2>1, <2>3, <2>9
<1>15. Going'
  <2>1. batch_changed' => batch'.cache = <<>>
    BY <1>5 DEF Refreshed
  <2>2. ~batch_changed' => \A i \in DOMAIN batch'.req_ids :
           dev'[i] = batch'.req_ids[i] /\ ~IsPrompt(batch, num_scheduled_tokens, i)'
    BY <1>14 DEF IsPrompt
  <2>3. \A r \in Members(batch)' : Complete(r)'
    BY <1>13 DEF Members
  <2>4. QED BY <2>1, <2>2, <2>3 DEF Going
<1>16. \A j \in DOMAIN sampled' : OwnEntry(sampled[j])'
  BY <1>1
<1>17. QED BY <1>2, <1>11, <1>12, <1>15, <1>16 DEF OwnInv

(* A step of sample_tokens keeps it: every row is sampled with its own.        *)
LEMMA OwnSample ==
  ASSUME OneEach, ~Chunked, OwnInv, SampleTokens
  PROVE  OwnInv'
<1> DEFINE n == num_scheduled_tokens
           b == Reordered(batch, n)
           calls == SamplingCalls(b)
           entries == Flat([k \in DOMAIN calls |-> Selective(b, calls[k])])
           gained(r) == Cardinality({j \in DOMAIN entries : entries[j].req = r})
           copied == UNION {{b.index[r] : r \in Range(calls[k].meta)} : k \in DOMAIN calls}
<1>1. /\ OnceInv /\ RunnerInv /\ TypeOK /\ BatchHolds /\ RunningCurrent /\ use_structured_output = FALSE
      /\ phase = "sample" /\ Cached /\ Going /\ Structured = {}
  BY DEF OwnInv, OnceInv, RunnerInv, SampleTokens, OneEach
<1>2. /\ sampled' = entries
      /\ batch' = [b EXCEPT
                     !.row = [i \in Rows |->
                        IF i \in DOMAIN b.req_ids
                          THEN [b.row[i] EXCEPT !.tokens = @ + gained(b.req_ids[i])] ELSE b.row[i]],
                     !.cache = IF ~batch_changed /\ calls # <<>> THEN cached_prompt_token_ids(b) ELSE @]
      /\ dev' = [i \in Rows |-> IF batch_changed /\ i \in copied THEN b.row[i].own ELSE dev[i]]
      /\ phase' = "execute" /\ num_scheduled_tokens' = n /\ batch_changed' = batch_changed
  BY DEF SampleTokens
<1>3. OnceInv' /\ \A r \in Reqs : sched'.outs[r] = sched.outs[r] + IF Complete(r) THEN 1 ELSE 0
  BY <1>1, OnceSample
<1>4. sched'.comp = sched.comp
  BY <1>1 DEF SampleTokens, RunningCurrent
<1>5. PICK p \in [Reqs -> Nat] :
        Prompted(p) /\ Follows(sched, n, Members(batch), p, phase = "sample")
  BY <1>1 DEF OnceInv
<1>6. Follows(sched, n, Members(batch), p, TRUE)
  BY <1>1, <1>5 DEF Follows
<1>7. PromptedNext(p)
  BY <1>1, <1>5, SampleStep
<1> DEFINE w == Granted(sched, n, p)
<1>8. /\ Table(b, w) /\ Holes(b) = {} /\ Members(b) = Members(batch) /\ Served(b, calls)
  BY <1>1, <1>5, <1>6, StepCalls
<1>9. b.cache = batch.cache /\ (DecodesFirst(batch, n) => b = batch)
  <2>1. Table(batch, w) /\ Holes(batch) = {} /\ \A r \in Members(batch) : n[r] \in Nat \ {0}
    BY <1>1, <1>5 DEF Prompted, BatchHolds, TypeOK
  <2> HIDE DEF w, n
  <2>2. QED BY <2>1, ReorderedBatch DEF b
<1> HIDE DEF b, w
<1>10. RowsCurrent(b)
  <2>1. CASE batch_changed
    <3>1. b.cache = <<>>
      BY <1>1, <1>9, <2>1 DEF Going
    <3>2. QED BY <2>1, <3>1 DEF RowsCurrent
  <2>2. CASE ~batch_changed
    <3>1. \A i \in DOMAIN batch.req_ids : dev[i] = batch.req_ids[i] /\ ~IsPrompt(batch, n, i)
      BY <1>1, <2>2 DEF Going
    <3>2. DecodesFirst(batch, n)
      BY <3>1 DEF DecodesFirst, PromptRows
    <3>3. b = batch
      BY <1>9, <3>2
    <3>4. QED BY <1>1, <3>1, <3>3 DEF RowsCurrent, Cached
  <2>3. QED BY <2>1, <2>2
<1>11. /\ Len(calls) \in Nat /\ DOMAIN calls = 1..Len(calls)
       /\ \A k \in DOMAIN calls : /\ calls[k].rows \in Seq(Reqs) /\ calls[k].meta = calls[k].rows
                                  /\ Range(calls[k].rows) \subseteq Members(b)
       /\ \A r \in Members(b) : \E k \in DOMAIN calls : r \in Range(calls[k].rows)
  <2>1. \A r \in Members(b) : Complete(r)
    BY <1>1, <1>8 DEF Going
  <2> HIDE DEF calls
  <2>2. /\ Len(calls) \in Nat /\ DOMAIN calls = 1..Len(calls) /\ Separate(Range(calls))
        /\ UNION {Range(c.rows) : c \in Range(calls)} = Members(b)
        /\ \A c \in Range(calls) : c.meta = c.rows
    BY <1>8, <2>1 DEF Served
  <2>3. \A k \in DOMAIN calls : calls[k] \in Range(calls)
    BY DEF Range
  <2>4. \A k \in DOMAIN calls : Range(calls[k].rows) \subseteq Members(b)
    BY <2>2, <2>3
  <2>5. ASSUME NEW r \in Members(b) PROVE \E k \in DOMAIN calls : r \in Range(calls[k].rows)
    <3>1. PICK c \in Range(calls) : r \in Range(c.rows)
      BY <2>2
    <3>2. PICK k \in DOMAIN calls : c = calls[k]
      BY DEF Range
    <3>3. QED BY <3>1, <3>2
  <2>6. QED BY <2>2, <2>3, <2>4, <2>5 DEF Separate
<1> HIDE DEF calls
<1>12. \A j \in DOMAIN entries : OwnEntry(entries[j])
  <2> SUFFICES ASSUME NEW j \in DOMAIN entries PROVE OwnEntry(entries[j])
    OBVIOUS
  <2>1. FromCalls(b, calls, entries)
    BY <1>11, EntriesType
  <2> HIDE DEF entries
  <2> DEFINE Of(k, i) == entries[j] = Selective(b, calls[k])[i]
  <2>2. PICK k \in DOMAIN calls : \E i \in 1..Len(calls[k].rows) : Of(k, i)
    BY <2>1 DEF FromCalls
  <2>3. PICK i \in 1..Len(calls[k].rows) : Of(k, i)
    BY <2>2
  <2> DEFINE c == calls[k]
  <2>4. c.rows \in Seq(Reqs) /\ c.meta = c.rows /\ i \in 1..Len(c.rows) /\ c.rows[i] \in Members(b)
    BY <1>11 DEF Range
  <2> HIDE DEF c
  <2>5. OwnEntry(Selective(b, c)[i])
    BY <1>8, <1>10, <2>4, SelectsOwn
  <2>6. QED BY <2>3, <2>5 DEF c
<1>13. \A j \in DOMAIN sampled' : OwnEntry(sampled[j])'
  BY <1>2, <1>12 DEF OwnEntry
<1> HIDE DEF entries, gained
<1>14. /\ \A i \in DOMAIN b.req_ids : /\ b.req_ids[i] \in Members(b) /\ b.req_ids[i] \in Reqs /\ i \in Rows
                                      /\ b.index[b.req_ids[i]] = i /\ b.row[i].own = b.req_ids[i]
       /\ IsBatch(b) /\ b.req_ids \in Seq(Reqs)
  BY <1>8, FullRows DEF Table
<1>15. /\ batch'.req_ids = b.req_ids /\ batch'.index = b.index
       /\ batch'.cache = IF ~batch_changed /\ calls # <<>> THEN cached_prompt_token_ids(b) ELSE b.cache
  <2> HIDE DEF copied
  <2>1. QED BY <1>2, <1>14 DEF IsBatch
<1>16. Cached'
  <2>1. cached_prompt_token_ids(b) = b.req_ids
    <3>1. CASE b.cache = <<>>
      <4>1. cached_prompt_token_ids(b) = [i \in DOMAIN b.req_ids |-> b.row[i].own]
        BY <3>1 DEF cached_prompt_token_ids
      <4>2. [i \in DOMAIN b.req_ids |-> b.row[i].own] = [i \in DOMAIN b.req_ids |-> b.req_ids[i]]
        BY <1>14
      <4>3. b.req_ids = [i \in DOMAIN b.req_ids |-> b.req_ids[i]]
        BY <1>14
      <4>4. QED BY <4>1, <4>2, <4>3
    <3>2. CASE b.cache # <<>>
      BY <1>10, <3>2 DEF cached_prompt_token_ids, RowsCurrent
    <3>3. QED BY <3>1, <3>2
  <2>2. batch'.cache = <<>> \/ batch'.cache = batch'.req_ids
    BY <1>10, <1>15, <2>1 DEF RowsCurrent
  <2>3. QED BY <2>2 DEF Cached
<1>17. ASSUME NEW i \in DOMAIN b.req_ids
       PROVE  LET r == b.req_ids[i]
              IN  dev'[i] = r /\ sched'.comp[r] + 1 = NumTokens(sched', r) /\ batch'.row[i].prompt <= sched'.comp[r]
  <2> DEFINE r == b.req_ids[i]
  <2>1. r \in Members(b) /\ r \in Members(batch) /\ r \in Reqs /\ i \in Rows /\ b.index[r] = i /\ b.row[i].own = r
    BY <1>8, <1>14
  <2>2. dev'[i] = r
    <3>1. CASE batch_changed
      <4>1. PICK k \in DOMAIN calls : r \in Range(calls[k].rows)
        BY <1>11, <2>1
      <4>2. r \in Range(calls[k].meta)
        BY <1>11, <4>1
      <4>3. i \in copied
        <5>1. i \in {b.index[x] : x \in Range(calls[k].meta)}
          BY <2>1, <4>2
        <5>2. QED BY <5>1
      <4> HIDE DEF copied, r
      <4>4. QED BY <1>2, <2>1, <3>1, <4>3
    <3>2. CASE ~batch_changed
      <4>1. dev[i] = r
        BY <1>10, <3>2 DEF RowsCurrent
      <4> HIDE DEF copied, r
      <4>2. QED BY <1>2, <2>1, <3>2, <4>1
    <3>3. QED BY <3>1, <3>2
  <2>3. Complete(r) /\ n[r] > 0 /\ sched.comp[r] = NumTokens(sched, r)
    BY <1>1, <2>1 DEF Going, Complete
  <2>4. sched'.comp[r] + 1 = NumTokens(sched', r)
    <3> DEFINE c == sched.comp[r]
               P == PromptLen[r]
               o == sched.outs[r]
    <3>1. c = P + o /\ P \in Nat /\ o \in Nat /\ sched'.comp[r] = c /\ NumTokens(sched', r) = P + sched'.outs[r]
      BY <1>1, <1>4, <2>1, <2>3, PromptAssumption DEF NumTokens, TypeOK
    <3>2. sched'.outs[r] = o + 1
      BY <1>3, <2>1, <2>3
    <3> HIDE DEF c, P, o, r
    <3>3. QED BY <3>1, <3>2
  <2>5. p[r] <= sched.comp[r]
    <3>1. sched.st[r] = "running"
      BY <1>1, <2>1 DEF RunningCurrent, In
    <3>2. Takes(sched, n, p, r)
      BY <1>6, <2>1, <2>3, <3>1 DEF Follows
    <3> DEFINE c == sched.comp[r]
               N == NumTokens(sched, r)
               a == p[r]
    <3>3. c \in Nat /\ a \in Nat /\ c = N /\ (\/ c = N /\ (a = N \/ (n[r] = 1 /\ a < c))
                                              \/ c < N /\ a = N)
      BY <1>1, <2>1, <2>3, <3>2 DEF Takes, TypeOK
    <3> HIDE DEF c, N, a
    <3>4. a <= c
      BY <3>3
    <3>5. QED BY <3>4 DEF a, c
  <2>6. batch'.row[i].prompt = p[r]
    <3> DEFINE v == Granted(sched', num_scheduled_tokens', p)
    <3>1. Table(batch', v) /\ v.prompt = p
      BY <1>7 DEF PromptedNext, Granted
    <3> HIDE DEF v
    <3>2. r \in Members(batch') /\ batch'.index[r] = i
      BY <1>15, <2>1 DEF Members
    <3>3. HasRow(batch'.row[i], r, v)
      BY <3>1, <3>2 DEF Table
    <3>4. QED BY <3>1, <3>3 DEF HasRow
  <2> HIDE DEF r
  <2>7. batch'.row[i].prompt <= sched'.comp[r]
    BY <1>4, <2>5, <2>6
  <2>8. QED BY <2>2, <2>4, <2>7 DEF r
<1>18. Settled'
  <2>1. \A i \in DOMAIN batch'.req_ids :
          LET r == batch'.req_ids[i]
          IN  dev'[i] = r /\ sched'.comp[r] + 1 = NumTokens(sched', r) /\ batch'.row[i].prompt <= sched'.comp[r]
    BY <1>15, <1>17
  <2>2. QED BY <2>1 DEF Settled, NumTokens
<1>19. QED BY <1>2, <1>3, <1>13, <1>16, <1>18 DEF OwnInv

(* Every step of the runner keeps the invariant.                               *)
LEMMA OwnStep ==
  ASSUME OneEach, ~Chunked, OwnInv, [Next]_vars
  PROVE  OwnInv'
<1>1. CASE ExecuteModel
  BY <1>1, OwnExecute
<1>2. CASE SampleTokens
  BY <1>2, OwnSample
<1>3. CASE UNCHANGED vars
  <2>1. OnceInv'
    BY <1>3, OnceStutter DEF OwnInv
  <2>2. \A j \in DOMAIN sampled' : OwnEntry(sampled[j])'
    BY <1>3 DEF OwnInv, OwnEntry, vars
  <2>3. (phase' # "dead" => Cached') /\ (phase' = "execute" => Settled')
    BY <1>3 DEF OwnInv, Cached, Settled, NumTokens, vars
  <2>4. phase' = "sample" => Going'
    BY <1>3 DEF OwnInv, Going, Complete, NumTokens, IsPrompt, Members, vars
  <2>5. QED BY <2>1, <2>2, <2>3, <2>4 DEF OwnInv
<1>4. QED BY <1>1, <1>2, <1>3 DEF Next

(* Without grammars and chunked prefill, and with preempted requests that      *)
(* start over: however the scheduler pauses, preempts, aborts and finishes     *)
(* requests, each logits row is sampled with the parameters, the prompt and    *)
(* the generator of the request it belongs to, although device rows and the    *)
(* prompt tensor are refreshed only when the batch changes.                    *)
THEOREM SampledOwn ==
  ASSUME OneEach, ~Chunked
  PROVE  SpecBoth => []SampledWithOwn
<1> DEFINE Inv == part = "runner" => OwnInv
<1>1. InitBoth => Inv
  <2>1. Init => OwnInv
    <3> SUFFICES ASSUME Init PROVE OwnInv
      OBVIOUS
    <3>1. OnceInv
      BY OnceInit
    <3>2. phase = "execute" /\ sampled = <<>> /\ batch.cache = <<>> /\ batch.req_ids = <<>>
      BY DEF Init, EmptyBatch
    <3>3. QED BY <3>1, <3>2 DEF OwnInv, Cached, Settled
  <2>2. QED BY <2>1 DEF InitBoth
<1>2. Inv /\ [NextBoth]_both_vars => Inv'
  <2> SUFFICES ASSUME Inv, [NextBoth]_both_vars PROVE Inv'
    OBVIOUS
  <2>1. part' = part /\ (part = "runner" => [Next]_vars)
    BY DEF NextBoth, both_vars
  <2>2. CASE part = "runner"
    <3>1. OwnInv /\ [Next]_vars
      BY <2>1, <2>2
    <3>2. OwnInv'
      BY <3>1, OwnStep
    <3>3. QED BY <3>2
  <2>3. CASE part # "runner"
    BY <2>1, <2>3
  <2>4. QED BY <2>2, <2>3
<1>3. Inv => SampledWithOwn
  BY DEF OwnInv, OwnEntry, SampledWithOwn, SampledWithOwnParams, SampledWithOwnPrompt, SampledWithOwnGenerator
<1>4. QED
  <2> HIDE DEF Inv
  <2>1. QED BY <1>1, <1>2, <1>3, PTL DEF SpecBoth
=============================================================================
