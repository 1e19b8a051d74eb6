------------------------- MODULE AsyncRunnerProofs --------------------------
(***************************************************************************)
(* The asynchronous runner feeds and samples every request with its own       *)
(* tokens (FedOwn), and every client is given exactly its own (StreamSpec):   *)
(* for every set of requests, batch size and prompt lengths, for chunked      *)
(* or whole prefills, with and without penalties, preemption and stopping.    *)
(*                                                                            *)
(* Steady are the conditions; TLC refutes the properties without each.        *)
(* AsyncInv is the inductive invariant: what the rows hold (RowsInv), which   *)
(* tokens are in flight (StreamInv) and, request by request, that the         *)
(* runner's lists are complete while it prefills and end in the one           *)
(* placeholder of the token in prev_sampled_token_ids while it decodes        *)
(* (ReqInv).  Planned and Advanced say what the scheduler chose, Laid how     *)
(* the rows lie, Stepped what the step leaves; a lemma leads from each to     *)
(* the next.                                                                  *)
(***************************************************************************)
EXTENDS AsyncRunner, BatchStepProofs

SummingFacts == INSTANCE SequenceFacts WITH Step <- Plus

(* What the rows of b hold, by request.                                       *)
Held(b) ==
  LET of(r) == b.row[b.index[r]]
  IN  [comp   |-> [r \in Members(b) |-> of(r).comp],   prompt |-> [r \in Members(b) |-> of(r).prompt],
       tokens |-> [r \in Members(b) |-> of(r).tokens], blocks |-> [r \in Members(b) |-> of(r).blocks]]

(* The first k tokens of r's output.                                          *)
Tokens(r, k) == [j \in 1..k |-> Token(r, j)]

(* The tokens of r, those in flight included.                                 *)
Had(r) == Len(stream[r]) + sched.ph[r]

(* The steps in flight there are.                                             *)
Frames ==
  [index : UNION {[M -> Rows] : M \in SUBSET Reqs}, tokens : Seq([of : Reqs, at : Int]), invalid : SUBSET Rows]

(* Types.                                                                     *)
TypeInv ==
  /\ sched = [st |-> sched.st, comp |-> sched.comp, ph |-> sched.ph, epoch |-> sched.epoch]
  /\ sched.st \in [Reqs -> {"new", "running", "preempted", "done"}]
  /\ sched.comp \in [Reqs -> Nat] /\ sched.ph \in [Reqs -> Nat]
  /\ DOMAIN stream = Reqs /\ DOMAIN outputs = Reqs /\ DOMAIN cpu = Reqs
  /\ frames \in Seq(Frames) /\ Len(frames) <= 2

(* Every member of the batch has its row, and was scheduled at some time.     *)
RowsInv ==
  /\ Table(batch, Held(batch)) /\ Holes(batch) = {}
  /\ Members(batch) \subseteq In("running") \union In("done")

(* The i-th step in flight has a token for r.                                 *)
Pends(i, r) == i \in DOMAIN frames /\ r \in DOMAIN frames[i].index /\ OutputOf(frames[i], r) # <<>>

(* Each placeholder stands for a token in flight, the next one and the one    *)
(* after; a discarded one leaves its token without a placeholder.             *)
Flying(r) ==
  \/ /\ sched.ph[r] = (IF Pends(1, r) THEN 1 ELSE 0) + (IF Pends(2, r) THEN 1 ELSE 0)
     /\ Pends(1, r) => OutputOf(frames[1], r) = <<Token(r, Len(stream[r]) + 1)>>
     /\ Pends(2, r) => OutputOf(frames[2], r) = <<Token(r, Had(r))>>
  \/ sched.ph[r] = 0 /\ Len(frames) = 2 /\ Pends(1, r) /\ ~Pends(2, r)

(* The client has the first tokens of the request's output.                   *)
StreamInv ==
  \A r \in Reqs :
    /\ Len(stream[r]) \in Nat /\ stream[r] = Tokens(r, Len(stream[r]))
    /\ sched.st[r] # "done" => Flying(r) /\ Had(r) <= MaxOut

(* A request that is to be scheduled again has nothing in the latest step.    *)
Waits(r) ==
  /\ frames # <<>> => r \notin DOMAIN frames[Len(frames)].index
  /\ Had(r) = 0 => outputs[r] = <<>>
  /\ sched.st[r] = "new" => Had(r) = 0

(* num_prompt_tokens of its row.                                              *)
Prompt(r) == batch.row[batch.index[r]].prompt

(* A request that computes known tokens has them all on the host.             *)
Prefills(r) ==
  /\ sched.ph[r] = 0 /\ sched.comp[r] < Prompt(r) /\ Prompt(r) = PromptLen[r] + Len(stream[r])
  /\ outputs[r] = stream[r] /\ cpu[r] = stream[r]

(* A request that decodes has its last token on the device, where the step    *)
(* before put it.                                                             *)
Decodes(r) ==
  /\ sched.comp[r] >= Prompt(r) /\ Had(r) >= 1
  /\ sched.comp[r] = PromptLen[r] + Had(r) - 1
  /\ r \in DOMAIN prev.index /\ prev.ids[prev.index[r]] = Token(r, Had(r))
  /\ r \in HasPenalty => prev.spare /\ outputs[r] = Append(Tokens(r, Had(r) - 1), MINUS1)

(* A running request is one or the other; without a row it has all its tokens.*)
Runs(r) ==
  /\ sched.comp[r] < PromptLen[r] + Had(r)
  /\ r \notin Members(batch) => Capped(r)
  /\ r \in Members(batch) => Prefills(r) \/ Decodes(r)

(* Request by request.                                                        *)
ReqInv ==
  \A r \in Reqs :
    /\ sched.st[r] \in {"new", "preempted"} => Waits(r)
    /\ sched.st[r] = "running" => Runs(r)

(* The inductive invariant.                                                   *)
AsyncInv == TypeInv /\ RowsInv /\ StreamInv /\ ReqInv /\ FedOwn

(* The conditions: a running request that has tokens to compute is scheduled  *)
(* in every step, no first token is discarded in flight, and nothing resumes  *)
(* from the prefix cache.                                                     *)
Steady == ~MayPause /\ ~MayDiscard /\ Hits \subseteq {0}

-----------------------------------------------------------------------------
(* What Step chooses.                                                         *)
Chosen(pre, discarded, n, order) ==
  /\ Len(frames) < 2
  /\ pre \in SUBSET In("running") /\ n \in Amounts /\ LegalSchedule(pre, n, 0)
  /\ discarded \in SUBSET {r \in pre : sched.ph[r] > 0 /\ stream[r] # <<>>}
  /\ order \in SetToSeqs({r \in Reqs : n[r] > 0} \ Members(batch))

(* Where a scheduled request starts.                                          *)
Start(r) == IF sched.st[r] = "running" THEN sched.comp[r] ELSE 0

(* A request that decodes one token; one that computes known tokens.          *)
Rolls(r, n) == r \in Members(batch) /\ sched.st[r] = "running" /\ Decodes(r) /\ n[r] = 1

Fills(r, n) ==
  /\ sched.ph[r] = 0 /\ Start(r) < Known(r) /\ Start(r) + n[r] <= Known(r)
  /\ Recovered(n)[r] = stream[r]
  /\ r \in Members(batch) => sched.st[r] = "running" /\ Prompt(r) = Known(r) /\ cpu[r] = stream[r]
  /\ r \notin Members(batch) => sched.st[r] # "running"

(* What the scheduler chose, request by request.                              *)
Planned(pre, discarded, n) ==
  /\ n \in [Reqs -> Nat]
  /\ Cardinality({r \in Reqs : n[r] > 0}) <= MaxReqs
  /\ \A r \in Reqs :
       /\ n[r] > 0 => r \notin pre /\ sched.st[r] # "done" /\ ~Capped(r) /\ (Rolls(r, n) \/ Fills(r, n))
       /\ n[r] = 0 /\ sched.st[r] = "running" /\ r \notin pre => Capped(r)
       /\ r \in discarded => r \in pre /\ sched.ph[r] > 0 /\ stream[r] # <<>>
       /\ r \in pre => sched.st[r] = "running"

(* What may be scheduled are natural numbers.                                 *)
LEMMA AmountsAreNumbers == Amounts \subseteq [Reqs -> Nat]
<1>1. \A e : \A x \in 0..e : x \in Nat
  OBVIOUS
<1>2. QED BY <1>1 DEF Amounts

(* The counts of the invariant are natural numbers.                           *)
LEMMA Numbers ==
  ASSUME AsyncInv
  PROVE  /\ MaxOut \in Nat \ {0}
         /\ \A r \in Reqs :
              /\ PromptLen[r] \in Nat /\ PromptLen[r] > 0 /\ Len(stream[r]) \in Nat /\ sched.ph[r] \in Nat
              /\ sched.comp[r] \in Nat /\ Start(r) \in Nat /\ Had(r) \in Nat /\ Known(r) = PromptLen[r] + Had(r)
              /\ Known(r) \in Nat /\ (Capped(r) <=> Had(r) >= MaxOut)
              /\ sched.st[r] \in {"new", "running", "preempted", "done"}
<1>1. MaxOut \in Nat \ {0} /\ \A r \in Reqs : PromptLen[r] \in Nat /\ PromptLen[r] > 0
  BY AsyncAssumption, PromptAssumption
<1>2. \A r \in Reqs :
         /\ Len(stream[r]) \in Nat /\ sched.ph[r] \in Nat /\ sched.comp[r] \in Nat
         /\ sched.st[r] \in {"new", "running", "preempted", "done"}
  BY DEF AsyncInv, StreamInv, TypeInv
<1>3. QED BY <1>1, <1>2 DEF Start, Had, Known, Capped

-----------------------------------------------------------------------------
(* A sum of positive numbers, and of ones.                                    *)
LEMMA SumAtLeast ==
  ASSUME NEW m \in Nat, NEW f \in [1..m -> Nat \ {0}]
  PROVE  /\ SumOf(f) \in Nat /\ SumOf(f) >= m
         /\ (\A i \in 1..m : f[i] = 1) => SumOf(f) = m
<1> DEFINE J == [k \in 0..m |-> {x \in Nat : x >= k /\ ((\A i \in 1..m : f[i] = 1) => x = k)}]
<1>1. Len(f) = m
  OBVIOUS
<1>2. 0 \in J[0]
  OBVIOUS
<1>3. ASSUME NEW i \in 1..m, NEW x \in J[i - 1] PROVE Plus(x, f[i]) \in J[i]
  <2>1. i - 1 \in 0..m /\ i \in 0..m /\ f[i] \in Nat /\ f[i] >= 1
    OBVIOUS
  <2>2. x \in Nat /\ x >= i - 1 /\ ((\A j \in 1..m : f[j] = 1) => x = i - 1)
    BY <2>1
  <2>3. x + f[i] \in Nat /\ x + f[i] >= i
    BY <2>1, <2>2
  <2>4. (\A j \in 1..m : f[j] = 1) => x + f[i] = i
    BY <2>1, <2>2
  <2>5. QED BY <2>1, <2>3, <2>4 DEF Plus
<1>4. SummingFacts!Fold(0, f) \in J[Len(f)]
  <2> HIDE DEF J
  <2>1. QED BY <1>1, <1>2, <1>3, SummingFacts!FoldProgress
<1>5. SumOf(f) \in J[m]
  BY <1>1, <1>4 DEF SumOf, Summing!Fold, SummingFacts!Fold
<1>6. QED BY <1>5

(* A request out of the batch has no token in flight when it may be scheduled.*)
LEMMA NothingFlies ==
  ASSUME AsyncInv, Len(frames) < 2, NEW r \in Reqs, sched.st[r] # "done", Waits(r)
  PROVE  sched.ph[r] = 0 /\ Had(r) = Len(stream[r])
<1>1. Len(frames) \in Nat /\ DOMAIN frames = 1..Len(frames)
  BY DEF AsyncInv, TypeInv
<1>2. frames # <<>> => r \notin DOMAIN frames[Len(frames)].index
  BY DEF Waits
<1>3. ~Pends(1, r) /\ ~Pends(2, r)
  <2>1. CASE Len(frames) = 0
    BY <1>1, <2>1 DEF Pends
  <2>2. CASE Len(frames) = 1
    <3>1. frames # <<>>
      BY <2>2
    <3>2. QED BY <1>1, <1>2, <2>2, <3>1 DEF Pends
  <2>3. QED BY <1>1, <2>1, <2>2
<1>4. Flying(r)
  BY DEF AsyncInv, StreamInv
<1>5. sched.ph[r] = 0
  BY <1>3, <1>4 DEF Flying
<1>6. Len(stream[r]) \in Nat
  BY DEF AsyncInv, StreamInv
<1>7. QED BY <1>5, <1>6 DEF Had

(* What is recovered for a request that resumes is its output.                *)
LEMMA RecoveredOutput ==
  ASSUME AsyncInv, NEW n, NEW r \in Reqs, n[r] > 0, r \notin Members(batch),
         sched.ph[r] = 0, Waits(r)
  PROVE  Recovered(n)[r] = stream[r]
<1> DEFINE L == Len(stream[r])
           P == PromptLen[r]
           prompt == [j \in 1..P |-> Token(r, j - P)]
           all == AllTokens(r)
<1>1. L \in Nat /\ P \in Nat /\ Had(r) = L /\ stream[r] = Tokens(r, L)
  BY Numbers DEF Had, AsyncInv, StreamInv
<1>2. Recovered(n)[r] = (IF sched.st[r] # "new" /\ L > 0
                           THEN SubSeq(all, Len(all) - L + 1, Len(all)) ELSE outputs[r])
  BY <1>1 DEF Recovered, Had
<1>3. L = 0 => outputs[r] = <<>> /\ stream[r] = <<>>
  <2>1. L = 0 => outputs[r] = <<>>
    BY <1>1 DEF Waits
  <2>2. L = 0 => stream[r] = <<>>
    BY <1>1 DEF Tokens
  <2>3. QED BY <2>1, <2>2
<1>4. sched.st[r] = "new" => L = 0
  BY <1>1 DEF Waits
<1>5. ASSUME L > 0 PROVE SubSeq(all, Len(all) - L + 1, Len(all)) = stream[r]
  <2> DEFINE T == [of : Reqs, at : Int]
             q == stream[r]
  <2>1. prompt \in [1..P -> T] /\ q \in [1..L -> T]
    BY <1>1 DEF Token, Tokens
  <2> HIDE DEF prompt, q, T
  <2>2. prompt \in Seq(T) /\ Len(prompt) = P /\ q \in Seq(T) /\ Len(q) = L
    BY <1>1, <2>1, SMTT(30)
  <2> HIDE DEF P, L
  <2>4. prompt \o q \in Seq(T) /\ Len(prompt \o q) = P + L /\ \A j \in 1..L : (prompt \o q)[P + j] = q[j]
    <3>1. L \in Nat /\ P \in Nat
      BY <1>1
    <3>2. prompt \o q \in Seq(T) /\ Len(prompt \o q) = P + L
      BY <2>2
    <3>3. \A j \in 1..L : (prompt \o q)[P + j] = q[j]
      BY <2>2, <3>1
    <3>4. QED BY <3>2, <3>3
  <2>3. SubSeq(prompt \o q, P + 1, P + L) = q
    <3> DEFINE x == prompt \o q
               y == SubSeq(x, P + 1, P + L)
    <3> HIDE DEF x
    <3>1. x \in Seq(T) /\ Len(x) = P + L /\ \A j \in 1..L : x[P + j] = q[j]
      BY <2>4 DEF x
    <3>2. y \in Seq(T) /\ Len(y) = L
      BY <1>1, <3>1
    <3>3. \A j \in 1..L : y[j] = x[P + j]
      BY <1>1, <3>1
    <3> HIDE DEF y
    <3>4. y = q
      BY <1>1, <2>2, <3>1, <3>2, <3>3
    <3>5. QED BY <3>4 DEF x, y
  <2>5. all = prompt \o q
    BY DEF AllTokens, prompt, q, P, L
  <2>6. Len(all) - L + 1 = P + 1 /\ Len(all) = P + L
    <3>1. Len(all) = P + L
      BY <2>4, <2>5, Zenon
    <3>2. L \in Nat /\ P \in Nat
      BY <1>1
    <3> HIDE DEF all, L, P
    <3>3. QED BY <3>1, <3>2
  <2> HIDE DEF all
  <2>7. QED BY <2>3, <2>5, <2>6 DEF q
<1>6. CASE sched.st[r] # "new" /\ L > 0
  BY <1>2, <1>5, <1>6
<1>7. CASE ~ (sched.st[r] # "new" /\ L > 0)
  <2>1. L = 0
    BY <1>1, <1>4, <1>7
  <2> HIDE DEF all, L
  <2>2. QED BY <1>2, <1>3, <1>7, <2>1
<1>8. QED BY <1>6, <1>7

(* The scheduler's choice, request by request.                                *)
LEMMA ChosenRequest ==
  ASSUME AsyncInv, Steady, NEW pre, NEW discarded, NEW n, NEW order, Chosen(pre, discarded, n, order),
         NEW r \in Reqs, n[r] > 0
  PROVE  /\ r \notin pre /\ sched.st[r] # "done" /\ ~Capped(r) /\ n[r] <= Known(r) - Start(r)
         /\ r \in In("running") \/ (r \in In("new") \union In("preempted") /\ r \notin Members(batch))
<1>1. r \notin pre /\ ~Capped(r) /\ sched.st[r] # "done"
  BY DEF Chosen, LegalSchedule, In
<1>2. n[r] <= Known(r) - Start(r)
  <2>1. n[r] = Known(r) - Start(r) \/ n[r] < Known(r) - Start(r)
    BY <1>1 DEF Chosen, LegalSchedule, In, Start
  <2>2. Known(r) - Start(r) \in Int /\ n[r] \in Nat
    BY Numbers, AmountsAreNumbers DEF Chosen
  <2>3. QED BY <2>1, <2>2
<1>3. r \in In("running") \/ r \in In("new") \union In("preempted")
  BY DEF Chosen, LegalSchedule
<1>4. Members(batch) \subseteq In("running") \union In("done")
  BY DEF AsyncInv, RowsInv
<1>5. QED BY <1>1, <1>2, <1>3, <1>4 DEF In

(* What LegalSchedule allows, in the terms of the invariant.                  *)
LEMMA Planning ==
  ASSUME AsyncInv, Steady, NEW pre, NEW discarded, NEW n, NEW order, Chosen(pre, discarded, n, order)
  PROVE  Planned(pre, discarded, n)
<1> DEFINE W == {r \in Reqs : n[r] > 0}
           stay == In("running") \ pre
           join == {r \in In("new") \union In("preempted") : n[r] > 0}
<1>1. n \in [Reqs -> Nat]
  BY AmountsAreNumbers DEF Chosen
<1>2. Cardinality(W) <= MaxReqs
  <2>1. W \subseteq stay \union join
    BY ChosenRequest DEF Chosen, LegalSchedule
  <2>2. stay \union join \subseteq Reqs
    BY DEF In
  <2>3. Cardinality(stay \union join) <= MaxReqs
    BY DEF Chosen, LegalSchedule
  <2> HIDE DEF W, stay, join
  <2>4. IsFiniteSet(stay \union join) /\ IsFiniteSet(W)
    BY <2>1, <2>2, FS_Subset, BatchAssumption
  <2>5. Cardinality(W) <= Cardinality(stay \union join)
    BY <2>1, <2>4, FS_Subset
  <2>6. Cardinality(W) \in Nat /\ Cardinality(stay \union join) \in Nat /\ MaxReqs \in Nat
    BY <2>4, FS_CardinalityType, BatchAssumption
  <2>7. QED BY <2>3, <2>5, <2>6
<1>3. ASSUME NEW r \in Reqs, n[r] > 0 PROVE Rolls(r, n) \/ Fills(r, n)
  <2>1. /\ r \notin pre /\ sched.st[r] # "done" /\ ~Capped(r) /\ n[r] <= Known(r) - Start(r)
        /\ r \in In("running") \/ (r \in In("new") \union In("preempted") /\ r \notin Members(batch))
    BY <1>3, ChosenRequest
  <2>2. n[r] \in Nat /\ n[r] > 0
    BY <1>1, <1>3
  <2>3. CASE r \in In("running")
    <3>1. sched.st[r] = "running" /\ Start(r) = sched.comp[r]
      BY <2>3 DEF In, Start
    <3>2. r \in Members(batch) /\ (Prefills(r) \/ Decodes(r))
      BY <2>1, <3>1 DEF AsyncInv, ReqInv, Runs
    <3>3. CASE Decodes(r)
      <4>1. n[r] = 1
        <5>1. Start(r) = PromptLen[r] + Had(r) - 1
          BY <3>1, <3>3 DEF Decodes
        <5>2. Known(r) = PromptLen[r] + Had(r) /\ PromptLen[r] \in Nat /\ Had(r) \in Nat
          BY Numbers
        <5>3. QED BY <2>1, <2>2, <5>1, <5>2
      <4>2. QED BY <3>1, <3>2, <3>3, <4>1 DEF Rolls
    <3>4. CASE Prefills(r)
      <4>1. Known(r) = PromptLen[r] + Len(stream[r]) /\ Prompt(r) = Known(r)
        BY <3>4, Numbers DEF Prefills, Known
      <4>2. Recovered(n)[r] = outputs[r]
        BY <3>2 DEF Recovered
      <4>3. Start(r) < Known(r) /\ Start(r) + n[r] <= Known(r)
        BY <2>1, <2>2, <3>1, <3>4, <4>1, Numbers DEF Prefills
      <4>4. QED BY <3>1, <3>2, <3>4, <4>1, <4>2, <4>3 DEF Prefills, Fills
    <3>5. QED BY <3>2, <3>3, <3>4
  <2>4. CASE r \in In("new") \union In("preempted") /\ r \notin Members(batch)
    <3>1. sched.st[r] \in {"new", "preempted"} /\ Start(r) = 0
      BY <2>4 DEF In, Start
    <3>2. Waits(r)
      BY <3>1 DEF AsyncInv, ReqInv
    <3>3. sched.ph[r] = 0
      BY <2>1, <3>2, NothingFlies DEF Chosen
    <3>4. Recovered(n)[r] = stream[r]
      BY <1>3, <2>4, <3>2, <3>3, RecoveredOutput
    <3>5. Start(r) < Known(r) /\ Start(r) + n[r] <= Known(r)
      BY <2>1, <2>2, <3>1, Numbers
    <3>6. QED BY <2>4, <3>1, <3>3, <3>4, <3>5 DEF Fills
  <2>5. QED BY <2>1, <2>3, <2>4
<1>4. ASSUME NEW r \in Reqs, n[r] = 0, sched.st[r] = "running", r \notin pre PROVE Capped(r)
  <2>1. ~ (Known(r) > sched.comp[r] /\ ~Capped(r))
    <3>1. r \in stay
      BY <1>4 DEF In
    <3>2. \A q \in stay : Known(q) > sched.comp[q] /\ ~Capped(q) => n[q] > 0
      BY DEF Chosen, LegalSchedule, Steady
    <3>3. QED BY <1>4, <3>1, <3>2
  <2>2. Runs(r)
    BY <1>4 DEF AsyncInv, ReqInv
  <2>3. Known(r) > sched.comp[r]
    BY <2>2, Numbers DEF Runs
  <2>4. QED BY <2>1, <2>3
<1>5. \A r \in Reqs :
        /\ r \in discarded => r \in pre /\ sched.ph[r] > 0 /\ stream[r] # <<>>
        /\ r \in pre => sched.st[r] = "running"
  BY DEF Chosen, In
<1>6. \A r \in Reqs : n[r] > 0 => r \notin pre /\ sched.st[r] # "done" /\ ~Capped(r)
  BY ChosenRequest
<1>7. QED BY <1>1, <1>2, <1>3, <1>4, <1>5, <1>6 DEF Planned

(* What schedule() leaves of the requests it schedules and of the others.     *)
Advanced(s, pre, discarded, n) ==
  /\ s = [st |-> s.st, comp |-> s.comp, ph |-> s.ph, epoch |-> s.epoch]
  /\ s.st \in [Reqs -> {"new", "running", "preempted", "done"}]
  /\ s.comp \in [Reqs -> Nat] /\ s.ph \in [Reqs -> Nat]
  /\ \A r \in Reqs :
       /\ n[r] > 0 =>
            /\ s.st[r] = "running" /\ s.comp[r] = Start(r) + n[r]
            /\ s.ph[r] = IF s.comp[r] = Known(r) THEN sched.ph[r] + 1 ELSE sched.ph[r]
       /\ n[r] = 0 =>
            /\ s.st[r] = (IF r \in pre THEN "preempted" ELSE sched.st[r])
            /\ r \notin pre => s.comp[r] = sched.comp[r]
            /\ s.ph[r] = IF r \in discarded THEN 0 ELSE sched.ph[r]

(* schedule() advances the counts so.                                         *)
LEMMA Advancing ==
  ASSUME AsyncInv, NEW pre, NEW discarded, NEW n, Planned(pre, discarded, n),
         NEW s, s = Scheduled(pre, discarded, n, 0)
  PROVE  Advanced(s, pre, discarded, n)
<1>1. /\ s.st = [r \in Reqs |-> IF r \in pre THEN "preempted" ELSE IF n[r] > 0 THEN "running" ELSE sched.st[r]]
      /\ s.comp = [r \in Reqs |-> IF r \in pre THEN 0 ELSE IF n[r] > 0
                     THEN (IF sched.st[r] = "running" THEN sched.comp[r]
                           ELSE IF sched.st[r] = "new" THEN 0 ELSE 0) + n[r] ELSE sched.comp[r]]
      /\ s.ph = [r \in Reqs |-> IF r \in discarded THEN 0
                   ELSE IF n[r] > 0 /\ (IF sched.st[r] = "running" THEN sched.comp[r]
                           ELSE IF sched.st[r] = "new" THEN 0 ELSE 0) + n[r] = Known(r) THEN sched.ph[r] + 1
                   ELSE sched.ph[r]]
      /\ s = [st |-> s.st, comp |-> s.comp, ph |-> s.ph, epoch |-> s.epoch]
  BY DEF Scheduled
<1>2. \A r \in Reqs : (IF sched.st[r] = "running" THEN sched.comp[r]
                           ELSE IF sched.st[r] = "new" THEN 0 ELSE 0) = Start(r)
  BY DEF Start
<1>3. /\ s.comp = [r \in Reqs |-> IF r \in pre THEN 0 ELSE IF n[r] > 0 THEN Start(r) + n[r] ELSE sched.comp[r]]
      /\ s.ph = [r \in Reqs |-> IF r \in discarded THEN 0
                   ELSE IF n[r] > 0 /\ Start(r) + n[r] = Known(r) THEN sched.ph[r] + 1
                   ELSE sched.ph[r]]
  BY <1>1, <1>2
<1>4. \A r \in Reqs : /\ n[r] \in Nat /\ sched.ph[r] \in Nat /\ sched.comp[r] \in Nat /\ Start(r) \in Nat
                      /\ sched.st[r] \in {"new", "running", "preempted", "done"}
  BY Numbers DEF Planned
<1>5. s.st \in [Reqs -> {"new", "running", "preempted", "done"}]
  BY <1>1, <1>4
<1>6. s.comp \in [Reqs -> Nat]
  BY <1>3, <1>4
<1>7. s.ph \in [Reqs -> Nat]
  BY <1>3, <1>4
<1>8. ASSUME NEW r \in Reqs, n[r] > 0
      PROVE  /\ s.st[r] = "running" /\ s.comp[r] = Start(r) + n[r]
             /\ s.ph[r] = IF s.comp[r] = Known(r) THEN sched.ph[r] + 1 ELSE sched.ph[r]
  <2>1. r \notin pre /\ r \notin discarded
    BY <1>8 DEF Planned
  <2>2. QED BY <1>1, <1>3, <1>8, <2>1
<1>9. ASSUME NEW r \in Reqs, n[r] = 0
      PROVE  /\ s.st[r] = (IF r \in pre THEN "preempted" ELSE sched.st[r])
             /\ r \notin pre => s.comp[r] = sched.comp[r]
             /\ s.ph[r] = IF r \in discarded THEN 0 ELSE sched.ph[r]
  BY <1>1, <1>3, <1>9
<1>10. QED BY <1>1, <1>5, <1>6, <1>7, <1>8, <1>9 DEF Advanced

-----------------------------------------------------------------------------
(* The batch after _update_states, and what its rows hold.                    *)
Updated(s, n, order) ==
  UpdatedBatch(batch, [comp |-> s.comp, outs |-> [r \in Reqs |-> Len(Recovered(n)[r])]], n, order,
               [r \in Reqs |-> NoBlocks])

Due(s, n) ==
  LET held(r) == r \in Members(batch)
  IN  [comp   |-> [r \in Reqs |-> s.comp[r] - n[r]],
       prompt |-> [r \in Reqs |-> IF held(r) THEN Held(batch).prompt[r] ELSE PromptLen[r] + Len(Recovered(n)[r])],
       tokens |-> [r \in Reqs |-> IF held(r) THEN Held(batch).tokens[r] ELSE PromptLen[r] + Len(Recovered(n)[r])],
       blocks |-> [r \in Reqs |-> IF held(r) THEN [Held(batch).blocks[r] EXCEPT !.len = @ + n[r]] ELSE NoBlocks]]

(* Due, field by field.                                                       *)
LEMMA DueOf ==
  ASSUME NEW s, NEW n, NEW r \in Reqs
  PROVE  /\ Due(s, n).comp[r] = s.comp[r] - n[r]
         /\ r \in Members(batch) =>
              /\ Due(s, n).prompt[r] = Held(batch).prompt[r] /\ Due(s, n).tokens[r] = Held(batch).tokens[r]
              /\ Due(s, n).blocks[r] = [Held(batch).blocks[r] EXCEPT !.len = @ + n[r]]
         /\ r \notin Members(batch) =>
              /\ Due(s, n).prompt[r] = PromptLen[r] + Len(Recovered(n)[r])
              /\ Due(s, n).tokens[r] = PromptLen[r] + Len(Recovered(n)[r])
              /\ Due(s, n).blocks[r] = NoBlocks
BY DEF Due

(* _update_states gives every scheduled request its row, with these counts.   *)
LEMMA Updating ==
  ASSUME AsyncInv, NEW pre, NEW discarded, NEW n, Planned(pre, discarded, n),
         NEW s, Advanced(s, pre, discarded, n),
         NEW order \in SetToSeqs({r \in Reqs : n[r] > 0} \ Members(batch))
  PROVE  LET u == Updated(s, n, order)
         IN  Table(u, Due(s, n)) /\ Members(u) = {r \in Reqs : n[r] > 0} /\ Holes(u) = {}
<1> DEFINE known == [comp |-> s.comp, outs |-> [r \in Reqs |-> Len(Recovered(n)[r])]]
           none == [r \in Reqs |-> NoBlocks]
           v == Due(s, n)
           w == Held(batch)
           u == Updated(s, n, order)
           W == {r \in Reqs : n[r] > 0}
<1>1. Table(batch, w) /\ Members(batch) \subseteq Reqs
  BY DEF AsyncInv, RowsInv, Table
<1>2. \A r \in W : n[r] \in Nat /\ known.comp[r] - n[r] \in Nat /\ known.comp[r] - n[r] = Start(r)
  BY Numbers DEF Planned, Advanced
<1>3. Continues({r \in Members(batch) : n[r] > 0}, w, v, known, n)
  <2>1. ASSUME NEW r \in Members(batch), n[r] > 0
        PROVE  /\ known.comp[r] - n[r] \in Nat /\ v.comp[r] = known.comp[r] - n[r]
               /\ v.prompt[r] = w.prompt[r] /\ v.tokens[r] = w.tokens[r]
               /\ v.blocks[r] = [w.blocks[r] EXCEPT !.len = @ + n[r]]
    BY <1>1, <1>2, <2>1, DueOf, SMTT(30)
  <2> HIDE DEF v, w, known
  <2>2. QED BY <2>1 DEF Continues
<1>4. Range(order) = W \ Members(batch)
  <2>1. IsFiniteSet(W \ Members(batch))
    BY FS_Subset, BatchAssumption
  <2> HIDE DEF W
  <2>2. QED BY <2>1, Listings DEF W
<1>5. Joins(order, v, known, n, none)
  <2>1. ASSUME NEW r \in Range(order)
        PROVE  /\ known.comp[r] - n[r] \in Nat /\ v.comp[r] = known.comp[r] - n[r]
               /\ known.outs[r] \in Nat /\ v.tokens[r] = PromptLen[r] + known.outs[r]
               /\ v.prompt[r] = v.tokens[r] /\ v.comp[r] = 0
               /\ v.blocks[r] = none[r]
    <3>1. r \in Reqs /\ r \notin Members(batch) /\ n[r] > 0
      BY <1>4
    <3>2. Fills(r, n) /\ sched.st[r] # "running"
      BY <3>1 DEF Planned, Rolls, Fills
    <3>3. Recovered(n)[r] = stream[r] /\ Start(r) = 0 /\ Len(stream[r]) \in Nat
      BY <3>1, <3>2, Numbers DEF Fills, Start
    <3>4. known.outs[r] = Len(Recovered(n)[r]) /\ none[r] = NoBlocks
      BY <3>1
    <3>5. known.comp[r] - n[r] \in Nat /\ known.comp[r] - n[r] = 0
      BY <1>2, <3>1, <3>3
    <3>6. Due(s, n).comp[r] = s.comp[r] - n[r]
      <4> HIDE DEF known, v, none, w, u, W
      <4>1. QED BY <3>1 DEF Due
    <3>7. /\ Due(s, n).prompt[r] = PromptLen[r] + Len(Recovered(n)[r])
          /\ Due(s, n).tokens[r] = PromptLen[r] + Len(Recovered(n)[r])
          /\ Due(s, n).blocks[r] = NoBlocks
      <4> HIDE DEF known, v, none, w, u, W
      <4>1. QED BY <3>1 DEF Due
    <3> HIDE DEF known, v, none
    <3>8. QED BY <3>3, <3>4, <3>5, <3>6, <3>7 DEF v, known
  <2>2. NoBlocks \in [of : Reqs \union {NONE}, epoch : Nat, len : Nat]
    BY DEF NoBlocks
  <2>3. \A r \in Range(order) : none[r] = NoBlocks
    BY <1>4
  <2> HIDE DEF known, v, none
  <2>4. QED BY <2>1, <2>2, <2>3 DEF Joins
<1>6. n \in [Reqs -> Nat] /\ Cardinality(W) <= MaxReqs
  BY DEF Planned
<1>7. u = UpdatedBatch(batch, known, n, order, none)
  BY DEF Updated
<1> HIDE DEF known, v, w, none, u
<1>8. Table(u, v) /\ Members(u) = {r \in Reqs : n[r] > 0} /\ Holes(u) = {}
  <2>1. Cardinality({r \in Reqs : n[r] > 0}) <= MaxReqs
    BY <1>6
  <2> HIDE DEF W
  <2>2. LET c == UpdatedBatch(batch, known, n, order, none)
        IN  /\ Table(c, v) /\ Members(c) = {r \in Reqs : n[r] > 0} /\ Holes(c) = {}
            /\ Rebuilt(batch, c, known, n)
    BY <1>1, <1>3, <1>5, <1>6, <2>1, StepUpdated
  <2>3. QED BY <1>7, <2>2
<1>9. QED BY <1>8 DEF u, v

(* Reading the rows of a batch by their requests.                             *)
LEMMA RowOf ==
  ASSUME NEW b, NEW w, Table(b, w), Holes(b) = {}, NEW r \in Members(b)
  PROVE  /\ b.index[r] \in DOMAIN b.req_ids /\ b.req_ids[b.index[r]] = r
         /\ b.index[r] \in Rows /\ b.index[r] \in 1..Len(b.req_ids)
         /\ b.row[b.index[r]].comp = w.comp[r] /\ b.row[b.index[r]].prompt = w.prompt[r]
<1>1. b.index[r] \in DOMAIN b.req_ids /\ b.req_ids[b.index[r]] = r /\ HasRow(b.row[b.index[r]], r, w)
  BY DEF Table
<1>2. DOMAIN b.req_ids = 1..Len(b.req_ids) /\ DOMAIN b.req_ids \subseteq Rows
  BY FullRows
<1>3. QED BY <1>1, <1>2 DEF HasRow

(* A batch reduced to what this module reads of it is still a Table.          *)
LEMMA TrimmedTable ==
  ASSUME NEW b, NEW w, Table(b, w), Holes(b) = {}
  PROVE  LET t == Trimmed(b)
         IN  /\ Table(t, Held(t)) /\ Holes(t) = {} /\ Members(t) = Members(b) /\ t.index = b.index
             /\ \A r \in Members(b) : /\ t.row[t.index[r]].comp = w.comp[r]
                                      /\ t.row[t.index[r]].prompt = w.prompt[r]
<1> DEFINE t == Trimmed(b)
           rows == [i \in Rows |-> IF i \in DOMAIN b.req_ids
                                     THEN [b.row[i] EXCEPT !.blocks = NoBlocks] ELSE EmptyRow]
<1>1. IsBatch(b) /\ b.row \in [Rows -> Row] /\ DOMAIN b.req_ids \subseteq Rows
  BY FullRows DEF Table
<1>2. /\ t.req_ids = b.req_ids /\ t.index = b.index /\ t.cache = <<>> /\ t.row = rows
      /\ t = [req_ids |-> t.req_ids, index |-> t.index, row |-> t.row, cache |-> t.cache]
  <2>1. t = [b EXCEPT !.cache = <<>>, !.row = rows]
    BY DEF Trimmed
  <2>2. b = [req_ids |-> b.req_ids, index |-> b.index, row |-> b.row, cache |-> b.cache]
    BY <1>1 DEF IsBatch
  <2> HIDE DEF t, rows
  <2>3. t = [req_ids |-> b.req_ids, index |-> b.index, row |-> rows, cache |-> <<>>]
    BY <2>1, <2>2
  <2>4. QED BY <2>3
<1>3. NoBlocks \in [of : Reqs \union {NONE}, epoch : Nat, len : Nat]
  BY DEF NoBlocks
<1>4. \A i \in DOMAIN b.req_ids :
        LET x == [b.row[i] EXCEPT !.blocks = NoBlocks]
        IN  /\ x \in Row /\ x.own = b.row[i].own /\ x.comp = b.row[i].comp /\ x.prompt = b.row[i].prompt
            /\ x.tokens = b.row[i].tokens /\ x.gen = b.row[i].gen /\ x.bad = b.row[i].bad
  BY <1>1, <1>3, ZenonT(30) DEF Row
<1>5. EmptyRow \in Row /\ Clean(EmptyRow)
  BY <1>3 DEF Row, EmptyRow, Clean
<1>6. rows \in [Rows -> Row]
  BY <1>4, <1>5
<1> HIDE DEF t
<1>7. Members(t) = Members(b) /\ Holes(t) = {}
  BY <1>2 DEF Members, Holes
<1>8. ASSUME NEW r \in Members(b)
      PROVE  /\ t.req_ids[t.index[r]] = r /\ HasRow(t.row[t.index[r]], r, Held(t))
             /\ t.row[t.index[r]].comp = w.comp[r] /\ t.row[t.index[r]].prompt = w.prompt[r]
  <2> DEFINE i == b.index[r]
             x == [b.row[i] EXCEPT !.blocks = NoBlocks]
  <2>1. i \in DOMAIN b.req_ids /\ i \in Rows /\ b.req_ids[i] = r /\ HasRow(b.row[i], r, w)
    BY RowOf DEF Table
  <2>2. t.row[i] = x /\ t.index[r] = i /\ t.req_ids[i] = r
    BY <1>2, <2>1
  <2>3. /\ x.own = b.row[i].own /\ x.comp = b.row[i].comp /\ x.prompt = b.row[i].prompt
        /\ x.gen = b.row[i].gen /\ x.bad = b.row[i].bad
    BY <1>4, <2>1
  <2> HIDE DEF x, i
  <2>4. /\ Held(t).comp[r] = t.row[i].comp /\ Held(t).prompt[r] = t.row[i].prompt
        /\ Held(t).tokens[r] = t.row[i].tokens /\ Held(t).blocks[r] = t.row[i].blocks
    BY <1>7, <2>2 DEF Held
  <2>5. HasRow(t.row[i], r, Held(t))
    BY <2>1, <2>2, <2>3, <2>4 DEF HasRow
  <2>6. QED BY <2>1, <2>2, <2>3, <2>5 DEF HasRow
<1>9. \A i \in Rows : Vacant(t, i) => Clean(t.row[i])
  <2>1. ASSUME NEW i \in Rows, Vacant(t, i) PROVE i \notin DOMAIN b.req_ids
    BY <1>2, <2>1 DEF Vacant, Holes
  <2>2. QED BY <1>2, <1>5, <2>1
<1>10. /\ t.req_ids \in Seq(Reqs \union {NONE}) /\ Len(t.req_ids) <= MaxReqs
       /\ Members(t) \subseteq Reqs /\ t.index \in [Members(t) -> DOMAIN t.req_ids]
       /\ \A i \in DOMAIN t.req_ids \ Holes(t) : t.req_ids[i] \in Members(t) /\ t.index[t.req_ids[i]] = i
  BY <1>2, <1>7 DEF Table
<1>11. t.row \in [Rows -> Row] /\ t.cache \in Seq(Reqs) /\ IsBatch(t)
  BY <1>2, <1>6 DEF IsBatch
<1>12. Table(t, Held(t))
  BY <1>7, <1>8, <1>9, <1>10, <1>11 DEF Table
<1>13. QED BY <1>2, <1>7, <1>8, <1>12 DEF t

(* Where a scheduled request is before and after the step.                    *)
LEMMA Coming ==
  ASSUME AsyncInv, NEW pre, NEW discarded, NEW n, Planned(pre, discarded, n),
         NEW s, Advanced(s, pre, discarded, n), NEW r \in Reqs, n[r] > 0
  PROVE  /\ Due(s, n).comp[r] = Start(r) /\ s.comp[r] = Start(r) + n[r] /\ s.comp[r] <= Known(r)
         /\ n[r] \in Nat /\ Due(s, n).prompt[r] \in Nat
         /\ Rolls(r, n) => n[r] = 1 /\ Due(s, n).prompt[r] <= Start(r) /\ s.comp[r] = Known(r)
         /\ ~Rolls(r, n) => Fills(r, n) /\ Due(s, n).prompt[r] = Known(r) /\ Start(r) < Known(r)
<1>1. /\ n[r] \in Nat /\ Start(r) \in Nat /\ Known(r) = PromptLen[r] + Had(r) /\ Known(r) \in Nat
      /\ PromptLen[r] \in Nat /\ Had(r) \in Nat /\ s.comp[r] = Start(r) + n[r]
  BY Numbers DEF Planned, Advanced
<1>2. Due(s, n).comp[r] = Start(r)
  <2>1. Due(s, n).comp[r] = s.comp[r] - n[r]
    BY DEF Due
  <2>2. QED BY <1>1, <2>1
<1>3. ASSUME r \in Members(batch) PROVE Due(s, n).prompt[r] = Prompt(r) /\ Prompt(r) \in Nat
  <2>1. Due(s, n).prompt[r] = Held(batch).prompt[r] /\ Held(batch).prompt[r] = Prompt(r)
    BY <1>3 DEF Due, Held, Prompt
  <2>2. Table(batch, Held(batch)) /\ Holes(batch) = {}
    BY DEF AsyncInv, RowsInv
  <2>3. batch.index[r] \in Rows
    BY <1>3, <2>2, RowOf
  <2>4. batch.row[batch.index[r]] \in Row
    BY <2>2, <2>3 DEF Table
  <2>5. Prompt(r) \in Nat
    BY <2>4 DEF Prompt, Row
  <2>6. QED BY <2>1, <2>5
<1>4. CASE Rolls(r, n)
  <2>1. /\ r \in Members(batch) /\ sched.st[r] = "running" /\ n[r] = 1
        /\ sched.comp[r] >= Prompt(r) /\ sched.comp[r] = PromptLen[r] + Had(r) - 1
    BY <1>4 DEF Rolls, Decodes
  <2>2. Start(r) = sched.comp[r]
    BY <2>1 DEF Start
  <2>3. Prompt(r) <= Start(r) /\ s.comp[r] = Known(r)
    BY <1>1, <1>3, <2>1, <2>2
  <2>4. QED BY <1>1, <1>2, <1>3, <1>4, <2>1, <2>3
<1>5. CASE ~Rolls(r, n)
  <2>1. Fills(r, n)
    BY <1>5 DEF Planned
  <2>2. s.comp[r] <= Known(r) /\ Start(r) < Known(r)
    BY <1>1, <2>1 DEF Fills
  <2>3. Due(s, n).prompt[r] = Known(r)
    <3>1. CASE r \in Members(batch)
      BY <1>3, <2>1, <3>1 DEF Fills
    <3>2. CASE r \notin Members(batch)
      <4>1. Due(s, n).prompt[r] = PromptLen[r] + Len(Recovered(n)[r])
        BY <3>2 DEF Due
      <4>2. Recovered(n)[r] = stream[r] /\ sched.ph[r] = 0
        BY <2>1 DEF Fills
      <4>3. Len(stream[r]) \in Nat /\ Known(r) = PromptLen[r] + Len(stream[r])
        BY <1>1, <4>2, Numbers DEF Known
      <4>4. QED BY <4>1, <4>2, <4>3
    <3>3. QED BY <3>1, <3>2
  <2>4. QED BY <1>1, <1>2, <1>5, <2>1, <2>2, <2>3
<1>6. QED BY <1>4, <1>5

-----------------------------------------------------------------------------
(* The batch as the step computes on it: decodes first, one token each.       *)
Laid(c, s, n) ==
  /\ Table(c, Due(s, n)) /\ Holes(c) = {} /\ Members(c) = {r \in Reqs : n[r] > 0}
  /\ NumDecodes(c, n) \in 0..Len(c.req_ids)
  /\ \A i \in 1..Len(c.req_ids) :
       LET r == c.req_ids[i]
       IN  /\ r \in Reqs /\ n[r] > 0 /\ c.index[r] = i /\ i \in Rows
           /\ c.row[i].comp = Start(r) /\ c.row[i].prompt = Due(s, n).prompt[r]
           /\ i <= NumDecodes(c, n) <=> Rolls(r, n)

(* The reordering puts the requests that decode before the others.            *)
LEMMA Laying ==
  ASSUME AsyncInv, NEW pre, NEW discarded, NEW n, Planned(pre, discarded, n),
         NEW s, Advanced(s, pre, discarded, n),
         NEW order \in SetToSeqs({r \in Reqs : n[r] > 0} \ Members(batch))
  PROVE  Laid(Reordered(Updated(s, n, order), n), s, n)
<1> DEFINE u == Updated(s, n, order)
           c == Reordered(u, n)
           v == Due(s, n)
           m == NumDecodes(c, n)
<1>1. Table(u, v) /\ Members(u) = {r \in Reqs : n[r] > 0} /\ Holes(u) = {}
  BY Updating
<1>2. \A r \in Members(u) : n[r] \in Nat \ {0}
  BY <1>1 DEF Planned
<1> HIDE DEF u, v
<1>3. /\ Table(c, v) /\ Holes(c) = {} /\ Members(c) = Members(u)
      /\ m \in 0..Len(c.req_ids)
      /\ \A i \in DOMAIN c.req_ids : IsPrompt(c, n, i) <=> i > m
  <2>1. LET d == Reordered(u, n)
        IN  /\ Table(d, v) /\ Holes(d) = {} /\ Members(d) = Members(u)
            /\ NumDecodes(d, n) \in 0..Len(d.req_ids)
            /\ \A i \in DOMAIN d.req_ids : IsPrompt(d, n, i) <=> i > NumDecodes(d, n)
    BY <1>1, <1>2, ReorderedBatch
  <2>2. QED BY <2>1
<1> HIDE DEF c, m
<1>4. ASSUME NEW i \in 1..Len(c.req_ids)
      PROVE  LET r == c.req_ids[i]
             IN  /\ r \in Reqs /\ n[r] > 0 /\ c.index[r] = i /\ i \in Rows
                 /\ c.row[i].comp = Start(r) /\ c.row[i].prompt = v.prompt[r]
                 /\ i <= m <=> Rolls(r, n)
  <2> DEFINE r == c.req_ids[i]
  <2>1. i \in DOMAIN c.req_ids /\ r \in Members(c) /\ c.index[r] = i /\ i \in Rows
    BY <1>3, FullRows
  <2>2. r \in Reqs /\ n[r] > 0
    BY <1>1, <1>3, <2>1
  <2>3. c.row[i].comp = v.comp[r] /\ c.row[i].prompt = v.prompt[r]
    <3> HIDE DEF r
    <3>1. c.row[c.index[r]].comp = v.comp[r] /\ c.row[c.index[r]].prompt = v.prompt[r]
      BY <1>3, <2>1, RowOf
    <3>2. QED BY <2>1, <3>1
  <2> HIDE DEF r
  <2>4. /\ v.comp[r] = Start(r) /\ n[r] \in Nat
        /\ Rolls(r, n) => n[r] = 1 /\ v.prompt[r] <= Start(r)
        /\ ~Rolls(r, n) => v.prompt[r] = Known(r) /\ Start(r) < Known(r)
        /\ v.prompt[r] \in Nat /\ Start(r) \in Nat
    BY <2>2, Coming, Numbers DEF v
  <2>5. IsPrompt(c, n, i) <=> Start(r) < v.prompt[r] \/ n[r] > 1
    BY <2>3, <2>4 DEF IsPrompt, r
  <2>6. IsPrompt(c, n, i) <=> ~Rolls(r, n)
    BY <2>4, <2>5
  <2>7. IsPrompt(c, n, i) <=> i > m
    BY <1>3, <2>1
  <2>8. m \in Int
    BY <1>3
  <2>9. i <= m <=> Rolls(r, n)
    BY <2>6, <2>7, <2>8
  <2>10. QED BY <2>1, <2>2, <2>3, <2>4, <2>9 DEF r
<1>5. Laid(c, s, n)
  BY <1>1, <1>3, <1>4 DEF Laid, v, m
<1>6. QED BY <1>5 DEF c, u

(* The rows of the requests of the step.                                      *)
LEMMA LaidRow ==
  ASSUME NEW c, NEW s, NEW n, Laid(c, s, n), NEW r \in Reqs, n[r] > 0
  PROVE  /\ c.index[r] \in 1..Len(c.req_ids) /\ c.index[r] \in Rows /\ c.req_ids[c.index[r]] = r
         /\ c.row[c.index[r]].comp = Start(r) /\ c.row[c.index[r]].prompt = Due(s, n).prompt[r]
         /\ c.index[r] <= NumDecodes(c, n) <=> Rolls(r, n)
         /\ Len(c.req_ids) \in Nat /\ DOMAIN c.req_ids = 1..Len(c.req_ids) /\ DOMAIN c.req_ids \subseteq Rows
<1>1. r \in Members(c) /\ Table(c, Due(s, n)) /\ Holes(c) = {}
  BY DEF Laid
<1>2. c.index[r] \in 1..Len(c.req_ids) /\ c.req_ids[c.index[r]] = r
  BY <1>1, RowOf
<1>3. Len(c.req_ids) \in Nat /\ DOMAIN c.req_ids = 1..Len(c.req_ids) /\ DOMAIN c.req_ids \subseteq Rows
  BY <1>1, FullRows
<1>4. QED BY <1>2, <1>3 DEF Laid

(* One is the greater of one and something not greater.                       *)
LEMMA MaxWithOne ==
  ASSUME NEW x \in Int, x <= 1
  PROVE  Max({1, x}) = 1
<1> DEFINE S == {1, x}
<1>1. 1 \in S /\ \A y \in S : 1 >= y /\ y \in Int
  OBVIOUS
<1> HIDE DEF S
<1>2. Max(S) \in S /\ \A y \in S : Max(S) >= y
  BY <1>1 DEF Max
<1>3. Max(S) = 1
  BY <1>1, <1>2
<1>4. QED BY <1>3 DEF S

(* A request of the step is sampled from when all that is known of it is      *)
(* computed.                                                                  *)
Samples(s, r) == s.comp[r] = Known(r)

(* Every row of the step has one logit, that of its request's next token.     *)
LEMMA OneLogit ==
  ASSUME AsyncInv, NEW pre, NEW discarded, NEW n, Planned(pre, discarded, n),
         NEW s, Advanced(s, pre, discarded, n), NEW c, Laid(c, s, n)
  PROVE  /\ Sampled(c, n) = [i \in 1..Len(c.req_ids) |->
                               Token(c.req_ids[i], s.comp[c.req_ids[i]] - PromptLen[c.req_ids[i]] + 1)]
         /\ \A i \in 1..Len(c.req_ids) : i \in InvalidRows(c, n) <=> ~Samples(s, c.req_ids[i])
<1> DEFINE m == NumDecodes(c, n)
           L == Len(c.req_ids)
           of(i) == LET r == c.req_ids[i]
                        k == IF i <= m THEN 1 ELSE NumLogits(c, n, i)
                        last == c.row[i].comp + n[r] - PromptLen[r] + 1
                    IN  [j \in 1..k |-> Token(r, last - k + j)]
           f == [i \in 1..L |-> Token(c.req_ids[i], s.comp[c.req_ids[i]] - PromptLen[c.req_ids[i]] + 1)]
<1>1. L \in Nat /\ DOMAIN c.req_ids = 1..L /\ m \in 0..L
  BY FullRows DEF Laid
<1>2. ASSUME NEW i \in 1..L
      PROVE  /\ of(i) = <<f[i]>> /\ f[i] \in [of : Reqs, at : Int]
             /\ i \in InvalidRows(c, n) <=> ~Samples(s, c.req_ids[i])
  <2> DEFINE r == c.req_ids[i]
             e == Extra(c, n, i)
             last == c.row[i].comp + n[r] - PromptLen[r] + 1
  <2>1. /\ r \in Reqs /\ n[r] > 0 /\ c.row[i].comp = Start(r) /\ c.row[i].prompt = Due(s, n).prompt[r]
        /\ i <= m <=> Rolls(r, n)
    BY DEF Laid
  <2> HIDE DEF r, m
  <2>2. /\ s.comp[r] = Start(r) + n[r] /\ n[r] \in Nat /\ s.comp[r] <= Known(r)
        /\ Rolls(r, n) => s.comp[r] = Known(r)
        /\ ~Rolls(r, n) => Due(s, n).prompt[r] = Known(r)
        /\ Start(r) \in Nat /\ Known(r) \in Nat /\ PromptLen[r] \in Nat
    BY <2>1, Coming, Numbers
  <2>3. last = s.comp[r] - PromptLen[r] + 1 /\ last \in Int /\ s.comp[r] \in Nat
    BY <2>1, <2>2
  <2>4. f[i] = Token(r, last) /\ f[i] \in [of : Reqs, at : Int]
    BY <2>1, <2>3 DEF r, Token
  <2>5. ASSUME ~ (i <= m) PROVE NumLogits(c, n, i) = 1 /\ e = s.comp[r] - Known(r) + 1
    <3>1. e = s.comp[r] - Known(r) + 1 /\ e \in Int /\ e <= 1
      BY <2>1, <2>2, <2>5 DEF Extra, r
    <3>2. NumLogits(c, n, i) = Max({1, Min({e, n[r]})})
      BY DEF NumLogits, r
    <3> HIDE DEF e
    <3>3. Min({e, n[r]}) \in Int /\ Min({e, n[r]}) <= e
      <4>1. e \in Int /\ n[r] \in Int
        BY <2>2, <3>1
      <4>2. \A y \in Int : Min({e, y}) \in Int /\ Min({e, y}) <= e
        BY <4>1, MinOfTwo
      <4>3. QED BY <4>1, <4>2
    <3> DEFINE x == Min({e, n[r]})
    <3>4. x \in Int /\ x <= 1
      BY <3>1, <3>3
    <3> HIDE DEF x
    <3>5. Max({1, x}) = 1
      BY <3>4, MaxWithOne
    <3>6. QED BY <3>1, <3>2, <3>5 DEF x
  <2>6. of(i) = [j \in 1..1 |-> Token(r, last - 1 + j)]
    BY <2>5 DEF r
  <2>7. of(i) = <<f[i]>>
    <3> HIDE DEF of, last, f
    <3>1. last - 1 + 1 = last
      BY <2>3
    <3>2. of(i) = <<Token(r, last)>>
      BY <2>6, <3>1
    <3>3. QED BY <2>4, <3>2
  <2>8. i \in InvalidRows(c, n) <=> ~Samples(s, r)
    <3>1. i \in InvalidRows(c, n) <=> ~ (i <= m) /\ e < 1
      BY <1>1 DEF InvalidRows, m
    <3> HIDE DEF e
    <3>2. CASE i <= m
      <4>1. s.comp[r] = Known(r)
        BY <2>1, <2>2, <3>2
      <4>2. QED BY <3>1, <3>2, <4>1 DEF Samples
    <3>3. CASE ~ (i <= m)
      <4>1. e = s.comp[r] - Known(r) + 1
        BY <2>5, <3>3
      <4>2. i \in InvalidRows(c, n) <=> e < 1
        BY <3>1, <3>3
      <4>3. e < 1 <=> s.comp[r] # Known(r)
        BY <2>2, <4>1
      <4>4. QED BY <4>2, <4>3 DEF Samples
    <3>4. QED BY <3>2, <3>3
  <2>9. QED BY <2>4, <2>7, <2>8 DEF r
<1>3. f \in [1..L -> [of : Reqs, at : Int]]
  <2>1. \A i \in 1..L : f[i] \in [of : Reqs, at : Int]
    BY <1>2
  <2>2. f = [i \in 1..L |-> f[i]]
    OBVIOUS
  <2> HIDE DEF f
  <2>3. QED BY <2>1, <2>2
<1>4. Sampled(c, n) = Flat([i \in 1..L |-> of(i)])
  BY <1>1 DEF Sampled
<1>5. [i \in 1..L |-> of(i)] = [i \in 1..L |-> <<f[i]>>]
  <2> HIDE DEF of, f
  <2>1. QED BY <1>2
<1>6. Flat([i \in 1..L |-> <<f[i]>>]) = f
  <2> HIDE DEF f
  <2>1. QED BY <1>1, <1>3, FlatSingles
<1>7. Sampled(c, n) = f
  <2> HIDE DEF f, of
  <2>1. QED BY <1>4, <1>5, <1>6
<1>8. QED BY <1>2, <1>7

(* What get_output will find in the frame of the step.                        *)
LEMMA NewOutput ==
  ASSUME AsyncInv, NEW pre, NEW discarded, NEW n, Planned(pre, discarded, n),
         NEW s, Advanced(s, pre, discarded, n), NEW c, Laid(c, s, n), NEW r \in Reqs, n[r] > 0
  PROVE  LET f == [index |-> c.index, tokens |-> Sampled(c, n), invalid |-> InvalidRows(c, n)]
         IN  /\ Samples(s, r) => /\ Sampled(c, n)[c.index[r]] = Token(r, Had(r) + 1)
                                 /\ OutputOf(f, r) = <<Token(r, Had(r) + 1)>>
             /\ ~Samples(s, r) => OutputOf(f, r) = <<>>
             /\ c.index[r] \in InvalidRows(c, n) <=> ~Samples(s, r)
<1> DEFINE f == [index |-> c.index, tokens |-> Sampled(c, n), invalid |-> InvalidRows(c, n)]
           i == c.index[r]
<1>1. i \in 1..Len(c.req_ids) /\ c.req_ids[i] = r
  BY LaidRow
<1> HIDE DEF i
<1>2. DOMAIN Sampled(c, n) = 1..Len(c.req_ids) /\ Sampled(c, n)[i] = Token(r, s.comp[r] - PromptLen[r] + 1)
  BY <1>1, OneLogit
<1>3. i \in InvalidRows(c, n) <=> ~Samples(s, r)
  BY <1>1, OneLogit
<1>4. Samples(s, r) => s.comp[r] - PromptLen[r] + 1 = Had(r) + 1
  BY Numbers DEF Samples
<1>5. OutputOf(f, r) = IF i \in InvalidRows(c, n) \/ i \notin DOMAIN Sampled(c, n) THEN <<>> ELSE <<Sampled(c, n)[i]>>
  BY DEF OutputOf, i
<1>6. QED BY <1>1, <1>2, <1>3, <1>4, <1>5 DEF i

(* The flat place of a request's last token in the step.                      *)
LEMMA FlatPlace ==
  ASSUME NEW n \in [Reqs -> Nat], NEW s, NEW c, Laid(c, s, n), NEW r \in Members(c)
  PROVE  /\ FlatIndex(c, n, r) \in Nat /\ FlatIndex(c, n, r) >= c.index[r]
         /\ c.index[r] <= NumDecodes(c, n) => FlatIndex(c, n, r) = c.index[r]
<1> DEFINE m == c.index[r]
           f == [i \in 1..m |-> n[c.req_ids[i]]]
<1>1. r \in Reqs /\ n[r] > 0
  BY DEF Laid
<1>2. m \in 1..Len(c.req_ids) /\ Len(c.req_ids) \in Nat /\ m \in Nat
  <2>1. m \in 1..Len(c.req_ids) /\ Len(c.req_ids) \in Nat
    BY <1>1, LaidRow
  <2> HIDE DEF m
  <2>2. QED BY <2>1
<1>3. FlatIndex(c, n, r) = SumOf(f)
  BY DEF FlatIndex
<1> HIDE DEF m
<1>4. \A i \in 1..m : n[c.req_ids[i]] \in Nat \ {0}
  <2>1. \A i \in 1..m : i \in 1..Len(c.req_ids)
    BY <1>2
  <2>2. \A i \in 1..m : c.req_ids[i] \in Reqs /\ n[c.req_ids[i]] > 0
    BY <2>1 DEF Laid
  <2>3. QED BY <2>2
<1>5. f \in [1..m -> Nat \ {0}]
  BY <1>4
<1>6. ASSUME m <= NumDecodes(c, n) PROVE \A i \in 1..m : f[i] = 1
  <2>1. \A i \in 1..m : i \in 1..Len(c.req_ids) /\ i <= NumDecodes(c, n)
    BY <1>2, <1>6 DEF Laid
  <2>2. \A i \in 1..m : Rolls(c.req_ids[i], n)
    BY <2>1 DEF Laid
  <2>3. QED BY <2>2 DEF Rolls
<1> HIDE DEF f
<1>7. SumOf(f) \in Nat /\ SumOf(f) >= m /\ ((\A i \in 1..m : f[i] = 1) => SumOf(f) = m)
  BY <1>2, <1>5, SumAtLeast
<1>8. QED BY <1>3, <1>6, <1>7 DEF m

(* A decode reads the token its request sampled in the step before.           *)
LEMMA DecodeFed ==
  ASSUME AsyncInv, NEW pre, NEW discarded, NEW n, Planned(pre, discarded, n),
         NEW s, NEW c, Laid(c, s, n), NEW r \in Reqs, n[r] > 0, Rolls(r, n)
  PROVE  NumDecodes(c, n) > 0 /\ InputIds(c, n)[c.index[r]] = Token(r, Had(r))
<1> DEFINE i == c.index[r]
           at == {q \in Common(c) : FlatIndex(c, n, q) = i}
<1>1. i \in 1..Len(c.req_ids) /\ i \in Rows /\ c.req_ids[i] = r /\ i <= NumDecodes(c, n) /\ r \in Members(c)
  BY LaidRow DEF Laid
<1>2. NumDecodes(c, n) \in Nat /\ Len(c.req_ids) \in Nat /\ n \in [Reqs -> Nat]
  BY LaidRow DEF Laid, Planned
<1>3. r \in DOMAIN prev.index /\ prev.ids[prev.index[r]] = Token(r, Had(r))
  BY DEF Rolls, Decodes
<1>4. r \in at
  <2>1. FlatIndex(c, n, r) = i
    BY <1>1, <1>2, FlatPlace
  <2>2. QED BY <1>1, <1>3, <2>1 DEF Common
<1>5. ASSUME NEW q \in at PROVE q = r
  <2>1. q \in Members(c) /\ FlatIndex(c, n, q) = i
    BY <1>5 DEF Common
  <2>2. q \in Reqs /\ n[q] > 0
    BY <2>1 DEF Laid
  <2> HIDE DEF i, at
  <2>3. c.index[q] \in 1..Len(c.req_ids) /\ c.req_ids[c.index[q]] = q
    BY <2>2, LaidRow
  <2>4. i >= c.index[q] /\ (c.index[q] <= NumDecodes(c, n) => i = c.index[q])
    BY <1>2, <2>1, FlatPlace
  <2>5. c.index[q] <= NumDecodes(c, n)
    BY <1>1, <1>2, <2>3, <2>4
  <2>6. QED BY <1>1, <2>3, <2>4, <2>5
<1>6. at = {r}
  <2> HIDE DEF at
  <2>1. QED BY <1>4, <1>5
<1>7. InputIds(c, n)[i] = IF at = {} THEN ids[i] ELSE prev.ids[prev.index[CHOOSE q \in at : TRUE]]
  BY <1>1 DEF InputIds
<1> HIDE DEF at, i
<1>8. InputIds(c, n)[i] = prev.ids[prev.index[r]]
  <2>1. (CHOOSE q \in {r} : TRUE) = r
    OBVIOUS
  <2>2. QED BY <1>6, <1>7, <2>1
<1>9. QED BY <1>1, <1>2, <1>3, <1>8 DEF i

(* input_ids_hpu, token_ids_cpu and output_token_ids as the step reads them.  *)
Device(c, n) == IF NumDecodes(c, n) > 0 THEN InputIds(c, n) ELSE ids
Host(n, order) == [r \in Reqs |-> IF r \in Range(order) THEN Recovered(n)[r] ELSE cpu[r]]
Readable(c, n) == [r \in Reqs |-> IF r \in Members(c) THEN Repaired(r, Recovered(n)[r]) ELSE Recovered(n)[r]]

(* A request that computes known tokens has them all on the host.             *)
LEMMA HostOwn ==
  ASSUME AsyncInv, NEW n, NEW order \in SetToSeqs({r \in Reqs : n[r] > 0} \ Members(batch)),
         NEW r \in Reqs, n[r] > 0, Fills(r, n)
  PROVE  Host(n, order)[r] = stream[r] /\ stream[r] = Tokens(r, Had(r)) /\ sched.ph[r] = 0
<1>1. sched.ph[r] = 0 /\ Recovered(n)[r] = stream[r] /\ (r \in Members(batch) => cpu[r] = stream[r])
  BY DEF Fills
<1>2. Range(order) = {q \in Reqs : n[q] > 0} \ Members(batch)
  <2> DEFINE W == {q \in Reqs : n[q] > 0} \ Members(batch)
  <2>1. IsFiniteSet(W)
    BY FS_Subset, BatchAssumption
  <2>2. order \in SetToSeqs(W)
    OBVIOUS
  <2> HIDE DEF W
  <2>3. Range(order) = W
    BY <2>1, <2>2, Listings
  <2>4. QED BY <2>3 DEF W
<1>3. Host(n, order)[r] = stream[r]
  BY <1>1, <1>2 DEF Host
<1>4. stream[r] = Tokens(r, Len(stream[r])) /\ Len(stream[r]) \in Nat
  BY DEF AsyncInv, StreamInv
<1>5. QED BY <1>1, <1>3, <1>4 DEF Had

(* The greater of two numbers.                                                *)
LEMMA MaxOfTwo ==
  ASSUME NEW x \in Int, NEW y \in Int
  PROVE  Max({x, y}) \in Int /\ Max({x, y}) >= x /\ Max({x, y}) >= y
<1> DEFINE S == {x, y}
<1>1. \E z \in S : \A v \in S : z >= v
  <2>1. CASE x <= y
    BY <2>1
  <2>2. CASE y <= x
    BY <2>2
  <2>3. QED BY <2>1, <2>2
<1>2. Max(S) \in S /\ \A v \in S : Max(S) >= v
  <2> HIDE DEF S
  <2>1. QED BY <1>1 DEF Max
<1>3. QED BY <1>2

(* No request of a step is fed a wrong token.                                 *)
LEMMA NobodyMisfed ==
  ASSUME AsyncInv, NEW pre, NEW discarded, NEW n, Planned(pre, discarded, n),
         NEW s, Advanced(s, pre, discarded, n), NEW c, Laid(c, s, n),
         NEW order \in SetToSeqs({r \in Reqs : n[r] > 0} \ Members(batch))
  PROVE  Misfed(c, n, Device(c, n), Host(n, order)) = {}
<1> DEFINE device == Device(c, n)
           host == Host(n, order)
           bad(r) == LET place == c.row[c.index[r]].comp - PromptLen[r]
                     IN  IF c.index[r] <= NumDecodes(c, n)
                           THEN device[c.index[r]] # Token(r, place + 1)
                           ELSE \E k \in Max({1, place + 1})..place + n[r] :
                                  k > Len(host[r]) \/ host[r][k] # Token(r, k)
<1>1. ASSUME NEW r \in Members(c) PROVE ~bad(r)
  <2> DEFINE place == c.row[c.index[r]].comp - PromptLen[r]
  <2>1. r \in Reqs /\ n[r] > 0
    BY DEF Laid
  <2>2. c.row[c.index[r]].comp = Start(r) /\ (c.index[r] <= NumDecodes(c, n) <=> Rolls(r, n))
    BY <2>1, LaidRow
  <2>3. /\ Start(r) \in Nat /\ PromptLen[r] \in Nat /\ Had(r) \in Nat /\ Known(r) = PromptLen[r] + Had(r)
        /\ n[r] \in Nat
    BY <2>1, Numbers DEF Planned
  <2>4. place = Start(r) - PromptLen[r] /\ place \in Int
    BY <2>2, <2>3
  <2> HIDE DEF place, device, host
  <2>5. CASE Rolls(r, n)
    <3>1. Start(r) = PromptLen[r] + Had(r) - 1
      BY <2>5 DEF Rolls, Decodes, Start
    <3>2. place + 1 = Had(r)
      BY <2>3, <2>4, <3>1
    <3>3. device[c.index[r]] = Token(r, Had(r))
      <4>1. device = InputIds(c, n) /\ InputIds(c, n)[c.index[r]] = Token(r, Had(r))
        BY <2>1, <2>5, DecodeFed DEF device, Device
      <4>2. QED BY <4>1
    <3>4. QED BY <2>2, <2>5, <3>2, <3>3 DEF place
  <2>6. CASE ~Rolls(r, n)
    <3>1. Fills(r, n)
      BY <2>1, <2>6 DEF Planned
    <3>2. host[r] = Tokens(r, Had(r))
      BY <2>1, <3>1, HostOwn DEF host
    <3>3. Len(host[r]) = Had(r) /\ \A k \in 1..Had(r) : host[r][k] = Token(r, k)
      BY <2>3, <3>2 DEF Tokens
    <3>4. Start(r) + n[r] <= Known(r)
      BY <3>1 DEF Fills
    <3>5. place + n[r] <= Had(r)
      BY <2>3, <2>4, <3>4
    <3>6. Max({1, place + 1}) \in Int /\ Max({1, place + 1}) >= 1
      <4>1. \A y \in Int : Max({1, y}) \in Int /\ Max({1, y}) >= 1
        BY MaxOfTwo
      <4>2. place + 1 \in Int
        BY <2>4
      <4>3. QED BY <4>1, <4>2
    <3>7. \A k \in Max({1, place + 1})..place + n[r] : k \in 1..Had(r)
      BY <2>3, <2>4, <3>5, <3>6
    <3>8. \A k \in Max({1, place + 1})..place + n[r] : ~ (k > Len(host[r]) \/ host[r][k] # Token(r, k))
      BY <2>3, <3>3, <3>7
    <3>9. QED BY <2>2, <2>6, <3>8 DEF place
  <2>7. QED BY <2>5, <2>6
<1>2. Misfed(c, n, device, host) = {r \in Members(c) : bad(r)}
  BY DEF Misfed
<1> HIDE DEF bad, device, host
<1>3. Misfed(c, n, device, host) = {}
  BY <1>1, <1>2
<1>4. QED BY <1>3 DEF device, host

(* A request's own tokens.                                                    *)
LEMMA TokensFacts ==
  ASSUME NEW r \in Reqs, NEW k \in Nat
  PROVE  /\ Tokens(r, k) \in Seq([of : Reqs, at : Int]) /\ Len(Tokens(r, k)) = k
         /\ \A j \in 1..k : Tokens(r, k)[j] = Token(r, j) /\ Token(r, j) # MINUS1
         /\ Append(Tokens(r, k), Token(r, k + 1)) = Tokens(r, k + 1)
<1> DEFINE T == [of : Reqs, at : Int]
           q == Tokens(r, k)
<1>1. q \in [1..k -> T] /\ \A j \in 1..k : q[j] = Token(r, j)
  BY DEF Tokens, Token
<1>2. \A j \in 1..k : Token(r, j) # MINUS1
  BY BatchAssumption DEF Token, MINUS1
<1>3. Token(r, k + 1) \in T
  BY DEF Token
<1> HIDE DEF T, q
<1>4. q \in Seq(T) /\ Len(q) = k
  BY <1>1
<1> DEFINE a == Append(q, Token(r, k + 1))
<1>5. a \in Seq(T) /\ Len(a) = k + 1 /\ a[k + 1] = Token(r, k + 1) /\ \A j \in 1..k : a[j] = q[j]
  BY <1>3, <1>4
<1> HIDE DEF a
<1>6. \A j \in 1..(k + 1) : a[j] = Token(r, j)
  <2>1. \A j \in 1..(k + 1) : j = k + 1 \/ j \in 1..k
    OBVIOUS
  <2>2. QED BY <1>1, <1>5, <2>1
<1>7. a = [j \in 1..(k + 1) |-> Token(r, j)]
  BY <1>5, <1>6
<1>8. QED BY <1>1, <1>2, <1>4, <1>7 DEF a, q, T, Tokens

(* Nothing to repair without a placeholder at the end.                        *)
LEMMA NothingToRepair ==
  ASSUME NEW r \in Reqs, NEW k \in Nat
  PROVE  Repaired(r, Tokens(r, k)) = Tokens(r, k)
<1> DEFINE outs == Tokens(r, k)
<1>1. Len(outs) = k /\ outs \in Seq([of : Reqs, at : Int]) /\ \A j \in 1..k : outs[j] # MINUS1
  BY TokensFacts
<1> HIDE DEF outs
<1>2. outs # <<>> => Last(outs) # MINUS1
  <2>1. outs # <<>> => Len(outs) \in 1..k
    BY <1>1
  <2>2. QED BY <1>1, <2>1 DEF Last
<1>3. QED BY <1>2 DEF Repaired, outs

(* The placeholder of the step before gives way to its token.                 *)
LEMMA PlaceholderRepaired ==
  ASSUME NEW r \in Reqs, NEW k \in Nat, prev.spare, r \in DOMAIN prev.index,
         prev.ids[prev.index[r]] = Token(r, k + 1)
  PROVE  Repaired(r, Append(Tokens(r, k), MINUS1)) = Tokens(r, k + 1)
<1> DEFINE q == Tokens(r, k)
           outs == Append(q, MINUS1)
           T == [of : Reqs, at : Int] \union {MINUS1}
           K == Range(outs) \ {MINUS1}
<1>1. q \in Seq([of : Reqs, at : Int]) /\ Len(q) = k /\ \A j \in 1..k : q[j] # MINUS1
  BY TokensFacts, ZenonT(30)
<1>2. q \in Seq(T)
  <2> DEFINE U == [of : Reqs, at : Int]
  <2>1. U \subseteq T /\ q \in Seq(U)
    BY <1>1
  <2> HIDE DEF q, T, U
  <2>2. q \in [1..Len(q) -> U] /\ Len(q) \in Nat
    BY <2>1
  <2>3. q \in [1..Len(q) -> T]
    BY <2>1, <2>2
  <2>4. QED BY <2>2, <2>3
<1>3. MINUS1 \in T
  OBVIOUS
<1> HIDE DEF q, T
<1>4. /\ outs \in Seq(T) /\ Len(outs) = k + 1 /\ outs[k + 1] = MINUS1
      /\ \A j \in 1..k : outs[j] = q[j] /\ j \in 1..(k + 1)
  BY <1>1, <1>2, <1>3
<1>5. outs # <<>> /\ Last(outs) = MINUS1
  <2> HIDE DEF outs
  <2>1. QED BY <1>4 DEF Last
<1>6. \A j \in 1..Len(q) : q[j] \in K
  <2> HIDE DEF outs
  <2>1. DOMAIN outs = 1..(k + 1)
    BY <1>4
  <2>2. QED BY <1>1, <1>4, <2>1 DEF Range
<1>7. MINUS1 \notin K
  OBVIOUS
<1> HIDE DEF K
<1>8. OnlyIn(Append(q, MINUS1), K) = q
  BY <1>2, <1>3, <1>6, <1>7, OnlyInFront
<1>9. Repaired(r, outs) = Append(OnlyIn(outs, K), prev.ids[prev.index[r]])
  <2> HIDE DEF outs
  <2>1. QED BY <1>5 DEF Repaired, K
<1>10. Append(q, Token(r, k + 1)) = Tokens(r, k + 1)
  BY TokensFacts DEF q
<1>11. QED BY <1>8, <1>9, <1>10 DEF q

(* output_token_ids as the sampler reads it.                                  *)
LEMMA HistoryOf ==
  ASSUME AsyncInv, NEW pre, NEW discarded, NEW n, Planned(pre, discarded, n),
         NEW s, NEW c, Laid(c, s, n), NEW r \in Reqs, n[r] > 0
  PROVE  /\ Fills(r, n) => Readable(c, n)[r] = stream[r] /\ stream[r] = Tokens(r, Had(r))
         /\ r \in HasPenalty => Readable(c, n)[r] = Tokens(r, Had(r))
<1>1. Readable(c, n)[r] = Repaired(r, Recovered(n)[r])
  BY DEF Readable, Laid
<1>2. Had(r) \in Nat
  BY Numbers
<1>3. ASSUME Fills(r, n) PROVE Readable(c, n)[r] = stream[r] /\ stream[r] = Tokens(r, Had(r))
  <2>1. Recovered(n)[r] = stream[r] /\ sched.ph[r] = 0
    BY <1>3 DEF Fills
  <2>2. stream[r] = Tokens(r, Had(r))
    <3>1. stream[r] = Tokens(r, Len(stream[r])) /\ Len(stream[r]) \in Nat
      BY DEF AsyncInv, StreamInv
    <3>2. QED BY <2>1, <3>1 DEF Had
  <2>3. QED BY <1>1, <1>2, <2>1, <2>2, NothingToRepair
<1>4. ASSUME Rolls(r, n), r \in HasPenalty PROVE Readable(c, n)[r] = Tokens(r, Had(r))
  <2> DEFINE k == Had(r) - 1
  <2>1. /\ r \in Members(batch) /\ Had(r) >= 1 /\ r \in DOMAIN prev.index
        /\ prev.ids[prev.index[r]] = Token(r, Had(r)) /\ prev.spare
        /\ outputs[r] = Append(Tokens(r, k), MINUS1)
    BY <1>4 DEF Rolls, Decodes
  <2>2. k \in Nat /\ k + 1 = Had(r)
    BY <1>2, <2>1
  <2>3. Recovered(n)[r] = outputs[r]
    BY <2>1 DEF Recovered
  <2> HIDE DEF k
  <2>4. Repaired(r, Append(Tokens(r, k), MINUS1)) = Tokens(r, k + 1)
    BY <2>1, <2>2, PlaceholderRepaired
  <2>5. QED BY <1>1, <2>1, <2>2, <2>3, <2>4
<1>5. Rolls(r, n) \/ Fills(r, n)
  BY DEF Planned
<1>6. QED BY <1>3, <1>4, <1>5

(* The requests a token is sampled for.                                       *)
Valid(c, n) == {r \in Members(c) : c.index[r] \notin InvalidRows(c, n)}

(* Only the rows of incomplete prompts are discarded.                         *)
LEMMA ValidSamples ==
  ASSUME AsyncInv, NEW pre, NEW discarded, NEW n, Planned(pre, discarded, n),
         NEW s, Advanced(s, pre, discarded, n), NEW c, Laid(c, s, n)
  PROVE  Valid(c, n) = {r \in Reqs : n[r] > 0 /\ Samples(s, r)}
<1>1. Members(c) = {r \in Reqs : n[r] > 0}
  BY DEF Laid
<1>2. \A r \in Reqs : n[r] > 0 => (c.index[r] \in InvalidRows(c, n) <=> ~Samples(s, r))
  BY NewOutput
<1>3. QED BY <1>1, <1>2 DEF Valid

(* No sampler reads another history than its request's own.                   *)
LEMMA NobodyMisread ==
  ASSUME AsyncInv, NEW pre, NEW discarded, NEW n, Planned(pre, discarded, n),
         NEW s, Advanced(s, pre, discarded, n), NEW c, Laid(c, s, n)
  PROVE  Misread(c, n, Valid(c, n), Readable(c, n)) = {}
<1>1. ASSUME NEW r \in Valid(c, n) \cap HasPenalty
      PROVE  Readable(c, n)[r] = [k \in 1..c.row[c.index[r]].comp + n[r] - PromptLen[r] |-> Token(r, k)]
  <2>1. r \in Reqs /\ n[r] > 0 /\ Samples(s, r)
    BY ValidSamples
  <2>2. Readable(c, n)[r] = Tokens(r, Had(r))
    BY <1>1, <2>1, HistoryOf
  <2>3. c.row[c.index[r]].comp = Start(r)
    BY <2>1, LaidRow
  <2>4. Start(r) + n[r] = Known(r)
    BY <2>1 DEF Samples, Advanced
  <2>5. Start(r) + n[r] - PromptLen[r] = Had(r)
    <3>1. /\ Known(r) = PromptLen[r] + Had(r) /\ PromptLen[r] \in Nat /\ Had(r) \in Nat
          /\ Start(r) \in Nat /\ n[r] \in Nat
      BY <2>1, Numbers DEF Planned
    <3>2. QED BY <2>4, <3>1
  <2>6. QED BY <2>2, <2>3, <2>5 DEF Tokens
<1>2. QED BY <1>1 DEF Misread

-----------------------------------------------------------------------------
(* What a step leaves in the runner's variables.                              *)
NewFrame(f, s, n) ==
  /\ f \in Frames /\ DOMAIN f.index = {r \in Reqs : n[r] > 0}
  /\ \A r \in Reqs : n[r] > 0 =>
       /\ Samples(s, r) => OutputOf(f, r) = <<Token(r, Had(r) + 1)>>
       /\ ~Samples(s, r) => OutputOf(f, r) = <<>>

(* the rows,                                                                  *)
NewRows(b, s, n) ==
  /\ Table(b, Held(b)) /\ Holes(b) = {} /\ Members(b) = {r \in Reqs : n[r] > 0}
  /\ \A r \in Reqs : n[r] > 0 => b.row[b.index[r]].prompt = Due(s, n).prompt[r]

(* the sampled ids on the device,                                             *)
NewPrev(p, s, n) ==
  \A r \in Reqs : n[r] > 0 /\ Samples(s, r) =>
    /\ r \in DOMAIN p.index /\ p.ids[p.index[r]] = Token(r, Had(r) + 1)
    /\ r \in HasPenalty => p.spare

(* and the lists on the host.                                                 *)
NewLists(outs, host, s, n) ==
  /\ DOMAIN outs = Reqs /\ DOMAIN host = Reqs
  /\ \A r \in Reqs :
       /\ n[r] = 0 => outs[r] = outputs[r]
       /\ n[r] > 0 /\ Samples(s, r) /\ r \in HasPenalty => outs[r] = Append(Tokens(r, Had(r)), MINUS1)
       /\ n[r] > 0 /\ ~Samples(s, r) => outs[r] = stream[r] /\ host[r] = stream[r]

(* A step that schedules nothing only empties the batch.                      *)
LEMMA NobodyScheduled ==
  ASSUME AsyncInv, NEW pre, NEW discarded, NEW n, Planned(pre, discarded, n),
         NEW s, Advanced(s, pre, discarded, n),
         NEW order \in SetToSeqs({r \in Reqs : n[r] > 0} \ Members(batch)),
         Members(Updated(s, n, order)) = {}
  PROVE  LET ran == Ran(s, n, order)
         IN  /\ NewFrame(ran.frame, s, n) /\ NewRows(ran.batch, s, n)
             /\ NewPrev(ran.prev, s, n) /\ NewLists(ran.outputs, ran.cpu, s, n)
             /\ ran.latest = [misfed |-> {}, misread |-> {}]
<1> DEFINE u == Updated(s, n, order)
           ran == Ran(s, n, order)
<1>1. Table(u, Due(s, n)) /\ Members(u) = {r \in Reqs : n[r] > 0} /\ Holes(u) = {}
  BY Updating
<1>2. \A r \in Reqs : ~ (n[r] > 0)
  BY <1>1, SMTT(30)
<1>3. /\ ran.batch = Trimmed(u) /\ ran.outputs = Recovered(n) /\ ran.cpu = Host(n, order)
      /\ ran.frame = [index |-> u.index, tokens |-> <<>>, invalid |-> {}]
      /\ ran.latest = [misfed |-> {}, misread |-> {}]
  BY DEF Ran, Updated, Host
<1> HIDE DEF u, ran
<1>4. NewFrame(ran.frame, s, n)
  <2>1. u.index \in [Members(u) -> Rows] /\ Members(u) \in SUBSET Reqs
    BY <1>1, UsedRows DEF Table
  <2>2. ran.frame \in Frames
    BY <1>3, <2>1 DEF Frames
  <2>3. DOMAIN ran.frame.index = Members(u)
    BY <1>3 DEF Members
  <2>4. QED BY <1>1, <1>2, <2>2, <2>3 DEF NewFrame
<1>5. NewRows(ran.batch, s, n)
  BY <1>1, <1>2, <1>3, TrimmedTable DEF NewRows
<1>6. NewPrev(ran.prev, s, n)
  BY <1>2 DEF NewPrev
<1>7. NewLists(ran.outputs, ran.cpu, s, n)
  BY <1>2, <1>3 DEF NewLists, Recovered, Host
<1>8. QED BY <1>3, <1>4, <1>5, <1>6, <1>7 DEF ran

(* What a step that schedules something leaves.                               *)
LEMMA SomeScheduled ==
  ASSUME AsyncInv, NEW pre, NEW discarded, NEW n, Planned(pre, discarded, n),
         NEW s, Advanced(s, pre, discarded, n),
         NEW order \in SetToSeqs({r \in Reqs : n[r] > 0} \ Members(batch)),
         Members(Updated(s, n, order)) # {}
  PROVE  LET ran == Ran(s, n, order)
         IN  /\ NewFrame(ran.frame, s, n) /\ NewRows(ran.batch, s, n)
             /\ NewPrev(ran.prev, s, n) /\ NewLists(ran.outputs, ran.cpu, s, n)
             /\ ran.latest = [misfed |-> {}, misread |-> {}]
<1> DEFINE u == Updated(s, n, order)
           c == Reordered(u, n)
           ran == Ran(s, n, order)
           W == {r \in Reqs : n[r] > 0}
<1>1. Laid(c, s, n)
  BY Laying, SMTT(30)
<1>2. /\ ran.batch = Trimmed(c) /\ ran.cpu = Host(n, order)
      /\ ran.outputs = [r \in Reqs |-> IF r \in Valid(c, n) THEN Append(Readable(c, n)[r], MINUS1)
                                       ELSE Readable(c, n)[r]]
      /\ ran.prev = [ids   |-> Sampled(c, n), index |-> [r \in Valid(c, n) |-> c.index[r]],
                     spare |-> Members(c) \cap HasPenalty # {}]
      /\ ran.frame = [index |-> c.index, tokens |-> Sampled(c, n), invalid |-> InvalidRows(c, n)]
      /\ ran.latest = [misfed  |-> Misfed(c, n, Device(c, n), Host(n, order)),
                       misread |-> Misread(c, n, Valid(c, n), Readable(c, n))]
  BY DEF Ran, Updated, Device, Host, Readable, Valid
<1> HIDE DEF u, c, ran
<1>3. Table(c, Due(s, n)) /\ Holes(c) = {} /\ Members(c) = W
  BY <1>1 DEF Laid
<1>4. Valid(c, n) = {r \in Reqs : n[r] > 0 /\ Samples(s, r)}
  BY <1>1, ValidSamples
<1>5. NewFrame(ran.frame, s, n)
  <2>1. c.index \in [Members(c) -> Rows] /\ Members(c) \in SUBSET Reqs /\ DOMAIN c.req_ids \subseteq Rows
    BY <1>3, FullRows, UsedRows DEF Table
  <2>2. Sampled(c, n) \in Seq([of : Reqs, at : Int])
    <3> DEFINE f == [i \in 1..Len(c.req_ids) |->
                       Token(c.req_ids[i], s.comp[c.req_ids[i]] - PromptLen[c.req_ids[i]] + 1)]
               T == [of : Reqs, at : Int]
    <3>1. Sampled(c, n) = f
      BY <1>1, OneLogit
    <3>2. ASSUME NEW i \in 1..Len(c.req_ids) PROVE f[i] \in T
      <4>1. c.req_ids[i] \in Reqs
        BY <1>1 DEF Laid
      <4>2. s.comp[c.req_ids[i]] \in Nat /\ PromptLen[c.req_ids[i]] \in Nat
        BY <4>1, Numbers DEF Advanced
      <4>3. QED BY <4>1, <4>2 DEF Token
    <3>3. Len(c.req_ids) \in Nat
      BY <1>3, FullRows
    <3>4. f \in [1..Len(c.req_ids) -> T]
      BY <3>2
    <3> HIDE DEF f, T
    <3>5. f \in Seq(T)
      BY <3>3, <3>4
    <3>6. QED BY <3>1, <3>5 DEF T
  <2>3. InvalidRows(c, n) \subseteq Rows
    <3>1. NumDecodes(c, n) \in Nat /\ DOMAIN c.req_ids = 1..Len(c.req_ids)
      BY <1>1, <1>3, FullRows DEF Laid
    <3>2. NumDecodes(c, n) + 1..Len(c.req_ids) \subseteq Rows
      BY <2>1, <3>1
    <3>3. QED BY <3>2 DEF InvalidRows
  <2>4. ran.frame \in Frames
    BY <1>2, <2>1, <2>2, <2>3 DEF Frames
  <2>5. DOMAIN ran.frame.index = W
    BY <1>2, <1>3 DEF Members
  <2>6. \A r \in Reqs : n[r] > 0 =>
           /\ Samples(s, r) => OutputOf(ran.frame, r) = <<Token(r, Had(r) + 1)>>
           /\ ~Samples(s, r) => OutputOf(ran.frame, r) = <<>>
    BY <1>1, <1>2, NewOutput
  <2>7. QED BY <2>4, <2>5, <2>6 DEF NewFrame
<1>6. NewRows(ran.batch, s, n)
  <2>1. LET t == Trimmed(c)
        IN  /\ Table(t, Held(t)) /\ Holes(t) = {} /\ Members(t) = Members(c) /\ t.index = c.index
            /\ \A r \in Members(c) : /\ t.row[t.index[r]].comp = Due(s, n).comp[r]
                                     /\ t.row[t.index[r]].prompt = Due(s, n).prompt[r]
    BY <1>3, TrimmedTable
  <2>2. QED BY <1>2, <1>3, <2>1 DEF NewRows
<1>7. NewPrev(ran.prev, s, n)
  <2>1. ASSUME NEW r \in Reqs, n[r] > 0, Samples(s, r)
        PROVE  /\ r \in DOMAIN ran.prev.index /\ ran.prev.ids[ran.prev.index[r]] = Token(r, Had(r) + 1)
               /\ r \in HasPenalty => ran.prev.spare
    <3>1. r \in Valid(c, n) /\ r \in Members(c)
      BY <1>3, <1>4, <2>1
    <3>2. r \in DOMAIN ran.prev.index /\ ran.prev.index[r] = c.index[r] /\ ran.prev.ids = Sampled(c, n)
      BY <1>2, <3>1
    <3>3. Sampled(c, n)[c.index[r]] = Token(r, Had(r) + 1)
      BY <1>1, <2>1, NewOutput
    <3>4. r \in HasPenalty => ran.prev.spare
      <4>1. ran.prev.spare = (Members(c) \cap HasPenalty # {})
        BY <1>2
      <4>2. r \in HasPenalty => Members(c) \cap HasPenalty # {}
        BY <3>1
      <4>3. QED BY <4>1, <4>2, Zenon
    <3>5. QED BY <3>2, <3>3, <3>4
  <2>2. QED BY <2>1 DEF NewPrev
<1>8. NewLists(ran.outputs, ran.cpu, s, n)
  <2>1. DOMAIN ran.outputs = Reqs /\ DOMAIN ran.cpu = Reqs
    BY <1>2 DEF Host
  <2>2. ASSUME NEW r \in Reqs, n[r] = 0 PROVE ran.outputs[r] = outputs[r]
    <3>1. r \notin Members(c) /\ r \notin Valid(c, n)
      BY <1>3, <1>4, <2>2
    <3>2. Readable(c, n)[r] = Recovered(n)[r] /\ Recovered(n)[r] = outputs[r]
      BY <2>2, <3>1 DEF Readable, Recovered
    <3>3. QED BY <1>2, <3>1, <3>2
  <2>3. ASSUME NEW r \in Reqs, n[r] > 0, Samples(s, r), r \in HasPenalty
        PROVE  ran.outputs[r] = Append(Tokens(r, Had(r)), MINUS1)
    <3>1. r \in Valid(c, n)
      BY <1>4, <2>3
    <3>2. Readable(c, n)[r] = Tokens(r, Had(r))
      BY <1>1, <2>3, HistoryOf
    <3>3. QED BY <1>2, <3>1, <3>2
  <2>4. ASSUME NEW r \in Reqs, n[r] > 0, ~Samples(s, r)
        PROVE  ran.outputs[r] = stream[r] /\ ran.cpu[r] = stream[r]
    <3>1. r \notin Valid(c, n)
      BY <1>4, <2>4
    <3>2. Fills(r, n)
      BY <2>4, Coming DEF Samples
    <3>3. Readable(c, n)[r] = stream[r]
      BY <1>1, <2>4, <3>2, HistoryOf
    <3>4. Host(n, order)[r] = stream[r]
      BY <2>4, <3>2, HostOwn
    <3>5. QED BY <1>2, <3>1, <3>3, <3>4
  <2>5. QED BY <2>1, <2>2, <2>3, <2>4 DEF NewLists
<1>9. ran.latest = [misfed |-> {}, misread |-> {}]
  BY <1>1, <1>2, NobodyMisfed, NobodyMisread
<1>10. QED BY <1>5, <1>6, <1>7, <1>8, <1>9 DEF ran

(* What a step does to the variables.                                         *)
Stepped(n) ==
  /\ Len(frames) < 2 /\ stream' = stream
  /\ \E f : NewFrame(f, sched', n) /\ frames' = Append(frames, f)
  /\ NewRows(batch', sched', n) /\ NewPrev(prev', sched', n) /\ NewLists(outputs', cpu', sched', n)
  /\ latest' = [misfed |-> {}, misread |-> {}]

(* Step does what Planned, Advanced and Stepped say.                          *)
LEMMA Stepping ==
  ASSUME AsyncInv, Steady, Step
  PROVE  \E pre, discarded, n :
           Planned(pre, discarded, n) /\ Advanced(sched', pre, discarded, n) /\ Stepped(n)
<1>1. PICK pre \in SUBSET In("running"), n \in Amounts, hit \in Hits :
        /\ LegalSchedule(pre, n, hit)
        /\ \E discarded \in SUBSET {r \in pre : sched.ph[r] > 0 /\ (MayDiscard \/ stream[r] # <<>>)},
              order \in SetToSeqs({r \in Reqs : n[r] > 0} \ Members(batch)) :
             /\ \A i, j \in DOMAIN order :
                  sched.st[order[j]] = "new" /\ sched.st[order[i]] # "new" => j < i
             /\ \E s \in {Scheduled(pre, discarded, n, hit)} : \E ran \in {Ran(s, n, order)} :
                  /\ sched' = s
                  /\ batch' = ran.batch
                  /\ outputs' = ran.outputs
                  /\ cpu' = ran.cpu
                  /\ prev' = ran.prev
                  /\ ids' = ran.ids
                  /\ frames' = Append(frames, ran.frame)
                  /\ latest' = ran.latest
  BY DEF Step
<1>2. PICK discarded \in SUBSET {r \in pre : sched.ph[r] > 0 /\ (MayDiscard \/ stream[r] # <<>>)},
           order \in SetToSeqs({r \in Reqs : n[r] > 0} \ Members(batch)) :
             \E s \in {Scheduled(pre, discarded, n, hit)} : \E ran \in {Ran(s, n, order)} :
                  /\ sched' = s
                  /\ batch' = ran.batch
                  /\ outputs' = ran.outputs
                  /\ cpu' = ran.cpu
                  /\ prev' = ran.prev
                  /\ ids' = ran.ids
                  /\ frames' = Append(frames, ran.frame)
                  /\ latest' = ran.latest
  BY <1>1
<1>3. hit = 0 /\ ~MayDiscard
  BY DEF Steady
<1>4. Len(frames) < 2 /\ stream' = stream
  BY DEF Step
<1>5. Chosen(pre, discarded, n, order)
  BY <1>1, <1>3, <1>4 DEF Chosen
<1> DEFINE s == Scheduled(pre, discarded, n, 0)
           ran == Ran(s, n, order)
<1>6. /\ sched' = s /\ batch' = ran.batch /\ outputs' = ran.outputs /\ cpu' = ran.cpu
      /\ prev' = ran.prev /\ frames' = Append(frames, ran.frame) /\ latest' = ran.latest
  BY <1>2, <1>3
<1>7. Planned(pre, discarded, n)
  BY <1>5, Planning
<1>8. Advanced(s, pre, discarded, n)
  BY <1>7, Advancing
<1> HIDE DEF s
<1>9. /\ NewFrame(ran.frame, s, n) /\ NewRows(ran.batch, s, n)
      /\ NewPrev(ran.prev, s, n) /\ NewLists(ran.outputs, ran.cpu, s, n)
      /\ ran.latest = [misfed |-> {}, misread |-> {}]
  <2>1. CASE Members(Updated(s, n, order)) = {}
    BY <1>7, <1>8, <2>1, NobodyScheduled
  <2>2. CASE Members(Updated(s, n, order)) # {}
    BY <1>7, <1>8, <2>2, SomeScheduled
  <2>3. QED BY <2>1, <2>2
<1> HIDE DEF ran
<1>10. Stepped(n)
  BY <1>4, <1>6, <1>9 DEF Stepped
<1>11. QED BY <1>6, <1>7, <1>8, <1>10

-----------------------------------------------------------------------------
(* A step keeps the invariant, part by part.                                  *)
LEMMA StepCounts ==
  ASSUME AsyncInv, NEW pre, NEW discarded, NEW n, Planned(pre, discarded, n),
         Advanced(sched', pre, discarded, n), Stepped(n), NEW r \in Reqs
  PROVE  /\ sched.ph[r] \in Nat /\ sched'.ph[r] \in Nat /\ Len(stream[r]) \in Nat /\ stream'[r] = stream[r]
         /\ n[r] \in Nat
         /\ n[r] > 0 /\ Samples(sched', r) =>
              sched'.ph[r] = sched.ph[r] + 1 /\ Had(r)' = Had(r) + 1 /\ Had(r) < MaxOut
         /\ n[r] > 0 /\ ~Samples(sched', r) => sched'.ph[r] = sched.ph[r] /\ Had(r)' = Had(r)
         /\ n[r] = 0 /\ r \notin discarded => sched'.ph[r] = sched.ph[r] /\ Had(r)' = Had(r)
         /\ r \in discarded => /\ n[r] = 0 /\ sched'.ph[r] = 0 /\ Had(r)' = Len(stream[r]) /\ Had(r)' <= Had(r)
                               /\ Had(r)' > 0 /\ sched.ph[r] > 0 /\ r \in pre
<1>1. /\ sched.ph[r] \in Nat /\ sched'.ph[r] \in Nat /\ Len(stream[r]) \in Nat /\ stream' = stream
      /\ n[r] \in Nat
  BY Numbers DEF Advanced, Stepped, Planned
<1>2. Had(r) = Len(stream[r]) + sched.ph[r] /\ Had(r)' = Len(stream[r]) + sched'.ph[r]
  BY <1>1 DEF Had
<1>3. ASSUME n[r] > 0, Samples(sched', r)
      PROVE  sched'.ph[r] = sched.ph[r] + 1 /\ Had(r)' = Had(r) + 1 /\ Had(r) < MaxOut
  <2>1. sched'.ph[r] = sched.ph[r] + 1 /\ ~Capped(r)
    BY <1>3 DEF Advanced, Samples, Planned
  <2>2. Had(r) < MaxOut
    BY <2>1, Numbers
  <2>3. QED BY <1>1, <1>2, <2>1, <2>2
<1>4. ASSUME n[r] > 0, ~Samples(sched', r)
      PROVE  sched'.ph[r] = sched.ph[r] /\ Had(r)' = Had(r)
  BY <1>2, <1>4 DEF Advanced, Samples
<1>5. ASSUME n[r] = 0, r \notin discarded
      PROVE  sched'.ph[r] = sched.ph[r] /\ Had(r)' = Had(r)
  BY <1>2, <1>5 DEF Advanced
<1>6. ASSUME r \in discarded
      PROVE  /\ n[r] = 0 /\ sched'.ph[r] = 0 /\ Had(r)' = Len(stream[r]) /\ Had(r)' <= Had(r)
             /\ Had(r)' > 0 /\ sched.ph[r] > 0 /\ r \in pre
  <2>1. n[r] = 0 /\ sched.ph[r] > 0 /\ stream[r] # <<>> /\ r \in pre
    BY <1>1, <1>6 DEF Planned
  <2>2. sched'.ph[r] = 0
    BY <1>6, <2>1 DEF Advanced
  <2>3. Len(stream[r]) > 0
    <3>1. stream[r] = Tokens(r, Len(stream[r]))
      BY DEF AsyncInv, StreamInv
    <3>2. Len(stream[r]) = 0 => stream[r] = <<>>
      BY <3>1 DEF Tokens
    <3>3. QED BY <1>1, <2>1, <3>2
  <2>4. QED BY <1>1, <1>2, <2>1, <2>2, <2>3
<1>7. QED BY <1>1, <1>3, <1>4, <1>5, <1>6

(* Append, for a reader of its elements.                                      *)
LEMMA Appended ==
  ASSUME NEW S, NEW q \in Seq(S), NEW e \in S
  PROVE  /\ Append(q, e) \in Seq(S) /\ Len(q) \in Nat
         /\ Len(Append(q, e)) = Len(q) + 1
         /\ DOMAIN q = 1..Len(q) /\ DOMAIN Append(q, e) = 1..(Len(q) + 1)
         /\ \A i \in 1..Len(q) : Append(q, e)[i] = q[i]
         /\ Append(q, e)[Len(q) + 1] = e
OBVIOUS

(* The new step comes after those in flight.                                  *)
LEMMA StepFrames ==
  ASSUME AsyncInv, NEW n, Stepped(n)
  PROVE  /\ frames' \in Seq(Frames) /\ Len(frames) \in 0..1 /\ Len(frames') = Len(frames) + 1
         /\ DOMAIN frames = 1..Len(frames) /\ DOMAIN frames' = 1..(Len(frames) + 1)
         /\ \A i \in 1..Len(frames) : frames'[i] = frames[i]
         /\ NewFrame(frames'[Len(frames) + 1], sched', n)
<1>1. PICK f : NewFrame(f, sched', n) /\ frames' = Append(frames, f)
  BY DEF Stepped
<1>2. frames \in Seq(Frames) /\ f \in Frames /\ Len(frames) < 2
  BY <1>1 DEF AsyncInv, TypeInv, NewFrame, Stepped
<1>3. /\ Append(frames, f) \in Seq(Frames) /\ Len(frames) \in 0..1 /\ Len(Append(frames, f)) = Len(frames) + 1
      /\ DOMAIN frames = 1..Len(frames) /\ DOMAIN Append(frames, f) = 1..(Len(frames) + 1)
      /\ \A i \in 1..Len(frames) : Append(frames, f)[i] = frames[i]
      /\ Append(frames, f)[Len(frames) + 1] = f
  <2>1. /\ Append(frames, f) \in Seq(Frames) /\ Len(frames) \in Nat
        /\ Len(Append(frames, f)) = Len(frames) + 1
        /\ DOMAIN frames = 1..Len(frames) /\ DOMAIN Append(frames, f) = 1..(Len(frames) + 1)
        /\ \A i \in 1..Len(frames) : Append(frames, f)[i] = frames[i]
        /\ Append(frames, f)[Len(frames) + 1] = f
    BY <1>2, Appended
  <2>2. QED BY <1>2, <2>1
<1>4. QED BY <1>1, <1>3

(* The types are kept.                                                        *)
LEMMA StepTypes ==
  ASSUME AsyncInv, NEW pre, NEW discarded, NEW n, Planned(pre, discarded, n),
         Advanced(sched', pre, discarded, n), Stepped(n)
  PROVE  TypeInv'
<1>1. frames' \in Seq(Frames) /\ Len(frames') <= 2
  BY StepFrames
<1>2. DOMAIN stream' = Reqs
  BY DEF AsyncInv, TypeInv, Stepped
<1>3. DOMAIN outputs' = Reqs /\ DOMAIN cpu' = Reqs
  BY DEF Stepped, NewLists
<1>4. QED BY <1>1, <1>2, <1>3 DEF TypeInv, Advanced

(* The rows are kept.                                                         *)
LEMMA StepRows ==
  ASSUME AsyncInv, NEW pre, NEW discarded, NEW n, Planned(pre, discarded, n),
         Advanced(sched', pre, discarded, n), Stepped(n)
  PROVE  RowsInv'
<1>1. Table(batch', Held(batch')) /\ Holes(batch') = {} /\ Members(batch') = {r \in Reqs : n[r] > 0}
  BY DEF Stepped, NewRows
<1>2. \A r \in Members(batch') : sched'.st[r] = "running"
  BY <1>1 DEF Advanced
<1>3. Members(batch') \subseteq In("running")'
  BY <1>1, <1>2 DEF In
<1>4. QED BY <1>1, <1>3 DEF RowsInv

(* The steps in flight that will give a request a token.                      *)
LEMMA StepPends ==
  ASSUME AsyncInv, NEW n, n \in [Reqs -> Nat], Stepped(n), NEW r \in Reqs
  PROVE  LET L == Len(frames)
         IN  /\ L \in 0..1
             /\ L = 0 => /\ ~Pends(1, r) /\ ~Pends(2, r) /\ ~Pends(2, r)'
                         /\ Pends(1, r)' <=> n[r] > 0 /\ Samples(sched', r)
                         /\ Pends(1, r)' => OutputOf(frames'[1], r) = <<Token(r, Had(r) + 1)>>
             /\ L = 1 => /\ ~Pends(2, r) /\ (Pends(1, r)' <=> Pends(1, r)) /\ frames'[1] = frames[1]
                         /\ Pends(2, r)' <=> n[r] > 0 /\ Samples(sched', r)
                         /\ Pends(2, r)' => OutputOf(frames'[2], r) = <<Token(r, Had(r) + 1)>>
<1> DEFINE L == Len(frames)
<1>1. /\ L \in 0..1 /\ DOMAIN frames = 1..L /\ DOMAIN frames' = 1..(L + 1)
      /\ \A i \in 1..L : frames'[i] = frames[i]
      /\ NewFrame(frames'[L + 1], sched', n)
  BY StepFrames
<1> DEFINE f == frames'[L + 1]
<1>2. /\ r \in DOMAIN f.index <=> n[r] > 0
      /\ n[r] > 0 /\ Samples(sched', r) => OutputOf(f, r) = <<Token(r, Had(r) + 1)>>
      /\ n[r] > 0 /\ ~Samples(sched', r) => OutputOf(f, r) = <<>>
  <2> HIDE DEF L
  <2>1. NewFrame(f, sched', n)
    BY <1>1
  <2> HIDE DEF f
  <2>2. QED BY <2>1 DEF NewFrame
<1>3. <<Token(r, Had(r) + 1)>> # <<>>
  OBVIOUS
<1>4. (r \in DOMAIN f.index /\ OutputOf(f, r) # <<>>) <=> n[r] > 0 /\ Samples(sched', r)
  BY <1>2, <1>3
<1>5. CASE L = 0
  <2>1. ~Pends(1, r) /\ ~Pends(2, r) /\ ~Pends(2, r)'
    BY <1>1, <1>5 DEF Pends
  <2>2. f = frames'[1]
    BY <1>5
  <2>3. Pends(1, r)' <=> r \in DOMAIN f.index /\ OutputOf(f, r) # <<>>
    BY <1>1, <1>5, <2>2 DEF Pends
  <2> HIDE DEF f
  <2>4. QED BY <1>2, <1>4, <1>5, <2>1, <2>2, <2>3
<1>6. CASE L = 1
  <2>1. ~Pends(2, r)
    BY <1>1, <1>6 DEF Pends
  <2>2. f = frames'[2] /\ frames'[1] = frames[1]
    BY <1>1, <1>6
  <2>3. Pends(2, r)' <=> r \in DOMAIN f.index /\ OutputOf(f, r) # <<>>
    BY <1>1, <1>6, <2>2 DEF Pends
  <2>4. Pends(1, r)' <=> Pends(1, r)
    BY <1>1, <1>6, <2>2 DEF Pends
  <2> HIDE DEF f
  <2>5. QED BY <1>2, <1>4, <1>6, <2>1, <2>2, <2>3, <2>4
<1>7. QED BY <1>1, <1>5, <1>6

(* Placeholders and steps in flight still agree.                              *)
LEMMA StepStreams ==
  ASSUME AsyncInv, NEW pre, NEW discarded, NEW n, Planned(pre, discarded, n),
         Advanced(sched', pre, discarded, n), Stepped(n)
  PROVE  StreamInv'
<1>1. ASSUME NEW r \in Reqs PROVE Len(stream'[r]) \in Nat /\ stream'[r] = Tokens(r, Len(stream'[r]))
  BY DEF AsyncInv, StreamInv, Stepped
<1>2. ASSUME NEW r \in Reqs, sched'.st[r] # "done" PROVE Flying(r)' /\ Had(r)' <= MaxOut
  <2> DEFINE samples == n[r] > 0 /\ Samples(sched', r)
  <2>1. /\ sched.ph[r] \in Nat /\ sched'.ph[r] \in Nat /\ Len(stream[r]) \in Nat /\ stream'[r] = stream[r]
        /\ n[r] \in Nat
        /\ samples => sched'.ph[r] = sched.ph[r] + 1 /\ Had(r)' = Had(r) + 1 /\ Had(r) < MaxOut
        /\ ~samples /\ r \notin discarded => sched'.ph[r] = sched.ph[r] /\ Had(r)' = Had(r)
        /\ r \in discarded => ~samples /\ sched'.ph[r] = 0 /\ Had(r)' <= Had(r) /\ sched.ph[r] > 0
    BY StepCounts
  <2>2. sched.st[r] # "done" /\ Flying(r) /\ Had(r) <= MaxOut
    <3>1. sched.st[r] # "done"
      <4>1. CASE n[r] > 0
        BY <4>1 DEF Planned
      <4>2. CASE n[r] = 0
        BY <1>2, <4>2 DEF Planned, Advanced
      <4>3. QED BY <2>1, <4>1, <4>2
    <3>2. QED BY <3>1 DEF AsyncInv, StreamInv
  <2>3. MaxOut \in Nat /\ Had(r) \in Nat /\ Had(r) = Len(stream[r]) + sched.ph[r]
    BY Numbers DEF Had
  <2>4. Had(r)' <= MaxOut
    <3>1. Had(r)' = Len(stream[r]) + sched'.ph[r]
      BY <2>1 DEF Had
    <3>2. Had(r)' \in Nat
      BY <2>1, <3>1
    <3>3. QED BY <2>1, <2>2, <2>3, <3>2
  <2>5. LET L == Len(frames)
        IN  /\ L \in 0..1
            /\ L = 0 => /\ ~Pends(1, r) /\ ~Pends(2, r) /\ ~Pends(2, r)'
                        /\ Pends(1, r)' <=> samples
                        /\ Pends(1, r)' => OutputOf(frames'[1], r) = <<Token(r, Had(r) + 1)>>
            /\ L = 1 => /\ ~Pends(2, r) /\ (Pends(1, r)' <=> Pends(1, r)) /\ frames'[1] = frames[1]
                        /\ Pends(2, r)' <=> samples
                        /\ Pends(2, r)' => OutputOf(frames'[2], r) = <<Token(r, Had(r) + 1)>>
    BY StepPends DEF Planned
  <2> HIDE DEF samples
  <2>6. CASE Len(frames) = 0
    <3>1. sched.ph[r] = 0
      BY <2>2, <2>5, <2>6 DEF Flying
    <3>2. r \notin discarded
      BY <2>1, <3>1
    <3>3. sched'.ph[r] = (IF Pends(1, r)' THEN 1 ELSE 0) + (IF Pends(2, r)' THEN 1 ELSE 0)
      BY <2>1, <2>5, <2>6, <3>1, <3>2
    <3>4. Pends(1, r)' => OutputOf(frames'[1], r) = <<Token(r, Len(stream'[r]) + 1)>>
      <4>1. Had(r) + 1 = Len(stream'[r]) + 1
        BY <2>1, <2>3, <3>1
      <4>2. QED BY <2>5, <2>6, <4>1
    <3>5. ~Pends(2, r)'
      BY <2>5, <2>6
    <3>6. QED BY <2>4, <3>3, <3>4, <3>5 DEF Flying
  <2>7. CASE Len(frames) = 1
    <3>1. /\ sched.ph[r] = (IF Pends(1, r) THEN 1 ELSE 0)
          /\ Pends(1, r) => OutputOf(frames[1], r) = <<Token(r, Len(stream[r]) + 1)>>
      BY <2>2, <2>5, <2>7 DEF Flying
    <3>2. CASE r \in discarded
      <4>1. sched'.ph[r] = 0 /\ Pends(1, r)' /\ ~Pends(2, r)'
        BY <2>1, <2>5, <2>7, <3>1, <3>2
      <4>2. Len(frames') = 2
        BY <2>7, StepFrames
      <4>3. QED BY <2>4, <4>1, <4>2 DEF Flying
    <3>3. CASE r \notin discarded
      <4>1. sched'.ph[r] = (IF Pends(1, r)' THEN 1 ELSE 0) + (IF Pends(2, r)' THEN 1 ELSE 0)
        BY <2>1, <2>5, <2>7, <3>1, <3>3
      <4>2. Pends(1, r)' => OutputOf(frames'[1], r) = <<Token(r, Len(stream'[r]) + 1)>>
        BY <2>1, <2>5, <2>7, <3>1
      <4>3. Pends(2, r)' => OutputOf(frames'[2], r) = <<Token(r, Had(r)')>>
        BY <2>1, <2>5, <2>7
      <4>4. QED BY <2>4, <4>1, <4>2, <4>3 DEF Flying
    <3>4. QED BY <3>2, <3>3
  <2>8. QED BY <2>5, <2>6, <2>7
<1>3. QED BY <1>1, <1>2 DEF StreamInv

-----------------------------------------------------------------------------
(* A request that is not running after the step has nothing in its last frame.*)
LEMMA StepWaits ==
  ASSUME AsyncInv, NEW pre, NEW discarded, NEW n, Planned(pre, discarded, n),
         Advanced(sched', pre, discarded, n), Stepped(n),
         NEW r \in Reqs, sched'.st[r] \in {"new", "preempted"}
  PROVE  Waits(r)'
<1>1. n[r] = 0 /\ outputs'[r] = outputs[r]
  <2>1. n[r] \in Nat
    BY DEF Planned
  <2>2. ~ (n[r] > 0)
    BY DEF Advanced
  <2>3. n[r] = 0
    BY <2>1, <2>2
  <2>4. QED BY <2>3 DEF Stepped, NewLists
<1>2. r \notin DOMAIN frames'[Len(frames')].index
  <2>1. Len(frames') = Len(frames) + 1 /\ NewFrame(frames'[Len(frames) + 1], sched', n)
    BY StepFrames
  <2>2. QED BY <1>1, <2>1 DEF NewFrame
<1>3. /\ r \notin discarded => Had(r)' = Had(r)
      /\ r \in discarded => Had(r)' > 0 /\ r \in pre
  BY <1>1, StepCounts
<1>4. sched'.st[r] = (IF r \in pre THEN "preempted" ELSE sched.st[r])
  BY <1>1 DEF Advanced
<1>5. CASE r \notin pre
  <2>1. Waits(r) /\ Had(r)' = Had(r) /\ sched'.st[r] = sched.st[r]
    BY <1>3, <1>4, <1>5 DEF AsyncInv, ReqInv
  <2>2. QED BY <1>1, <1>2, <2>1 DEF Waits
<1>6. CASE r \in pre
  <2>1. sched.st[r] = "running" /\ Runs(r)
    BY <1>6 DEF Planned, AsyncInv, ReqInv
  <2>2. ASSUME Had(r)' = 0 PROVE outputs[r] = <<>>
    <3>1. r \notin discarded
      BY <1>3, <2>2
    <3>2. Had(r) = 0 /\ MaxOut > 0
      BY <1>3, <2>2, <3>1, AsyncAssumption
    <3>3. ~Capped(r)
      BY <3>2, Numbers
    <3>4. Prefills(r)
      BY <2>1, <3>2, <3>3 DEF Runs, Decodes
    <3>5. outputs[r] = stream[r] /\ sched.ph[r] = 0
      BY <3>4 DEF Prefills
    <3>6. Len(stream[r]) = 0
      BY <3>2, <3>5, Numbers DEF Had
    <3>7. stream[r] = <<>>
      <4>1. stream[r] = Tokens(r, Len(stream[r]))
        BY DEF AsyncInv, StreamInv
      <4>2. QED BY <3>6, <4>1 DEF Tokens
    <3>8. QED BY <3>5, <3>7
  <2>3. sched'.st[r] = "preempted"
    BY <1>4, <1>6
  <2>4. QED BY <1>1, <1>2, <2>2, <2>3 DEF Waits
<1>7. QED BY <1>5, <1>6

(* A running request prefills or decodes after the step, or waits for its end.*)
LEMMA StepRuns ==
  ASSUME AsyncInv, NEW pre, NEW discarded, NEW n, Planned(pre, discarded, n),
         Advanced(sched', pre, discarded, n), Stepped(n),
         NEW r \in Reqs, sched'.st[r] = "running"
  PROVE  Runs(r)'
<1>1. /\ n[r] \in Nat /\ Had(r) \in Nat /\ PromptLen[r] \in Nat /\ sched.ph[r] \in Nat
      /\ Known(r) = PromptLen[r] + Had(r) /\ Start(r) \in Nat
  BY Numbers DEF Planned
<1>2. Members(batch)' = {q \in Reqs : n[q] > 0}
  BY DEF Stepped, NewRows
<1>3. CASE n[r] = 0
  <2>1. r \notin pre /\ sched.st[r] = "running" /\ sched'.comp[r] = sched.comp[r]
    BY <1>3 DEF Advanced
  <2>2. Capped(r) /\ r \notin discarded /\ Runs(r)
    BY <1>3, <2>1 DEF Planned, AsyncInv, ReqInv
  <2>3. Had(r)' = Had(r) /\ r \notin Members(batch)'
    BY <1>2, <1>3, <2>2, StepCounts
  <2>4. sched'.comp[r] < PromptLen[r] + Had(r)'
    BY <2>1, <2>2, <2>3 DEF Runs
  <2>5. Capped(r)'
    BY <2>2, <2>3 DEF Capped, Had
  <2>6. QED BY <2>3, <2>4, <2>5 DEF Runs
<1>4. CASE n[r] > 0
  <2>1. r \in Members(batch)' /\ Prompt(r)' = Due(sched', n).prompt[r]
    BY <1>2, <1>4 DEF Stepped, NewRows, Prompt
  <2>2. /\ sched'.comp[r] = Start(r) + n[r] /\ sched'.comp[r] <= Known(r)
        /\ Due(sched', n).prompt[r] \in Nat
        /\ Rolls(r, n) => n[r] = 1 /\ Due(sched', n).prompt[r] <= Start(r) /\ sched'.comp[r] = Known(r)
        /\ ~Rolls(r, n) => Fills(r, n) /\ Due(sched', n).prompt[r] = Known(r) /\ Start(r) < Known(r)
    BY <1>4, Coming
  <2>3. CASE Samples(sched', r)
    <3>1. Had(r)' = Had(r) + 1 /\ sched'.comp[r] = Known(r)
      BY <1>4, <2>3, StepCounts DEF Samples
    <3>2. sched'.comp[r] = PromptLen[r] + Had(r)' - 1 /\ Had(r)' >= 1
      BY <1>1, <3>1
    <3>3. Prompt(r)' \in Nat /\ Prompt(r)' <= Known(r)
      BY <1>1, <2>1, <2>2
    <3>4. sched'.comp[r] >= Prompt(r)'
      BY <1>1, <3>1, <3>3
    <3>5. r \in DOMAIN prev'.index /\ prev'.ids[prev'.index[r]] = Token(r, Had(r)')
      BY <1>4, <2>3, <3>1 DEF Stepped, NewPrev
    <3>6. r \in HasPenalty => prev'.spare /\ outputs'[r] = Append(Tokens(r, Had(r)' - 1), MINUS1)
      <4>1. Had(r)' - 1 = Had(r)
        BY <1>1, <3>1
      <4>2. r \in HasPenalty => prev'.spare
        BY <1>4, <2>3 DEF Stepped, NewPrev
      <4>3. r \in HasPenalty => outputs'[r] = Append(Tokens(r, Had(r)), MINUS1)
        BY <1>4, <2>3 DEF Stepped, NewLists
      <4>4. QED BY <4>1, <4>2, <4>3
    <3>7. Decodes(r)'
      BY <3>2, <3>4, <3>5, <3>6 DEF Decodes, Tokens
    <3>8. sched'.comp[r] < PromptLen[r] + Had(r)'
      BY <1>1, <3>1
    <3>9. QED BY <2>1, <3>7, <3>8 DEF Runs
  <2>4. CASE ~Samples(sched', r)
    <3>1. Fills(r, n) /\ sched'.comp[r] < Known(r) /\ Prompt(r)' = Known(r)
      BY <1>1, <1>4, <2>1, <2>2, <2>4 DEF Samples
    <3>2. sched.ph[r] = 0 /\ sched'.ph[r] = 0 /\ Had(r)' = Had(r) /\ stream'[r] = stream[r]
      BY <1>4, <2>4, <3>1, StepCounts DEF Fills
    <3>3. Known(r) = PromptLen[r] + Len(stream'[r])
      BY <3>2, Numbers DEF Known
    <3>4. outputs'[r] = stream'[r] /\ cpu'[r] = stream'[r]
      BY <1>4, <2>4, <3>2 DEF Stepped, NewLists
    <3>5. Prefills(r)'
      BY <3>1, <3>2, <3>3, <3>4 DEF Prefills
    <3>6. sched'.comp[r] < PromptLen[r] + Had(r)'
      BY <1>1, <3>1, <3>2
    <3>7. QED BY <2>1, <3>5, <3>6 DEF Runs
  <2>5. QED BY <2>3, <2>4
<1>5. QED BY <1>1, <1>3, <1>4

(* The whole invariant.                                                       *)
LEMMA StepKeeps ==
  ASSUME AsyncInv, NEW pre, NEW discarded, NEW n, Planned(pre, discarded, n),
         Advanced(sched', pre, discarded, n), Stepped(n)
  PROVE  AsyncInv'
<1>1. TypeInv' /\ RowsInv' /\ StreamInv'
  BY StepTypes, StepRows, StepStreams
<1>2. ReqInv'
  BY StepWaits, StepRuns DEF ReqInv
<1>3. FedOwn'
  BY DEF Stepped, FedOwn, InputsOwn, HistoryCurrent
<1>4. QED BY <1>1, <1>2, <1>3 DEF AsyncInv

(* The requests that take a token from the oldest step in flight.             *)
Taken == Accepted(Head(frames))

(* The oldest step in flight, and the others.                                 *)
LEMMA Oldest ==
  ASSUME AsyncInv, frames # <<>>
  PROVE  /\ Head(frames) = frames[1] /\ Len(frames) \in 1..2 /\ DOMAIN frames = 1..Len(frames)
         /\ Tail(frames) \in Seq(Frames) /\ Len(Tail(frames)) = Len(frames) - 1
         /\ DOMAIN Tail(frames) = 1..(Len(frames) - 1)
         /\ \A i \in 1..(Len(frames) - 1) : Tail(frames)[i] = frames[i + 1]
<1>1. frames \in Seq(Frames) /\ Len(frames) <= 2 /\ frames # <<>>
  BY DEF AsyncInv, TypeInv
<1> DEFINE q == frames
<1>2. /\ Head(q) = q[1] /\ Len(q) \in Nat /\ Len(q) > 0 /\ DOMAIN q = 1..Len(q)
      /\ Tail(q) \in Seq(Frames) /\ Len(Tail(q)) = Len(q) - 1
      /\ DOMAIN Tail(q) = 1..(Len(q) - 1)
      /\ \A i \in 1..(Len(q) - 1) : Tail(q)[i] = q[i + 1]
  <2> HIDE DEF Frames, q
  <2>1. q \in Seq(Frames) /\ q # <<>>
    BY <1>1 DEF q
  <2>2. QED BY <2>1
<1>3. QED BY <1>1, <1>2

(* Such a request takes its next token; it has one more on the way if it has  *)
(* two placeholders.                                                          *)
LEMMA TakenNext ==
  ASSUME AsyncInv, frames # <<>>, NEW r \in Reqs
  PROVE  /\ r \in Taken <=> sched.st[r] # "done" /\ Pends(1, r) /\ sched.ph[r] > 0
         /\ r \in Taken => /\ OutputOf(Head(frames), r) = <<Token(r, Len(stream[r]) + 1)>>
                           /\ sched.ph[r] = (IF Pends(2, r) THEN 2 ELSE 1)
                           /\ Pends(2, r) => OutputOf(frames[2], r) = <<Token(r, Had(r))>>
                           /\ Len(stream[r]) < MaxOut
<1>1. Head(frames) = frames[1] /\ 1 \in DOMAIN frames
  BY Oldest
<1>2. r \in Taken <=> sched.st[r] # "done" /\ Pends(1, r) /\ sched.ph[r] > 0
  <2>1. frames[1] \in Frames
    BY <1>1 DEF AsyncInv, TypeInv
  <2>2. DOMAIN frames[1].index \subseteq Reqs
    BY <2>1 DEF Frames
  <2>3. QED BY <1>1, <2>2 DEF Taken, Accepted, Pends
<1>3. ASSUME r \in Taken
      PROVE  /\ OutputOf(Head(frames), r) = <<Token(r, Len(stream[r]) + 1)>>
             /\ sched.ph[r] = (IF Pends(2, r) THEN 2 ELSE 1)
             /\ Pends(2, r) => OutputOf(frames[2], r) = <<Token(r, Had(r))>>
             /\ Len(stream[r]) < MaxOut
  <2>1. sched.st[r] # "done" /\ Pends(1, r) /\ sched.ph[r] > 0
    BY <1>2, <1>3
  <2>2. Flying(r) /\ Had(r) <= MaxOut
    BY <2>1 DEF AsyncInv, StreamInv
  <2>3. /\ sched.ph[r] = (IF Pends(1, r) THEN 1 ELSE 0) + (IF Pends(2, r) THEN 1 ELSE 0)
        /\ Pends(1, r) => OutputOf(frames[1], r) = <<Token(r, Len(stream[r]) + 1)>>
        /\ Pends(2, r) => OutputOf(frames[2], r) = <<Token(r, Had(r))>>
    BY <2>1, <2>2 DEF Flying
  <2>4. Len(stream[r]) < MaxOut
    BY <2>1, <2>2, Numbers DEF Had
  <2>5. QED BY <1>1, <2>1, <2>3, <2>4
<1>4. QED BY <1>2, <1>3

(* What Update does to the variables.                                         *)
Updates(ended) ==
  /\ frames # <<>> /\ ended \subseteq Taken
  /\ stream' = [r \in Reqs |-> IF r \in Taken THEN stream[r] \o OutputOf(Head(frames), r) ELSE stream[r]]
  /\ sched' = [st |-> [r \in Reqs |-> IF r \in ended THEN "done" ELSE sched.st[r]], comp |-> sched.comp,
               ph |-> [r \in Reqs |-> IF r \in Taken THEN sched.ph[r] - 1 ELSE sched.ph[r]],
               epoch |-> sched.epoch]
  /\ frames' = Tail(frames)
  /\ UNCHANGED <<batch, outputs, cpu, prev, latest>>

(* Update does what Updates says.                                             *)
LEMMA UpdateDone ==
  ASSUME AsyncInv, Update
  PROVE  \E ended : Updates(ended)
<1>1. PICK stopped \in IF MayStop
                         THEN SUBSET (Accepted(Head(frames))
                                \ {r \in Accepted(Head(frames)) : Len(stream[r]) + 1 = MaxOut})
                         ELSE {{}} :
        /\ stream' = [r \in Reqs |-> IF r \in Accepted(Head(frames))
                                       THEN stream[r] \o OutputOf(Head(frames), r) ELSE stream[r]]
        /\ sched' = [sched EXCEPT
             !.ph = [r \in Reqs |-> IF r \in Accepted(Head(frames)) THEN @[r] - 1 ELSE @[r]],
             !.st = [r \in Reqs |-> IF r \in {q \in Accepted(Head(frames)) : Len(stream[q]) + 1 = MaxOut}
                                            \union stopped THEN "done" ELSE @[r]]]
  BY DEF Update
<1> DEFINE ended == {q \in Taken : Len(stream[q]) + 1 = MaxOut} \union stopped
<1>2. ended \subseteq Taken
  BY DEF Taken
<1>3. sched = [st |-> sched.st, comp |-> sched.comp, ph |-> sched.ph, epoch |-> sched.epoch]
  BY DEF AsyncInv, TypeInv
<1>4. sched' = [st |-> [r \in Reqs |-> IF r \in ended THEN "done" ELSE sched.st[r]], comp |-> sched.comp,
                ph |-> [r \in Reqs |-> IF r \in Taken THEN sched.ph[r] - 1 ELSE sched.ph[r]],
                epoch |-> sched.epoch]
  BY <1>1, <1>3 DEF Taken
<1>5. stream' = [r \in Reqs |-> IF r \in Taken THEN stream[r] \o OutputOf(Head(frames), r) ELSE stream[r]]
  BY <1>1 DEF Taken
<1> HIDE DEF ended
<1>6. Updates(ended)
  BY <1>2, <1>4, <1>5 DEF Updates, Update
<1>7. QED BY <1>6, SMTT(30)

(* A processed step leaves what a request has had, placeholders included.     *)
LEMMA UpdateCounts ==
  ASSUME AsyncInv, NEW ended, Updates(ended), NEW r \in Reqs
  PROVE  /\ Had(r)' = Had(r) /\ sched'.ph[r] \in Nat /\ Len(stream'[r]) \in Nat
         /\ stream'[r] = Tokens(r, Len(stream'[r]))
         /\ r \in Taken => /\ Len(stream'[r]) = Len(stream[r]) + 1 /\ sched'.ph[r] = sched.ph[r] - 1
                           /\ stream'[r] = Append(stream[r], Token(r, Len(stream[r]) + 1))
         /\ r \notin Taken => stream'[r] = stream[r] /\ sched'.ph[r] = sched.ph[r]
<1>1. sched.ph[r] \in Nat /\ Len(stream[r]) \in Nat /\ stream[r] = Tokens(r, Len(stream[r]))
  BY Numbers DEF AsyncInv, StreamInv
<1> DEFINE L == Len(stream[r])
<1>2. CASE r \in Taken
  <2>1. stream'[r] = stream[r] \o <<Token(r, L + 1)>> /\ sched'.ph[r] = sched.ph[r] - 1
    BY <1>2, TakenNext DEF Updates
  <2>2. sched.ph[r] > 0
    BY <1>2, TakenNext DEF Updates
  <2>3. Append(Tokens(r, L), Token(r, L + 1)) = Tokens(r, L + 1) /\ Tokens(r, L) \in Seq([of : Reqs, at : Int])
        /\ Len(Tokens(r, L + 1)) = L + 1
    <3> HIDE DEF L
    <3>1. L \in Nat /\ L + 1 \in Nat
      BY <1>1 DEF L
    <3>2. Append(Tokens(r, L), Token(r, L + 1)) = Tokens(r, L + 1) /\ Tokens(r, L) \in Seq([of : Reqs, at : Int])
      BY <3>1, TokensFacts
    <3>3. Len(Tokens(r, L + 1)) = L + 1
      BY <3>1, TokensFacts
    <3>4. QED BY <3>2, <3>3
  <2>4. stream[r] \o <<Token(r, L + 1)>> = Append(stream[r], Token(r, L + 1))
    <3> DEFINE T == [of : Reqs, at : Int]
               q == stream[r]
               e == Token(r, L + 1)
    <3>1. q \in Seq(T) /\ e \in T
      BY <1>1, <2>3 DEF Token
    <3> HIDE DEF T, q, e
    <3>2. q \o <<e>> = Append(q, e)
      BY <3>1
    <3>3. QED BY <3>2 DEF q, e
  <2>5. stream'[r] = Tokens(r, L + 1) /\ Len(stream'[r]) = L + 1
    BY <1>1, <2>1, <2>3, <2>4
  <2>6. Had(r)' = Had(r) /\ sched'.ph[r] \in Nat
    <3>1. Had(r) = Len(stream[r]) + sched.ph[r] /\ Had(r)' = Len(stream'[r]) + sched'.ph[r]
      BY DEF Had
    <3>2. Len(stream'[r]) = L + 1 /\ sched'.ph[r] = sched.ph[r] - 1
      BY <2>1, <2>5
    <3>3. L \in Nat /\ sched.ph[r] \in Nat /\ sched.ph[r] > 0
      BY <1>1, <2>2
    <3>4. Len(stream'[r]) + sched'.ph[r] = L + sched.ph[r] /\ sched'.ph[r] \in Nat
      <4> DEFINE a == Len(stream[r])
                 b == sched.ph[r]
                 c == Len(stream'[r])
                 d == sched'.ph[r]
      <4>1. a \in Nat /\ b \in Nat /\ b > 0 /\ c = a + 1 /\ d = b - 1
        BY <3>2, <3>3
      <4> HIDE DEF a, b, c, d
      <4>2. c + d = a + b /\ d \in Nat
        BY <4>1
      <4>3. QED BY <4>2 DEF a, b, c, d
    <3>5. QED BY <3>1, <3>4
  <2>7. QED BY <1>1, <1>2, <2>1, <2>4, <2>5, <2>6
<1>3. CASE r \notin Taken
  <2>1. stream'[r] = stream[r] /\ sched'.ph[r] = sched.ph[r]
    BY <1>3 DEF Updates
  <2>2. QED BY <1>1, <1>3, <2>1 DEF Had
<1>4. QED BY <1>2, <1>3

(* The second step in flight becomes the first.                               *)
LEMMA UpdatePends ==
  ASSUME AsyncInv, NEW ended, Updates(ended), NEW r \in Reqs
  PROVE  /\ Pends(1, r)' <=> Pends(2, r)
         /\ Pends(2, r) => frames'[1] = frames[2]
         /\ ~Pends(2, r)'
<1>1. /\ Len(frames) \in 1..2 /\ DOMAIN frames = 1..Len(frames)
      /\ DOMAIN frames' = 1..(Len(frames) - 1)
      /\ \A i \in 1..(Len(frames) - 1) : frames'[i] = frames[i + 1]
  BY Oldest DEF Updates
<1>2. CASE Len(frames) = 1
  BY <1>1, <1>2 DEF Pends
<1>3. CASE Len(frames) = 2
  <2>1. frames'[1] = frames[2] /\ DOMAIN frames' = 1..1 /\ DOMAIN frames = 1..2
    BY <1>1, <1>3
  <2>2. QED BY <2>1 DEF Pends
<1>4. QED BY <1>1, <1>2, <1>3

(* Placeholders and steps in flight still agree.                              *)
LEMMA UpdateStreams ==
  ASSUME AsyncInv, NEW ended, Updates(ended)
  PROVE  StreamInv'
<1>1. ASSUME NEW r \in Reqs, sched'.st[r] # "done" PROVE Flying(r)' /\ Had(r)' <= MaxOut
  <2>1. sched.st[r] # "done"
    BY <1>1 DEF Updates
  <2>2. Flying(r) /\ Had(r) <= MaxOut
    BY <2>1 DEF AsyncInv, StreamInv
  <2>3. /\ Had(r)' = Had(r)
        /\ r \in Taken => Len(stream'[r]) = Len(stream[r]) + 1 /\ sched'.ph[r] = sched.ph[r] - 1
        /\ r \notin Taken => stream'[r] = stream[r] /\ sched'.ph[r] = sched.ph[r]
    BY UpdateCounts
  <2>4. /\ Pends(1, r)' <=> Pends(2, r)
        /\ Pends(2, r) => frames'[1] = frames[2]
        /\ ~Pends(2, r)'
    BY UpdatePends
  <2>5. /\ r \in Taken <=> Pends(1, r) /\ sched.ph[r] > 0
        /\ r \in Taken => /\ sched.ph[r] = (IF Pends(2, r) THEN 2 ELSE 1)
                          /\ Pends(2, r) => OutputOf(frames[2], r) = <<Token(r, Had(r))>>
    BY <2>1, TakenNext DEF Updates
  <2>6. Len(stream[r]) \in Nat /\ sched.ph[r] \in Nat /\ Had(r) = Len(stream[r]) + sched.ph[r]
    BY Numbers DEF Had
  <2>7. CASE r \in Taken
    <3>1. sched'.ph[r] = (IF Pends(1, r)' THEN 1 ELSE 0) + (IF Pends(2, r)' THEN 1 ELSE 0)
      BY <2>3, <2>4, <2>5, <2>7
    <3>2. Pends(1, r)' => OutputOf(frames'[1], r) = <<Token(r, Len(stream'[r]) + 1)>>
      <4>1. Pends(2, r) => Had(r) = Len(stream'[r]) + 1
        BY <2>3, <2>5, <2>6, <2>7
      <4>2. QED BY <2>4, <2>5, <2>7, <4>1
    <3>3. QED BY <2>2, <2>3, <2>4, <3>1, <3>2 DEF Flying
  <2>8. CASE r \notin Taken
    <3>1. stream'[r] = stream[r] /\ sched'.ph[r] = sched.ph[r]
      BY <2>3, <2>8
    <3>2. CASE Pends(1, r)
      <4>1. sched.ph[r] = 0 /\ ~Pends(2, r)
        BY <2>2, <2>5, <2>6, <2>8, <3>2 DEF Flying
      <4>2. sched'.ph[r] = (IF Pends(1, r)' THEN 1 ELSE 0) + (IF Pends(2, r)' THEN 1 ELSE 0)
        BY <2>4, <3>1, <4>1
      <4>3. QED BY <2>2, <2>3, <2>4, <4>1, <4>2 DEF Flying
    <3>3. CASE ~Pends(1, r)
      <4>1. /\ sched.ph[r] = (IF Pends(2, r) THEN 1 ELSE 0)
            /\ Pends(2, r) => OutputOf(frames[2], r) = <<Token(r, Had(r))>>
        BY <2>2, <3>3 DEF Flying
      <4>2. sched'.ph[r] = (IF Pends(1, r)' THEN 1 ELSE 0) + (IF Pends(2, r)' THEN 1 ELSE 0)
        BY <2>4, <3>1, <4>1
      <4>3. Pends(1, r)' => OutputOf(frames'[1], r) = <<Token(r, Len(stream'[r]) + 1)>>
        <5>1. Pends(2, r) => Had(r) = Len(stream'[r]) + 1
          BY <2>6, <3>1, <4>1
        <5>2. QED BY <2>4, <4>1, <5>1
      <4>4. QED BY <2>2, <2>3, <2>4, <4>2, <4>3 DEF Flying
    <3>4. QED BY <3>2, <3>3
  <2>9. QED BY <2>7, <2>8
<1>2. QED BY <1>1, UpdateCounts DEF StreamInv

(* Types, rows and the latest step are kept.                                  *)
LEMMA UpdateTypes ==
  ASSUME AsyncInv, NEW ended, Updates(ended)
  PROVE  TypeInv' /\ RowsInv' /\ FedOwn'
<1>1. frames' \in Seq(Frames) /\ Len(frames') <= 2
  <2>1. frames # <<>> /\ frames' = Tail(frames)
    BY DEF Updates
  <2>2. Len(frames) \in 1..2 /\ Tail(frames) \in Seq(Frames) /\ Len(Tail(frames)) = Len(frames) - 1
    BY <2>1, Oldest
  <2> DEFINE rest == Tail(frames)
             k == Len(frames)
  <2>3. frames' = rest /\ rest \in Seq(Frames) /\ Len(rest) = k - 1 /\ k \in 1..2
    BY <2>1, <2>2
  <2> HIDE DEF rest, k
  <2>4. k - 1 <= 2
    BY <2>3
  <2>5. QED BY <2>3, <2>4
<1>2. /\ sched' = [st |-> sched'.st, comp |-> sched'.comp, ph |-> sched'.ph, epoch |-> sched'.epoch]
      /\ sched'.comp = sched.comp /\ sched.comp \in [Reqs -> Nat]
  BY DEF Updates, AsyncInv, TypeInv
<1>3. sched'.st = [r \in Reqs |-> IF r \in ended THEN "done" ELSE sched.st[r]]
  BY DEF Updates
<1>4. sched'.st \in [Reqs -> {"new", "running", "preempted", "done"}]
  BY <1>3 DEF AsyncInv, TypeInv
<1>5. sched'.ph = [r \in Reqs |-> IF r \in Taken THEN sched.ph[r] - 1 ELSE sched.ph[r]]
  BY DEF Updates
<1>6. \A r \in Reqs : sched'.ph[r] \in Nat
  BY UpdateCounts
<1>7. sched'.ph \in [Reqs -> Nat]
  BY <1>5, <1>6
<1>8. DOMAIN stream' = Reqs /\ DOMAIN outputs' = Reqs /\ DOMAIN cpu' = Reqs
  BY DEF Updates, AsyncInv, TypeInv
<1>9. TypeInv'
  BY <1>1, <1>2, <1>4, <1>7, <1>8 DEF TypeInv
<1>10. RowsInv'
  <2>1. batch' = batch
    BY DEF Updates
  <2>2. In("running") \union In("done") \subseteq In("running")' \union In("done")'
    BY <1>3 DEF In
  <2>3. QED BY <2>1, <2>2 DEF AsyncInv, RowsInv
<1>11. FedOwn'
  BY DEF Updates, AsyncInv, FedOwn, InputsOwn, HistoryCurrent
<1>12. QED BY <1>9, <1>10, <1>11

(* No request sees a difference: what it had is what it has.                  *)
LEMMA UpdateRequests ==
  ASSUME AsyncInv, NEW ended, Updates(ended)
  PROVE  ReqInv'
<1>1. SUFFICES ASSUME NEW r \in Reqs
               PROVE  /\ sched'.st[r] \in {"new", "preempted"} => Waits(r)'
                      /\ sched'.st[r] = "running" => Runs(r)'
  BY DEF ReqInv
<1>2. sched'.st[r] # "done" => sched'.st[r] = sched.st[r]
  BY DEF Updates
<1>3. /\ Had(r)' = Had(r) /\ sched'.comp = sched.comp /\ batch' = batch /\ prev' = prev
      /\ outputs' = outputs /\ cpu' = cpu
  BY UpdateCounts DEF Updates
<1>4. ASSUME sched'.st[r] \in {"new", "preempted"} PROVE Waits(r)'
  <2>1. Waits(r) /\ sched'.st[r] = sched.st[r]
    BY <1>2, <1>4 DEF AsyncInv, ReqInv
  <2>2. frames' # <<>> => frames # <<>> /\ frames'[Len(frames')] = frames[Len(frames)]
    <3>1. /\ Len(frames) \in 1..2 /\ Len(frames') = Len(frames) - 1
          /\ \A i \in 1..(Len(frames) - 1) : frames'[i] = frames[i + 1]
          /\ frames' \in Seq(Frames)
      BY Oldest DEF Updates
    <3>2. frames # <<>>
      BY DEF Updates
    <3>3. frames' # <<>> => Len(frames) = 2
      <4> DEFINE q == frames'
      <4>1. q \in Seq(Frames)
        BY <3>1
      <4> HIDE DEF q, Frames
      <4>2. q # <<>> => Len(q) > 0
        BY <4>1
      <4>3. QED BY <3>1, <4>2 DEF q
    <3>4. QED BY <3>1, <3>2, <3>3
  <2>3. QED BY <1>3, <2>1, <2>2 DEF Waits
<1>5. ASSUME sched'.st[r] = "running" PROVE Runs(r)'
  <2>1. Runs(r) /\ sched.st[r] = "running"
    BY <1>2, <1>5 DEF AsyncInv, ReqInv
  <2>2. Capped(r)' <=> Capped(r)
    BY <1>3 DEF Capped, Had
  <2>3. Prompt(r)' = Prompt(r)
    BY <1>3 DEF Prompt
  <2>4. Prefills(r) => Prefills(r)'
    <3>1. ASSUME Prefills(r) PROVE stream'[r] = stream[r] /\ sched'.ph[r] = sched.ph[r]
      <4>1. sched.ph[r] = 0
        BY <3>1 DEF Prefills
      <4>2. r \notin Taken
        BY <4>1, TakenNext DEF Updates
      <4>3. QED BY <4>2, UpdateCounts
    <3>2. QED BY <1>3, <2>3, <3>1 DEF Prefills
  <2>5. Decodes(r) => Decodes(r)'
    BY <1>3, <2>3 DEF Decodes, Tokens
  <2>6. QED BY <1>3, <2>1, <2>2, <2>4, <2>5 DEF Runs
<1>6. QED BY <1>4, <1>5

(* The whole invariant.                                                       *)
LEMMA UpdateKeeps ==
  ASSUME AsyncInv, NEW ended, Updates(ended)
  PROVE  AsyncInv'
BY UpdateStreams, UpdateTypes, UpdateRequests DEF AsyncInv

-----------------------------------------------------------------------------
(* It holds before the first step.                                            *)
LEMMA InitHolds == Init => AsyncInv
<1> SUFFICES ASSUME Init PROVE AsyncInv
  OBVIOUS
<1>1. /\ sched = [st |-> [r \in Reqs |-> "new"], comp |-> [r \in Reqs |-> 0],
                  ph |-> [r \in Reqs |-> 0], epoch |-> [r \in Reqs |-> 0]]
      /\ stream = [r \in Reqs |-> <<>>] /\ frames = <<>> /\ batch = EmptyBatch
      /\ outputs = [r \in Reqs |-> <<>>] /\ cpu = [r \in Reqs |-> <<>>]
      /\ latest = [misfed |-> {}, misread |-> {}]
  BY DEF Init
<1>2. TypeInv
  <2>1. frames \in Seq(Frames) /\ Len(frames) = 0
    <3> HIDE DEF Frames
    <3>1. QED BY <1>1
  <2>2. QED BY <1>1, <2>1 DEF TypeInv
<1>3. RowsInv
  <2>1. /\ batch.req_ids = <<>> /\ Members(batch) = {} /\ batch.cache = <<>>
        /\ batch.row = [i \in Rows |-> EmptyRow] /\ IsBatch(batch) /\ DOMAIN batch.index = {}
        /\ DOMAIN batch.req_ids = {}
    BY <1>1 DEF EmptyBatch, Members, IsBatch
  <2>2. EmptyRow \in Row /\ Clean(EmptyRow)
    BY DEF EmptyRow, Row, Clean, NoBlocks
  <2>3. batch.index \in [Members(batch) -> DOMAIN batch.req_ids]
    BY <1>1, <2>1 DEF EmptyBatch
  <2>4. Holes(batch) = {}
    BY <2>1 DEF Holes
  <2>5. batch.req_ids \in Seq(Reqs \union {NONE}) /\ Len(batch.req_ids) <= MaxReqs /\ batch.cache \in Seq(Reqs)
    BY <2>1, BatchAssumption
  <2>6. Table(batch, Held(batch))
    BY <2>1, <2>2, <2>3, <2>4, <2>5 DEF Table
  <2>7. QED BY <2>1, <2>4, <2>6 DEF RowsInv
<1>4. ASSUME NEW r \in Reqs
      PROVE  /\ sched.st[r] = "new" /\ sched.ph[r] = 0 /\ stream[r] = <<>> /\ Had(r) = 0
             /\ Len(stream[r]) = 0 /\ outputs[r] = <<>>
  BY <1>1 DEF Had
<1>5. StreamInv
  <2>1. ASSUME NEW r \in Reqs
        PROVE  /\ Len(stream[r]) \in Nat /\ stream[r] = Tokens(r, Len(stream[r]))
               /\ Flying(r) /\ Had(r) <= MaxOut
    <3>1. ~Pends(1, r) /\ ~Pends(2, r)
      BY <1>1 DEF Pends
    <3>2. Flying(r)
      BY <1>4, <3>1 DEF Flying
    <3>3. <<>> = Tokens(r, 0)
      BY DEF Tokens
    <3>4. Had(r) <= MaxOut
      BY <1>4, AsyncAssumption
    <3>5. QED BY <1>4, <3>2, <3>3, <3>4
  <2>2. QED BY <2>1 DEF StreamInv
<1>6. ReqInv
  <2>1. ASSUME NEW r \in Reqs PROVE Waits(r)
    BY <1>1, <1>4 DEF Waits
  <2>2. QED BY <1>4, <2>1 DEF ReqInv
<1>7. FedOwn
  BY <1>1 DEF FedOwn, InputsOwn, HistoryCurrent
<1>8. QED BY <1>2, <1>3, <1>5, <1>6, <1>7 DEF AsyncInv

(* The invariant is inductive.                                                *)
LEMMA NextKeeps == AsyncInv /\ Steady /\ [Next]_vars => AsyncInv'
<1> SUFFICES ASSUME AsyncInv, Steady, [Next]_vars PROVE AsyncInv'
  OBVIOUS
<1>1. CASE Step
  <2>1. PICK pre, discarded, n :
          Planned(pre, discarded, n) /\ Advanced(sched', pre, discarded, n) /\ Stepped(n)
    BY <1>1, Stepping
  <2>2. QED BY <2>1, StepKeeps
<1>2. CASE Update
  BY <1>2, UpdateDone, UpdateKeeps
<1>3. CASE UNCHANGED vars
  <2>1. /\ sched' = sched /\ stream' = stream /\ frames' = frames /\ batch' = batch /\ outputs' = outputs
        /\ cpu' = cpu /\ prev' = prev /\ latest' = latest
    BY <1>3 DEF vars
  <2>2. TypeInv' /\ RowsInv'
    BY <2>1 DEF AsyncInv, TypeInv, RowsInv, In
  <2>3. StreamInv'
    BY <2>1 DEF AsyncInv, StreamInv, Flying, Pends, Had, Tokens
  <2>4. ReqInv'
    BY <2>1 DEF AsyncInv, ReqInv, Waits, Runs, Prefills, Decodes, Prompt, Had, Tokens, Capped
  <2>5. FedOwn'
    BY <2>1 DEF AsyncInv, FedOwn, InputsOwn, HistoryCurrent
  <2>6. QED BY <2>2, <2>3, <2>4, <2>5 DEF AsyncInv
<1>4. QED BY <1>1, <1>2, <1>3 DEF Next

(* Every decode is fed the token its request sampled in the step before, every*)
(* prompt and every resumed request finds its tokens on the host, and every   *)
(* sampler reads its request's exact output: while running requests are not left*)
(* out of steps, no first token is discarded in flight and nothing resumes from*)
(* the prefix cache.                                                          *)
THEOREM AsyncFedOwn ==
  ASSUME ~MayPause, ~MayDiscard, Hits \subseteq {0}
  PROVE  Spec => []FedOwn
<1>1. Steady
  BY DEF Steady
<1>2. AsyncInv => FedOwn
  BY DEF AsyncInv
<1>3. QED BY <1>1, <1>2, InitHolds, NextKeeps, PTL DEF Spec

(* Every step of the runner is a step of the streams, or none.                *)
LEMMA NextDelivers ==
  AsyncInv /\ Steady /\ [Next]_vars => [Streams!Deliver]_<<stream, In("done")>>
<1> SUFFICES ASSUME AsyncInv, Steady, [Next]_vars PROVE [Streams!Deliver]_<<stream, In("done")>>
  OBVIOUS
<1>1. CASE Step
  <2>1. PICK pre, discarded, n :
          Planned(pre, discarded, n) /\ Advanced(sched', pre, discarded, n) /\ Stepped(n)
    BY <1>1, Stepping
  <2>2. \A r \in Reqs : sched'.st[r] = "done" <=> sched.st[r] = "done"
    <3>1. ASSUME NEW r \in Reqs PROVE sched'.st[r] = "done" <=> sched.st[r] = "done"
      <4>1. CASE n[r] > 0
        BY <2>1, <4>1 DEF Planned, Advanced
      <4>2. CASE n[r] = 0
        BY <2>1, <4>2 DEF Planned, Advanced
      <4>3. n[r] \in Nat
        BY <2>1 DEF Planned
      <4>4. QED BY <4>1, <4>2, <4>3
    <3>2. QED BY <3>1
  <2>3. In("done")' = In("done") /\ stream' = stream
    BY <2>1, <2>2 DEF In, Stepped
  <2>4. QED BY <2>3
<1>2. CASE Update
  <2>1. PICK ended : Updates(ended)
    BY <1>2, UpdateDone
  <2>2. \A r \in Reqs : r \in Taken => /\ sched.st[r] # "done" /\ Len(stream[r]) < MaxOut
                                       /\ stream'[r] = Append(stream[r], Token(r, Len(stream[r]) + 1))
    BY <2>1, TakenNext, UpdateCounts DEF Updates
  <2>3. \A r \in Reqs : r \notin Taken => stream'[r] = stream[r]
    BY <2>1, UpdateCounts
  <2> DEFINE given == Taken \cap Reqs
             over == ended \cap Reqs
  <2>4. given \in SUBSET (Reqs \ In("done")) /\ over \in SUBSET (Reqs \ In("done"))
    BY <2>1, <2>2 DEF In, Updates
  <2>5. stream' = [r \in Reqs |-> IF r \in given
                                    THEN Append(stream[r], Streams!NextToken(r, stream[r])) ELSE stream[r]]
    <3>1. stream' = [r \in Reqs |-> stream'[r]]
      BY <2>1 DEF Updates
    <3>2. \A r \in Reqs : stream'[r] = (IF r \in given
                                    THEN Append(stream[r], Streams!NextToken(r, stream[r])) ELSE stream[r])
      BY <2>2, <2>3 DEF Streams!NextToken, Token
    <3> HIDE DEF given
    <3>3. QED BY <3>1, <3>2
  <2>6. In("done")' = In("done") \union over
    BY <2>1 DEF In, Updates
  <2>7. \A r \in given : Len(stream[r]) < MaxOut
    BY <2>2
  <2> HIDE DEF given, over
  <2>8. Streams!Deliver
    BY <2>4, <2>5, <2>6, <2>7 DEF Streams!Deliver
  <2>9. QED BY <2>8
<1>3. CASE UNCHANGED vars
  <2>1. stream' = stream /\ In("done")' = In("done")
    BY <1>3 DEF vars, In
  <2>2. QED BY <2>1
<1>4. QED BY <1>1, <1>2, <1>3 DEF Next

(* No request has tokens before the first step.                               *)
LEMMA InitDelivers == Init => Streams!Init
BY DEF Init, Streams!Init, In

(* Under the same conditions every client gets its own tokens, each one once and*)
(* in order: the asynchronous runner and its scheduler implement TokenStreams.*)
THEOREM AsyncStreams ==
  ASSUME ~MayPause, ~MayDiscard, Hits \subseteq {0}
  PROVE  Spec => StreamSpec
<1>1. Steady
  BY DEF Steady
<1>2. QED BY <1>1, InitHolds, NextKeeps, InitDelivers, NextDelivers, PTL DEF Spec, StreamSpec, Streams!Spec
=============================================================================
