--------------------------- MODULE SequenceFacts ----------------------------
(***************************************************************************)
(* Lemmas about the sequence operators that the models are built from, and *)
(* about loops: a loop over a sequence exists for every sequence, and a    *)
(* claim that every iteration carries over holds of its result.  Step is   *)
(* the loop's body: a module takes one instance for each of its loops, and *)
(* any instance for the facts about sequences.                             *)
(***************************************************************************)
EXTENDS LeftFold, SequenceLoops, Functions, FiniteSetTheorems, WellFoundedInduction, TLAPS

(* A nonempty set of natural numbers has a least element.                    *)
LEMMA LeastNat ==
  ASSUME NEW T \in SUBSET Nat, T # {}
  PROVE  \E n \in T : \A m \in T : n <= m
<1> DEFINE R == {ss \in Nat \X Nat : ss[1] < ss[2]}
<1>1. IsWellFoundedOn(R, Nat)
  BY NatLessThanWellFounded DEF OpToRel
<1>2. PICK x \in T : \A y \in T : ~ (<<y, x>> \in R)
  <2> HIDE DEF R
  <2> QED BY <1>1, WFMin
<1>3. \A y \in T : <<y, x>> \in Nat \X Nat
  BY <1>2
<1>4. \A y \in T : ~ (y < x)
  BY <1>2, <1>3
<1>5. QED BY <1>4

(* Induction, for a set of natural numbers.                                  *)
LEMMA SetInduction ==
  ASSUME NEW S \in SUBSET Nat, 0 \in S, \A n \in S : n + 1 \in S
  PROVE  S = Nat
<1>1. SUFFICES ASSUME Nat \ S # {} PROVE FALSE
  OBVIOUS
<1>2. PICK n \in Nat \ S : \A m \in Nat \ S : n <= m
  BY <1>1, LeastNat
<1>3. n # 0 /\ n - 1 \in Nat /\ n - 1 \notin Nat \ S
  BY <1>2
<1>4. QED BY <1>2, <1>3

(* A claim that holds at first, and after each of n steps if before it.       *)
LEMMA Preserved ==
  ASSUME NEW n \in Nat, NEW p, NEW J, p[0] \in J[0],
         \A i \in 1..n : p[i - 1] \in J[i - 1] => p[i] \in J[i]
  PROVE  p[n] \in J[n]
<1> DEFINE S == {k \in Nat : k <= n => p[k] \in J[k]}
<1>1. 0 \in S
  OBVIOUS
<1>2. ASSUME NEW k \in S PROVE k + 1 \in S
  <2>1. CASE k + 1 <= n
    <3>1. k + 1 \in 1..n /\ (k + 1) - 1 = k /\ p[k] \in J[k]
      BY <2>1
    <3>2. p[k + 1] \in J[k + 1]
      BY <3>1
    <3>3. QED BY <3>2
  <2>2. CASE ~ (k + 1 <= n)
    BY <2>2
  <2>3. QED BY <2>1, <2>2
<1>3. S \in SUBSET Nat
  OBVIOUS
<1>4. S = Nat
  <2> HIDE DEF S
  <2>1. QED BY <1>1, <1>2, <1>3, SetInduction
<1>5. n \in S
  BY <1>4
<1>6. QED BY <1>5

(* p is the recursive function whose i-th value follows from the one before    *)
(* it, G being the step as a function.                                         *)
Iterates(p, n, base, G) == p = [i \in 0..n |-> IF i = 0 THEN base ELSE G[<<i, p[i - 1]>>]]

(* There is such a function.                                                   *)
LEMMA Iterated ==
  ASSUME NEW n \in Nat, NEW base, NEW G
  PROVE  \E p : Iterates(p, n, base, G)
<1> DEFINE Body(p, m) == [i \in 0..m |-> IF i = 0 THEN base ELSE G[<<i, p[i - 1]>>]]
           S == {m \in Nat : \E p : p = Body(p, m)}
<1>1. 0 \in S
  <2> DEFINE q == [i \in 0..0 |-> base]
  <2>1. q = Body(q, 0)
    OBVIOUS
  <2>2. QED BY <2>1
<1>2. ASSUME NEW m \in S PROVE m + 1 \in S
  <2>1. PICK p : p = Body(p, m)
    OBVIOUS
  <2> DEFINE q == [i \in 0..(m + 1) |-> IF i <= m THEN p[i] ELSE G[<<m + 1, p[m]>>]]
  <2>2. ASSUME NEW i \in 0..(m + 1)
        PROVE  q[i] = IF i = 0 THEN base ELSE G[<<i, q[i - 1]>>]
    <3>1. CASE i <= m
      <4>1. p[i] = IF i = 0 THEN base ELSE G[<<i, p[i - 1]>>]
        BY <2>1, <3>1
      <4>2. i # 0 => i - 1 \in 0..(m + 1) /\ i - 1 <= m
        BY <3>1
      <4>3. QED BY <3>1, <4>1, <4>2
    <3>2. CASE i = m + 1
      BY <3>2
    <3>3. QED BY <3>1, <3>2
  <2>3. q = Body(q, m + 1)
    BY <2>2, Zenon
  <2>4. m + 1 \in Nat
    OBVIOUS
  <2>5. \E f : f = Body(f, m + 1)
    <3> HIDE DEF q, Body
    <3>1. QED BY <2>3
  <2>6. QED BY <2>4, <2>5
<1>3. n \in S
  <2> HIDE DEF S
  <2>1. S \in SUBSET Nat
    BY DEF S
  <2>2. S = Nat
    BY <1>1, <1>2, <2>1, SetInduction
  <2>3. QED BY <2>2
<1>4. QED BY <1>3 DEF Iterates

(* A claim about the state after each iteration, J[i] after the i-th, that the *)
(* i-th iteration carries over from J[i - 1], holds of the result.             *)
THEOREM FoldProgress ==
  ASSUME NEW base, NEW s, Len(s) \in Nat, NEW J, base \in J[0],
         \A i \in 1..Len(s) : \A x \in J[i - 1] : Step(x, s[i]) \in J[i]
  PROVE  Fold(base, s) \in J[Len(s)]
<1> DEFINE n == Len(s)
           T == UNION {J[i] : i \in 0..n}
           G == [e \in (1..n) \X T |-> Step(e[2], s[e[1]])]
<1>1. ASSUME NEW i \in 1..n, NEW x \in J[i - 1] PROVE G[<<i, x>>] = Step(x, s[i])
  <2>1. i - 1 \in 0..n /\ x \in T
    OBVIOUS
  <2>2. <<i, x>> \in (1..n) \X T
    BY <2>1
  <2>3. QED BY <2>2
<1> HIDE DEF G, T
<1>2. PICK p : p = [i \in 0..n |-> IF i = 0 THEN base ELSE G[<<i, p[i - 1]>>]]
  <2>1. n \in Nat
    OBVIOUS
  <2> HIDE DEF n
  <2>2. \E p : Iterates(p, n, base, G)
    BY <2>1, Iterated
  <2>3. QED BY <2>2 DEF Iterates
<1>3. \A i \in 0..n : p[i] \in J[i]
  <2>1. p[0] \in J[0]
    BY <1>2
  <2>2. ASSUME NEW i \in 1..n, p[i - 1] \in J[i - 1] PROVE p[i] \in J[i]
    <3>1. p[i] = G[<<i, p[i - 1]>>]
      BY <1>2
    <3>2. QED BY <1>1, <2>2, <3>1
  <2>3. SUFFICES ASSUME NEW m \in 0..n PROVE p[m] \in J[m]
    OBVIOUS
  <2>4. \A i \in 1..m : p[i - 1] \in J[i - 1] => p[i] \in J[i]
    BY <2>2
  <2>5. QED BY <2>1, <2>4, Preserved
<1>4. p = [i \in 0..n |-> IF i = 0 THEN base ELSE Step(p[i - 1], s[i])]
  <2>1. ASSUME NEW i \in 0..n
        PROVE  (IF i = 0 THEN base ELSE G[<<i, p[i - 1]>>]) = IF i = 0 THEN base ELSE Step(p[i - 1], s[i])
    <3>1. CASE i = 0
      BY <3>1
    <3>2. CASE i # 0
      <4>1. i \in 1..n /\ i - 1 \in 0..n
        BY <3>2
      <4>2. G[<<i, p[i - 1]>>] = Step(p[i - 1], s[i])
        BY <1>1, <1>3, <4>1
      <4>3. QED BY <3>2, <4>2
    <3>3. QED BY <3>1, <3>2
  <2>2. QED BY <1>2, <2>1
<1>5. PICK q : /\ q = [i \in 0..Len(s) |-> IF i = 0 THEN base ELSE Step(q[i - 1], s[i])]
               /\ Fold(base, s) = q[Len(s)]
  <2>1. \E q : q = [i \in 0..Len(s) |-> IF i = 0 THEN base ELSE Step(q[i - 1], s[i])]
    BY <1>4
  <2>2. QED BY <2>1 DEF Fold
<1>6. \A i \in 1..n : q[i - 1] \in J[i - 1] => q[i] \in J[i]
  BY <1>5
<1>7. q[0] \in J[0]
  BY <1>5
<1>8. QED BY <1>5, <1>6, <1>7, Preserved

(* What every iteration preserves holds of the result.                         *)
THEOREM FoldInvariant ==
  ASSUME NEW base, NEW s, Len(s) \in Nat, NEW I, base \in I,
         \A i \in 1..Len(s), x \in I : Step(x, s[i]) \in I
  PROVE  Fold(base, s) \in I
<1> DEFINE J == [i \in 0..Len(s) |-> I]
<1>1. base \in J[0] /\ J[Len(s)] = I
  OBVIOUS
<1>2. \A i \in 1..Len(s) : \A x \in J[i - 1] : Step(x, s[i]) \in J[i]
  OBVIOUS
<1>3. Fold(base, s) \in J[Len(s)]
  <2> HIDE DEF J
  <2>1. QED BY <1>1, <1>2, FoldProgress
<1>4. QED BY <1>1, <1>3

(* The same for the loop that joins sequences.                                 *)
THEOREM JoinProgress ==
  ASSUME NEW base, NEW s, Len(s) \in Nat, NEW J, base \in J[0],
         \A i \in 1..Len(s) : \A x \in J[i - 1] : Concat(x, s[i]) \in J[i]
  PROVE  Joined!Fold(base, s) \in J[Len(s)]
<1> DEFINE n == Len(s)
           T == UNION {J[i] : i \in 0..n}
           G == [e \in (1..n) \X T |-> Concat(e[2], s[e[1]])]
<1>1. ASSUME NEW i \in 1..n, NEW x \in J[i - 1] PROVE G[<<i, x>>] = Concat(x, s[i])
  <2>1. i - 1 \in 0..n /\ x \in T
    OBVIOUS
  <2>2. <<i, x>> \in (1..n) \X T
    BY <2>1
  <2>3. QED BY <2>2
<1> HIDE DEF G, T
<1>2. PICK p : p = [i \in 0..n |-> IF i = 0 THEN base ELSE G[<<i, p[i - 1]>>]]
  <2>1. n \in Nat
    OBVIOUS
  <2> HIDE DEF n
  <2>2. \E p : Iterates(p, n, base, G)
    BY <2>1, Iterated
  <2>3. QED BY <2>2 DEF Iterates
<1>3. \A i \in 0..n : p[i] \in J[i]
  <2>1. p[0] \in J[0]
    BY <1>2
  <2>2. ASSUME NEW i \in 1..n, p[i - 1] \in J[i - 1] PROVE p[i] \in J[i]
    <3>1. p[i] = G[<<i, p[i - 1]>>]
      BY <1>2
    <3>2. QED BY <1>1, <2>2, <3>1
  <2>3. SUFFICES ASSUME NEW m \in 0..n PROVE p[m] \in J[m]
    OBVIOUS
  <2>4. \A i \in 1..m : p[i - 1] \in J[i - 1] => p[i] \in J[i]
    BY <2>2
  <2>5. QED BY <2>1, <2>4, Preserved
<1>4. p = [i \in 0..n |-> IF i = 0 THEN base ELSE Concat(p[i - 1], s[i])]
  <2>1. ASSUME NEW i \in 0..n
        PROVE  (IF i = 0 THEN base ELSE G[<<i, p[i - 1]>>]) = IF i = 0 THEN base ELSE Concat(p[i - 1], s[i])
    <3>1. CASE i = 0
      BY <3>1
    <3>2. CASE i # 0
      <4>1. i \in 1..n /\ i - 1 \in 0..n
        BY <3>2
      <4>2. G[<<i, p[i - 1]>>] = Concat(p[i - 1], s[i])
        BY <1>1, <1>3, <4>1
      <4>3. QED BY <3>2, <4>2
    <3>3. QED BY <3>1, <3>2
  <2>2. QED BY <1>2, <2>1
<1>5. PICK q : /\ q = [i \in 0..Len(s) |-> IF i = 0 THEN base ELSE Concat(q[i - 1], s[i])]
               /\ Joined!Fold(base, s) = q[Len(s)]
  <2>1. \E q : q = [i \in 0..Len(s) |-> IF i = 0 THEN base ELSE Concat(q[i - 1], s[i])]
    BY <1>4
  <2>2. QED BY <2>1 DEF Joined!Fold
<1>6. \A i \in 1..n : q[i - 1] \in J[i - 1] => q[i] \in J[i]
  BY <1>5
<1>7. q[0] \in J[0]
  BY <1>5
<1>8. QED BY <1>5, <1>6, <1>7, Preserved

(* A sequence from its end, which is what SequencesExt's Reverse is.            *)
Backwards(s) == [i \in 1..Len(s) |-> s[(Len(s) - i) + 1]]

(* Taking the last n elements off an injective sequence, the way a list used as *)
(* a stack is popped n times, splits its range.                                *)
LEMMA Taking ==
  ASSUME NEW S, NEW s \in Seq(S), IsInjective(s), NEW n \in 1..Len(s)
  PROVE  LET rest  == Len(s) - n
             front == SubSeq(s, 1, rest)
             back  == Backwards(SubSeq(s, rest + 1, rest + n))
         IN  /\ front \in Seq(S) /\ back \in Seq(S)
             /\ Len(front) = rest /\ Len(back) = n
             /\ IsInjective(front) /\ IsInjective(back)
             /\ Range(front) \cap Range(back) = {}
             /\ Range(front) \union Range(back) = Range(s)
<1> DEFINE rest  == Len(s) - n
           front == SubSeq(s, 1, rest)
           last  == SubSeq(s, rest + 1, rest + n)
           back  == Backwards(last)
<1>1. front \in Seq(S) /\ Len(front) = rest /\ \A i \in 1..rest : front[i] = s[i]
  OBVIOUS
<1>2. last \in Seq(S) /\ Len(last) = n /\ \A i \in 1..n : last[i] = s[rest + i]
  <2>1. last \in Seq(S) /\ Len(last) = n
    OBVIOUS
  <2>2. \A i \in 1..n : last[i] = s[rest + i]
    OBVIOUS
  <2>3. QED BY <2>1, <2>2
<1>3. back \in Seq(S) /\ Len(back) = n /\ \A i \in 1..n : back[i] = s[Len(s) - i + 1]
  <2> HIDE DEF last
  <2>1. back = [i \in 1..n |-> last[(n - i) + 1]]
    BY <1>2 DEF Backwards
  <2>2. \A i \in 1..n : (n - i) + 1 \in 1..n /\ rest + ((n - i) + 1) = Len(s) - i + 1
    OBVIOUS
  <2>3. \A i \in 1..n : last[(n - i) + 1] \in S /\ back[i] = last[(n - i) + 1]
    BY <1>2, <2>1, <2>2
  <2>4. back \in [1..n -> S]
    BY <2>1, <2>3
  <2>5. back \in Seq(S) /\ Len(back) = n
    BY <2>4
  <2>6. \A i \in 1..n : back[i] = s[Len(s) - i + 1]
    BY <1>2, <2>2, <2>3
  <2>7. QED BY <2>5, <2>6
<1> HIDE DEF front, back
<1>4. /\ DOMAIN s = 1..Len(s) /\ DOMAIN front = 1..rest /\ DOMAIN back = 1..n
      /\ rest \in Nat /\ rest + n = Len(s) /\ n \in Nat /\ Len(s) \in Nat
  BY <1>1, <1>3
<1> HIDE DEF rest, last
<1>5. \A i, j \in 1..Len(s) : s[i] = s[j] => i = j
  BY <1>4 DEF IsInjective
<1>6. IsInjective(front) /\ IsInjective(back)
  <2>1. \A i, j \in 1..rest : front[i] = front[j] => i = j
    BY <1>1, <1>4, <1>5
  <2>2. \A i, j \in 1..n : back[i] = back[j] => i = j
    <3>1. SUFFICES ASSUME NEW i \in 1..n, NEW j \in 1..n, back[i] = back[j] PROVE i = j
      OBVIOUS
    <3>2. Len(s) - i + 1 \in 1..Len(s) /\ Len(s) - j + 1 \in 1..Len(s)
      BY <1>4
    <3>3. Len(s) - i + 1 = Len(s) - j + 1
      BY <1>3, <1>5, <3>1, <3>2
    <3>4. QED BY <1>4, <3>3
  <2>3. QED BY <1>4, <2>1, <2>2 DEF IsInjective
<1>7. Range(front) \cap Range(back) = {}
  <2>1. \A i \in 1..rest, j \in 1..n : front[i] # back[j]
    <3>1. SUFFICES ASSUME NEW i \in 1..rest, NEW j \in 1..n PROVE front[i] # back[j]
      OBVIOUS
    <3>2. i \in 1..Len(s) /\ Len(s) - j + 1 \in 1..Len(s) /\ i # Len(s) - j + 1
      BY <1>4
    <3>3. QED BY <1>1, <1>3, <1>5, <3>2
  <2>2. QED BY <1>4, <2>1 DEF Range
<1>8. Range(front) \union Range(back) = Range(s)
  <2>1. \A i \in 1..rest : i \in 1..Len(s) /\ front[i] = s[i]
    BY <1>1, <1>4
  <2>2. \A i \in 1..n : Len(s) - i + 1 \in 1..Len(s) /\ back[i] = s[Len(s) - i + 1]
    BY <1>3, <1>4
  <2>3. \A i \in 1..Len(s) : i \in 1..rest \/ Len(s) - i + 1 \in 1..n
    BY <1>4
  <2>4. \A i \in 1..Len(s) : Len(s) - (Len(s) - i + 1) + 1 = i
    OBVIOUS
  <2>5. Range(front) \subseteq Range(s) /\ Range(back) \subseteq Range(s)
    <3>1. \A i \in 1..Len(s) : s[i] \in Range(s)
      BY <1>4 DEF Range
    <3>2. (\A i \in 1..rest : front[i] \in Range(s)) /\ (\A i \in 1..n : back[i] \in Range(s))
      BY <2>1, <2>2, <3>1
    <3>3. QED BY <1>4, <3>2 DEF Range
  <2>6. ASSUME NEW i \in 1..Len(s) PROVE s[i] \in Range(front) \union Range(back)
    <3>1. CASE i \in 1..rest
      BY <1>4, <2>1, <3>1 DEF Range
    <3>2. CASE Len(s) - i + 1 \in 1..n
      <4>1. back[Len(s) - i + 1] = s[i]
        BY <2>2, <2>4, <3>2
      <4>2. QED BY <1>4, <3>2, <4>1 DEF Range
    <3>3. QED BY <2>3, <3>1, <3>2
  <2>7. Range(s) \subseteq Range(front) \union Range(back)
    BY <1>4, <2>6 DEF Range
  <2>8. QED BY <2>5, <2>7
<1>9. QED BY <1>1, <1>3, <1>6, <1>7, <1>8 DEF front, back, last, rest

(* Appending an injective sequence to one it shares no element with.           *)
LEMMA Joining ==
  ASSUME NEW S, NEW s \in Seq(S), NEW t \in Seq(S), IsInjective(s), IsInjective(t),
         Range(s) \cap Range(t) = {}
  PROVE  s \o t \in Seq(S) /\ IsInjective(s \o t) /\ Range(s \o t) = Range(s) \union Range(t)
<1> DEFINE u == s \o t
<1>1. /\ u \in Seq(S) /\ DOMAIN u = 1..(Len(s) + Len(t))
      /\ DOMAIN s = 1..Len(s) /\ DOMAIN t = 1..Len(t) /\ Len(s) \in Nat /\ Len(t) \in Nat
  OBVIOUS
<1>2. \A i \in 1..(Len(s) + Len(t)) : u[i] = IF i <= Len(s) THEN s[i] ELSE t[i - Len(s)]
  OBVIOUS
<1> HIDE DEF u
<1>3. \A i \in 1..Len(s), j \in 1..Len(t) : s[i] # t[j]
  BY <1>1 DEF Range
<1>4. IsInjective(u)
  <2>1. ASSUME NEW i \in 1..(Len(s) + Len(t)), NEW j \in 1..(Len(s) + Len(t)), u[i] = u[j]
        PROVE  i = j
    <3>1. CASE i <= Len(s) /\ j <= Len(s)
      BY <1>1, <1>2, <2>1, <3>1, SMTT(30) DEF IsInjective
    <3>2. CASE i > Len(s) /\ j > Len(s)
      <4>1. i - Len(s) \in 1..Len(t) /\ j - Len(s) \in 1..Len(t)
        BY <1>1, <3>2
      <4>2. t[i - Len(s)] = t[j - Len(s)]
        BY <1>1, <1>2, <2>1, <3>2
      <4>3. i - Len(s) = j - Len(s)
        BY <1>1, <4>1, <4>2 DEF IsInjective
      <4>4. QED BY <1>1, <4>3
    <3>3. CASE i <= Len(s) /\ j > Len(s)
      <4>1. i \in 1..Len(s) /\ j - Len(s) \in 1..Len(t)
        BY <1>1, <3>3
      <4>2. QED BY <1>1, <1>2, <1>3, <2>1, <3>3, <4>1
    <3>4. CASE i > Len(s) /\ j <= Len(s)
      <4>1. j \in 1..Len(s) /\ i - Len(s) \in 1..Len(t)
        BY <1>1, <3>4
      <4>2. QED BY <1>1, <1>2, <1>3, <2>1, <3>4, <4>1
    <3>5. QED BY <1>1, <3>1, <3>2, <3>3, <3>4
  <2>2. QED BY <1>1, <2>1 DEF IsInjective
<1>5. Range(u) = Range(s) \union Range(t)
  <2>1. \A i \in 1..Len(s) : i \in DOMAIN u /\ u[i] = s[i]
    BY <1>1, <1>2
  <2>2. ASSUME NEW i \in 1..Len(t) PROVE Len(s) + i \in DOMAIN u /\ u[Len(s) + i] = t[i]
    <3>1. Len(s) + i \in DOMAIN u /\ ~ (Len(s) + i <= Len(s)) /\ (Len(s) + i) - Len(s) = i
      BY <1>1
    <3>2. u[Len(s) + i] = t[(Len(s) + i) - Len(s)]
      BY <1>1, <1>2, <3>1
    <3>3. QED BY <3>1, <3>2
  <2>3. \A i \in DOMAIN u : \/ i \in 1..Len(s) /\ u[i] = s[i]
                            \/ i - Len(s) \in 1..Len(t) /\ u[i] = t[i - Len(s)]
    BY <1>1, <1>2
  <2>4. Range(u) \subseteq Range(s) \union Range(t)
    BY <1>1, <2>3 DEF Range
  <2>5. Range(s) \union Range(t) \subseteq Range(u)
    BY <1>1, <2>1, <2>2 DEF Range
  <2>6. QED BY <2>4, <2>5
<1>6. QED BY <1>1, <1>4, <1>5 DEF u

(* Flat keeps the type of the elements.                                        *)
LEMMA FlatType ==
  ASSUME NEW S, NEW ss \in Seq(Seq(S))
  PROVE  Flat(ss) \in Seq(S)
<1> DEFINE J == [i \in 0..Len(ss) |-> Seq(S)]
<1>1. Len(ss) \in Nat /\ <<>> \in J[0] /\ J[Len(ss)] = Seq(S)
  OBVIOUS
<1>2. ASSUME NEW i \in 1..Len(ss), NEW x \in J[i - 1] PROVE Concat(x, ss[i]) \in J[i]
  <2>1. x \in Seq(S) /\ ss[i] \in Seq(S) /\ J[i] = Seq(S)
    OBVIOUS
  <2> HIDE DEF J
  <2>2. QED BY <2>1 DEF Concat
<1>3. Joined!Fold(<<>>, ss) \in J[Len(ss)]
  <2> HIDE DEF J
  <2>1. QED BY <1>1, <1>2, JoinProgress
<1>4. QED BY <1>1, <1>3 DEF Flat

(* It loses no element.                                                        *)
LEMMA FlatKeeps ==
  ASSUME NEW S, NEW ss \in Seq(Seq(S)), NEW k \in 1..Len(ss)
  PROVE  Range(ss[k]) \subseteq Range(Flat(ss))
<1> DEFINE n == Len(ss)
           J == [i \in 0..n |-> {x \in Seq(S) : k <= i => Range(ss[k]) \subseteq Range(x)}]
<1>1. n \in Nat /\ \A i \in 1..n : ss[i] \in Seq(S)
  OBVIOUS
<1>2. <<>> \in J[0]
  OBVIOUS
<1>3. ASSUME NEW i \in 1..n, NEW x \in J[i - 1] PROVE Concat(x, ss[i]) \in J[i]
  <2>1. x \in Seq(S) /\ (k <= i - 1 => Range(ss[k]) \subseteq Range(x)) /\ i \in 0..n
    OBVIOUS
  <2> DEFINE t == ss[i]
             u == x \o t
  <2>2. t \in Seq(S)
    BY <1>1
  <2> HIDE DEF t
  <2>3. /\ u \in Seq(S) /\ DOMAIN u = 1..(Len(x) + Len(t)) /\ Len(x) \in Nat /\ Len(t) \in Nat
        /\ DOMAIN x = 1..Len(x) /\ DOMAIN t = 1..Len(t)
        /\ \A j \in 1..Len(x) : u[j] = x[j]
        /\ \A j \in 1..Len(t) : u[Len(x) + j] = t[j]
    BY <2>1, <2>2
  <2> HIDE DEF u
  <2>4. Range(x) \subseteq Range(u)
    BY <2>3 DEF Range
  <2>5. Range(t) \subseteq Range(u)
    <3>1. \A j \in 1..Len(t) : Len(x) + j \in DOMAIN u
      BY <2>3
    <3>2. QED BY <2>3, <3>1, ZenonT(30) DEF Range
  <2>6. k <= i => k <= i - 1 \/ k = i
    OBVIOUS
  <2>7. k <= i => Range(ss[k]) \subseteq Range(u)
    BY <2>1, <2>4, <2>5, <2>6 DEF t
  <2>8. J[i] = {y \in Seq(S) : k <= i => Range(ss[k]) \subseteq Range(y)}
    BY <2>1
  <2> HIDE DEF J
  <2>9. u \in J[i]
    BY <2>3, <2>7, <2>8
  <2>10. QED BY <2>9 DEF Concat, u, t
<1>4. Joined!Fold(<<>>, ss) \in J[n]
  <2> HIDE DEF J
  <2>1. QED BY <1>1, <1>2, <1>3, JoinProgress
<1>5. QED BY <1>1, <1>4 DEF Flat

(* OnlyIn as a sequence of sequences of at most one element.                   *)
LEMMA Selected ==
  ASSUME NEW S, NEW s \in Seq(S), NEW K
  PROVE  LET ss == [i \in 1..Len(s) |-> IF s[i] \in K THEN <<s[i]>> ELSE <<>>]
         IN  ss \in Seq(Seq(S \cap K)) /\ Len(ss) = Len(s)
<1> DEFINE ss == [i \in 1..Len(s) |-> IF s[i] \in K THEN <<s[i]>> ELSE <<>>]
           U == S \cap K
<1>1. ASSUME NEW i \in 1..Len(s) PROVE ss[i] \in Seq(U)
  <2>1. s[i] \in S
    OBVIOUS
  <2>2. s[i] \in K => s[i] \in U
    BY <2>1
  <2> HIDE DEF U
  <2>3. QED BY <2>2
<1> HIDE DEF U
<1>2. ss \in [1..Len(s) -> Seq(U)] /\ Len(s) \in Nat
  <2>1. DOMAIN ss = 1..Len(s) /\ ss = [i \in 1..Len(s) |-> ss[i]]
    OBVIOUS
  <2> HIDE DEF ss
  <2>2. QED BY <1>1, <2>1
<1>3. ss \in Seq(Seq(U)) /\ Len(ss) = Len(s)
  <2> HIDE DEF ss
  <2>1. QED BY <1>2
<1>4. QED BY <1>3 DEF U

(* A sequence of the members of K.                                              *)
LEMMA OnlyInType ==
  ASSUME NEW S, NEW s \in Seq(S), NEW K
  PROVE  OnlyIn(s, K) \in Seq(S \cap K)
<1> DEFINE ss == [i \in 1..Len(s) |-> IF s[i] \in K THEN <<s[i]>> ELSE <<>>]
<1>1. ss \in Seq(Seq(S \cap K))
  BY Selected
<1> HIDE DEF ss
<1>2. Flat(ss) \in Seq(S \cap K)
  BY <1>1, FlatType
<1>3. QED BY <1>2 DEF OnlyIn, ss

(* Every element that is in K is kept.                                           *)
LEMMA OnlyInKeeps ==
  ASSUME NEW S, NEW s \in Seq(S), NEW K, NEW k \in 1..Len(s), s[k] \in K
  PROVE  s[k] \in Range(OnlyIn(s, K))
<1> DEFINE ss == [i \in 1..Len(s) |-> IF s[i] \in K THEN <<s[i]>> ELSE <<>>]
<1>1. ss \in Seq(Seq(S \cap K)) /\ k \in 1..Len(ss)
  BY Selected
<1>2. s[k] \in Range(ss[k])
  <2>1. ss[k] = <<s[k]>>
    OBVIOUS
  <2>2. QED BY <2>1 DEF Range
<1> HIDE DEF ss
<1>3. s[k] \in Range(Flat(ss))
  BY <1>1, <1>2, FlatKeeps
<1>4. QED BY <1>3 DEF OnlyIn, ss

(* Lists of one element each, joined.                                          *)
LEMMA FlatSingles ==
  ASSUME NEW S, NEW m \in Nat, NEW f \in [1..m -> S]
  PROVE  Flat([i \in 1..m |-> <<f[i]>>]) = f
<1> DEFINE ss == [i \in 1..m |-> <<f[i]>>]
           J == [k \in 0..m |-> {x \in Seq(S) : Len(x) = k /\ \A j \in 1..k : x[j] = f[j]}]
<1>1. ss \in Seq(Seq(S)) /\ Len(ss) = m /\ \A i \in 1..m : ss[i] = <<f[i]>>
  <2>1. \A i \in 1..m : <<f[i]>> \in Seq(S)
    OBVIOUS
  <2>2. ss \in [1..m -> Seq(S)]
    BY <2>1
  <2>3. ss \in Seq(Seq(S)) /\ Len(ss) = m
    <3> HIDE DEF ss
    <3>1. QED BY <2>2
  <2>4. QED BY <2>3
<1>2. <<>> \in J[0]
  OBVIOUS
<1>3. ASSUME NEW i \in 1..m, NEW x \in J[i - 1] PROVE Concat(x, <<f[i]>>) \in J[i]
  <2>1. i - 1 \in 0..m /\ i \in 0..m /\ f[i] \in S
    OBVIOUS
  <2>2. x \in Seq(S) /\ Len(x) = i - 1 /\ \A j \in 1..(i - 1) : x[j] = f[j]
    BY <2>1
  <2> DEFINE y == x \o <<f[i]>>
  <2>3. y \in Seq(S) /\ Len(y) = i /\ y[i] = f[i] /\ \A j \in 1..(i - 1) : y[j] = x[j]
    <3> HIDE DEF J, ss
    <3>1. QED BY <2>1, <2>2
  <2> HIDE DEF y
  <2>4. \A j \in 1..i : y[j] = f[j]
    <3>1. \A j \in 1..i : j = i \/ j \in 1..(i - 1)
      OBVIOUS
    <3>2. QED BY <2>2, <2>3, <3>1
  <2>5. y \in J[i]
    BY <2>1, <2>3, <2>4
  <2>6. QED BY <2>5 DEF Concat, y
<1> HIDE DEF J, ss
<1>4. Joined!Fold(<<>>, ss) \in J[Len(ss)]
  BY <1>1, <1>2, <1>3, JoinProgress
<1> DEFINE y == Flat(ss)
<1>5. y \in J[m]
  BY <1>1, <1>4 DEF Flat
<1> HIDE DEF y
<1>6. y \in Seq(S) /\ Len(y) = m /\ \A j \in 1..m : y[j] = f[j]
  BY <1>5 DEF J
<1>7. y = f
  BY <1>6
<1>8. QED BY <1>7 DEF y, ss

(* The last element of a list left out.                                        *)
LEMMA OnlyInFront ==
  ASSUME NEW S, NEW s \in Seq(S), NEW x \in S, NEW K, \A i \in 1..Len(s) : s[i] \in K, x \notin K
  PROVE  OnlyIn(Append(s, x), K) = s
<1> DEFINE t == Append(s, x)
           m == Len(s)
           ss == [i \in 1..Len(t) |-> IF t[i] \in K THEN <<t[i]>> ELSE <<>>]
           J == [k \in 0..Len(t) |-> IF k <= m THEN {SubSeq(s, 1, k)} ELSE {s}]
<1>1. /\ m \in Nat /\ Len(t) = m + 1 /\ t[m + 1] = x /\ \A i \in 1..m : t[i] = s[i] /\ s[i] \in S
  OBVIOUS
<1>2. Len(ss) = m + 1 /\ (\A i \in 1..m : ss[i] = <<s[i]>>) /\ ss[m + 1] = <<>>
  <2>1. t \in Seq(S)
    OBVIOUS
  <2> HIDE DEF t
  <2>2. Len(ss) = Len(t)
    BY <2>1, Selected
  <2>3. QED BY <1>1, <2>2
<1> HIDE DEF t
<1> HIDE DEF ss
<1>3. <<>> \in J[0]
  <2>1. SubSeq(s, 1, 0) = <<>>
    OBVIOUS
  <2>2. QED BY <1>1, <2>1
<1>4. ASSUME NEW i \in 1..Len(ss), NEW y \in J[i - 1] PROVE Concat(y, ss[i]) \in J[i]
  <2>1. i \in 1..(m + 1) /\ i - 1 \in 0..(m + 1) /\ i \in 0..(m + 1) /\ i - 1 <= m
    BY <1>1, <1>2
  <2>2. y = SubSeq(s, 1, i - 1)
    BY <1>1, <2>1
  <2>3. CASE i <= m
    <3>0. i \in 1..m
      BY <1>1, <2>1, <2>3
    <3>1. Concat(y, ss[i]) = SubSeq(s, 1, i - 1) \o <<s[i]>> /\ i \in 1..m
      BY <1>2, <2>2, <3>0 DEF Concat
    <3>2. SubSeq(s, 1, i - 1) \o <<s[i]>> = SubSeq(s, 1, i)
      <4> HIDE DEF J
      <4>1. QED BY <1>1, <3>1
    <3>3. QED BY <1>1, <2>1, <2>3, <3>1, <3>2
  <2>4. CASE ~ (i <= m)
    <3>1. i = m + 1 /\ Concat(y, ss[i]) = SubSeq(s, 1, m) \o <<>>
      BY <1>1, <1>2, <2>1, <2>2, <2>4 DEF Concat
    <3>2. SubSeq(s, 1, m) \o <<>> = s
      <4> HIDE DEF J
      <4>1. QED BY <1>1
    <3>3. QED BY <1>1, <2>1, <2>4, <3>1, <3>2
  <2>5. QED BY <2>3, <2>4
<1>5. Joined!Fold(<<>>, ss) \in J[Len(ss)]
  <2> HIDE DEF J
  <2>1. QED BY <1>1, <1>2, <1>3, <1>4, JoinProgress
<1>6. J[Len(ss)] = {s}
  BY <1>1, <1>2
<1>7. OnlyIn(t, K) = Joined!Fold(<<>>, ss)
  BY DEF OnlyIn, Flat, ss
<1>8. QED BY <1>5, <1>6, <1>7 DEF t

(* A finite set has a listing without repetition.                              *)
LEMMA Listable ==
  ASSUME NEW S, IsFiniteSet(S)
  PROVE  \E f \in [1..Cardinality(S) -> S] : IsInjective(f)
<1>1. Cardinality(S) \in Nat /\ ExistsBijection(1..Cardinality(S), S)
  BY FS_CardinalityType
<1>2. QED BY <1>1 DEF ExistsBijection, Bijection, Injection, IsInjective

(* A listing without repetition holds every element.                            *)
LEMMA Listed ==
  ASSUME NEW S, IsFiniteSet(S), NEW s \in [1..Cardinality(S) -> S], IsInjective(s)
  PROVE  s \in Seq(S) /\ Len(s) = Cardinality(S) /\ Cardinality(S) \in Nat /\ Range(s) = S
<1> DEFINE n == Cardinality(S)
<1>1. n \in Nat /\ IsFiniteSet(1..n) /\ Cardinality(1..n) = n
  <2>1. n \in Nat
    BY FS_CardinalityType
  <2> HIDE DEF n
  <2>2. QED BY <2>1, FS_Interval
<1>2. s \in Injection(1..n, S)
  BY DEF Injection, IsInjective
<1>3. s \in Surjection(1..n, S)
  <2>1. Cardinality(1..n) = Cardinality(S)
    BY <1>1
  <2>2. QED BY <1>2, <2>1, FS_Injection
<1>4. Range(s) = S
  BY <1>3 DEF Surjection, Range
<1>5. QED BY <1>1, <1>4

(* A list without repetition is no longer than the set it is from.              *)
LEMMA InjectiveShort ==
  ASSUME NEW n \in Nat, NEW s \in Seq(1..n), IsInjective(s)
  PROVE  DOMAIN s \subseteq 1..n
<1>1. Len(s) \in Nat /\ DOMAIN s = 1..Len(s) /\ s \in [1..Len(s) -> 1..n]
  OBVIOUS
<1>2. IsFiniteSet(1..n) /\ Cardinality(1..n) = n /\ Cardinality(1..Len(s)) = Len(s)
  <2>1. ASSUME NEW m \in Nat PROVE IsFiniteSet(1..m) /\ Cardinality(1..m) = m
    <3>1. IsFiniteSet(1..m) /\ Cardinality(1..m) = IF 1 > m THEN 0 ELSE m - 1 + 1
      BY FS_Interval
    <3>2. QED BY <3>1
  <2>2. QED BY <1>1, <2>1
<1>3. s \in Injection(1..Len(s), 1..n)
  BY <1>1 DEF Injection, IsInjective
<1>4. Cardinality(1..Len(s)) <= Cardinality(1..n)
  BY <1>2, <1>3, FS_Injection
<1>5. QED BY <1>1, <1>2, <1>4

(* A list without repetition has as many elements as it is long.                *)
LEMMA InjectiveCard ==
  ASSUME NEW S, NEW s \in Seq(S), IsInjective(s)
  PROVE  Cardinality(Range(s)) = Len(s) /\ Range(s) \subseteq S /\ (Range(s) = {} <=> s = <<>>)
<1>1. Len(s) \in Nat /\ DOMAIN s = 1..Len(s) /\ s \in [1..Len(s) -> Range(s)]
  BY DEF Range
<1>2. s \in Bijection(1..Len(s), Range(s))
  BY <1>1 DEF Bijection, Injection, Surjection, Range
<1>3. IsFiniteSet(1..Len(s)) /\ Cardinality(1..Len(s)) = Len(s)
  <2>1. IsFiniteSet(1..Len(s)) /\ Cardinality(1..Len(s)) = IF 1 > Len(s) THEN 0 ELSE Len(s) - 1 + 1
    BY <1>1, FS_Interval, SMTT(30)
  <2>2. QED BY <1>1, <2>1
<1>4. Cardinality(Range(s)) = Len(s)
  BY <1>2, <1>3, FS_Bijection DEF ExistsBijection
<1>5. Range(s) \subseteq S
  BY <1>1 DEF Range
<1>6. Range(s) = {} <=> s = <<>>
  <2>1. s = <<>> <=> Len(s) = 0
    BY <1>1
  <2>2. Range(s) = {} <=> 1..Len(s) = {}
    BY <1>1 DEF Range
  <2>3. 1..Len(s) = {} <=> Len(s) = 0
    BY <1>1
  <2>4. QED BY <2>1, <2>2, <2>3
<1>7. QED BY <1>4, <1>5, <1>6

(* Lists without a common element, one after the other.                        *)
LEMMA Flattened ==
  ASSUME NEW S, NEW ss \in Seq(Seq(S)), \A i \in 1..Len(ss) : IsInjective(ss[i]),
         \A i, k \in 1..Len(ss) : i # k => Range(ss[i]) \cap Range(ss[k]) = {}
  PROVE  /\ Flat(ss) \in Seq(S) /\ IsInjective(Flat(ss))
         /\ Range(Flat(ss)) = UNION {Range(ss[i]) : i \in 1..Len(ss)}
<1> DEFINE n == Len(ss)
           Upto(i) == UNION {Range(ss[k]) : k \in 1..i}
           J == [i \in 0..n |-> {x \in Seq(S) : IsInjective(x) /\ Range(x) = Upto(i)}]
<1>1. n \in Nat /\ \A i \in 1..n : ss[i] \in Seq(S)
  OBVIOUS
<1>2. <<>> \in J[0]
  <2>1. <<>> \in Seq(S) /\ IsInjective(<<>>) /\ Range(<<>>) = {}
    BY DEF IsInjective, Range
  <2>2. Upto(0) = {}
    OBVIOUS
  <2>3. J[0] = {x \in Seq(S) : IsInjective(x) /\ Range(x) = Upto(0)}
    <3> HIDE DEF Upto
    <3>1. QED BY <1>1
  <2>4. QED
    <3> HIDE DEF Upto, J
    <3>1. QED BY <2>1, <2>2, <2>3
<1>3. ASSUME NEW i \in 1..n, NEW x \in J[i - 1]
      PROVE  Concat(x, ss[i]) \in J[i]
  <2>1. i - 1 \in 0..n /\ i \in 0..n
    BY <1>1
  <2>2. x \in Seq(S) /\ IsInjective(x) /\ Range(x) = Upto(i - 1)
    <3> HIDE DEF Upto
    <3>1. QED BY <2>1
  <2>3. Range(x) \cap Range(ss[i]) = {}
    <3>1. \A k \in 1..(i - 1) : k \in 1..n /\ k # i
      BY <1>1
    <3>2. \A k \in 1..(i - 1) : Range(ss[k]) \cap Range(ss[i]) = {}
      BY <3>1
    <3>3. QED BY <2>2, <3>2
  <2>4. Upto(i) = Upto(i - 1) \union Range(ss[i])
    <3>1. 1..i = 1..(i - 1) \union {i}
      OBVIOUS
    <3>2. QED BY <3>1
  <2>5. /\ Concat(x, ss[i]) \in Seq(S) /\ IsInjective(Concat(x, ss[i]))
        /\ Range(Concat(x, ss[i])) = Range(x) \union Range(ss[i])
    <3> HIDE DEF Upto, J, n
    <3>1. ss[i] \in Seq(S) /\ IsInjective(ss[i])
      BY <1>1 DEF n
    <3>2. QED BY <2>2, <2>3, <3>1, Joining DEF Concat
  <2>6. J[i] = {y \in Seq(S) : IsInjective(y) /\ Range(y) = Upto(i)}
    <3> HIDE DEF Upto
    <3>1. QED BY <2>1
  <2>7. QED
    <3> HIDE DEF Upto, J
    <3>1. QED BY <2>2, <2>4, <2>5, <2>6
<1>4. Joined!Fold(<<>>, ss) \in J[n]
  <2> HIDE DEF J
  <2>1. \A i \in 1..Len(ss) : \A x \in J[i - 1] : Concat(x, ss[i]) \in J[i]
    BY <1>3
  <2>2. QED BY <1>1, <1>2, <2>1, JoinProgress
<1>5. n \in 0..n
  BY <1>1
<1>6. J[n] = {y \in Seq(S) : IsInjective(y) /\ Range(y) = Upto(n)}
  <2> HIDE DEF Upto
  <2>1. QED BY <1>5
<1>7. QED
  <2> HIDE DEF J
  <2>1. QED BY <1>4, <1>6 DEF Flat

(* What OnlyIn keeps, when it keeps nothing twice.                              *)
LEMMA OnlyInOnce ==
  ASSUME NEW S, NEW s \in Seq(S), NEW K,
         \A i, k \in 1..Len(s) : s[i] \in K /\ s[i] = s[k] => i = k
  PROVE  /\ OnlyIn(s, K) \in Seq(S) /\ IsInjective(OnlyIn(s, K))
         /\ Range(OnlyIn(s, K)) = Range(s) \cap K
<1> DEFINE ss == [i \in 1..Len(s) |-> IF s[i] \in K THEN <<s[i]>> ELSE <<>>]
<1>1. ss \in Seq(Seq(S \cap K)) /\ Len(ss) = Len(s) /\ Len(s) \in Nat
  <2>1. ss \in Seq(Seq(S \cap K))
    BY Selected
  <2>2. DOMAIN ss = 1..Len(s) /\ Len(s) \in Nat
    OBVIOUS
  <2> HIDE DEF ss
  <2>3. QED BY <2>1, <2>2
<1>2. ASSUME NEW i \in 1..Len(s)
      PROVE  IsInjective(ss[i]) /\ Range(ss[i]) = {s[i]} \cap K
  <2>1. CASE s[i] \in K
    <3>1. ss[i] = <<s[i]>>
      BY <2>1
    <3>2. QED BY <2>1, <3>1 DEF IsInjective, Range
  <2>2. CASE s[i] \notin K
    <3>1. ss[i] = <<>>
      BY <2>2
    <3>2. QED BY <2>2, <3>1 DEF IsInjective, Range
  <2>3. QED BY <2>1, <2>2
<1> HIDE DEF ss
<1>3. ASSUME NEW i \in 1..Len(ss), NEW k \in 1..Len(ss), i # k
      PROVE  Range(ss[i]) \cap Range(ss[k]) = {}
  <2>1. Range(ss[i]) = {s[i]} \cap K /\ Range(ss[k]) = {s[k]} \cap K
    BY <1>1, <1>2
  <2>2. ~(s[i] \in K /\ s[i] = s[k])
    BY <1>1, <1>3
  <2>3. QED BY <2>1, <2>2
<1>4. /\ Flat(ss) \in Seq(S \cap K) /\ IsInjective(Flat(ss))
      /\ Range(Flat(ss)) = UNION {Range(ss[i]) : i \in 1..Len(ss)}
  <2>1. \A i \in 1..Len(ss) : IsInjective(ss[i])
    BY <1>1, <1>2
  <2>2. QED BY <1>1, <1>3, <2>1, Flattened
<1>5. UNION {Range(ss[i]) : i \in 1..Len(ss)} = Range(s) \cap K
  <2>1. DOMAIN s = 1..Len(s)
    OBVIOUS
  <2>2. Range(s) = {s[i] : i \in 1..Len(s)}
    BY <2>1 DEF Range
  <2>3. ASSUME NEW i \in 1..Len(s), NEW x \in Range(ss[i]) PROVE x \in Range(s) \cap K
    BY <1>2, <2>2
  <2>4. ASSUME NEW i \in 1..Len(s), s[i] \in K PROVE s[i] \in Range(ss[i])
    BY <1>2, <2>4
  <2> DEFINE A == UNION {Range(ss[i]) : i \in 1..Len(s)}
             B == Range(s) \cap K
  <2>5. \A x \in A : x \in B
    BY <2>3
  <2>6. \A x \in B : x \in A
    BY <2>2, <2>4
  <2> HIDE DEF A, B
  <2>7. A = B
    BY <2>5, <2>6
  <2>8. QED BY <1>1, <2>7 DEF A, B
<1>6. OnlyIn(s, K) = Flat(ss)
  BY DEF OnlyIn, ss
<1>7. Flat(ss) \in Seq(S)
  <2>1. S \cap K \subseteq S
    OBVIOUS
  <2>2. QED BY <1>4, <2>1
<1>8. QED BY <1>4, <1>5, <1>6, <1>7
=============================================================================
