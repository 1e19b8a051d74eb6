-------------------------- MODULE BatchStepProofs ---------------------------
(***************************************************************************)
(* What one engine step makes of the rows of the persistent batch, for     *)
(* every set of requests and size of the batch: Table says that each row   *)
(* is its request's own and holds what the scheduler granted it, and every *)
(* operation on the batch keeps it (StepUpdated, ReorderedBatch).          *)
(*                                                                         *)
(* First what sets of row numbers do (least, greatest, ranks), then one    *)
(* lemma per operation.                                                    *)
(***************************************************************************)
EXTENDS BatchStep, SequenceLoops, FiniteSetTheorems, WellFoundedInduction, TLAPS

INSTANCE SequenceFacts WITH Step <- Concat  \* facts about sequences and finite sets

(* SetToSeq lists a finite set, every element once.                           *)
LEMMA Listing ==
  ASSUME NEW S, IsFiniteSet(S)
  PROVE  /\ SetToSeq(S) \in Seq(S) /\ Len(SetToSeq(S)) = Cardinality(S) /\ Cardinality(S) \in Nat
         /\ IsInjective(SetToSeq(S)) /\ Range(SetToSeq(S)) = S
<1>1. SetToSeq(S) \in [1..Cardinality(S) -> S] /\ IsInjective(SetToSeq(S))
  BY Listable DEF SetToSeq
<1>2. QED BY <1>1, Listed

(* So does every member of SetToSeqs.                                         *)
LEMMA Listings ==
  ASSUME NEW S, IsFiniteSet(S), NEW s \in SetToSeqs(S)
  PROVE  s \in Seq(S) /\ IsInjective(s) /\ Range(s) = S
<1>1. s \in [1..Cardinality(S) -> S] /\ \A i, j \in 1..Cardinality(S) : i # j => s[i] # s[j]
  BY DEF SetToSeqs
<1>2. IsInjective(s)
  BY <1>1 DEF IsInjective
<1>3. QED BY <1>1, <1>2, Listed

(* Extremes of a set of bounded natural numbers.                               *)
LEMMA MinIs ==
  ASSUME NEW S \in SUBSET Nat, S # {}
  PROVE  Min(S) \in S /\ \A y \in S : Min(S) <= y
<1>1. \E x \in S : \A y \in S : x <= y
  BY LeastNat
<1>2. QED BY <1>1 DEF Min

(* The same for the greatest.                                                  *)
LEMMA MaxIs ==
  ASSUME NEW n \in Nat, NEW S \in SUBSET (0..n), S # {}
  PROVE  Max(S) \in S /\ \A y \in S : Max(S) >= y
<1> DEFINE T == {n - x : x \in S}
<1>1. T \in SUBSET Nat /\ T # {}
  <2>1. \A x \in S : x \in Nat /\ x <= n /\ n - x \in Nat
    OBVIOUS
  <2>2. QED BY <2>1
<1>2. PICK t \in T : \A y \in T : t <= y
  <2> HIDE DEF T
  <2>1. QED BY <1>1, LeastNat
<1>3. PICK x \in S : t = n - x
  BY <1>2
<1>4. ASSUME NEW y \in S PROVE x >= y
  <2>1. t <= n - y
    BY <1>2
  <2>2. QED BY <1>3, <2>1
<1>5. QED BY <1>4 DEF Max

(* Members of a finite set that each have a set of others before them, one     *)
(* within the other, are told apart by how many those are.                     *)
LEMMA Ranked ==
  ASSUME NEW S, IsFiniteSet(S), NEW Before \in [S -> SUBSET S],
         \A j \in S : j \notin Before[j],
         \A i, j \in S : \/ i = j
                         \/ i \in Before[j] /\ Before[i] \subseteq Before[j]
                         \/ j \in Before[i] /\ Before[j] \subseteq Before[i]
  PROVE  /\ \A j \in S : Cardinality(Before[j]) \in 0..(Cardinality(S) - 1)
         /\ \A i, j \in S : Cardinality(Before[i]) = Cardinality(Before[j]) => i = j
<1>1. ASSUME NEW i \in S
      PROVE  IsFiniteSet(Before[i]) /\ Cardinality(Before[i]) \in 0..(Cardinality(S) - 1)
  <2>1. Before[i] \in SUBSET S /\ Before[i] # S
    OBVIOUS
  <2>2. IsFiniteSet(Before[i]) /\ Cardinality(Before[i]) <= Cardinality(S)
        /\ Cardinality(S) # Cardinality(Before[i])
    BY <2>1, FS_Subset
  <2>3. Cardinality(Before[i]) \in Nat /\ Cardinality(S) \in Nat
    BY <2>2, FS_CardinalityType
  <2>4. QED BY <2>2, <2>3
<1>2. ASSUME NEW i \in S, NEW j \in S, i \in Before[j], Before[i] \subseteq Before[j]
      PROVE  Cardinality(Before[i]) # Cardinality(Before[j])
  <2>1. Before[i] \in SUBSET Before[j] /\ Before[i] # Before[j]
    BY <1>2
  <2>2. QED BY <1>1, <2>1, FS_Subset
<1>3. ASSUME NEW i \in S, NEW j \in S, Cardinality(Before[i]) = Cardinality(Before[j])
      PROVE  i = j
  BY <1>2, <1>3
<1>4. QED BY <1>1, <1>3

(* The number of elements of an interval.                                      *)
LEMMA Counted ==
  ASSUME NEW n \in Nat
  PROVE  /\ IsFiniteSet(1..n) /\ Cardinality(1..n) = n
         /\ IsFiniteSet(0..(n - 1)) /\ Cardinality(0..(n - 1)) = n
<1>1. IsFiniteSet(1..n) /\ Cardinality(1..n) = IF 1 > n THEN 0 ELSE n - 1 + 1
  BY FS_Interval
<1>2. n - 1 \in Int
  OBVIOUS
<1>3. IsFiniteSet(0..(n - 1)) /\ Cardinality(0..(n - 1)) = IF 0 > n - 1 THEN 0 ELSE (n - 1) - 0 + 1
  BY <1>2, FS_Interval
<1>4. QED BY <1>1, <1>3

(* Where the largest used row goes: holes among the first m rows and used rows *)
(* past them are equally many, and the k-th hole gets the k-th largest row.    *)
Above(S, j) == Cardinality({k \in S : k > j})
Below(S, i) == Cardinality({k \in S : k < i})

(* Rows 1..n, E of them empty and U used, m of these.                          *)
Filled(n, E, U, m) ==
  /\ n \in Nat /\ m \in Nat
  /\ E \subseteq 1..n /\ U = (1..n) \ E /\ m = Cardinality(U)

(* condense has a row for every hole among the first m, and one for each.      *)
LEMMA Refilled ==
  ASSUME NEW n, NEW E, NEW U, NEW m, Filled(n, E, U, m)
  PROVE  /\ m <= n
         /\ \A i \in E \cap (1..m) : \E j \in U : j > m /\ Above(U, j) = Below(E, i)
         /\ \A i, j \in U : Above(U, i) = Above(U, j) => i = j
         /\ \A i, j \in E \cap (1..m) : Below(E, i) = Below(E, j) => i = j
<1> DEFINE A == E \cap (1..m)
           B == {j \in U : j > m}
           C == U \cap (1..m)
           above(j) == Above(U, j)
           below(i) == Below(E, i)
<1>0. /\ n \in Nat /\ m \in Nat /\ E \subseteq 1..n /\ U = (1..n) \ E /\ m = Cardinality(U)
  BY DEF Filled
<1> USE <1>0
<1>1. /\ IsFiniteSet(1..n) /\ Cardinality(1..n) = n
      /\ IsFiniteSet(U) /\ Cardinality(U) = m /\ m <= n
  <2>1. IsFiniteSet(1..n)
    BY Counted
  <2>2. Cardinality(1..n) = n
    BY Counted
  <2>3. U \in SUBSET (1..n)
    OBVIOUS
  <2>4. IsFiniteSet(U) /\ Cardinality(U) <= Cardinality(1..n)
    BY <2>1, <2>3, FS_Subset
  <2>5. QED BY <2>1, <2>2, <2>4
<1>2. IsFiniteSet(1..m) /\ Cardinality(1..m) = m
  BY Counted
<1>3. /\ IsFiniteSet(A) /\ IsFiniteSet(B) /\ IsFiniteSet(C)
      /\ Cardinality(A) \in Nat /\ Cardinality(B) \in Nat /\ Cardinality(C) \in Nat
  <2>1. A \in SUBSET (1..m) /\ B \in SUBSET U /\ C \in SUBSET U
    OBVIOUS
  <2> HIDE DEF A, B, C
  <2>2. IsFiniteSet(A) /\ IsFiniteSet(B) /\ IsFiniteSet(C)
    BY <1>1, <1>2, <2>1, FS_Subset
  <2>3. QED BY <2>2, FS_CardinalityType
<1>4. Cardinality(A) = Cardinality(B)
  <2>1. A \union C = 1..m /\ A \cap C = {}
    BY <1>1
  <2>7. B \union C = U /\ B \cap C = {}
    <3>1. \A j \in U : j \in 1..n /\ (j > m \/ j \in 1..m)
      OBVIOUS
    <3>2. QED BY <3>1
  <2> HIDE DEF A, B, C
  <2>2. /\ Cardinality(A \union C) = Cardinality(A) + Cardinality(C) - Cardinality(A \cap C)
        /\ Cardinality(B \union C) = Cardinality(B) + Cardinality(C) - Cardinality(B \cap C)
    BY <1>3, FS_Union
  <2>3. Cardinality(A \cap C) = 0 /\ Cardinality(B \cap C) = 0
    BY <2>1, <2>7, FS_EmptySet
  <2>8. Cardinality(A \union C) = m /\ Cardinality(B \union C) = m
    BY <1>1, <1>2, <2>1, <2>7
  <2>4. m = Cardinality(A) + Cardinality(C)
    BY <1>3, <2>2, <2>3, <2>8
  <2>5. m = Cardinality(B) + Cardinality(C)
    BY <1>3, <2>2, <2>3, <2>8
  <2>6. QED BY <1>3, <2>4, <2>5
<1>5. /\ \A j \in U : above(j) \in 0..(m - 1)
      /\ \A i, j \in U : above(i) = above(j) => i = j
  <2> DEFINE Before == [j \in U |-> {k \in U : k > j}]
  <2>1. Before \in [U -> SUBSET U] /\ \A j \in U : Before[j] = {k \in U : k > j}
    OBVIOUS
  <2>2. \A j \in U : j \notin Before[j]
    OBVIOUS
  <2>3. \A i, j \in U : \/ i = j
                        \/ i \in Before[j] /\ Before[i] \subseteq Before[j]
                        \/ j \in Before[i] /\ Before[j] \subseteq Before[i]
    OBVIOUS
  <2>4. /\ \A j \in U : Cardinality(Before[j]) \in 0..(Cardinality(U) - 1)
        /\ \A i, j \in U : Cardinality(Before[i]) = Cardinality(Before[j]) => i = j
    <3> HIDE <1>0 DEF Before
    <3>1. QED BY <1>1, <2>1, <2>2, <2>3, Ranked
  <2>5. \A j \in U : above(j) = Cardinality(Before[j])
    BY DEF Above
  <2> HIDE DEF Before, above
  <2>6. \A j \in U : Cardinality(Before[j]) \in 0..(m - 1)
    BY <1>1, <2>4, Zenon
  <2>7. \A j \in U : above(j) \in 0..(m - 1)
    BY <2>5, <2>6
  <2>8. \A i, j \in U : above(i) = above(j) => i = j
    BY <2>4, <2>5
  <2>9. QED BY <2>7, <2>8
<1>6. /\ \A j \in B : above(j) \in 0..(Cardinality(B) - 1)
      /\ \A i, j \in B : above(i) = above(j) => i = j
  <2> DEFINE Before == [j \in B |-> {k \in B : k > j}]
  <2>1. Before \in [B -> SUBSET B]
    OBVIOUS
  <2>2. \A j \in B : j \notin Before[j]
    OBVIOUS
  <2>3. \A i, j \in B : \/ i = j
                        \/ i \in Before[j] /\ Before[i] \subseteq Before[j]
                        \/ j \in Before[i] /\ Before[j] \subseteq Before[i]
    OBVIOUS
  <2>4. /\ \A j \in B : Cardinality(Before[j]) \in 0..(Cardinality(B) - 1)
        /\ \A i, j \in B : Cardinality(Before[i]) = Cardinality(Before[j]) => i = j
    <3> HIDE DEF B, Before
    <3>1. QED BY <1>3, <2>1, <2>2, <2>3, Ranked
  <2>5. ASSUME NEW j \in B PROVE above(j) = Cardinality(Before[j])
    <3>1. {k \in U : k > j} = {k \in B : k > j}
      OBVIOUS
    <3>2. QED BY <3>1 DEF Above
  <2> HIDE DEF B, Before, above
  <2>6. QED BY <2>4, <2>5
<1>7. /\ \A i \in A : below(i) \in 0..(Cardinality(A) - 1)
      /\ \A i, j \in A : below(i) = below(j) => i = j
  <2> DEFINE Before == [j \in A |-> {k \in A : k < j}]
  <2>1. Before \in [A -> SUBSET A]
    OBVIOUS
  <2>2. \A j \in A : j \notin Before[j]
    OBVIOUS
  <2>3. \A i, j \in A : \/ i = j
                        \/ i \in Before[j] /\ Before[i] \subseteq Before[j]
                        \/ j \in Before[i] /\ Before[j] \subseteq Before[i]
    OBVIOUS
  <2>4. /\ \A j \in A : Cardinality(Before[j]) \in 0..(Cardinality(A) - 1)
        /\ \A i, j \in A : Cardinality(Before[i]) = Cardinality(Before[j]) => i = j
    <3> HIDE DEF A, Before
    <3>1. QED BY <1>3, <2>1, <2>2, <2>3, Ranked
  <2>5. ASSUME NEW j \in A PROVE below(j) = Cardinality(Before[j])
    <3>1. \A e \in E : e < j => e \in A
      OBVIOUS
    <3>3. {e \in E : e < j} = {k \in A : k < j}
      BY <3>1
    <3>2. QED BY <3>3 DEF Below
  <2> HIDE DEF A, Before, below
  <2>6. QED BY <2>4, <2>5
<1>8. ASSUME NEW i \in A PROVE \E j \in B : above(j) = below(i)
  <2> DEFINE T == 0..(Cardinality(B) - 1)
             f == [j \in B |-> above(j)]
  <2>1. IsFiniteSet(T) /\ Cardinality(T) = Cardinality(B)
    <3> HIDE DEF B
    <3>1. QED BY <1>3, Counted
  <2> HIDE DEF above, below, B, A
  <2>2. f \in Injection(B, T)
    <3>1. f \in [B -> T] /\ \A x, y \in B : f[x] = f[y] => x = y
      BY <1>6
    <3>2. QED BY <3>1 DEF Injection, IsInjective
  <2>3. f \in Surjection(B, T)
    <3> HIDE DEF f, T
    <3>1. QED BY <2>1, <2>2, FS_Injection
  <2>4. below(i) \in T
    BY <1>4, <1>7
  <2>5. PICK j \in B : f[j] = below(i)
    <3> HIDE DEF f, T
    <3>1. QED BY <2>3, <2>4 DEF Surjection
  <2>6. QED BY <2>5
<1>9. QED
  <2>1. \A i \in A : \E j \in U : j > m /\ above(j) = below(i)
    <3>1. \A j \in B : j \in U /\ j > m
      OBVIOUS
    <3> HIDE DEF A, B, above, below
    <3>2. QED BY <1>8, <3>1
  <2>2. \A i, j \in U : above(i) = above(j) => i = j
    BY <1>5
  <2>3. \A i, j \in A : below(i) = below(j) => i = j
    BY <1>7
  <2>4. QED BY <1>1, <2>1, <2>2, <2>3

-----------------------------------------------------------------------------
(* Batches, and what their rows must hold: w.comp, w.prompt, w.tokens and      *)
(* w.blocks are the scheduler's counts and grants, by request.                 *)
IsBatch(b) == b = [req_ids |-> b.req_ids, index |-> b.index, row |-> b.row, cache |-> b.cache]

(* The row is the one of r, with the counts of w.                              *)
HasRow(row, r, w) ==
  /\ row.own = r
  /\ row.comp = w.comp[r]
  /\ row.prompt = w.prompt[r]
  /\ row.tokens = w.tokens[r]
  /\ row.blocks = w.blocks[r]
  /\ row.gen = (IF r \in HasGenerator THEN r ELSE NONE)
  /\ row.bad = (IF r \in HasBadWords THEN r ELSE NONE)

(* Nothing is left in the dictionaries keyed by the row.                       *)
Clean(row) == row.gen = NONE /\ row.bad = NONE

(* Row i is empty or past the end.                                             *)
Vacant(b, i) == i \in DOMAIN b.req_ids => b.req_ids[i] = NONE

(* One row per member, its own; nothing keyed by a row is left in the others.  *)
Table(b, w) ==
  /\ IsBatch(b)
  /\ b.req_ids \in Seq(Reqs \union {NONE}) /\ Len(b.req_ids) <= MaxReqs
  /\ Members(b) \subseteq Reqs /\ b.index \in [Members(b) -> DOMAIN b.req_ids]
  /\ b.row \in [Rows -> Row] /\ b.cache \in Seq(Reqs)
  /\ \A r \in Members(b) : b.req_ids[b.index[r]] = r /\ HasRow(b.row[b.index[r]], r, w)
  /\ \A i \in DOMAIN b.req_ids \ Holes(b) : b.req_ids[i] \in Members(b) /\ b.index[b.req_ids[i]] = i
  /\ \A i \in Rows : Vacant(b, i) => Clean(b.row[i])

(* The members of a batch and its used rows, one for one.                      *)
LEMMA UsedRows ==
  ASSUME NEW b, NEW w, Table(b, w)
  PROVE  LET U == DOMAIN b.req_ids \ Holes(b)
         IN  /\ Len(b.req_ids) \in Nat /\ DOMAIN b.req_ids = 1..Len(b.req_ids)
             /\ DOMAIN b.req_ids \subseteq Rows
             /\ b.index \in Bijection(Members(b), U)
             /\ IsFiniteSet(Members(b)) /\ IsFiniteSet(U)
             /\ NumReqs(b) = Cardinality(U) /\ NumReqs(b) \in Nat
<1> DEFINE U == DOMAIN b.req_ids \ Holes(b)
<1>1. /\ Len(b.req_ids) \in Nat /\ DOMAIN b.req_ids = 1..Len(b.req_ids)
      /\ DOMAIN b.req_ids \subseteq Rows
  BY BatchAssumption DEF Table, Rows
<1>2. b.index \in [Members(b) -> U]
  <2>1. ASSUME NEW r \in Members(b) PROVE b.index[r] \in U
    <3>1. r \in Reqs /\ b.index[r] \in DOMAIN b.req_ids /\ b.req_ids[b.index[r]] = r
      BY DEF Table
    <3>2. r # NONE
      BY <3>1, BatchAssumption
    <3>3. QED BY <3>1, <3>2 DEF Holes
  <2>2. b.index \in [Members(b) -> DOMAIN b.req_ids]
    BY DEF Table
  <2> HIDE DEF U
  <2>3. QED BY <2>1, <2>2
<1>3. \A r \in Members(b) : b.req_ids[b.index[r]] = r
  BY DEF Table
<1>4. \A i \in U : b.req_ids[i] \in Members(b) /\ b.index[b.req_ids[i]] = i
  BY DEF Table
<1>5. b.index \in Bijection(Members(b), U)
  <2> HIDE DEF U
  <2>1. \A q, r \in Members(b) : b.index[q] = b.index[r] => q = r
    BY <1>3
  <2>2. \A i \in U : \E r \in Members(b) : b.index[r] = i
    BY <1>4
  <2>3. QED BY <1>2, <2>1, <2>2 DEF Bijection, Injection, Surjection, IsInjective
<1>6. IsFiniteSet(Members(b))
  <2>1. Members(b) \in SUBSET Reqs /\ IsFiniteSet(Reqs)
    BY BatchAssumption DEF Table
  <2>2. QED BY <2>1, FS_Subset
<1>7. IsFiniteSet(U) /\ Cardinality(U) = Cardinality(Members(b))
  <2> HIDE DEF U
  <2>1. QED BY <1>5, <1>6, FS_Bijection DEF ExistsBijection
<1>8. NumReqs(b) \in Nat
  BY <1>6, FS_CardinalityType DEF NumReqs
<1>9. QED BY <1>1, <1>5, <1>6, <1>7, <1>8 DEF NumReqs

(* A row without its dictionary entries.                                       *)
LEMMA CleanedRow ==
  ASSUME NEW row \in Row
  PROVE  /\ [row EXCEPT !.gen = NONE, !.bad = NONE] \in Row
         /\ Clean([row EXCEPT !.gen = NONE, !.bad = NONE])
         /\ [row EXCEPT !.gen = NONE, !.bad = NONE, !.mask = NONE] \in Row
         /\ Clean([row EXCEPT !.gen = NONE, !.bad = NONE, !.mask = NONE])
<1> DEFINE x == [row EXCEPT !.gen = NONE, !.bad = NONE]
           y == [row EXCEPT !.gen = NONE, !.bad = NONE, !.mask = NONE]
<1>1. x \in Row
  BY DEF Row
<1>2. Clean(x)
  BY DEF Row, Clean
<1>3. y \in Row
  BY DEF Row
<1>4. Clean(y)
  BY DEF Row, Clean
<1>5. QED BY <1>1, <1>2, <1>3, <1>4

(* remove_request for every member of gone.                                    *)
LEMMA Removed ==
  ASSUME NEW b, NEW w, Table(b, w), NEW gone \in SUBSET Members(b)
  PROVE  LET c == remove_requests(b, gone)
         IN  /\ Table(c, w) /\ Members(c) = Members(b) \ gone
<1> DEFINE c == remove_requests(b, gone)
           left == {b.index[r] : r \in gone}
           clean(i) == [b.row[i] EXCEPT !.gen = NONE, !.bad = NONE, !.mask = NONE]
<1>1. CASE gone = {}
  <2>1. c = b
    BY <1>1 DEF remove_requests
  <2>2. QED BY <1>1, <2>1
<1>2. CASE gone # {}
  <2>1. c = [req_ids |-> [i \in DOMAIN b.req_ids |-> IF i \in left THEN NONE ELSE b.req_ids[i]],
             index   |-> [q \in Members(b) \ gone |-> b.index[q]],
             row     |-> [i \in Rows |-> IF i \in left THEN clean(i) ELSE b.row[i]],
             cache   |-> <<>>]
    BY <1>2 DEF remove_requests
  <2>2. /\ b.req_ids \in Seq(Reqs \union {NONE}) /\ Len(b.req_ids) <= MaxReqs
        /\ Members(b) \subseteq Reqs /\ b.index \in [Members(b) -> DOMAIN b.req_ids]
        /\ b.row \in [Rows -> Row]
        /\ \A r \in Members(b) : b.req_ids[b.index[r]] = r /\ HasRow(b.row[b.index[r]], r, w)
        /\ \A i \in DOMAIN b.req_ids \ Holes(b) : b.req_ids[i] \in Members(b) /\ b.index[b.req_ids[i]] = i
        /\ \A i \in Rows : Vacant(b, i) => Clean(b.row[i])
        /\ DOMAIN b.req_ids = 1..Len(b.req_ids) /\ Len(b.req_ids) \in Nat
    BY UsedRows, SMTT(30) DEF Table
  <2>3. \A i \in Rows : clean(i) \in Row /\ Clean(clean(i))
    <3>1. \A i \in Rows : b.row[i] \in Row
      BY <2>2
    <3>2. QED BY <3>1, CleanedRow
  <2>4. /\ IsBatch(c)
        /\ c.req_ids = [i \in DOMAIN b.req_ids |-> IF i \in left THEN NONE ELSE b.req_ids[i]]
        /\ c.index = [q \in Members(b) \ gone |-> b.index[q]]
        /\ c.row = [i \in Rows |-> IF i \in left THEN clean(i) ELSE b.row[i]]
        /\ c.cache = <<>>
    <3> HIDE DEF left, clean, c
    <3>1. QED BY <2>1 DEF IsBatch
  <2>5. \A i \in left : \E r \in gone : i = b.index[r] /\ b.req_ids[i] = r
    BY <2>2
  <2>6. \A r \in gone : b.index[r] \in left
    OBVIOUS
  <2> HIDE DEF left, clean, c
  <2>7. DOMAIN c.req_ids = 1..Len(b.req_ids) /\ c.req_ids \in Seq(Reqs \union {NONE})
        /\ Len(c.req_ids) = Len(b.req_ids)
    <3>1. \A i \in 1..Len(b.req_ids) : (IF i \in left THEN NONE ELSE b.req_ids[i]) \in Reqs \union {NONE}
      BY <2>2
    <3>2. c.req_ids \in [1..Len(b.req_ids) -> Reqs \union {NONE}]
      BY <2>2, <2>4, <3>1
    <3>3. QED BY <2>2, <3>2
  <2>8. Members(c) = Members(b) \ gone
    BY <2>4 DEF Members
  <2>9. \A r \in Members(c) : b.index[r] \notin left /\ c.index[r] = b.index[r]
    BY <2>2, <2>4, <2>5, <2>8
  <2>10. c.index \in [Members(c) -> DOMAIN c.req_ids]
    BY <2>2, <2>4, <2>7, <2>8
  <2>11. c.row \in [Rows -> Row]
    BY <2>2, <2>3, <2>4
  <2>12. \A r \in Members(c) : c.req_ids[c.index[r]] = r /\ HasRow(c.row[c.index[r]], r, w)
    <3>1. SUFFICES ASSUME NEW r \in Members(c)
                   PROVE  c.req_ids[c.index[r]] = r /\ HasRow(c.row[c.index[r]], r, w)
      OBVIOUS
    <3>2. r \in Members(b) /\ b.index[r] \in DOMAIN b.req_ids /\ b.index[r] \in Rows
      BY <2>2, <2>8, UsedRows
    <3>3. b.index[r] \notin left /\ c.index[r] = b.index[r]
      BY <2>9
    <3>4. c.req_ids[b.index[r]] = b.req_ids[b.index[r]]
      BY <2>4, <3>2, <3>3
    <3>5. c.row[b.index[r]] = b.row[b.index[r]]
      BY <2>4, <3>2, <3>3
    <3>6. QED BY <2>2, <3>2, <3>3, <3>4, <3>5
  <2>13. \A i \in DOMAIN c.req_ids \ Holes(c) : c.req_ids[i] \in Members(c) /\ c.index[c.req_ids[i]] = i
    <3>1. SUFFICES ASSUME NEW i \in DOMAIN c.req_ids, c.req_ids[i] # NONE
                   PROVE  c.req_ids[i] \in Members(c) /\ c.index[c.req_ids[i]] = i
      BY DEF Holes
    <3>2. i \in DOMAIN b.req_ids /\ i \notin left /\ c.req_ids[i] = b.req_ids[i]
      BY <2>2, <2>4, <2>7, <3>1
    <3>3. i \notin Holes(b)
      BY <3>1, <3>2 DEF Holes
    <3>4. b.req_ids[i] \in Members(b) /\ b.index[b.req_ids[i]] = i
      BY <2>2, <3>2, <3>3
    <3>5. b.req_ids[i] \notin gone
      BY <2>6, <3>2, <3>4
    <3>6. QED BY <2>8, <2>9, <3>2, <3>4, <3>5
  <2>14. \A i \in Rows : Vacant(c, i) => Clean(c.row[i])
    <3>1. SUFFICES ASSUME NEW i \in Rows, Vacant(c, i) PROVE Clean(c.row[i])
      OBVIOUS
    <3>2. CASE i \in left
      BY <2>3, <2>4, <3>2
    <3>3. CASE i \notin left
      <4>1. Vacant(b, i)
        BY <2>2, <2>4, <2>7, <3>1, <3>3 DEF Vacant
      <4>2. QED BY <2>2, <2>4, <3>3, <4>1
    <3>4. QED BY <3>2, <3>3
  <2>15. c.cache \in Seq(Reqs) /\ Members(c) \subseteq Reqs
    BY <2>2, <2>4, <2>8
  <2>16. Table(c, w)
    BY <2>2, <2>4, <2>7, <2>10, <2>11, <2>12, <2>13, <2>14, <2>15 DEF Table
  <2>17. QED BY <2>8, <2>16 DEF c
<1>3. QED BY <1>1, <1>2

(* A function on 1..m is a sequence of length m.                               *)
LEMMA FunctionSeq ==
  ASSUME NEW S, NEW m \in Nat, NEW f \in [1..m -> S]
  PROVE  f \in Seq(S) /\ Len(f) = m /\ DOMAIN f = 1..m
OBVIOUS

(* FunctionSeq for a bound that may be negative.                               *)
LEMMA FunctionSeqInt ==
  ASSUME NEW S, NEW m \in Int, NEW f \in [1..m -> S]
  PROVE  f \in Seq(S)
<1>1. CASE m \in Nat
  BY <1>1, FunctionSeq
<1>2. CASE m \notin Nat
  <2>1. 1..m = 1..0
    BY <1>2
  <2>2. f \in [1..0 -> S]
    BY <2>1
  <2>3. QED BY <2>2, FunctionSeq
<1>3. QED BY <1>1, <1>2

(* The smaller of two numbers.                                                 *)
LEMMA MinOfTwo ==
  ASSUME NEW x \in Int, NEW y \in Int
  PROVE  Min({x, y}) \in Int /\ Min({x, y}) <= x /\ Min({x, y}) <= y
<1> DEFINE S == {x, y}
<1>1. \E z \in S : \A v \in S : z <= v
  <2>1. CASE x <= y
    BY <2>1
  <2>2. CASE y <= x
    BY <2>2
  <2>3. QED BY <2>1, <2>2
<1>2. Min(S) \in S /\ \A v \in S : Min(S) <= v
  <2> HIDE DEF S
  <2>1. QED BY <1>1 DEF Min
<1>3. QED BY <1>2

(* The requests R have come as far as v says, with n tokens scheduled.         *)
Continues(R, w, v, s, n) ==
  \A r \in R :
    /\ s.comp[r] - n[r] \in Nat /\ v.comp[r] = s.comp[r] - n[r]
    /\ v.prompt[r] = w.prompt[r] /\ v.tokens[r] = w.tokens[r]
    /\ v.blocks[r] = [w.blocks[r] EXCEPT !.len = @ + n[r]]

(* UpdateRows brings the members' rows to the counts after the schedule.       *)
Recounted(row, c, k) == [row EXCEPT !.comp = c, !.blocks.len = @ + k]

(* A member's row, brought to the counts after the schedule.                   *)
LEMMA UpdatedRow ==
  ASSUME NEW row \in Row, NEW c \in Nat, NEW k \in Nat
  PROVE  LET x == Recounted(row, c, k)
         IN  /\ x \in Row
             /\ x.own = row.own /\ x.comp = c /\ x.prompt = row.prompt /\ x.tokens = row.tokens
             /\ x.gen = row.gen /\ x.bad = row.bad
             /\ x.blocks = [row.blocks EXCEPT !.len = @ + k]
<1> DEFINE x == Recounted(row, c, k)
           bl == [row.blocks EXCEPT !.len = @ + k]
<1>1. bl \in [of : Reqs \union {NONE}, epoch : Nat, len : Nat]
  <2>1. row.blocks \in [of : Reqs \union {NONE}, epoch : Nat, len : Nat]
    BY DEF Row
  <2>2. QED BY <2>1
<1>2. x = [[row EXCEPT !.comp = c] EXCEPT !.blocks = bl]
  BY DEF Row, Recounted
<1> HIDE DEF bl, x
<1>3. x \in Row
  BY <1>1, <1>2 DEF Row
<1>4. /\ x.own = row.own /\ x.comp = c /\ x.prompt = row.prompt /\ x.tokens = row.tokens
      /\ x.gen = row.gen /\ x.bad = row.bad /\ x.blocks = bl
  BY <1>2 DEF Row
<1>5. QED BY <1>3, <1>4 DEF bl, x

(* UpdateRows does so with every row of the batch.                             *)
LEMMA RowsUpdated ==
  ASSUME NEW b, NEW w, Table(b, w), NEW v, NEW s, NEW n \in [Reqs -> Nat],
         Continues(Members(b), w, v, s, n)
  PROVE  LET c == UpdateRows(b, s, n)
         IN  /\ Table(c, v) /\ Members(c) = Members(b)
<1>0. \A r \in Members(b) :
        /\ s.comp[r] - n[r] \in Nat /\ v.comp[r] = s.comp[r] - n[r]
        /\ v.prompt[r] = w.prompt[r] /\ v.tokens[r] = w.tokens[r]
        /\ v.blocks[r] = [w.blocks[r] EXCEPT !.len = @ + n[r]]
  BY DEF Continues
<1> DEFINE c == UpdateRows(b, s, n)
           new(i, r) == [b.row[i] EXCEPT !.comp = s.comp[r] - n[r], !.blocks.len = @ + n[r]]
           rows == [i \in Rows |->
                      IF i \in DOMAIN b.req_ids /\ b.req_ids[i] # NONE
                        THEN new(i, b.req_ids[i]) ELSE b.row[i]]
<1>1. c = [b EXCEPT !.row = rows]
  BY DEF UpdateRows
<1> HIDE DEF rows, c
<1>2. /\ IsBatch(c) /\ c.req_ids = b.req_ids /\ c.index = b.index /\ c.row = rows /\ c.cache = b.cache
  BY <1>1 DEF Table, IsBatch
<1>3. Members(c) = Members(b) /\ Holes(c) = Holes(b)
  BY <1>2 DEF Members, Holes
<1>4. /\ Members(b) \subseteq Reqs
      /\ b.row \in [Rows -> Row]
      /\ \A r \in Members(b) : b.req_ids[b.index[r]] = r /\ HasRow(b.row[b.index[r]], r, w)
      /\ \A i \in DOMAIN b.req_ids \ Holes(b) : b.req_ids[i] \in Members(b) /\ b.index[b.req_ids[i]] = i
      /\ \A i \in Rows : Vacant(b, i) => Clean(b.row[i])
  BY DEF Table
<1>5. ASSUME NEW r \in Members(b), NEW i \in Rows, i = b.index[r]
      PROVE  rows[i] \in Row /\ HasRow(rows[i], r, v)
  <2>1. /\ r \in Reqs /\ i \in DOMAIN b.req_ids /\ b.req_ids[i] = r /\ r # NONE
        /\ b.row[i] \in Row /\ HasRow(b.row[i], r, w) /\ n[r] \in Nat /\ s.comp[r] - n[r] \in Nat
    BY <1>0, <1>4, <1>5, BatchAssumption, ZenonT(30) DEF Table
  <2>2. rows[i] = new(i, r)
    BY <2>1 DEF rows
  <2>3. /\ new(i, r) \in Row
        /\ new(i, r).own = b.row[i].own /\ new(i, r).comp = s.comp[r] - n[r]
        /\ new(i, r).prompt = b.row[i].prompt /\ new(i, r).tokens = b.row[i].tokens
        /\ new(i, r).gen = b.row[i].gen /\ new(i, r).bad = b.row[i].bad
        /\ new(i, r).blocks = [b.row[i].blocks EXCEPT !.len = @ + n[r]]
    <3>1. new(i, r) = Recounted(b.row[i], s.comp[r] - n[r], n[r])
      BY Zenon DEF Recounted
    <3> HIDE DEF new
    <3>2. QED BY <2>1, <3>1, UpdatedRow
  <2> HIDE DEF new
  <2>4. QED BY <1>0, <2>1, <2>2, <2>3 DEF HasRow
<1>6. ASSUME NEW i \in Rows
      PROVE  \/ Vacant(b, i) /\ rows[i] = b.row[i]
             \/ \E r \in Members(b) : i = b.index[r]
  <2>1. CASE Vacant(b, i)
    BY <2>1 DEF rows, Vacant
  <2>2. CASE ~Vacant(b, i)
    <3>1. i \in DOMAIN b.req_ids \ Holes(b)
      BY <2>2 DEF Vacant, Holes
    <3>2. QED BY <1>4, <3>1
  <2>3. QED BY <2>1, <2>2
<1>7. rows \in [Rows -> Row]
  <2>1. \A i \in Rows : rows[i] \in Row
    BY <1>4, <1>5, <1>6
  <2>2. DOMAIN rows = Rows /\ rows = [i \in Rows |-> rows[i]]
    BY DEF rows
  <2>3. QED BY <2>1, <2>2
<1>8. \A r \in Members(b) : c.req_ids[c.index[r]] = r /\ HasRow(c.row[c.index[r]], r, v)
  <2>1. \A r \in Members(b) : b.index[r] \in Rows
    BY UsedRows DEF Table
  <2>2. QED BY <1>2, <1>4, <1>5, <2>1
<1>9. \A i \in Rows : Vacant(c, i) => Clean(c.row[i])
  <2>1. SUFFICES ASSUME NEW i \in Rows, Vacant(c, i) PROVE Clean(c.row[i])
    OBVIOUS
  <2>2. Vacant(b, i)
    BY <1>2, <2>1 DEF Vacant
  <2>3. rows[i] = b.row[i]
    BY <2>2 DEF rows, Vacant
  <2>4. QED BY <1>2, <1>4, <2>2, <2>3
<1>10. Table(c, v)
  <2>1. /\ b.req_ids \in Seq(Reqs \union {NONE}) /\ Len(b.req_ids) <= MaxReqs
        /\ b.index \in [Members(b) -> DOMAIN b.req_ids] /\ b.cache \in Seq(Reqs)
    BY DEF Table
  <2>2. QED BY <1>2, <1>3, <1>4, <1>7, <1>8, <1>9, <2>1 DEF Table
<1>11. QED BY <1>3, <1>10 DEF c

(* add_request into an empty row.                                              *)
LEMMA Added ==
  ASSUME NEW b, NEW w, Table(b, w), NEW req, req.id \in Reqs \ Members(b),
         req.comp \in Nat, req.prompt \in Nat, req.outs \in Nat,
         req.blocks \in [of : Reqs \union {NONE}, epoch : Nat, len : Nat],
         req.comp = w.comp[req.id], req.prompt + req.outs = w.tokens[req.id],
         w.prompt[req.id] = (IF req.comp = 0 THEN req.prompt + req.outs ELSE req.prompt),
         req.blocks = w.blocks[req.id], NumReqs(b) < MaxReqs
  PROVE  LET c == AddRequest(b, req)
         IN  Table(c, w) /\ Members(c) = Members(b) \union {req.id} /\ c.cache = <<>>
<1> DEFINE L == Len(b.req_ids)
           i == IF Holes(b) = {} THEN L + 1 ELSE Min(Holes(b))
           c == add_request(b, req, i)
           r == req.id
           row == [own    |-> r,
                   comp   |-> req.comp,
                   prompt |-> IF req.comp = 0 THEN req.prompt + req.outs ELSE req.prompt,
                   tokens |-> req.prompt + req.outs,
                   blocks |-> req.blocks,
                   gen    |-> IF r \in HasGenerator THEN r ELSE b.row[i].gen,
                   bad    |-> IF r \in HasBadWords THEN r ELSE b.row[i].bad,
                   mask   |-> IF r \in Restricted THEN r ELSE b.row[i].mask]
<1>1. /\ L \in Nat /\ DOMAIN b.req_ids = 1..L /\ L <= MaxReqs /\ DOMAIN b.req_ids \subseteq Rows
      /\ b.req_ids \in Seq(Reqs \union {NONE})
      /\ Members(b) \subseteq Reqs /\ b.index \in [Members(b) -> 1..L]
      /\ b.row \in [Rows -> Row]
      /\ \A q \in Members(b) : b.req_ids[b.index[q]] = q /\ HasRow(b.row[b.index[q]], q, w)
      /\ \A k \in DOMAIN b.req_ids \ Holes(b) : b.req_ids[k] \in Members(b) /\ b.index[b.req_ids[k]] = k
      /\ \A k \in Rows : Vacant(b, k) => Clean(b.row[k])
  BY UsedRows DEF Table
<1>2. i \in Rows /\ i \in 1..(L + 1) /\ Vacant(b, i)
  <2>1. CASE Holes(b) = {}
    <3>1. DOMAIN b.req_ids \ Holes(b) = 1..L
      BY <1>1, <2>1
    <3>2. NumReqs(b) = L
      <4>1. NumReqs(b) = Cardinality(1..L)
        BY <3>1, UsedRows
      <4>2. QED BY <1>1, <4>1, Counted
    <3>3. L + 1 \in Rows /\ L + 1 \in 1..(L + 1) /\ L + 1 \notin 1..L
      BY <1>1, <3>2, BatchAssumption DEF Rows
    <3>4. QED BY <1>1, <2>1, <3>3 DEF Vacant
  <2>2. CASE Holes(b) # {}
    <3>1. Holes(b) \in SUBSET Nat
      BY <1>1 DEF Holes
    <3>2. Min(Holes(b)) \in Holes(b)
      BY <2>2, <3>1, MinIs
    <3>3. QED BY <1>1, <2>2, <3>2 DEF Holes, Vacant
  <2>3. QED BY <2>1, <2>2
<1> HIDE DEF i
<1>3. /\ IsBatch(c)
      /\ c.req_ids = IF i = L + 1 THEN Append(b.req_ids, r) ELSE [b.req_ids EXCEPT ![i] = r]
      /\ c.index = [q \in Members(b) \union {r} |-> IF q = r THEN i ELSE b.index[q]]
      /\ c.row = [b.row EXCEPT ![i] = row] /\ c.cache = <<>>
  BY DEF add_request, IsBatch
<1>4. row \in Row /\ HasRow(row, r, w)
  <2>1. b.row[i] \in Row /\ Clean(b.row[i])
    BY <1>1, <1>2
  <2>2. b.row[i].gen = NONE /\ b.row[i].bad = NONE /\ b.row[i].mask \in Restricted \union {NONE}
    BY <2>1 DEF Clean, Row
  <2>3. r \in Reqs
    OBVIOUS
  <2>4. row \in Row
    BY <2>2, <2>3 DEF Row
  <2>5. HasRow(row, r, w)
    BY <2>2 DEF HasRow
  <2>6. QED BY <2>4, <2>5
<1> HIDE DEF c, row
<1>5. /\ c.req_ids \in Seq(Reqs \union {NONE}) /\ Len(c.req_ids) \in Nat /\ Len(c.req_ids) <= MaxReqs
      /\ DOMAIN c.req_ids = 1..Len(c.req_ids) /\ Len(c.req_ids) >= L
      /\ DOMAIN c.req_ids = (1..L) \union {i}
      /\ c.req_ids[i] = r /\ \A k \in 1..L : k # i => c.req_ids[k] = b.req_ids[k]
  <2>1. CASE i = L + 1
    <3>1. c.req_ids = Append(b.req_ids, r)
      BY <1>3, <2>1
    <3>2. L + 1 <= MaxReqs
      BY <1>2, <2>1, BatchAssumption DEF Rows
    <3>3. QED BY <1>1, <2>1, <3>1, <3>2, SMTT(30)
  <2>2. CASE i # L + 1
    <3>1. c.req_ids = [b.req_ids EXCEPT ![i] = r] /\ i \in 1..L
      BY <1>1, <1>2, <1>3, <2>2
    <3>2. c.req_ids \in [1..L -> Reqs \union {NONE}]
      BY <1>1, <3>1
    <3>3. c.req_ids \in Seq(Reqs \union {NONE}) /\ Len(c.req_ids) = L /\ DOMAIN c.req_ids = 1..L
      BY <1>1, <3>2, FunctionSeq
    <3>4. QED BY <1>1, <3>1, <3>3
  <2>3. QED BY <2>1, <2>2
<1>6. Members(c) = Members(b) \union {r} /\ Members(c) \subseteq Reqs
  BY <1>1, <1>3 DEF Members
<1>7. c.index[r] = i /\ \A q \in Members(b) : c.index[q] = b.index[q]
  BY <1>3
<1>8. c.index \in [Members(c) -> DOMAIN c.req_ids]
  BY <1>1, <1>3, <1>5, <1>6, <1>7
<1>9. c.row \in [Rows -> Row] /\ c.row[i] = row /\ \A k \in Rows : k # i => c.row[k] = b.row[k]
  BY <1>1, <1>2, <1>3, <1>4
<1>10. \A q \in Members(b) : b.index[q] \in 1..L /\ b.index[q] \in Rows /\ b.index[q] # i
  <2>1. SUFFICES ASSUME NEW q \in Members(b)
                 PROVE  b.index[q] \in 1..L /\ b.index[q] \in Rows /\ b.index[q] # i
    OBVIOUS
  <2>2. b.index[q] \in 1..L /\ b.index[q] \in Rows /\ b.req_ids[b.index[q]] = q /\ q # NONE
    BY <1>1, BatchAssumption
  <2>3. QED BY <1>1, <1>2, <2>2 DEF Vacant
<1>11. \A q \in Members(c) : c.req_ids[c.index[q]] = q /\ HasRow(c.row[c.index[q]], q, w)
  <2>1. ASSUME NEW q \in Members(b)
        PROVE  c.req_ids[c.index[q]] = q /\ HasRow(c.row[c.index[q]], q, w)
    BY <1>1, <1>5, <1>7, <1>9, <1>10, SMTT(30)
  <2>2. c.req_ids[c.index[r]] = r /\ HasRow(c.row[c.index[r]], r, w)
    BY <1>4, <1>5, <1>7, <1>9
  <2>3. QED BY <1>6, <2>1, <2>2
<1>12. \A k \in DOMAIN c.req_ids \ Holes(c) : c.req_ids[k] \in Members(c) /\ c.index[c.req_ids[k]] = k
  <2>1. SUFFICES ASSUME NEW k \in DOMAIN c.req_ids, c.req_ids[k] # NONE
                 PROVE  c.req_ids[k] \in Members(c) /\ c.index[c.req_ids[k]] = k
    BY DEF Holes
  <2>2. CASE k = i
    BY <1>5, <1>6, <1>7, <2>2
  <2>3. CASE k # i
    <3>1. k \in 1..L /\ c.req_ids[k] = b.req_ids[k]
      BY <1>5, <2>3
    <3>2. k \in DOMAIN b.req_ids \ Holes(b)
      BY <1>1, <2>1, <3>1 DEF Holes
    <3>3. b.req_ids[k] \in Members(b) /\ b.index[b.req_ids[k]] = k
      BY <1>1, <3>2
    <3>4. QED BY <1>6, <1>7, <3>1, <3>3
  <2>4. QED BY <2>2, <2>3
<1>13. \A k \in Rows : Vacant(c, k) => Clean(c.row[k])
  <2>1. SUFFICES ASSUME NEW k \in Rows, Vacant(c, k) PROVE Clean(c.row[k])
    OBVIOUS
  <2>2. k # i
    BY <1>5, <2>1, BatchAssumption DEF Vacant
  <2>3. Vacant(b, k)
    BY <1>1, <1>5, <2>1, <2>2, SMTT(30) DEF Vacant
  <2>4. QED BY <1>1, <1>9, <2>2, <2>3
<1>14. Table(c, w)
  <2>1. c.cache \in Seq(Reqs)
    BY <1>3
  <2>2. QED BY <1>3, <1>5, <1>6, <1>8, <1>9, <1>11, <1>12, <1>13, <2>1 DEF Table
<1>15. AddRequest(b, req) = c
  BY DEF AddRequest, c, i
<1>16. QED BY <1>3, <1>6, <1>14, <1>15

(* The loops of the model are folds: what FoldProgress says of each.           *)
AddingFacts == INSTANCE SequenceFacts WITH Step <- AddRequest

(* The batches there are, for the invariants of the loops.                     *)
Batches ==
  [req_ids : Seq(Reqs \union {NONE}), index : UNION {[M -> Rows] : M \in SUBSET Reqs},
   row : [Rows -> Row], cache : Seq(Reqs)]

(* Every batch with a Table is one of them.                                    *)
LEMMA TableBatch ==
  ASSUME NEW b, NEW w, Table(b, w)
  PROVE  b \in Batches
<1>1. Members(b) \in SUBSET Reqs /\ b.index \in [Members(b) -> Rows]
  BY UsedRows DEF Table
<1>2. b.index \in UNION {[M -> Rows] : M \in SUBSET Reqs}
  BY <1>1
<1>3. b = [req_ids |-> b.req_ids, index |-> b.index, row |-> b.row, cache |-> b.cache]
  BY DEF Table, IsBatch
<1>4. b.req_ids \in Seq(Reqs \union {NONE}) /\ b.row \in [Rows -> Row] /\ b.cache \in Seq(Reqs)
  BY DEF Table
<1>5. QED BY <1>2, <1>3, <1>4 DEF Batches

(* The requests of order start where w says.                                   *)
Joins(order, w, s, n, blocks) ==
  \A r \in Range(order) :
    /\ s.comp[r] - n[r] \in Nat /\ w.comp[r] = s.comp[r] - n[r]
    /\ s.outs[r] \in Nat /\ w.tokens[r] = PromptLen[r] + s.outs[r]
    /\ w.prompt[r] = IF w.comp[r] = 0 THEN w.tokens[r] ELSE PromptLen[r]
    /\ blocks[r] \in [of : Reqs \union {NONE}, epoch : Nat, len : Nat]
    /\ w.blocks[r] = blocks[r]

(* The requests that join a step each get a row of their own.                  *)
LEMMA AllAdded ==
  ASSUME NEW b, NEW w, Table(b, w), NEW order \in Seq(Reqs), IsInjective(order),
         Range(order) \cap Members(b) = {},
         Cardinality(Members(b) \union Range(order)) <= MaxReqs,
         NEW s, NEW n, NEW blocks, Joins(order, w, s, n, blocks)
  PROVE  LET c == AddRequests(b, order, s, n, blocks)
         IN  /\ Table(c, w) /\ Members(c) = Members(b) \union Range(order)
             /\ IF order = <<>> THEN c = b ELSE c.cache = <<>>
<1> DEFINE req(r) == [id |-> r, comp |-> s.comp[r] - n[r], prompt |-> PromptLen[r],
                      outs |-> s.outs[r], blocks |-> blocks[r]]
           reqs == [i \in DOMAIN order |-> req(order[i])]
           Upto(i) == {order[k] : k \in 1..i}
           J == [i \in 0..Len(order) |->
                   {x \in Batches : /\ Table(x, w) /\ Members(x) = Members(b) \union Upto(i)
                                    /\ IF i = 0 THEN x = b ELSE x.cache = <<>>}]
<1>1. /\ Len(order) \in Nat /\ DOMAIN order = 1..Len(order)
      /\ \A i \in 1..Len(order) : order[i] \in Reqs /\ order[i] \in Range(order)
      /\ \A i, k \in 1..Len(order) : order[i] = order[k] => i = k
      /\ Range(order) \subseteq Reqs /\ Range(order) = Upto(Len(order))
  <2>1. Len(order) \in Nat /\ DOMAIN order = 1..Len(order)
    OBVIOUS
  <2>2. \A i \in 1..Len(order) : order[i] \in Reqs /\ order[i] \in Range(order)
    BY <2>1 DEF Range
  <2>3. \A i, k \in 1..Len(order) : order[i] = order[k] => i = k
    BY <2>1 DEF IsInjective
  <2>4. Range(order) \subseteq Reqs /\ Range(order) = Upto(Len(order))
    BY <2>1, <2>2 DEF Range
  <2>5. QED BY <2>1, <2>2, <2>3, <2>4
<1>2. Len(reqs) = Len(order)
  <2>1. reqs \in Seq(Range(reqs)) /\ DOMAIN reqs = 1..Len(order)
    BY <1>1 DEF Range
  <2>2. QED BY <1>1, <2>1
<1>3. b \in J[0]
  <2>1. Upto(0) = {}
    OBVIOUS
  <2>2. 0 \in 0..Len(order)
    BY <1>1
  <2> HIDE DEF Upto
  <2>3. QED BY <2>1, <2>2, TableBatch
<1>4. ASSUME NEW i \in 1..Len(order), NEW x \in J[i - 1]
      PROVE  AddRequest(x, reqs[i]) \in J[i]
  <2> DEFINE r == order[i]
  <2>1. i - 1 \in 0..Len(order) /\ i \in 0..Len(order)
    BY <1>1
  <2>2. Table(x, w) /\ Members(x) = Members(b) \union Upto(i - 1)
    <3> HIDE DEF Upto
    <3>1. QED BY <2>1
  <2>3. r \in Range(order) /\ r \in Reqs /\ r \notin Members(b) /\ r \notin Upto(i - 1)
    BY <1>1
  <2>4. Upto(i) = Upto(i - 1) \union {r}
    <3>1. 1..i = 1..(i - 1) \union {i}
      OBVIOUS
    <3>2. QED BY <3>1
  <2>5. Upto(i - 1) \subseteq Range(order)
    BY <1>1
  <2>6. NumReqs(x) < MaxReqs
    <3> DEFINE A == Members(b) \union Range(order)
    <3>1. Members(b) \subseteq Reqs /\ IsFiniteSet(Reqs)
      BY BatchAssumption DEF Table
    <3>2. A \in SUBSET Reqs
      BY <1>1, <3>1
    <3>3. IsFiniteSet(A) /\ Members(x) \in SUBSET A /\ Members(x) # A
      <4>1. IsFiniteSet(A)
        BY <3>1, <3>2, FS_Subset
      <4>2. Members(x) \in SUBSET A
        BY <2>2, <2>5
      <4>3. r \in A /\ r \notin Members(x)
        BY <2>2, <2>3
      <4>4. QED BY <4>1, <4>2, <4>3
    <3> HIDE DEF A
    <3>4. /\ Cardinality(A) \in Nat /\ IsFiniteSet(Members(x)) /\ Cardinality(Members(x)) \in Nat
          /\ Cardinality(Members(x)) <= Cardinality(A) /\ Cardinality(Members(x)) # Cardinality(A)
      BY <3>3, FS_Subset, FS_CardinalityType
    <3>5. Cardinality(A) <= MaxReqs
      BY DEF A
    <3>6. QED BY <3>4, <3>5, BatchAssumption DEF NumReqs
  <2> DEFINE e == req(r)
  <2>7. /\ e.id = r /\ e.comp = s.comp[r] - n[r] /\ e.prompt = PromptLen[r]
        /\ e.outs = s.outs[r] /\ e.blocks = blocks[r]
    OBVIOUS
  <2>8. reqs[i] = e
    BY <1>1
  <2> HIDE DEF e, r, Upto, req, J, reqs
  <2>9. /\ Table(AddRequest(x, e), w) /\ Members(AddRequest(x, e)) = Members(x) \union {r}
        /\ AddRequest(x, e).cache = <<>>
    <3>1. e.id \in Reqs \ Members(x)
      BY <2>2, <2>3, <2>7
    <3>2. e.comp \in Nat /\ e.outs \in Nat /\ e.comp = w.comp[e.id] /\ e.blocks = w.blocks[e.id]
          /\ e.blocks \in [of : Reqs \union {NONE}, epoch : Nat, len : Nat]
      BY <2>3, <2>7 DEF Joins
    <3>3. e.prompt \in Nat /\ e.prompt + e.outs = w.tokens[e.id]
      BY <2>3, <2>7, PromptAssumption DEF Joins
    <3>4. w.prompt[e.id] = IF e.comp = 0 THEN e.prompt + e.outs ELSE e.prompt
      BY <2>3, <2>7 DEF Joins
    <3>5. QED BY <2>2, <2>6, <2>7, <3>1, <3>2, <3>3, <3>4, Added, SMTT(30)
  <2>10. AddRequest(x, e) \in Batches
    BY <2>9, TableBatch
  <2>11. i # 0
    BY <1>1
  <2>12. QED BY <2>1, <2>2, <2>4, <2>8, <2>9, <2>10, <2>11 DEF J
<1>5. Adding!Fold(b, reqs) \in J[Len(order)]
  <2> HIDE DEF J, reqs
  <2>1. AddingFacts!Fold(b, reqs) \in J[Len(reqs)]
    BY <1>1, <1>2, <1>3, <1>4, AddingFacts!FoldProgress
  <2>2. QED BY <1>2, <2>1 DEF Adding!Fold, AddingFacts!Fold
<1>6. AddRequests(b, order, s, n, blocks) = Adding!Fold(b, reqs)
  BY DEF AddRequests
<1>7. Len(order) \in 0..Len(order)
  BY <1>1
<1>8. order = <<>> <=> Len(order) = 0
  BY <1>1
<1>9. QED
  <2> HIDE DEF Upto, reqs
  <2>1. QED BY <1>1, <1>5, <1>6, <1>7, <1>8

(* condense leaves one row per member and no holes.                            *)
LEMMA Condensed ==
  ASSUME NEW b, NEW w, Table(b, w)
  PROVE  LET c == condense(b, Holes(b))
         IN  /\ Table(c, w) /\ Members(c) = Members(b) /\ Holes(c) = {}
             /\ b.cache = <<>> => c.cache = <<>>
             /\ Holes(b) = {} => c = b
<1> DEFINE E == Holes(b)
           D == 1..Len(b.req_ids)
           U == D \ E
           m == NumReqs(b)
           c == condense(b, E)
           above(j) == Above(U, j)
           below(i) == Below(E, i)
           from(i) == IF i \in E THEN MovedTo(b, E, i) ELSE i
<1>1. /\ Len(b.req_ids) \in Nat /\ DOMAIN b.req_ids = D /\ Len(b.req_ids) <= MaxReqs
      /\ D \subseteq Rows /\ E \in SUBSET D /\ IsFiniteSet(Members(b))
      /\ m = Cardinality(U) /\ m \in Nat
      /\ Members(b) \subseteq Reqs /\ b.index \in [Members(b) -> D]
      /\ b.index \in Bijection(Members(b), U)
      /\ b.row \in [Rows -> Row] /\ IsBatch(b) /\ b.cache \in Seq(Reqs)
      /\ \A q \in Members(b) : b.req_ids[b.index[q]] = q /\ HasRow(b.row[b.index[q]], q, w)
      /\ \A k \in U : b.req_ids[k] \in Members(b) /\ b.index[b.req_ids[k]] = k
      /\ \A k \in Rows : Vacant(b, k) => Clean(b.row[k])
  BY UsedRows DEF Table, Holes
<1> HIDE DEF E
<1>2. CASE E = {}
  <2>1. c = b
    BY <1>2 DEF condense
  <2>2. QED BY <1>2, <2>1 DEF E
<1>3. CASE E # {} /\ m = 0
  <2>1. c = [b EXCEPT !.req_ids = <<>>]
    BY <1>3 DEF condense
  <2>2. IsBatch(c) /\ c.req_ids = <<>> /\ c.index = b.index /\ c.row = b.row /\ c.cache = b.cache
    BY <1>1, <2>1 DEF IsBatch
  <2> HIDE DEF c
  <2>3. Members(b) = {}
    BY <1>1, <1>3, FS_EmptySet DEF NumReqs
  <2>4. U = {}
    <3> HIDE DEF U
    <3>1. QED BY <1>1, <2>3 DEF Bijection, Surjection
  <2>5. Members(c) = {} /\ Holes(c) = {} /\ DOMAIN c.req_ids = {}
    BY <2>2, <2>3 DEF Members, Holes
  <2>6. \A k \in Rows : Clean(c.row[k])
    <3>1. \A k \in Rows : Vacant(b, k)
      BY <1>1, <2>4 DEF Vacant, Holes, E
    <3>2. QED BY <1>1, <2>2, <3>1
  <2>7. c.req_ids \in Seq(Reqs \union {NONE}) /\ Len(c.req_ids) <= MaxReqs
    BY <2>2, BatchAssumption
  <2>8. c.index \in [Members(c) -> DOMAIN c.req_ids]
    BY <1>1, <2>2, <2>3, <2>5
  <2>9. Table(c, w)
    BY <1>1, <2>2, <2>5, <2>6, <2>7, <2>8 DEF Table
  <2>10. QED BY <1>3, <2>2, <2>3, <2>5, <2>9 DEF c, E
<1>4. CASE E # {} /\ m # 0
  <2>1. c = [req_ids |-> [i \in 1..m |-> b.req_ids[from(i)]],
             index   |-> [r \in Members(b) |-> CHOOSE i \in 1..m : b.req_ids[from(i)] = r],
             row     |-> [i \in Rows |->
                            IF i <= m THEN b.row[from(i)]
                            ELSE IF i \in DOMAIN b.req_ids THEN [b.row[i] EXCEPT !.gen = NONE, !.bad = NONE]
                            ELSE b.row[i]],
             cache   |-> <<>>]
    BY <1>4 DEF condense
  <2>2. /\ m <= Len(b.req_ids)
        /\ \A i \in E \cap (1..m) : \E j \in U : j > m /\ above(j) = below(i)
        /\ \A i, j \in U : above(i) = above(j) => i = j
        /\ \A i, j \in E \cap (1..m) : below(i) = below(j) => i = j
    <3>1. E \in SUBSET (1..Len(b.req_ids)) /\ m = Cardinality((1..Len(b.req_ids)) \ E)
      BY <1>1
    <3> DEFINE N == Len(b.req_ids)
               V == (1..N) \ E
    <3> HIDE DEF m, N
    <3>2. m \in Nat /\ N \in Nat /\ E \in SUBSET (1..N) /\ m = Cardinality(V)
      BY <1>1, <3>1 DEF N
    <3>3. /\ m <= N
          /\ \A i \in E \cap (1..m) : \E j \in V : j > m /\ Above(V, j) = Below(E, i)
          /\ \A i, j \in V : Above(V, i) = Above(V, j) => i = j
          /\ \A i, j \in E \cap (1..m) : Below(E, i) = Below(E, j) => i = j
      <4>1. Filled(N, E, V, m)
        BY <3>2 DEF Filled
      <4> HIDE DEF V
      <4>2. QED BY <4>1, Refilled
    <3>4. QED
      <4>1. V = U
        BY DEF N
      <4> HIDE DEF V, U
      <4>2. QED BY <3>3, <4>1 DEF N
  <2>3. ASSUME NEW i \in E \cap (1..m)
        PROVE  from(i) \in U /\ from(i) > m /\ above(from(i)) = below(i)
    <3>1. PICK j \in U : j > m /\ above(j) = below(i)
      BY <2>2
    <3> DEFINE V == DOMAIN b.req_ids \ E
    <3>2. V = U
      BY <1>1
    <3>3. from(i) = CHOOSE k \in V : Above(V, k) = Below(E, i)
      BY Zenon DEF MovedTo, Above, Below
    <3> HIDE DEF V, U, from
    <3>4. j \in V /\ Above(V, j) = Below(E, i)
      BY <3>1, <3>2
    <3>5. from(i) \in V /\ Above(V, from(i)) = Below(E, i)
      BY <3>3, <3>4
    <3>6. from(i) \in U /\ above(from(i)) = below(i)
      BY <3>2, <3>5
    <3> HIDE DEF above, below
    <3>7. from(i) = j
      BY <2>2, <3>1, <3>6
    <3>8. QED BY <3>1, <3>6, <3>7
  <2>4. ASSUME NEW i \in 1..m, i \notin E
        PROVE  from(i) = i /\ i \in U /\ i <= m
    BY <1>1, <2>2, <2>4
  <2>5. \A i \in 1..m : from(i) \in U
    <3> HIDE DEF from, U
    <3>1. QED BY <2>3, <2>4
  <2>6. \A i, j \in 1..m : from(i) = from(j) => i = j
    <3> HIDE DEF from, U, above, below
    <3>1. SUFFICES ASSUME NEW i \in 1..m, NEW j \in 1..m, from(i) = from(j) PROVE i = j
      OBVIOUS
    <3>2. CASE i \in E /\ j \in E
      <4>1. below(i) = below(j)
        BY <2>3, <3>1, <3>2
      <4>2. QED BY <2>2, <3>2, <4>1
    <3>3. CASE i \in E /\ j \notin E
      <4>1. from(i) > m /\ from(j) = j /\ j <= m
        BY <2>3, <2>4, <3>3
      <4>2. QED BY <1>1, <3>1, <4>1
    <3>4. CASE i \notin E /\ j \in E
      <4>1. from(j) > m /\ from(i) = i /\ i <= m
        BY <2>3, <2>4, <3>4
      <4>2. QED BY <1>1, <3>1, <4>1
    <3>5. CASE i \notin E /\ j \notin E
      BY <2>4, <3>1, <3>5
    <3>6. QED BY <3>2, <3>3, <3>4, <3>5
  <2>7. \A j \in U : \E i \in 1..m : from(i) = j
    <3> DEFINE f == [i \in 1..m |-> from(i)]
    <3>1. f \in Injection(1..m, U)
      <4> HIDE DEF from, U, m
      <4>1. QED BY <2>5, <2>6 DEF Injection, IsInjective
    <3>2. IsFiniteSet(U) /\ Cardinality(1..m) = Cardinality(U)
      <4>1. IsFiniteSet(U)
        BY UsedRows DEF E
      <4> HIDE DEF U
      <4>2. QED BY <1>1, <4>1, Counted
    <3>3. f \in Surjection(1..m, U)
      <4> HIDE DEF f, U, m
      <4>1. QED BY <3>1, <3>2, FS_Injection
    <3> HIDE DEF from, U, m
    <3>4. QED BY <3>3 DEF Surjection
  <2>8. /\ IsBatch(c)
        /\ c.req_ids = [i \in 1..m |-> b.req_ids[from(i)]]
        /\ c.index = [r \in Members(b) |-> CHOOSE i \in 1..m : b.req_ids[from(i)] = r]
        /\ c.row = [i \in Rows |->
                      IF i <= m THEN b.row[from(i)]
                      ELSE IF i \in DOMAIN b.req_ids THEN [b.row[i] EXCEPT !.gen = NONE, !.bad = NONE]
                      ELSE b.row[i]]
        /\ c.cache = <<>>
    <3> HIDE DEF from, m, c
    <3>1. QED BY <2>1 DEF IsBatch
  <2> HIDE DEF from, above, below, m, c, U
  <2>24. m \in Nat /\ Len(b.req_ids) \in Nat /\ MaxReqs \in Nat /\ m <= MaxReqs /\ m <= Len(b.req_ids)
    BY <1>1, <2>2, BatchAssumption
  <2>25. \A i \in 1..m : i \in Rows /\ i <= m
    BY <2>24 DEF Rows
  <2>26. U \subseteq D /\ D \subseteq Rows
    BY <1>1 DEF U
  <2>9. \A i \in 1..m : /\ from(i) \in Rows /\ from(i) \in D /\ i \in Rows
                        /\ b.req_ids[from(i)] \in Members(b) /\ b.index[b.req_ids[from(i)]] = from(i)
    BY <1>1, <2>5, <2>25, <2>26
  <2>10. Members(c) = Members(b)
    BY <2>8 DEF Members
  <2>11. ASSUME NEW i \in 1..m PROVE c.index[b.req_ids[from(i)]] = i
    <3> DEFINE r == b.req_ids[from(i)]
    <3>1. c.index[r] = CHOOSE k \in 1..m : b.req_ids[from(k)] = r
      BY <2>8, <2>9
    <3>2. \A k \in 1..m : b.req_ids[from(k)] = r => k = i
      BY <2>6, <2>9
    <3>3. QED BY <3>1, <3>2
  <2>12. ASSUME NEW r \in Members(b)
         PROVE  \E i \in 1..m : b.req_ids[from(i)] = r /\ c.index[r] = i /\ from(i) = b.index[r]
    <3>1. b.index[r] \in U
      BY <1>1 DEF Bijection, Injection
    <3>2. PICK i \in 1..m : from(i) = b.index[r]
      BY <2>7, <3>1
    <3>3. QED BY <1>1, <2>11, <3>2
  <2>13. /\ c.req_ids \in Seq(Reqs \union {NONE}) /\ Len(c.req_ids) = m /\ DOMAIN c.req_ids = 1..m
         /\ m <= MaxReqs
    <3>1. \A i \in 1..m : b.req_ids[from(i)] \in Reqs \union {NONE}
      BY <1>1, <2>9
    <3>2. c.req_ids \in [1..m -> Reqs \union {NONE}]
      BY <2>8, <3>1
    <3>3. QED BY <2>24, <3>2, FunctionSeq
  <2>14. c.index \in [Members(c) -> DOMAIN c.req_ids]
    <3>1. \A r \in Members(b) : c.index[r] \in 1..m
      BY <2>12
    <3>2. DOMAIN c.index = Members(b) /\ c.index = [r \in Members(b) |-> c.index[r]]
      BY <2>8
    <3>3. QED BY <2>10, <2>13, <3>1, <3>2
  <2>15. \A i \in 1..m : c.row[i] = b.row[from(i)] /\ c.req_ids[i] = b.req_ids[from(i)]
    <3>1. SUFFICES ASSUME NEW i \in 1..m
                   PROVE  c.row[i] = b.row[from(i)] /\ c.req_ids[i] = b.req_ids[from(i)]
      OBVIOUS
    <3>2. i \in Rows /\ i <= m
      BY <2>25
    <3>3. c.row[i] = b.row[from(i)]
      BY <2>8, <3>2
    <3>4. c.req_ids[i] = b.req_ids[from(i)]
      BY <2>8
    <3>5. QED BY <3>3, <3>4
  <2>16. ASSUME NEW i \in Rows, i \notin 1..m
         PROVE  c.row[i] \in Row /\ Clean(c.row[i])
    <3>1. ~ (i <= m) /\ b.row[i] \in Row
      <4>1. m \in Nat /\ i \in 1..MaxReqs /\ MaxReqs \in Nat
        BY <1>1, BatchAssumption, SMTT(30) DEF Rows
      <4>2. QED BY <1>1, <2>16, <4>1
    <3>2. CASE i \in DOMAIN b.req_ids
      <4>1. c.row[i] = [b.row[i] EXCEPT !.gen = NONE, !.bad = NONE]
        BY <2>8, <3>1, <3>2
      <4>2. QED BY <3>1, <4>1, CleanedRow
    <3>3. CASE i \notin DOMAIN b.req_ids
      <4>1. c.row[i] = b.row[i]
        BY <2>8, <3>1, <3>3
      <4>2. Vacant(b, i)
        BY <3>3 DEF Vacant
      <4>3. QED BY <1>1, <3>1, <4>1, <4>2
    <3>4. QED BY <3>2, <3>3
  <2>17. c.row \in [Rows -> Row]
    <3>1. \A i \in Rows : c.row[i] \in Row
      BY <1>1, <2>9, <2>15, <2>16
    <3>2. DOMAIN c.row = Rows /\ c.row = [i \in Rows |-> c.row[i]]
      BY <2>8
    <3>3. QED BY <3>1, <3>2
  <2>18. \A r \in Members(c) : c.req_ids[c.index[r]] = r /\ HasRow(c.row[c.index[r]], r, w)
    BY <1>1, <2>10, <2>12, <2>15
  <2>19. \A i \in DOMAIN c.req_ids : c.req_ids[i] \in Members(c) /\ c.index[c.req_ids[i]] = i
    BY <2>9, <2>10, <2>11, <2>13, <2>15
  <2>20. Holes(c) = {}
    <3>1. \A i \in DOMAIN c.req_ids : c.req_ids[i] # NONE
      BY <1>1, <2>10, <2>19, BatchAssumption
    <3>2. QED BY <3>1 DEF Holes
  <2>21. \A i \in Rows : Vacant(c, i) => Clean(c.row[i])
    <3>1. \A i \in Rows : Vacant(c, i) => i \notin 1..m
      BY <1>1, <2>10, <2>13, <2>19, BatchAssumption, SMTT(30) DEF Vacant
    <3>2. QED BY <2>16, <3>1
  <2>22. Table(c, w)
    <3>1. c.cache \in Seq(Reqs)
      <4>1. c.cache = <<>>
        BY <2>8, Zenon
      <4>2. QED BY <4>1
    <3>2. QED BY <1>1, <2>8, <2>10, <2>13, <2>14, <2>17, <2>18, <2>19, <2>21, <3>1 DEF Table
  <2>23. c.cache = <<>>
    BY <2>8, Zenon
  <2>27. QED BY <1>4, <2>10, <2>20, <2>22, <2>23 DEF c, E
<1>5. QED BY <1>2, <1>3, <1>4

(* A step that changes the members of b drops the cache; one that does not     *)
(* only brings the counts up to date.                                          *)
Rebuilt(b, c, s, n) ==
  IF Members(b) = {r \in Reqs : n[r] > 0} THEN Holes(b) = {} => c = UpdateRows(b, s, n)
                                           ELSE c.cache = <<>>

(* The batch part of _update_states: what is not scheduled leaves, what stays  *)
(* is brought up to date and what is scheduled and not in the batch joins it.  *)
LEMMA StepUpdated ==
  ASSUME NEW b, NEW w, Table(b, w), NEW s, NEW n \in [Reqs -> Nat], NEW blocks, NEW v,
         NEW order \in SetToSeqs({r \in Reqs : n[r] > 0} \ Members(b)),
         Cardinality({r \in Reqs : n[r] > 0}) <= MaxReqs,
         Continues({r \in Members(b) : n[r] > 0}, w, v, s, n),
         Joins(order, v, s, n, blocks)
  PROVE  LET c == UpdatedBatch(b, s, n, order, blocks)
         IN  /\ Table(c, v) /\ Members(c) = {r \in Reqs : n[r] > 0} /\ Holes(c) = {}
             /\ Rebuilt(b, c, s, n)
<1> DEFINE wanted  == {r \in Reqs : n[r] > 0}
           adding  == wanted \ Members(b)
           leaving == {r \in Members(b) : n[r] = 0}
           kept    == remove_requests(b, leaving)
           moved   == UpdateRows(kept, s, n)
           added   == AddRequests(moved, order, s, n, blocks)
<1>1. Members(b) \subseteq Reqs /\ \A r \in Reqs : n[r] \in Nat
  BY DEF Table
<1>2. /\ order \in Seq(adding) /\ Range(order) = adding /\ IsInjective(order)
      /\ order \in Seq(Reqs)
  <2>1. adding \in SUBSET Reqs
    OBVIOUS
  <2>2. order \in SetToSeqs(adding)
    OBVIOUS
  <2> HIDE DEF adding
  <2>3. IsFiniteSet(adding)
    BY <2>1, FS_Subset, BatchAssumption
  <2>4. QED BY <2>1, <2>2, <2>3, Listings
<1>3. Table(kept, w) /\ Members(kept) = Members(b) \ leaving
  <2>1. leaving \in SUBSET Members(b)
    OBVIOUS
  <2> HIDE DEF leaving
  <2>2. QED BY <2>1, Removed
<1>4. Members(b) \ leaving = {r \in Members(b) : n[r] > 0}
  BY <1>1
<1> HIDE DEF kept, moved, added
<1>5. Table(moved, v) /\ Members(moved) = Members(kept)
  <2>1. Continues(Members(kept), w, v, s, n)
    BY <1>3, <1>4
  <2>2. Table(kept, w)
    BY <1>3
  <2> HIDE DEF wanted, adding, leaving
  <2>3. LET c == UpdateRows(kept, s, n) IN Table(c, v) /\ Members(c) = Members(kept)
    BY <2>1, <2>2, RowsUpdated
  <2>4. QED BY <2>3 DEF moved
<1>6. Members(moved) \union Range(order) = wanted /\ Range(order) \cap Members(moved) = {}
  BY <1>1, <1>2, <1>3, <1>4, <1>5
<1>7. /\ Table(added, v) /\ Members(added) = wanted
      /\ IF order = <<>> THEN added = moved ELSE added.cache = <<>>
  <2>1. Cardinality(Members(moved) \union Range(order)) <= MaxReqs
    BY <1>6
  <2> HIDE DEF wanted, adding, leaving
  <2>2. LET c == AddRequests(moved, order, s, n, blocks)
        IN  /\ Table(c, v) /\ Members(c) = Members(moved) \union Range(order)
            /\ IF order = <<>> THEN c = moved ELSE c.cache = <<>>
    BY <1>2, <1>5, <1>6, <2>1, AllAdded
  <2>3. QED BY <1>6, <2>2 DEF added
<1> DEFINE c == UpdatedBatch(b, s, n, order, blocks)
<1>8. c = condense(added, Holes(added))
  BY DEF UpdatedBatch, added, moved, kept
<1> HIDE DEF c
<1>9. Table(c, v) /\ Members(c) = wanted /\ Holes(c) = {}
  BY <1>7, <1>8, Condensed
<1>10. Members(b) = wanted <=> leaving = {} /\ order = <<>>
  <2>1. adding = {} <=> order = <<>>
    <3> HIDE DEF adding
    <3>1. QED BY <1>2, InjectiveCard
  <2>2. QED BY <1>1, <2>1
<1>11. CASE Members(b) = wanted
  <2>1. leaving = {} /\ order = <<>>
    BY <1>10, <1>11
  <2> HIDE DEF wanted, adding, leaving
  <2>2. kept = b
    BY <2>1 DEF kept, remove_requests
  <2>3. added = moved
    BY <1>7, <2>1
  <2>4. ASSUME Holes(b) = {} PROVE c = moved
    <3>1. Holes(moved) = {}
      BY <2>2, <2>4 DEF moved, UpdateRows, Holes
    <3>2. QED BY <1>7, <1>8, <2>3, <3>1, Condensed
  <2>5. QED BY <1>9, <1>11, <2>2, <2>4 DEF c, moved, wanted, Rebuilt
<1>12. CASE Members(b) # wanted
  <2>1. order # <<>> \/ kept.cache = <<>>
    <3>1. leaving # {} => kept.cache = <<>>
      BY DEF kept, remove_requests
    <3>2. QED BY <1>10, <1>12, <3>1
  <2> HIDE DEF wanted, adding, leaving
  <2>2. moved.cache = kept.cache
    BY <1>3 DEF moved, UpdateRows, Table, IsBatch
  <2>3. added.cache = <<>>
    BY <1>7, <2>1, <2>2
  <2>4. c.cache = <<>>
    BY <1>7, <1>8, <2>3, Condensed
  <2>5. QED BY <1>9, <1>12, <2>4 DEF c, wanted, Rebuilt
<1>13. QED BY <1>11, <1>12

(* The loops that swap rows.                                                   *)
SwappingFacts == INSTANCE SequenceFacts WITH Step <- SwapMisplaced
MovingUpFacts == INSTANCE SequenceFacts WITH Step <- MoveUp

(* A batch without holes, as it is between two engine calls.                   *)
LEMMA FullRows ==
  ASSUME NEW b, NEW w, Table(b, w), Holes(b) = {}
  PROVE  /\ b.req_ids \in Seq(Reqs) /\ Len(b.req_ids) \in Nat /\ Len(b.req_ids) <= MaxReqs
         /\ DOMAIN b.req_ids = 1..Len(b.req_ids) /\ DOMAIN b.req_ids \subseteq Rows
         /\ \A i \in DOMAIN b.req_ids :
              /\ b.req_ids[i] \in Members(b) /\ b.req_ids[i] \in Reqs /\ b.index[b.req_ids[i]] = i
              /\ b.row[i].own = b.req_ids[i]
         /\ Range(b.req_ids) = Members(b) /\ NumReqs(b) = Len(b.req_ids)
<1>1. /\ Len(b.req_ids) \in Nat /\ Len(b.req_ids) <= MaxReqs
      /\ DOMAIN b.req_ids = 1..Len(b.req_ids) /\ DOMAIN b.req_ids \subseteq Rows
  BY UsedRows DEF Table
<1>2. \A i \in DOMAIN b.req_ids :
        b.req_ids[i] \in Members(b) /\ b.req_ids[i] \in Reqs /\ b.index[b.req_ids[i]] = i
  BY DEF Table
<1>3. \A i \in DOMAIN b.req_ids : b.row[i].own = b.req_ids[i]
  BY <1>2 DEF Table, HasRow
<1>4. b.req_ids \in Seq(Reqs)
  <2>1. b.req_ids \in Seq(Reqs \union {NONE})
    BY DEF Table
  <2>2. b.req_ids \in [1..Len(b.req_ids) -> Reqs]
    BY <1>1, <1>2, <2>1
  <2>3. QED BY <1>1, <2>2
<1>5. Range(b.req_ids) = Members(b)
  <2>1. Range(b.req_ids) \subseteq Members(b)
    BY <1>2 DEF Range
  <2>2. \A r \in Members(b) : b.index[r] \in DOMAIN b.req_ids /\ b.req_ids[b.index[r]] = r
    BY DEF Table
  <2>3. Members(b) \subseteq Range(b.req_ids)
    BY <2>2 DEF Range
  <2>4. QED BY <2>1, <2>3
<1>6. NumReqs(b) = Len(b.req_ids)
  <2>1. DOMAIN b.req_ids \ Holes(b) = 1..Len(b.req_ids)
    BY <1>1
  <2>2. NumReqs(b) = Cardinality(1..Len(b.req_ids))
    BY <2>1, UsedRows
  <2>3. QED BY <1>1, <2>2, Counted
<1>7. QED BY <1>1, <1>2, <1>3, <1>4, <1>5, <1>6

(* swap_states exchanges two rows, all but their masks.                        *)
LEMMA Swapped ==
  ASSUME NEW b, NEW w, Table(b, w), Holes(b) = {},
         NEW i \in DOMAIN b.req_ids, NEW j \in DOMAIN b.req_ids, i # j
  PROVE  LET c == swap_states(b, i, j)
         IN  /\ Table(c, w) /\ Holes(c) = {} /\ Members(c) = Members(b)
             /\ DOMAIN c.req_ids = DOMAIN b.req_ids
             /\ c.req_ids[i] = b.req_ids[j] /\ c.req_ids[j] = b.req_ids[i]
             /\ c.row[i].comp = b.row[j].comp /\ c.row[i].prompt = b.row[j].prompt
             /\ c.row[j].comp = b.row[i].comp /\ c.row[j].prompt = b.row[i].prompt
             /\ \A k \in DOMAIN b.req_ids \ {i, j} :
                  c.req_ids[k] = b.req_ids[k] /\ c.row[k] = b.row[k]
             /\ c.cache = b.cache
<1> DEFINE c == swap_states(b, i, j)
           L == Len(b.req_ids)
           q == b.req_ids[i]
           r == b.req_ids[j]
           rowj == [b.row[i] EXCEPT !.mask = b.row[j].mask]
<1>1. /\ L \in Nat /\ L <= MaxReqs /\ DOMAIN b.req_ids = 1..L /\ DOMAIN b.req_ids \subseteq Rows
      /\ b.req_ids \in Seq(Reqs)
      /\ \A k \in 1..L : b.req_ids[k] \in Members(b) /\ b.req_ids[k] \in Reqs /\ b.index[b.req_ids[k]] = k
  BY FullRows
<1>2. /\ Members(b) \subseteq Reqs /\ b.index \in [Members(b) -> 1..L]
      /\ b.row \in [Rows -> Row] /\ IsBatch(b) /\ b.cache \in Seq(Reqs)
      /\ \A p \in Members(b) : b.req_ids[b.index[p]] = p /\ HasRow(b.row[b.index[p]], p, w)
      /\ \A k \in Rows : Vacant(b, k) => Clean(b.row[k])
  BY <1>1 DEF Table
<1>3. /\ i \in 1..L /\ j \in 1..L /\ i \in Rows /\ j \in Rows
      /\ q \in Members(b) /\ r \in Members(b) /\ q # r
      /\ b.index[q] = i /\ b.index[r] = j
  BY <1>1
<1>4. /\ IsBatch(c)
      /\ c.req_ids = [b.req_ids EXCEPT ![i] = r, ![j] = q]
      /\ c.index = [b.index EXCEPT ![q] = j, ![r] = i]
      /\ c.row = [b.row EXCEPT ![i] = b.row[j], ![j] = rowj]
      /\ c.cache = b.cache
  <2> DEFINE ids == [b.req_ids EXCEPT ![i] = r, ![j] = q]
             ind == [b.index EXCEPT ![q] = j, ![r] = i]
             row == [b.row EXCEPT ![i] = b.row[j], ![j] = rowj]
  <2>1. c = [b EXCEPT !.req_ids = ids, !.index = ind, !.row = row]
    BY DEF swap_states
  <2> HIDE DEF ids, ind, row, c
  <2>2. IsBatch(c) /\ c.req_ids = ids /\ c.index = ind /\ c.row = row /\ c.cache = b.cache
    BY <1>2, <2>1 DEF IsBatch
  <2>3. QED BY <2>2 DEF ids, ind, row
<1>5. /\ rowj \in Row /\ rowj.own = b.row[i].own /\ rowj.comp = b.row[i].comp
      /\ rowj.prompt = b.row[i].prompt
      /\ rowj.tokens = b.row[i].tokens /\ rowj.blocks = b.row[i].blocks
      /\ rowj.gen = b.row[i].gen /\ rowj.bad = b.row[i].bad
  <2>1. b.row[i] \in Row /\ b.row[j].mask \in Restricted \union {NONE}
    <3>1. b.row[i] \in Row /\ b.row[j] \in Row
      BY <1>2, <1>3
    <3>2. QED BY <3>1 DEF Row
  <2>2. QED BY <2>1 DEF Row
<1> HIDE DEF c, rowj, q, r
<1>6. /\ c.req_ids \in Seq(Reqs) /\ Len(c.req_ids) = L /\ DOMAIN c.req_ids = 1..L
      /\ c.req_ids[i] = r /\ c.req_ids[j] = q
      /\ \A k \in (1..L) \ {i, j} : c.req_ids[k] = b.req_ids[k]
  <2>1. q \in Reqs /\ r \in Reqs
    BY <1>2, <1>3
  <2>2. b.req_ids \in [1..L -> Reqs]
    BY <1>1
  <2>3. c.req_ids \in [1..L -> Reqs]
    BY <1>3, <1>4, <2>1, <2>2, SMTT(30)
  <2>4. c.req_ids \in Seq(Reqs) /\ Len(c.req_ids) = L /\ DOMAIN c.req_ids = 1..L
    BY <1>1, <2>3, FunctionSeq
  <2>5. c.req_ids[i] = r /\ c.req_ids[j] = q
        /\ \A k \in (1..L) \ {i, j} : c.req_ids[k] = b.req_ids[k]
    BY <1>3, <1>4, <2>2
  <2>6. QED BY <2>4, <2>5
<1>7. /\ c.row \in [Rows -> Row] /\ c.row[i] = b.row[j] /\ c.row[j] = rowj
      /\ \A k \in Rows \ {i, j} : c.row[k] = b.row[k]
  <2>1. b.row \in [Rows -> Row] /\ b.row[j] \in Row
    BY <1>2, <1>3
  <2>2. QED BY <1>3, <1>4, <1>5, <2>1
<1>8. /\ Members(c) = Members(b) /\ c.index \in [Members(c) -> 1..L]
      /\ c.index[q] = j /\ c.index[r] = i
      /\ \A p \in Members(b) \ {q, r} : c.index[p] = b.index[p]
  <2>1. b.index \in [Members(b) -> 1..L]
    BY <1>2
  <2>2. c.index \in [Members(b) -> 1..L]
    BY <1>3, <1>4, <2>1
  <2>3. Members(c) = Members(b)
    BY <2>2 DEF Members
  <2>4. c.index[q] = j /\ c.index[r] = i /\ \A p \in Members(b) \ {q, r} : c.index[p] = b.index[p]
    BY <1>3, <1>4, <2>1
  <2>5. QED BY <2>2, <2>3, <2>4
<1>9. Holes(c) = {}
  <2>1. \A k \in 1..L : c.req_ids[k] \in Reqs
    BY <1>6
  <2>2. QED BY <1>6, <2>1, BatchAssumption DEF Holes
<1>10. ASSUME NEW p \in Members(c)
       PROVE  c.req_ids[c.index[p]] = p /\ HasRow(c.row[c.index[p]], p, w)
  <2>1. CASE p = q
    <3>1. b.req_ids[i] = p /\ HasRow(b.row[i], p, w)
      BY <1>2, <1>3, <2>1
    <3>2. c.index[p] = j /\ c.req_ids[j] = p /\ c.row[j] = rowj
      BY <1>6, <1>7, <1>8, <2>1
    <3>3. HasRow(rowj, p, w)
      BY <1>5, <3>1 DEF HasRow
    <3>4. QED BY <3>2, <3>3
  <2>2. CASE p = r
    <3>1. HasRow(b.row[j], p, w)
      BY <1>2, <1>3, <2>2
    <3>2. c.index[p] = i /\ c.req_ids[i] = p /\ c.row[i] = b.row[j]
      BY <1>6, <1>7, <1>8, <2>2
    <3>3. QED BY <3>1, <3>2
  <2>3. CASE p # q /\ p # r
    <3>1. p \in Members(b) /\ c.index[p] = b.index[p]
      BY <1>8, <2>3
    <3>2. b.index[p] \in 1..L /\ b.index[p] # i /\ b.index[p] # j /\ b.index[p] \in Rows
      <4>1. b.req_ids[b.index[p]] = p /\ b.index[p] \in 1..L
        BY <1>2, <3>1
      <4>2. QED BY <1>1, <2>3, <4>1 DEF q, r
    <3>3. QED BY <1>2, <1>6, <1>7, <3>1, <3>2
  <2>4. QED BY <2>1, <2>2, <2>3
<1>11. \A k \in 1..L : c.req_ids[k] \in Members(c) /\ c.index[c.req_ids[k]] = k
  <2>1. SUFFICES ASSUME NEW k \in 1..L PROVE c.req_ids[k] \in Members(c) /\ c.index[c.req_ids[k]] = k
    OBVIOUS
  <2>2. CASE k = i \/ k = j
    BY <1>3, <1>6, <1>8, <2>2
  <2>3. CASE k # i /\ k # j
    <3>1. c.req_ids[k] = b.req_ids[k] /\ b.req_ids[k] \in Members(b) /\ b.index[b.req_ids[k]] = k
      BY <1>1, <1>6, <2>3
    <3>2. b.req_ids[k] # q /\ b.req_ids[k] # r
      BY <1>3, <2>3, <3>1
    <3>3. QED BY <1>8, <3>1, <3>2
  <2>4. QED BY <2>2, <2>3
<1>12. \A k \in Rows : Vacant(c, k) => Clean(c.row[k])
  <2>1. SUFFICES ASSUME NEW k \in Rows, Vacant(c, k) PROVE Clean(c.row[k])
    OBVIOUS
  <2>2. k \notin 1..L
    BY <1>6, <1>9, <2>1 DEF Vacant, Holes
  <2>3. Vacant(b, k) /\ k # i /\ k # j
    BY <1>1, <1>3, <2>2 DEF Vacant
  <2>4. QED BY <1>2, <1>7, <2>3
<1>13. Table(c, w)
  <2>1. c.req_ids \in Seq(Reqs \union {NONE})
    BY <1>6
  <2>2. DOMAIN c.req_ids \ Holes(c) = 1..L
    BY <1>6, <1>9
  <2>3. QED BY <1>1, <1>2, <1>4, <1>6, <1>7, <1>8, <1>10, <1>11, <1>12, <2>1, <2>2 DEF Table
<1>14. /\ c.row[i].comp = b.row[j].comp /\ c.row[i].prompt = b.row[j].prompt
       /\ c.row[j].comp = b.row[i].comp /\ c.row[j].prompt = b.row[i].prompt
       /\ \A k \in (1..L) \ {i, j} : c.req_ids[k] = b.req_ids[k] /\ c.row[k] = b.row[k]
  BY <1>1, <1>5, <1>6, <1>7
<1>15. QED BY <1>1, <1>4, <1>6, <1>8, <1>9, <1>13, <1>14 DEF c, q, r

(* Decodes before prompts.                                                     *)
DecodesFirst(b, n) ==
  \A i \in PromptRows(b, n), j \in DecodeRows(b, n) : j < i

(* One swap keeps the table, and if the first k rows are decodes, the first    *)
(* k + 1 are afterwards.                                                       *)
LEMMA SwappedMisplaced ==
  ASSUME NEW b, NEW w, Table(b, w), Holes(b) = {}, NEW n
  PROVE  LET c == SwapMisplaced(b, n)
         IN  /\ Table(c, w) /\ Holes(c) = {} /\ Members(c) = Members(b)
             /\ DOMAIN c.req_ids = DOMAIN b.req_ids /\ c.cache = b.cache
             /\ DecodesFirst(b, n) => c = b
             /\ ~DecodesFirst(b, n) =>
                  \A k \in Nat : (\A i \in DOMAIN b.req_ids : i <= k => ~IsPrompt(b, n, i))
                     => (\A i \in DOMAIN c.req_ids : i <= k + 1 => ~IsPrompt(c, n, i))
<1> DEFINE P == PromptRows(b, n)
           D == DecodeRows(b, n)
           c == SwapMisplaced(b, n)
<1>1. /\ Len(b.req_ids) \in Nat /\ DOMAIN b.req_ids = 1..Len(b.req_ids)
      /\ P \in SUBSET Nat /\ D \in SUBSET (0..Len(b.req_ids))
      /\ P \subseteq DOMAIN b.req_ids /\ D = DOMAIN b.req_ids \ P
  BY FullRows DEF PromptRows, DecodeRows
<1> HIDE DEF P, D
<1>2. CASE P = {} \/ D = {}
  <2>1. c = b
    BY <1>2 DEF SwapMisplaced, P, D
  <2>2. DecodesFirst(b, n)
    BY <1>2 DEF DecodesFirst, P, D
  <2>3. QED BY <2>1, <2>2
<1>3. CASE P # {} /\ D # {}
  <2> DEFINE i == Min(P)
             j == Max(D)
  <2>1. /\ i \in P /\ \A k \in P : i <= k
        /\ j \in D /\ \A k \in D : j >= k
    BY <1>1, <1>3, MinIs, MaxIs
  <2> HIDE DEF i, j
  <2>2. i \in DOMAIN b.req_ids /\ j \in DOMAIN b.req_ids /\ i # j /\ i \in Nat /\ j \in Nat
    <3>1. i \in DOMAIN b.req_ids /\ j \in DOMAIN b.req_ids /\ j \notin P
      BY <1>1, <2>1
    <3>2. \A k \in DOMAIN b.req_ids : k \in Nat
      BY <1>1
    <3>3. QED BY <2>1, <3>1, <3>2
  <2>3. CASE i > j
    <3>1. c = b
      BY <1>3, <2>3 DEF SwapMisplaced, P, D, i, j
    <3>2. DecodesFirst(b, n)
      <4>1. SUFFICES ASSUME NEW x \in P, NEW y \in D PROVE y < x
        BY DEF DecodesFirst, P, D
      <4>2. i <= x /\ j >= y /\ x \in Nat /\ y \in Nat
        BY <1>1, <2>1
      <4>3. QED BY <2>2, <2>3, <4>2
    <3>3. QED BY <3>1, <3>2
  <2>4. CASE ~ (i > j)
    <3>1. c = swap_states(b, i, j)
      BY <1>3, <2>4 DEF SwapMisplaced, P, D, i, j
    <3>2. ~DecodesFirst(b, n)
      BY <2>1, <2>4 DEF DecodesFirst, P, D
    <3> HIDE DEF c
    <3>3. /\ Table(c, w) /\ Holes(c) = {} /\ Members(c) = Members(b)
          /\ DOMAIN c.req_ids = DOMAIN b.req_ids /\ c.cache = b.cache
          /\ c.req_ids[i] = b.req_ids[j] /\ c.row[i].comp = b.row[j].comp /\ c.row[i].prompt = b.row[j].prompt
          /\ \A k \in DOMAIN b.req_ids \ {i, j} : c.req_ids[k] = b.req_ids[k] /\ c.row[k] = b.row[k]
      BY <2>2, <3>1, Swapped
    <3>4. ASSUME NEW k \in Nat, \A x \in DOMAIN b.req_ids : x <= k => ~IsPrompt(b, n, x),
                 NEW x \in DOMAIN c.req_ids, x <= k + 1
          PROVE  ~IsPrompt(c, n, x)
      <4>1. IsPrompt(b, n, i) /\ ~IsPrompt(b, n, j)
        BY <1>1, <2>1, <2>2 DEF P, D, PromptRows
      <4>2. ~ (i <= k) /\ x <= i /\ x # j /\ x \in Nat
        BY <1>1, <2>2, <2>4, <3>3, <3>4, <4>1
      <4>3. CASE x = i
        BY <3>3, <4>1, <4>3 DEF IsPrompt
      <4>4. CASE x # i
        <5>1. x \notin P
          BY <2>1, <2>2, <4>2, <4>4
        <5>2. ~IsPrompt(b, n, x)
          BY <3>3, <5>1 DEF P, PromptRows
        <5>3. QED BY <3>3, <4>2, <4>4, <5>2 DEF IsPrompt
      <4>5. QED BY <4>3, <4>4
    <3>5. QED BY <3>2, <3>3, <3>4 DEF c
  <2>5. QED BY <2>3, <2>4
<1>4. QED BY <1>2, <1>3

(* _ensure_decodes_first terminates with the decodes in front: each swap moves *)
(* the first prompt at least one row on.                                       *)
LEMMA Sorted ==
  ASSUME NEW b, NEW w, Table(b, w), Holes(b) = {}, NEW n
  PROVE  LET c == EnsureDecodesFirst(b, n)
         IN  /\ Table(c, w) /\ Holes(c) = {} /\ Members(c) = Members(b)
             /\ DOMAIN c.req_ids = DOMAIN b.req_ids /\ DecodesFirst(c, n)
             /\ c.cache = b.cache /\ (DecodesFirst(b, n) => c = b)
<1> DEFINE L == Len(b.req_ids)
           turns == [k \in DOMAIN b.req_ids |-> n]
           Clear(x, k) == \A i \in DOMAIN x.req_ids : i <= k => ~IsPrompt(x, n, i)
           Good(x, k) == /\ Table(x, w) /\ Holes(x) = {} /\ Members(x) = Members(b)
                         /\ DOMAIN x.req_ids = DOMAIN b.req_ids /\ x.cache = b.cache
                         /\ DecodesFirst(b, n) => x = b
                         /\ DecodesFirst(x, n) \/ Clear(x, k)
           J == [k \in 0..L |-> {x \in Batches : Good(x, k)}]
<1>1. L \in Nat /\ DOMAIN b.req_ids = 1..L
  BY FullRows
<1>2. Len(turns) = L /\ \A k \in 1..L : turns[k] = n
  <2>1. turns \in [1..L -> {n}]
    BY <1>1
  <2> HIDE DEF turns
  <2>2. Len(turns) = L
    BY <1>1, <2>1, FunctionSeq
  <2>3. QED BY <2>1, <2>2
<1>3. b \in J[0]
  <2>1. Clear(b, 0)
    BY <1>1
  <2>2. Good(b, 0) /\ b \in Batches
    BY <2>1, TableBatch
  <2>3. 0 \in 0..L
    BY <1>1
  <2> HIDE DEF Good
  <2>4. QED BY <2>2, <2>3
<1>4. ASSUME NEW k \in 1..L, NEW x \in J[k - 1]
      PROVE  SwapMisplaced(x, turns[k]) \in J[k]
  <2> DEFINE c == SwapMisplaced(x, n)
  <2>1. k - 1 \in 0..L /\ k \in 0..L /\ k - 1 \in Nat /\ (k - 1) + 1 = k
    BY <1>1
  <2>2. Good(x, k - 1)
    <3> HIDE DEF Good
    <3>1. QED BY <2>1
  <2>3. /\ Table(c, w) /\ Holes(c) = {} /\ Members(c) = Members(x)
        /\ DOMAIN c.req_ids = DOMAIN x.req_ids /\ c.cache = x.cache
        /\ DecodesFirst(x, n) => c = x
        /\ ~DecodesFirst(x, n) =>
             \A m \in Nat : (\A i \in DOMAIN x.req_ids : i <= m => ~IsPrompt(x, n, i))
               => (\A i \in DOMAIN c.req_ids : i <= m + 1 => ~IsPrompt(c, n, i))
    BY <2>2, SwappedMisplaced
  <2> HIDE DEF c
  <2>4. DecodesFirst(c, n) \/ Clear(c, k)
    <3>1. CASE DecodesFirst(x, n)
      BY <2>3, <3>1
    <3>2. CASE ~DecodesFirst(x, n)
      <4>1. Clear(x, k - 1)
        BY <2>2, <3>2
      <4>2. Clear(x, k - 1) => Clear(c, (k - 1) + 1)
        BY <2>1, <2>3, <3>2
      <4>3. Clear(c, (k - 1) + 1)
        <5> HIDE DEF Clear
        <5>1. QED BY <4>1, <4>2
      <4>4. QED BY <2>1, <4>3
    <3>3. QED BY <3>1, <3>2
  <2>5. Good(c, k)
    BY <2>2, <2>3, <2>4
  <2>6. c \in Batches
    BY <2>3, TableBatch
  <2>7. c \in J[k]
    <3> HIDE DEF Good
    <3>1. QED BY <2>1, <2>5, <2>6
  <2>8. QED
    <3> HIDE DEF J
    <3>1. QED BY <1>2, <2>7 DEF c
<1>5. Swapping!Fold(b, turns) \in J[L]
  <2> HIDE DEF J, turns
  <2>1. SwappingFacts!Fold(b, turns) \in J[Len(turns)]
    BY <1>1, <1>2, <1>3, <1>4, SwappingFacts!FoldProgress
  <2>2. QED BY <1>2, <2>1 DEF Swapping!Fold, SwappingFacts!Fold
<1> DEFINE c == EnsureDecodesFirst(b, n)
<1>6. c = Swapping!Fold(b, turns)
  BY DEF EnsureDecodesFirst
<1>7. Good(c, L)
  <2>1. L \in 0..L
    BY <1>1
  <2> HIDE DEF Good, c, turns
  <2>2. QED BY <1>5, <1>6, <2>1
<1> HIDE DEF c
<1>8. Clear(c, L) => DecodesFirst(c, n)
  <2>1. SUFFICES ASSUME Clear(c, L) PROVE PromptRows(c, n) = {}
    BY DEF DecodesFirst
  <2>2. \A i \in DOMAIN c.req_ids : i <= L
    BY <1>1, <1>7
  <2>3. QED BY <2>1, <2>2 DEF PromptRows
<1>9. QED BY <1>7, <1>8 DEF c

(* Behind the decodes nothing is scheduled for a single token with its prompt  *)
(* computed, so ensure_multi_token_decodes_last moves no request.              *)
LEMMA NothingToMove ==
  ASSUME NEW b, NEW w, Table(b, w), Holes(b) = {}, NEW n, DecodesFirst(b, n),
         \A r \in Members(b) : n[r] \in Nat \ {0}
  PROVE  EnsureMultiTokenDecodesLast(b, n) = b
<1> DEFINE L == Len(b.req_ids)
           unfinished == {i \in DOMAIN b.req_ids : b.row[i].comp < b.row[i].prompt}
           end == IF unfinished = {} THEN Len(b.req_ids) ELSE Min(unfinished) - 1
           list == [k \in 1..end |-> [read |-> k, n |-> n]]
           start == [b |-> b, write |-> 1]
           J == [k \in 0..end |->
                   {[b |-> b, write |-> m] : m \in {p \in Nat : \/ p = k + 1
                                                                \/ \E i \in 1..k : IsPrompt(b, n, i)}}]
<1>1. /\ L \in Nat /\ DOMAIN b.req_ids = 1..L
      /\ \A i \in 1..L : b.req_ids[i] \in Members(b)
  BY FullRows
<1>2. end \in Nat /\ end <= L /\ \A k \in 1..end : k \in 1..L /\ k \notin unfinished
  <2>1. CASE unfinished = {}
    BY <1>1, <2>1
  <2>2. CASE unfinished # {}
    <3>1. unfinished \in SUBSET Nat
      BY <1>1
    <3>2. Min(unfinished) \in unfinished /\ \A y \in unfinished : Min(unfinished) <= y
      BY <2>2, <3>1, MinIs
    <3>3. unfinished \subseteq 1..L
      BY <1>1
    <3> DEFINE first == Min(unfinished)
    <3>4. end = first - 1
      BY <2>2
    <3> HIDE DEF unfinished, first, end
    <3>5. first \in 1..L /\ \A y \in unfinished : first <= y
      BY <3>2, <3>3 DEF first
    <3>6. end \in Nat /\ end <= L /\ \A k \in 1..end : k \in 1..L /\ k < first
      BY <1>1, <3>4, <3>5
    <3>7. \A k \in 1..end : k \notin unfinished
      BY <3>5, <3>6
    <3>8. QED BY <3>6, <3>7
  <2>3. QED BY <2>1, <2>2
<1> HIDE DEF end
<1>3. Len(list) = end /\ \A k \in 1..end : list[k] = [read |-> k, n |-> n]
  <2>1. list \in [1..end -> {[read |-> k, n |-> n] : k \in 1..end}]
    OBVIOUS
  <2>2. Len(list) = end
    <3> HIDE DEF list
    <3>1. QED BY <1>2, <2>1, FunctionSeq
  <2>3. QED BY <2>2
<1>4. start \in J[0]
  <2>1. 0 \in 0..end /\ 1 \in Nat /\ 1 = 0 + 1
    BY <1>2
  <2>2. QED BY <2>1
<1>5. ASSUME NEW k \in 1..end, NEW x \in J[k - 1]
      PROVE  MoveUp(x, list[k]) \in J[k]
  <2>1. k - 1 \in 0..end /\ k \in 0..end /\ (k - 1) + 1 = k /\ k \in 1..L /\ k \in Nat
    BY <1>2
  <2>2. PICK m \in Nat : /\ x = [b |-> b, write |-> m]
                         /\ m = k \/ \E i \in 1..(k - 1) : IsPrompt(b, n, i)
    BY <2>1
  <2>3. x.b = b /\ x.write = m
    BY <2>2
  <2> DEFINE e == [read |-> k, n |-> n]
             r == b.req_ids[k]
  <2>4. e.read = k /\ e.n = n /\ list[k] = e
    BY <1>3
  <2>5. n[r] \in Nat \ {0}
    BY <1>1, <2>1
  <2> HIDE DEF e, r, list
  <2>6. MoveUp(x, e) = IF n[r] # 1 THEN x
                       ELSE [b     |-> IF k = m THEN b ELSE swap_states(b, m, k),
                             write |-> m + 1]
    BY <2>3, <2>4 DEF MoveUp, r
  <2>7. CASE n[r] # 1
    <3>1. IsPrompt(b, n, k)
      BY <2>5, <2>7 DEF IsPrompt, r
    <3>2. x \in J[k]
      BY <2>1, <2>2, <3>1
    <3> HIDE DEF J
    <3>3. QED BY <2>4, <2>6, <2>7, <3>2
  <2>8. CASE n[r] = 1
    <3>1. ~IsPrompt(b, n, k)
      BY <1>1, <1>2, <2>1, <2>8 DEF IsPrompt, r
    <3>2. \A i \in 1..(k - 1) : ~IsPrompt(b, n, i)
      <4>1. ASSUME NEW i \in 1..(k - 1), IsPrompt(b, n, i) PROVE FALSE
        <5>1. i \in PromptRows(b, n) /\ k \in DecodeRows(b, n)
          BY <1>1, <2>1, <3>1, <4>1 DEF PromptRows, DecodeRows
        <5>2. k < i
          BY <5>1 DEF DecodesFirst
        <5>3. QED BY <2>1, <5>2
      <4>2. QED BY <4>1
    <3>3. m = k
      BY <2>2, <3>2
    <3>4. MoveUp(x, e) = [b |-> b, write |-> k + 1]
      BY <2>6, <2>8, <3>3
    <3>5. [b |-> b, write |-> k + 1] \in J[k]
      BY <2>1
    <3> HIDE DEF J
    <3>6. QED BY <2>4, <3>4, <3>5
  <2>9. QED BY <2>7, <2>8
<1>6. MovingUp!Fold(start, list) \in J[end]
  <2> HIDE DEF J, list, start
  <2>1. MovingUpFacts!Fold(start, list) \in J[Len(list)]
    BY <1>2, <1>3, <1>4, <1>5, MovingUpFacts!FoldProgress
  <2>2. QED BY <1>3, <2>1 DEF MovingUp!Fold, MovingUpFacts!Fold
<1>7. EnsureMultiTokenDecodesLast(b, n) = MovingUp!Fold(start, list).b
  BY DEF EnsureMultiTokenDecodesLast, end
<1>8. end \in 0..end
  BY <1>2
<1>9. PICK m \in Nat : MovingUp!Fold(start, list) = [b |-> b, write |-> m]
  <2> HIDE DEF start, list
  <2>1. QED BY <1>6, <1>8
<1>10. QED
  <2> HIDE DEF start, list
  <2>1. QED BY <1>7, <1>9

(* The leading rows up to NumDecodes are decodes and the others are prompts.   *)
LEMMA Partition ==
  ASSUME NEW b, NEW w, Table(b, w), Holes(b) = {}, NEW n, DecodesFirst(b, n)
  PROVE  /\ NumDecodes(b, n) \in 0..Len(b.req_ids)
         /\ \A i \in DOMAIN b.req_ids : IsPrompt(b, n, i) <=> i > NumDecodes(b, n)
<1> DEFINE L == Len(b.req_ids)
           S == {k \in 0..L : \A i \in 1..k : ~IsPrompt(b, n, i)}
<1>1. L \in Nat /\ DOMAIN b.req_ids = 1..L
  BY FullRows
<1>2. S \in SUBSET (0..L) /\ 0 \in S
  BY <1>1
<1>3. NumDecodes(b, n) = Max(S)
  BY DEF NumDecodes
<1>4. Max(S) \in S /\ Max(S) \in 0..L /\ \A y \in S : Max(S) >= y
  <2> HIDE DEF S
  <2>1. S # {}
    BY <1>2
  <2>2. QED BY <1>1, <1>2, <2>1, MaxIs
<1>5. ASSUME NEW i \in 1..L, i > Max(S), ~IsPrompt(b, n, i) PROVE FALSE
  <2>1. ASSUME NEW k \in 1..i, IsPrompt(b, n, k) PROVE FALSE
    <3>1. k \in 1..L
      BY <1>1
    <3>2. k \in PromptRows(b, n) /\ i \in DecodeRows(b, n)
      BY <1>1, <1>5, <2>1, <3>1 DEF PromptRows, DecodeRows
    <3>3. i < k
      BY <3>2 DEF DecodesFirst
    <3>4. QED BY <3>3
  <2>2. i \in S
    BY <1>1, <2>1
  <2> HIDE DEF S
  <2>3. Max(S) >= i /\ Max(S) \in Int
    BY <1>4, <2>2
  <2>4. QED BY <1>5, <2>3
<1>6. ASSUME NEW i \in 1..L, ~ (i > Max(S)) PROVE ~IsPrompt(b, n, i)
  <2>1. \A k \in 1..Max(S) : ~IsPrompt(b, n, k)
    <3> DEFINE x == Max(S)
    <3>1. x \in S
      BY <1>4
    <3> HIDE DEF x
    <3>2. \A k \in 1..x : ~IsPrompt(b, n, k)
      BY <3>1
    <3>3. QED BY <3>2 DEF x
  <2> HIDE DEF S
  <2>2. i \in 1..Max(S)
    BY <1>1, <1>4, <1>6
  <2>3. QED BY <2>1, <2>2
<1>7. QED
  <2> HIDE DEF S
  <2>1. QED BY <1>1, <1>2, <1>3, <1>4, <1>5, <1>6

(* What sampling finds.                                                        *)
LEMMA ReorderedBatch ==
  ASSUME NEW b, NEW w, Table(b, w), Holes(b) = {}, NEW n,
         \A r \in Members(b) : n[r] \in Nat \ {0}
  PROVE  LET c == Reordered(b, n)
         IN  /\ Table(c, w) /\ Holes(c) = {} /\ Members(c) = Members(b)
             /\ c.cache = b.cache /\ (DecodesFirst(b, n) => c = b)
             /\ NumDecodes(c, n) \in 0..Len(c.req_ids)
             /\ \A i \in DOMAIN c.req_ids : IsPrompt(c, n, i) <=> i > NumDecodes(c, n)
<1> DEFINE d == EnsureDecodesFirst(b, n)
<1>1. /\ Table(d, w) /\ Holes(d) = {} /\ Members(d) = Members(b) /\ DecodesFirst(d, n)
      /\ d.cache = b.cache /\ (DecodesFirst(b, n) => d = b)
  BY Sorted
<1> HIDE DEF d
<1>2. EnsureMultiTokenDecodesLast(d, n) = d
  BY <1>1, NothingToMove
<1>3. Reordered(b, n) = d
  BY <1>2 DEF Reordered, d
<1>4. QED BY <1>1, <1>3, Partition
=============================================================================
