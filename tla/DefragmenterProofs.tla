------------------------ MODULE DefragmenterProofs ------------------------
(***************************************************************************)
(* Theorems about Defragmenter for every number of requests and blocks,    *)
(* every threshold and every swap limit.                                   *)
(***************************************************************************)
EXTENDS Defragmenter, FiniteSetTheorems, FunctionTheorems, TLAPS

(* A proper subset of a finite set is smaller.                              *)
LEMMA StrictSubsetCard ==
  ASSUME NEW T, IsFiniteSet(T), NEW S \in SUBSET T, NEW x \in T, x \notin S
  PROVE  Cardinality(S) < Cardinality(T)
<1>1. /\ IsFiniteSet(S) /\ Cardinality(S) <= Cardinality(T)
      /\ Cardinality(S) # Cardinality(T)
  BY FS_Subset
<1>2. Cardinality(S) \in Nat /\ Cardinality(T) \in Nat
  BY <1>1, FS_CardinalityType
<1>3. QED BY <1>1, <1>2

LEMMA BlockFinite == IsFiniteSet(Block) /\ Block \subseteq Nat
  BY FS_Interval, ConstantsAssumption DEF Block

LEMMA BlockSubsets ==
  ASSUME NEW S \in SUBSET Block
  PROVE  IsFiniteSet(S) /\ Cardinality(S) \in Nat
<1>1. IsFiniteSet(S)
  BY BlockFinite, FS_Subset
<1>2. QED BY <1>1, FS_CardinalityType

(* A used block trades places with one free block at most, and a free block *)
(* with one used block: the ranks that defragment pairs are unique.          *)
LEMMA PairsUnique ==
  ASSUME NEW a \in to_swap, NEW b \in to_swap
  PROVE  a[1] = b[1] <=> a[2] = b[2]
<1> DEFINE Above(p) == {u \in Used : u > p}
           Below(p) == {f \in Free : f < p}
<1>1. /\ a \in Used \X Free /\ b \in Used \X Free
      /\ Cardinality(Above(a[1])) = Cardinality(Below(a[2]))
      /\ Cardinality(Above(b[1])) = Cardinality(Below(b[2]))
  BY DEF to_swap
<1>2. /\ Used \subseteq Nat /\ Free \subseteq Nat
      /\ Used \subseteq Block /\ Free \subseteq Block
  BY BlockFinite DEF Used, Free
<1>3. \A p, q \in Used : p < q => Cardinality(Above(q)) < Cardinality(Above(p))
  <2>1. SUFFICES ASSUME NEW p \in Used, NEW q \in Used, p < q
                 PROVE  Cardinality(Above(q)) < Cardinality(Above(p))
    OBVIOUS
  <2>2. /\ p \in Nat /\ q \in Nat /\ \A u \in Used : u \in Nat
    BY <1>2
  <2>3. Above(q) \in SUBSET Above(p)
    <3>1. \A u \in Used : u > q => u > p
      BY <2>1, <2>2
    <3>2. QED BY <3>1, Zenon
  <2>4. q \in Above(p) /\ q \notin Above(q)
    BY <2>1, <2>2
  <2>5. IsFiniteSet(Above(p))
    BY <1>2, BlockSubsets
  <2>6. QED BY <2>3, <2>4, <2>5, StrictSubsetCard
<1>4. \A p, q \in Free : p < q => Cardinality(Below(p)) < Cardinality(Below(q))
  <2>1. SUFFICES ASSUME NEW p \in Free, NEW q \in Free, p < q
                 PROVE  Cardinality(Below(p)) < Cardinality(Below(q))
    OBVIOUS
  <2>2. /\ p \in Nat /\ q \in Nat /\ \A u \in Free : u \in Nat
    BY <1>2
  <2>3. Below(p) \in SUBSET Below(q)
    <3>1. \A u \in Free : u < p => u < q
      BY <2>1, <2>2
    <3>2. QED BY <3>1, Zenon
  <2>4. p \in Below(q) /\ p \notin Below(p)
    BY <2>1, <2>2
  <2>5. IsFiniteSet(Below(q))
    BY <1>2, BlockSubsets
  <2>6. QED BY <2>3, <2>4, <2>5, StrictSubsetCard
<1>5. \A p : Cardinality(Above(p)) \in Nat /\ Cardinality(Below(p)) \in Nat
  <2>1. \A p : Above(p) \in SUBSET Block /\ Below(p) \in SUBSET Block
    BY <1>2
  <2>2. QED BY <2>1, BlockSubsets
<1> HIDE DEF Above, Below
<1>6. /\ a[1] \in Used /\ b[1] \in Used /\ a[2] \in Free /\ b[2] \in Free
      /\ a[1] \in Nat /\ b[1] \in Nat /\ a[2] \in Nat /\ b[2] \in Nat
  BY <1>1, <1>2
<1>7. ASSUME a[1] = b[1] PROVE a[2] = b[2]
  <2>1. Cardinality(Below(a[2])) = Cardinality(Below(b[2]))
    BY <1>1, <1>7
  <2>2. ~(a[2] < b[2]) /\ ~(b[2] < a[2])
    BY <1>4, <1>5, <1>6, <2>1
  <2>3. QED BY <1>6, <2>2
<1>8. ASSUME a[2] = b[2] PROVE a[1] = b[1]
  <2>1. Cardinality(Above(a[1])) = Cardinality(Above(b[1]))
    BY <1>1, <1>8
  <2>2. ~(a[1] < b[1]) /\ ~(b[1] < a[1])
    BY <1>3, <1>5, <1>6, <2>1
  <2>3. QED BY <1>6, <2>2
<1>9. QED BY <1>7, <1>8

(* Partner is an involution on Block that fixes every other id, takes a      *)
(* moved used block to a lower free one and never leaves the used range.      *)
LEMMA PartnerFacts ==
  /\ \A p : Partner(Partner(p)) = p
  /\ \A p \in Block : Partner(p) \in Block
  /\ \A p : p \notin Block => Partner(p) = p
  /\ \A p \in Used : Partner(p) # p => Partner(p) \in Free
  /\ \A p \in Block : \/ Partner(p) < p
                      \/ \E u \in Used : Partner(p) = u
                      \/ Partner(p) = p
<1> DEFINE M(p, q) == <<p, q>> \in to_swap \/ <<q, p>> \in to_swap
<1>1. \A p, q : M(p, q) => /\ p \in Block /\ q \in Block
                           /\ (p \in Used /\ q \in Free /\ q < p) \/
                              (p \in Free /\ q \in Used /\ p < q)
  BY DEF to_swap, Used, Free
<1>2. \A p, q, r : M(p, q) /\ M(p, r) => q = r
  <2>1. SUFFICES ASSUME NEW p, NEW q, NEW r, M(p, q), M(p, r) PROVE q = r
    OBVIOUS
  <2>2. CASE p \in Used
    <3>1. <<p, q>> \in to_swap /\ <<p, r>> \in to_swap
      BY <2>1, <2>2 DEF to_swap, Free
    <3>2. QED BY <3>1, PairsUnique
  <2>3. CASE p \notin Used
    <3>1. <<q, p>> \in to_swap /\ <<r, p>> \in to_swap
      BY <2>1, <2>3 DEF to_swap, Free
    <3>2. QED BY <3>1, PairsUnique
  <2>4. QED BY <2>2, <2>3
<1>3. \A p, q : M(p, q) => Partner(p) = q
  BY <1>1, <1>2 DEF Partner
<1>4. \A p : (~ \E q \in Block : M(p, q)) => Partner(p) = p
  BY DEF Partner
<1>5. \A p, q : M(p, q) => M(q, p)
  OBVIOUS
<1> HIDE DEF M
<1>6. \A p : Partner(Partner(p)) = p
  BY <1>1, <1>3, <1>4, <1>5
<1>7. \A p \in Block : Partner(p) \in Block
  BY <1>1, <1>3, <1>4
<1>8. \A p : p \notin Block => Partner(p) = p
  BY <1>1, <1>4
<1>9. \A p \in Used : Partner(p) # p => Partner(p) \in Free
  BY <1>1, <1>3, <1>4 DEF Free
<1>10. \A p \in Block : \/ Partner(p) < p
                        \/ \E u \in Used : Partner(p) = u
                        \/ Partner(p) = p
  BY <1>1, <1>3, <1>4
<1>11. QED BY <1>6, <1>7, <1>8, <1>9, <1>10

LEMMA NotUsedPartner ==
  ASSUME NEW p \in Block, p \notin Used, Partner(p) # p
  PROVE  Partner(p) \in Used
<1>1. Partner(p) \in Block /\ Partner(Partner(p)) = p
  BY PartnerFacts
<1>2. <<p, Partner(p)>> \in to_swap \/ <<Partner(p), p>> \in to_swap
  BY DEF Partner
<1>3. QED BY <1>2 DEF to_swap

LEMMA ElemsConcat ==
  ASSUME NEW S, NEW s \in Seq(S), NEW t \in Seq(S)
  PROVE  Elems(s \o t) = Elems(s) \union Elems(t)
<1>1. /\ Len(s) \in Nat /\ Len(t) \in Nat
      /\ DOMAIN s = 1..Len(s) /\ DOMAIN t = 1..Len(t)
      /\ DOMAIN (s \o t) = 1..(Len(s) + Len(t))
      /\ \A i \in DOMAIN s : (s \o t)[i] = s[i]
      /\ \A i \in DOMAIN t : (s \o t)[Len(s) + i] = t[i]
  OBVIOUS
<1>2. ASSUME NEW i \in DOMAIN (s \o t) PROVE (s \o t)[i] \in Elems(s) \union Elems(t)
  <2>1. CASE i \in DOMAIN s
    BY <1>1, <2>1 DEF Elems
  <2>2. CASE i \notin DOMAIN s
    <3>1. i - Len(s) \in DOMAIN t /\ Len(s) + (i - Len(s)) = i
      BY <1>1, <2>2
    <3>2. (s \o t)[i] = t[i - Len(s)]
      BY <1>1, <3>1
    <3>3. QED BY <3>1, <3>2 DEF Elems
  <2>3. QED BY <2>1, <2>2
<1>3. \A i \in DOMAIN s : s[i] \in Elems(s \o t)
  <2>1. \A i \in DOMAIN s : i \in DOMAIN (s \o t) /\ s[i] = (s \o t)[i]
    BY <1>1
  <2>2. QED BY <2>1, Zenon DEF Elems
<1>4. \A i \in DOMAIN t : t[i] \in Elems(s \o t)
  <2>1. \A i \in DOMAIN t : Len(s) + i \in DOMAIN (s \o t) /\ t[i] = (s \o t)[Len(s) + i]
    BY <1>1
  <2>2. QED BY <2>1, Zenon DEF Elems
<1>5. QED BY <1>2, <1>3, <1>4, Zenon DEF Elems

-----------------------------------------------------------------------------
LEMMA RefsFinite ==
  ASSUME NEW lists, NEW table, NEW p
  PROVE  /\ IsFiniteSet(RefsTo(lists, table, p))
         /\ Cardinality(RefsTo(lists, table, p)) \in Nat
<1>1. IsFiniteSet(1..(MaxRefs + MaxNew))
  BY FS_Interval, ConstantsAssumption
<1>2. IsFiniteSet(Reqs \X (1..(MaxRefs + MaxNew)))
  BY <1>1, FS_Product, ConstantsAssumption
<1>3. RefsTo(lists, table, p) \in SUBSET (Reqs \X (1..(MaxRefs + MaxNew)))
  BY DEF RefsTo
<1>4. IsFiniteSet(RefsTo(lists, table, p))
  BY <1>2, <1>3, FS_Subset
<1>5. QED BY <1>4, FS_CardinalityType

(* Growing a table changes what no id resolves to.                           *)
LEMMA ExtendResolves ==
  ASSUME NEW table, NEW blocks, NEW b
  PROVE  ResolveIn(Extend(table, blocks), b) = ResolveIn(table, b)
BY DEF ResolveIn, Extend

LEMMA ExtendRefs ==
  ASSUME NEW lists, NEW table, NEW blocks, NEW p
  PROVE  RefsTo(lists, Extend(table, blocks), p) = RefsTo(lists, table, p)
BY ExtendResolves DEF RefsTo

LEMMA BlockListsType ==
  ASSUME NEW s \in BlockLists
  PROVE  s \in Seq(Block) /\ Len(s) \in 0..MaxNew
<1>1. PICK n \in 0..MaxNew : s \in [1..n -> Block]
  BY DEF BlockLists
<1>2. n \in Nat /\ n <= MaxNew
  BY ConstantsAssumption
<1>3. s \in Seq(Block) /\ Len(s) = n
  BY <1>1, <1>2, SMT
<1>4. QED BY <1>2, <1>3

(* both is lists with extra appended, within the bound.                       *)
Appended(lists, extra, both) ==
  /\ lists \in [Reqs -> Seq(Block)]
  /\ extra \in [Reqs -> Seq(Block)]
  /\ \A r \in Reqs : /\ Len(lists[r]) + Len(extra[r]) <= MaxRefs
                     /\ both[r] = lists[r] \o extra[r]

(* Recording more blocks adds exactly their references.                      *)
LEMMA AppendRefs ==
  ASSUME NEW lists, NEW extra, NEW both, NEW table, NEW p,
         Appended(lists, extra, both)
  PROVE  Cardinality(RefsTo(both, table, p)) =
           Cardinality(RefsTo(lists, table, p)) + Cardinality(RefsTo(extra, table, p))
<1>a. lists \in [Reqs -> Seq(Block)] /\ extra \in [Reqs -> Seq(Block)]
  BY DEF Appended
<1>b. PICK ls \in [Reqs -> Seq(Block)], ex \in [Reqs -> Seq(Block)] :
        ls = lists /\ ex = extra
  BY <1>a
<1>c. \A r \in Reqs : Len(ls[r]) + Len(ex[r]) <= MaxRefs
  BY <1>b DEF Appended
<1> DEFINE cat == [r \in Reqs |-> ls[r] \o ex[r]]
           A == RefsTo(ls, table, p)
           E == RefsTo(ex, table, p)
           T == RefsTo(cat, table, p)
           Shift(x) == <<x[1], Len(ls[x[1]]) + x[2]>>
           S == {Shift(x) : x \in E}
           Idx == 1..(MaxRefs + MaxNew)
<1>1. \A r \in Reqs :
        /\ ls[r] \in Seq(Block) /\ ex[r] \in Seq(Block)
        /\ Len(ls[r]) \in Nat /\ Len(ex[r]) \in Nat
        /\ DOMAIN ls[r] = 1..Len(ls[r]) /\ DOMAIN ex[r] = 1..Len(ex[r])
        /\ DOMAIN cat[r] = 1..(Len(ls[r]) + Len(ex[r]))
        /\ \A i \in DOMAIN ls[r] : cat[r][i] = ls[r][i]
        /\ \A i \in DOMAIN ex[r] : cat[r][Len(ls[r]) + i] = ex[r][i]
  OBVIOUS
<1>2. /\ MaxRefs \in Nat /\ MaxNew \in Nat
      /\ \A r \in Reqs : Len(ls[r]) + Len(ex[r]) <= MaxRefs
  BY <1>c, ConstantsAssumption
<1> HIDE DEF cat
<1>3. A \subseteq T
  <2>1. SUFFICES ASSUME NEW x \in A PROVE x \in T
    OBVIOUS
  <2>2. /\ x[1] \in Reqs /\ x[2] \in Idx /\ x = <<x[1], x[2]>>
        /\ x[2] \in DOMAIN ls[x[1]]
        /\ ResolveIn(table, ls[x[1]][x[2]]) = p
    BY DEF RefsTo
  <2>3. x[2] \in DOMAIN cat[x[1]] /\ cat[x[1]][x[2]] = ls[x[1]][x[2]]
    BY <1>1, <2>2
  <2>4. QED BY <2>2, <2>3 DEF RefsTo
<1>4. S \subseteq T
  <2>1. SUFFICES ASSUME NEW x \in E PROVE Shift(x) \in T
    OBVIOUS
  <2>2. /\ x[1] \in Reqs /\ x[2] \in Idx
        /\ x[2] \in DOMAIN ex[x[1]]
        /\ ResolveIn(table, ex[x[1]][x[2]]) = p
    BY DEF RefsTo
  <2>3. cat[x[1]][Len(ls[x[1]]) + x[2]] = ex[x[1]][x[2]]
    BY <1>1, <2>2
  <2>4. /\ Len(ls[x[1]]) \in Nat /\ Len(ex[x[1]]) \in Nat
        /\ x[2] \in 1..Len(ex[x[1]])
        /\ Len(ls[x[1]]) + Len(ex[x[1]]) <= MaxRefs
        /\ DOMAIN cat[x[1]] = 1..(Len(ls[x[1]]) + Len(ex[x[1]]))
    BY <1>1, <1>2, <2>2
  <2>5. /\ Len(ls[x[1]]) + x[2] \in DOMAIN cat[x[1]]
        /\ Len(ls[x[1]]) + x[2] \in Idx
    BY <1>2, <2>4, SMTT(30)
  <2>6. QED BY <2>2, <2>3, <2>5 DEF RefsTo
<1>5. T \subseteq A \union S
  <2>1. SUFFICES ASSUME NEW x \in T, x \notin A PROVE x \in S
    OBVIOUS
  <2>2. /\ x[1] \in Reqs /\ x[2] \in Idx /\ x = <<x[1], x[2]>>
        /\ x[2] \in DOMAIN cat[x[1]]
        /\ ResolveIn(table, cat[x[1]][x[2]]) = p
    BY DEF RefsTo
  <2>3. x[2] \notin DOMAIN ls[x[1]]
    BY <1>1, <2>1, <2>2 DEF RefsTo
  <2> DEFINE i == x[2] - Len(ls[x[1]])
             y == <<x[1], i>>
  <2>4. /\ i \in DOMAIN ex[x[1]] /\ i \in Idx
        /\ Len(ls[x[1]]) + i = x[2]
    BY <1>1, <1>2, <2>2, <2>3
  <2>5. cat[x[1]][x[2]] = ex[x[1]][i]
    BY <1>1, <2>2, <2>4
  <2>6. y \in E
    BY <2>2, <2>4, <2>5 DEF RefsTo
  <2>7. Shift(y) = x
    BY <2>2, <2>4
  <2>8. QED BY <2>6, <2>7
<1>6. A \cap S = {}
  <2>1. SUFFICES ASSUME NEW x \in E, Shift(x) \in A PROVE FALSE
    OBVIOUS
  <2>2. x[1] \in Reqs /\ x[2] \in DOMAIN ex[x[1]]
    BY DEF RefsTo
  <2>3. Len(ls[x[1]]) + x[2] \in DOMAIN ls[x[1]]
    BY <2>1 DEF RefsTo
  <2>4. QED BY <1>1, <2>2, <2>3
<1>7. IsFiniteSet(A) /\ IsFiniteSet(E) /\ Cardinality(A) \in Nat /\ Cardinality(E) \in Nat
  BY RefsFinite
<1>8. IsFiniteSet(S) /\ Cardinality(S) = Cardinality(E)
  <2> DEFINE f == [x \in E |-> Shift(x)]
  <2>1. f \in [E -> S] /\ \A y \in S : \E x \in E : f[x] = y
    OBVIOUS
  <2>2. ASSUME NEW x \in E, NEW y \in E, f[x] = f[y] PROVE x = y
    <3>1. /\ x[1] \in Reqs /\ x[2] \in Nat /\ x = <<x[1], x[2]>>
          /\ y[1] \in Reqs /\ y[2] \in Nat /\ y = <<y[1], y[2]>>
      BY <1>2 DEF RefsTo
    <3>2. Shift(x) = Shift(y)
      BY <2>2
    <3>3. x[1] = y[1] /\ Len(ls[x[1]]) + x[2] = Len(ls[y[1]]) + y[2]
      BY <3>2
    <3>4. x[2] = y[2]
      BY <1>1, <3>1, <3>3
    <3>5. QED BY <3>1, <3>3, <3>4
  <2> HIDE DEF f
  <2>3. f \in Bijection(E, S)
    BY <2>1, <2>2, Fun_IsBij
  <2>4. ExistsBijection(E, S)
    BY <2>3 DEF ExistsBijection
  <2>5. QED BY <1>7, <2>4, FS_Bijection
<1>9. T = A \union S
  BY <1>3, <1>4, <1>5
<1>10. Cardinality(A \cap S) = 0
  BY <1>6, FS_EmptySet
<1> HIDE DEF A, E, S, T
<1>11. Cardinality(T) = Cardinality(A) + Cardinality(E)
  <2>1. Cardinality(A \union S) = Cardinality(A) + Cardinality(S) - Cardinality(A \cap S)
    BY <1>7, <1>8, FS_Union
  <2>2. QED BY <1>7, <1>8, <1>9, <1>10, <2>1
<1>12. T = RefsTo(both, table, p)
  <2>1. \A r \in Reqs : cat[r] = both[r]
    BY <1>b DEF Appended, cat
  <2>2. QED BY <2>1 DEF RefsTo, T
<1>13. QED BY <1>b, <1>11, <1>12 DEF A, E

(* Dropping the lists of some requests removes exactly their references.     *)
LEMMA DropRefs ==
  ASSUME NEW lists, NEW kept, NEW dropped, NEW table, NEW p,
         \A r \in Reqs : \/ kept[r] = lists[r] /\ dropped[r] = <<>>
                         \/ kept[r] = <<>> /\ dropped[r] = lists[r]
  PROVE  Cardinality(RefsTo(kept, table, p)) =
           Cardinality(RefsTo(lists, table, p)) - Cardinality(RefsTo(dropped, table, p))
<1> DEFINE T == RefsTo(lists, table, p)
           K == RefsTo(kept, table, p)
           D == RefsTo(dropped, table, p)
<1>1. K = T \ D
  BY DEF RefsTo
<1>2. T \cap D = D
  BY DEF RefsTo
<1>3. IsFiniteSet(T)
  BY RefsFinite
<1> HIDE DEF T, K, D
<1>4. Cardinality(K) = Cardinality(T) - Cardinality(D)
  <2>1. Cardinality(T \ D) = Cardinality(T) - Cardinality(T \cap D)
    BY <1>3, FS_Difference
  <2>2. QED BY <1>1, <1>2, <2>1
<1>5. QED BY <1>4 DEF T, K, D

-----------------------------------------------------------------------------
(* A used block is in the tables: some recorded reference resolves to it.     *)
LEMMA UsedInTable ==
  ASSUME TableInv, NEW p \in Used
  PROVE  p \in DOMAIN fwd_mapping_table
<1>1. Cardinality(RefsTo(req_blocks, fwd_mapping_table, p)) # 0
  BY DEF TableInv, RefCountExact, Used
<1>2. PICK x \in RefsTo(req_blocks, fwd_mapping_table, p) : TRUE
  BY <1>1, RefsFinite, FS_EmptySet
<1>3. /\ x[1] \in Reqs /\ x[2] \in DOMAIN req_blocks[x[1]]
      /\ ResolveIn(fwd_mapping_table, req_blocks[x[1]][x[2]]) = p
  BY <1>2 DEF RefsTo
<1>4. req_blocks[x[1]][x[2]] \in DOMAIN fwd_mapping_table
  BY <1>3 DEF TableInv, BlocksInTable, Elems
<1>5. QED BY <1>3, <1>4 DEF TableInv, TypeOK, ResolveIn

LEMMA PartnerInTable ==
  ASSUME TableInv, NEW p \in DOMAIN fwd_mapping_table
  PROVE  Partner(p) \in DOMAIN fwd_mapping_table
<1>1. CASE p \notin Block
  BY <1>1, PartnerFacts
<1>2. CASE p \in Block /\ Partner(p) < p
  <2>1. Partner(p) \in 0..p
    BY <1>2, PartnerFacts, BlockFinite
  <2>2. QED BY <2>1 DEF TableInv, TypeOK
<1>3. CASE p \in Block /\ ~(Partner(p) < p)
  BY <1>3, PartnerFacts, UsedInTable
<1>4. QED BY <1>1, <1>2, <1>3

-----------------------------------------------------------------------------
LEMMA InitTableInv == Init => TableInv
<1> SUFFICES ASSUME Init PROVE TableInv
  OBVIOUS
<1>1. \A p \in Block : RefsTo(req_blocks, fwd_mapping_table, p) = {}
  BY DEF Init, RefsTo
<1>2. RefCountExact
  BY <1>1, FS_EmptySet DEF Init, RefCountExact
<1>3. <<>> \in BlockLists
  <2>1. <<>> \in [1..0 -> Block] /\ 0 \in 0..MaxNew /\ DOMAIN <<>> = {}
    BY ConstantsAssumption
  <2>2. <<>> \in UNION {[1..n -> Block] : n \in 0..MaxNew}
    BY <2>1
  <2>3. QED BY <2>1, <2>2 DEF BlockLists
<1>4. TypeOK
  BY <1>3, ConstantsAssumption DEF Init, TypeOK
<1>5. MappingInverse /\ BlocksInTable
  BY <1>3, ConstantsAssumption DEF Init, MappingInverse, BlocksInTable, Elems
<1>6. QED BY <1>2, <1>4, <1>5 DEF TableInv

(* The block manager's steps leave the tables alone.                          *)
LEMMA SchedulerTableInv ==
  ASSUME TableInv, NEW r \in Reqs, Grant(r) \/ Preempt(r) \/ Finish(r)
  PROVE  TableInv'
<1>1. CASE Grant(r)
  <2>1. PICK bl \in BlockLists, hits \in SUBSET valid :
          /\ Len(req_blocks[r]) + Len(bl) <= MaxRefs
          /\ new' = [new EXCEPT ![r] = bl]
          /\ owned' = [owned EXCEPT ![r] = @ \union Elems(bl)]
          /\ valid' = valid \ (Elems(bl) \ hits)
    BY <1>1 DEF Grant
  <2>2. Elems(bl) \subseteq Block
    BY <2>1, BlockListsType DEF Elems
  <2>3. TypeOK'
    BY <1>1, <2>1, <2>2 DEF Grant, TableInv, TypeOK, defragVars
  <2>4. MappingInverse' /\ RefCountExact'
    BY <1>1 DEF Grant, TableInv, defragVars, MappingInverse, RefCountExact, RefsTo, ResolveIn
  <2>5. BlocksInTable'
    BY <1>1, <2>1 DEF Grant, TableInv, TypeOK, defragVars, BlocksInTable
  <2>6. QED BY <2>3, <2>4, <2>5 DEF TableInv
<1>2. CASE Preempt(r) \/ Finish(r)
  <2>1. ValidWithout(r) \subseteq Block
    BY DEF ValidWithout, TableInv, TypeOK
  <2>2. TypeOK'
    BY <1>2, <2>1 DEF Preempt, Finish, TableInv, TypeOK, defragVars
  <2>3. UNCHANGED <<phase, new, defragVars>>
    BY <1>2 DEF Preempt, Finish
  <2>4. MappingInverse' /\ BlocksInTable'
    BY <2>3 DEF TableInv, defragVars, MappingInverse, BlocksInTable
  <2>5. RefCountExact'
    BY <2>3 DEF TableInv, defragVars, RefCountExact, RefsTo, ResolveIn
  <2>6. QED BY <2>2, <2>4, <2>5 DEF TableInv
<1>3. QED BY <1>1, <1>2

LEMMA UpdateStateTableInv ==
  ASSUME TableInv, UpdateState
  PROVE  TableInv'
<1> DEFINE granted == UNION {Elems(new[r]) : r \in Reqs}
           fwd     == Extend(fwd_mapping_table, granted)
           bwd     == Extend(bwd_mapping_table, granted)
           added   == [r \in Reqs |-> req_blocks[r] \o new[r]]
           dropped == [r \in Reqs |-> IF r \in fin THEN added[r] ELSE <<>>]
           kept    == [r \in Reqs |-> IF r \in fin THEN <<>> ELSE added[r]]
<1>1. /\ phase = "schedule" /\ phase' = "defragment"
      /\ fwd_mapping_table' = fwd /\ bwd_mapping_table' = bwd
      /\ used_blocks' = [p \in Block |->
           used_blocks[p] + Cardinality(RefsTo(new, fwd, p))
                          - Cardinality(RefsTo(dropped, fwd, p))]
      /\ req_blocks' = kept
      /\ UNCHANGED <<schedVars, kv>>
  BY DEF UpdateState
<1>2. /\ new \in [Reqs -> Seq(Block)] /\ req_blocks \in [Reqs -> Seq(Block)]
      /\ \A r \in Reqs : Len(req_blocks[r]) + Len(new[r]) <= MaxRefs
  BY <1>1, BlockListsType DEF TableInv, TypeOK, BlocksInTable
<1>3. /\ granted \subseteq Block
      /\ granted \subseteq DOMAIN fwd
  <2>1. granted \subseteq Block
    BY <1>2 DEF Elems
  <2> HIDE DEF granted
  <2>2. \A b \in granted : b \in 0..b
    BY <2>1, BlockFinite
  <2>3. QED BY <2>1, <2>2 DEF Extend
<1>4. /\ \A r \in Reqs : /\ added[r] \in Seq(Block)
                          /\ Len(added[r]) = Len(req_blocks[r]) + Len(new[r])
                          /\ Elems(added[r]) \subseteq Elems(req_blocks[r]) \union Elems(new[r])
  BY <1>2 DEF Elems
<1> HIDE DEF added
<1>5. RefCountExact'
  <2> SUFFICES ASSUME NEW p \in Block
               PROVE  used_blocks'[p] = Cardinality(RefsTo(kept, fwd, p))
    BY <1>1 DEF RefCountExact
  <2>1. used_blocks[p] = Cardinality(RefsTo(req_blocks, fwd, p))
    BY ExtendRefs DEF TableInv, RefCountExact
  <2>2. Cardinality(RefsTo(added, fwd, p)) =
          Cardinality(RefsTo(req_blocks, fwd, p)) + Cardinality(RefsTo(new, fwd, p))
    <3> HIDE DEF fwd
    <3>1. \A r \in Reqs : added[r] = req_blocks[r] \o new[r]
      BY DEF added
    <3>2. /\ req_blocks \in [Reqs -> Seq(Block)] /\ new \in [Reqs -> Seq(Block)]
          /\ \A r \in Reqs : Len(req_blocks[r]) + Len(new[r]) <= MaxRefs
      BY <1>2
    <3>3. Appended(req_blocks, new, added)
      BY <3>1, <3>2 DEF Appended
    <3>4. QED BY <3>3, AppendRefs
  <2>3. Cardinality(RefsTo(kept, fwd, p)) =
          Cardinality(RefsTo(added, fwd, p)) - Cardinality(RefsTo(dropped, fwd, p))
    <3>1. \A r \in Reqs : \/ kept[r] = added[r] /\ dropped[r] = <<>>
                          \/ kept[r] = <<>> /\ dropped[r] = added[r]
      OBVIOUS
    <3> HIDE DEF fwd, kept, dropped
    <3>2. QED BY <3>1, DropRefs
  <2>4. /\ Cardinality(RefsTo(req_blocks, fwd, p)) \in Nat
        /\ Cardinality(RefsTo(new, fwd, p)) \in Nat
        /\ Cardinality(RefsTo(dropped, fwd, p)) \in Nat
    BY RefsFinite
  <2>5. used_blocks'[p] = used_blocks[p] + Cardinality(RefsTo(new, fwd, p))
                                         - Cardinality(RefsTo(dropped, fwd, p))
    BY <1>1
  <2> HIDE DEF fwd, kept, dropped
  <2>6. QED BY <2>1, <2>2, <2>3, <2>4, <2>5
<1>6. /\ DOMAIN fwd \subseteq 0..NumBlocks
      /\ DOMAIN fwd_mapping_table \subseteq DOMAIN fwd
      /\ \A b \in DOMAIN fwd : 0..b \subseteq DOMAIN fwd
      /\ DOMAIN bwd = DOMAIN fwd
  <2> DEFINE grown == DOMAIN fwd_mapping_table \union UNION {0..n : n \in granted}
  <2>1. DOMAIN fwd = grown /\ DOMAIN bwd = grown
    BY DEF Extend, TableInv, TypeOK
  <2> HIDE DEF granted, fwd, bwd
  <2>2. grown \subseteq 0..NumBlocks
    BY <1>3, ConstantsAssumption DEF TableInv, TypeOK, Block
  <2>3. ASSUME NEW b \in grown PROVE 0..b \subseteq grown
    <3>1. CASE b \in DOMAIN fwd_mapping_table
      BY <3>1 DEF TableInv, TypeOK
    <3>2. CASE \E n \in granted : b \in 0..n
      <4>1. PICK n \in granted : b \in 0..n
        BY <3>2
      <4>2. n \in Nat
        BY <1>3, BlockFinite
      <4>3. 0..b \subseteq 0..n
        BY <4>1, <4>2
      <4>4. QED BY <4>1, <4>3
    <3>3. QED BY <3>1, <3>2
  <2>4. QED BY <2>1, <2>2, <2>3
<1>7. \A b \in DOMAIN fwd :
        IF b \in DOMAIN fwd_mapping_table
          THEN fwd[b] = fwd_mapping_table[b] /\ bwd[b] = bwd_mapping_table[b]
          ELSE fwd[b] = b /\ bwd[b] = b
  BY <1>6 DEF Extend, TableInv, TypeOK
<1>8. fwd \in [DOMAIN fwd -> DOMAIN fwd] /\ bwd \in [DOMAIN fwd -> DOMAIN fwd]
  <2>1. \A b \in DOMAIN fwd : fwd[b] \in DOMAIN fwd /\ bwd[b] \in DOMAIN fwd
    BY <1>6, <1>7 DEF TableInv, TypeOK
  <2>2. fwd = [b \in DOMAIN fwd |-> fwd[b]] /\ bwd = [b \in DOMAIN fwd |-> bwd[b]]
    BY <1>6 DEF Extend
  <2>3. QED BY <2>1, <2>2
<1>9. MappingInverse'
  <2> HIDE DEF fwd, bwd
  <2>1. \A b \in DOMAIN fwd_mapping_table :
          /\ fwd_mapping_table[b] \in DOMAIN fwd_mapping_table
          /\ bwd_mapping_table[b] \in DOMAIN fwd_mapping_table
          /\ bwd_mapping_table[fwd_mapping_table[b]] = b
          /\ fwd_mapping_table[bwd_mapping_table[b]] = b
    BY DEF MappingInverse, TableInv, TypeOK
  <2>2. \A b \in DOMAIN fwd : bwd[fwd[b]] = b /\ fwd[bwd[b]] = b
    BY <1>6, <1>7, <2>1
  <2>3. QED BY <1>1, <2>2 DEF MappingInverse
<1>10. TypeOK'
  <2>1. used_blocks' \in [Block -> Int]
    BY <1>1, RefsFinite DEF TableInv, TypeOK
  <2>2. /\ req_blocks' \in [Reqs -> Seq(Block)]
        /\ \A r \in Reqs : Len(req_blocks'[r]) <= MaxRefs
    BY <1>1, <1>2, <1>4, ConstantsAssumption
  <2>3. QED BY <1>1, <1>6, <1>8, <2>1, <2>2 DEF TableInv, TypeOK, schedVars
<1>11. BlocksInTable'
  <2>1. \A r \in Reqs : Elems(new[r]) \subseteq DOMAIN fwd
    BY <1>3
  <2>2. \A r \in Reqs : Elems(req_blocks[r]) \subseteq DOMAIN fwd
    BY <1>6 DEF TableInv, BlocksInTable
  <2>3. \A r \in Reqs : Elems(kept[r]) \subseteq DOMAIN fwd
    <3>1. \A r \in Reqs : Elems(added[r]) \subseteq DOMAIN fwd
      BY <1>4, <2>1, <2>2
    <3>2. Elems(<<>>) = {}
      BY DEF Elems
    <3>3. QED BY <3>1, <3>2
  <2>4. 0 \in DOMAIN fwd => fwd[0] = 0 /\ bwd[0] = 0
    BY <1>7 DEF TableInv, BlocksInTable
  <2>5. QED BY <1>1, <2>3, <2>4 DEF BlocksInTable
<1>12. QED BY <1>5, <1>9, <1>10, <1>11 DEF TableInv

LEMMA DefragmentTableInv ==
  ASSUME TableInv, DefragmentMoves
  PROVE  TableInv'
<1> DEFINE fwd == [b \in DOMAIN fwd_mapping_table |-> Partner(fwd_mapping_table[b])]
           bwd == [p \in DOMAIN bwd_mapping_table |-> bwd_mapping_table[Partner(p)]]
           D   == DOMAIN fwd_mapping_table
<1>1. /\ fwd_mapping_table' = fwd /\ bwd_mapping_table' = bwd
      /\ used_blocks' = [p \in Block |-> used_blocks[Partner(p)]]
      /\ phase = "defragment" /\ phase' = "forward"
      /\ UNCHANGED <<schedVars, req_blocks>>
      /\ kv' = Swapped
  BY DEF DefragmentMoves
<1>2. /\ D \subseteq 0..NumBlocks
      /\ DOMAIN bwd_mapping_table = D
      /\ \A b \in D : /\ fwd_mapping_table[b] \in D /\ bwd_mapping_table[b] \in D
                      /\ bwd_mapping_table[fwd_mapping_table[b]] = b
                      /\ fwd_mapping_table[bwd_mapping_table[b]] = b
                      /\ Partner(b) \in D
  BY PartnerInTable DEF TableInv, TypeOK, MappingInverse
<1>3. /\ DOMAIN fwd = D /\ DOMAIN bwd = D
      /\ \A b \in D : /\ fwd[b] = Partner(fwd_mapping_table[b])
                      /\ bwd[b] = bwd_mapping_table[Partner(b)]
                      /\ fwd[b] \in D /\ bwd[b] \in D
  BY <1>2
<1>4. fwd \in [D -> D] /\ bwd \in [D -> D]
  BY <1>2
<1> HIDE DEF fwd, bwd
<1>5. MappingInverse'
  <2>1. \A b \in D : bwd[fwd[b]] = b /\ fwd[bwd[b]] = b
    BY <1>2, <1>3, PartnerFacts
  <2>2. QED BY <1>1, <1>3, <2>1 DEF MappingInverse
<1>6. \A b : b \in D => ResolveIn(fwd, b) = Partner(ResolveIn(fwd_mapping_table, b))
  BY <1>3 DEF ResolveIn
<1>7. RefCountExact'
  <2> SUFFICES ASSUME NEW p \in Block
               PROVE  used_blocks[Partner(p)] = Cardinality(RefsTo(req_blocks, fwd, p))
    BY <1>1 DEF RefCountExact, schedVars
  <2>1. used_blocks[Partner(p)] = Cardinality(RefsTo(req_blocks, fwd_mapping_table, Partner(p)))
    BY PartnerFacts DEF TableInv, RefCountExact
  <2>2. \A b \in D : ResolveIn(fwd, b) = p <=>
                     ResolveIn(fwd_mapping_table, b) = Partner(p)
    BY <1>6, PartnerFacts
  <2>3. \A r \in Reqs : \A i \in DOMAIN req_blocks[r] : req_blocks[r][i] \in D
    BY DEF TableInv, BlocksInTable, Elems
  <2>4. RefsTo(req_blocks, fwd, p) = RefsTo(req_blocks, fwd_mapping_table, Partner(p))
    BY <2>2, <2>3 DEF RefsTo
  <2>5. QED BY <2>1, <2>4
<1>8. TypeOK'
  <2>1. used_blocks' \in [Block -> Int]
    BY <1>1, PartnerFacts DEF TableInv, TypeOK
  <2>2. kv' \in [Block -> Block \union {NONE}]
    BY <1>1, PartnerFacts DEF Swapped, TableInv, TypeOK
  <2>3. \A b \in D : 0..b \subseteq D
    BY DEF TableInv, TypeOK
  <2>4. QED BY <1>1, <1>2, <1>3, <1>4, <2>1, <2>2, <2>3 DEF TableInv, TypeOK, schedVars
<1>9. BlocksInTable'
  <2>1. \A r \in Reqs : Elems(req_blocks[r]) \subseteq D
    BY DEF TableInv, BlocksInTable
  <2>2. Partner(0) = 0
    BY PartnerFacts DEF Block
  <2>3. 0 \in D => fwd[0] = 0 /\ bwd[0] = 0
    BY <1>3, <2>2 DEF TableInv, BlocksInTable
  <2>4. QED BY <1>1, <1>3, <2>1, <2>3 DEF BlocksInTable
<1>10. QED BY <1>5, <1>7, <1>8, <1>9 DEF TableInv

(* resolve maps blocks one to one to blocks, table or not.                    *)
LEMMA ResolveOneToOne ==
  ASSUME TableInv
  PROVE  /\ \A b \in Block : resolve(b) \in Block
         /\ \A b, c \in Block : resolve(b) = resolve(c) => b = c
<1>1. /\ DOMAIN fwd_mapping_table \subseteq 0..NumBlocks
      /\ \A b \in DOMAIN fwd_mapping_table :
           /\ fwd_mapping_table[b] \in DOMAIN fwd_mapping_table
           /\ bwd_mapping_table[fwd_mapping_table[b]] = b
      /\ 0 \in DOMAIN fwd_mapping_table => bwd_mapping_table[0] = 0
  BY DEF TableInv, TypeOK, MappingInverse, BlocksInTable
<1>2. ASSUME NEW b \in Block PROVE resolve(b) \in Block
  <2>1. CASE b \in DOMAIN fwd_mapping_table
    <3>1. fwd_mapping_table[b] \in 0..NumBlocks /\ fwd_mapping_table[b] # 0
      BY <1>1, <2>1 DEF Block
    <3>2. QED BY <2>1, <3>1, ConstantsAssumption DEF resolve, ResolveIn, Block
  <2>2. QED BY <2>1 DEF resolve, ResolveIn
<1>3. ASSUME NEW b \in Block, NEW c \in Block, resolve(b) = resolve(c) PROVE b = c
  BY <1>1, <1>3 DEF resolve, ResolveIn
<1>4. QED BY <1>2, <1>3

LEMMA ForwardTableInv ==
  ASSUME TableInv, Forward
  PROVE  TableInv'
<1>1. PICK written \in SUBSET UNION {owned[r] : r \in Reqs} :
        /\ kv' = [p \in Block |->
             IF \E b \in written : resolve(b) = p
               THEN CHOOSE b \in written : resolve(b) = p
               ELSE IF kv[p] \in written THEN NONE ELSE kv[p]]
        /\ valid' = valid \union written
  BY DEF Forward
<1>2. /\ new' = [r \in Reqs |-> <<>>] /\ fin' = {} /\ phase' = "schedule"
      /\ UNCHANGED <<live, owned, defragVars>>
  BY DEF Forward
<1>3. written \subseteq Block
  BY <1>1 DEF TableInv, TypeOK
<1>4. <<>> \in BlockLists
  <2>1. <<>> \in [1..0 -> Block] /\ 0 \in 0..MaxNew /\ DOMAIN <<>> = {}
    BY ConstantsAssumption
  <2>2. <<>> \in UNION {[1..n -> Block] : n \in 0..MaxNew}
    BY <2>1
  <2>3. QED BY <2>1, <2>2 DEF BlockLists
<1>5. kv' \in [Block -> Block \union {NONE}]
  <2>1. \A p \in Block : kv'[p] \in Block \union {NONE}
    BY <1>1, <1>3 DEF TableInv, TypeOK
  <2>2. QED BY <1>1, <2>1
<1>6. TypeOK'
  BY <1>1, <1>2, <1>3, <1>4, <1>5 DEF TableInv, TypeOK, defragVars
<1>7. MappingInverse'
  BY <1>2 DEF TableInv, defragVars, MappingInverse
<1>8. RefCountExact'
  BY <1>2 DEF TableInv, defragVars, RefCountExact, RefsTo, ResolveIn
<1>9. BlocksInTable'
  <2>1. \A r \in Reqs : Len(req_blocks[r]) <= MaxRefs /\ Len(req_blocks[r]) \in Nat
    BY DEF TableInv, TypeOK
  <2>2. \A r \in Reqs : Len(req_blocks'[r]) + Len(new'[r]) <= MaxRefs
    BY <1>2, <2>1, ConstantsAssumption DEF defragVars
  <2>3. QED BY <1>2, <2>2 DEF TableInv, defragVars, BlocksInTable
<1>10. QED BY <1>6, <1>7, <1>8, <1>9 DEF TableInv

LEMMA NextTableInv == TableInv /\ [Next]_vars => TableInv'
<1> SUFFICES ASSUME TableInv, [Next]_vars PROVE TableInv'
  OBVIOUS
<1>1. CASE \E r \in Reqs : Grant(r) \/ Preempt(r) \/ Finish(r)
  BY <1>1, SchedulerTableInv
<1>2. CASE UpdateState
  BY <1>2, UpdateStateTableInv
<1>3. CASE DefragmentMoves
  BY <1>3, DefragmentTableInv
<1>4. CASE DefragmentSkips
  <2>1. UNCHANGED <<schedVars, defragVars, kv>> /\ phase' = "forward" /\ phase = "defragment"
    BY <1>4 DEF DefragmentSkips
  <2>2. TypeOK' /\ MappingInverse' /\ BlocksInTable'
    BY <2>1 DEF schedVars, defragVars, TableInv, TypeOK, MappingInverse, BlocksInTable
  <2>3. RefCountExact'
    BY <2>1 DEF defragVars, TableInv, RefCountExact, RefsTo, ResolveIn
  <2>4. QED BY <2>2, <2>3 DEF TableInv
<1>5. CASE Forward
  BY <1>5, ForwardTableInv
<1>6. CASE UNCHANGED vars
  <2>1. TypeOK' /\ MappingInverse' /\ BlocksInTable'
    BY <1>6 DEF vars, schedVars, defragVars, TableInv, TypeOK, MappingInverse, BlocksInTable
  <2>2. RefCountExact'
    BY <1>6 DEF vars, defragVars, TableInv, RefCountExact, RefsTo, ResolveIn
  <2>3. QED BY <2>1, <2>2 DEF TableInv
<1>7. QED BY <1>1, <1>2, <1>3, <1>4, <1>5, <1>6 DEF Next

(* Every variable keeps its type, whatever ids and blocks the scheduler uses: *)
(* in particular the two tables always cover the same ids, without gaps.       *)
THEOREM TypeCorrect == Spec => []TypeOK
<1>1. TableInv => TypeOK
  BY DEF TableInv
<1>2. QED BY InitTableInv, NextTableInv, <1>1, PTL DEF Spec

(* The mapping tables stay inverse permutations in every run, ids resubmitted *)
(* or not.                                                                     *)
THEOREM MappingCorrect == Spec => []MappingInverse
<1>1. TableInv => MappingInverse
  BY DEF TableInv
<1>2. QED BY InitTableInv, NextTableInv, <1>1, PTL DEF Spec

(* The reference counts stay exact in every run, ids resubmitted or not.       *)
THEOREM CountsCorrect == Spec => []RefCountExact
<1>1. TableInv => RefCountExact
  BY DEF TableInv
<1>2. QED BY InitTableInv, NextTableInv, <1>1, PTL DEF Spec

-----------------------------------------------------------------------------
(* Ownership and data, when no id is finished and resubmitted at once.        *)

LEMMA UnionOthers ==
  ASSUME NEW r \in Reqs
  PROVE  UNION {owned[q] : q \in Reqs} = owned[r] \union OwnedByOthers(r)
BY DEF OwnedByOthers

LEMMA InitIInv == Init => IInv
<1> SUFFICES ASSUME Init PROVE IInv
  OBVIOUS
<1>1. OwnedRecorded /\ DataPreserved
  BY DEF Init, OwnedRecorded, DataPreserved, Elems
<1>2. QED BY <1>1, InitTableInv DEF IInv

LEMMA OwnedStep ==
  ASSUME Resubmit = FALSE, IInv, [Next]_vars
  PROVE  OwnedRecorded'
<1>1. ASSUME NEW r \in Reqs, Grant(r) PROVE OwnedRecorded'
  <2>1. PICK bl \in BlockLists, hits \in SUBSET valid :
          /\ hits # {} => PrefixCaching
          /\ new' = [new EXCEPT ![r] = bl]
          /\ owned' = [owned EXCEPT ![r] = @ \union Elems(bl)]
          /\ valid' = valid \ (Elems(bl) \ hits)
    BY <1>1 DEF Grant
  <2>2. /\ r \notin fin /\ phase = "schedule" /\ new[r] = <<>>
        /\ UNCHANGED <<phase, fin, req_blocks>>
    BY <1>1 DEF Grant, defragVars
  <2>3. new \in [Reqs -> BlockLists] /\ owned \in [Reqs -> SUBSET Block] /\ fin \subseteq Reqs
    BY DEF IInv, TableInv, TypeOK
  <2>4. \A q \in fin' : owned'[q] = {} /\ new'[q] = <<>>
    BY <2>1, <2>2, <2>3 DEF IInv, OwnedRecorded
  <2>5. \A q \in Reqs : owned'[q] \subseteq Elems(req_blocks[q]) \union Elems(new'[q])
    <3>1. Elems(new[r]) = {}
      BY <2>2 DEF Elems
    <3>2. QED BY <2>1, <2>2, <2>3, <3>1 DEF IInv, OwnedRecorded
  <2>6. ~PrefixCaching => valid' \subseteq UNION {owned'[q] : q \in Reqs}
    <3>1. UNION {owned[q] : q \in Reqs} \subseteq UNION {owned'[q] : q \in Reqs}
      BY <2>1, <2>3
    <3>2. QED BY <2>1, <3>1 DEF IInv, OwnedRecorded
  <2>7. QED BY <2>2, <2>4, <2>5, <2>6 DEF OwnedRecorded
<1>2. ASSUME NEW r \in Reqs, Preempt(r) \/ Finish(r) PROVE OwnedRecorded'
  <2>1. /\ owned' = [owned EXCEPT ![r] = {}] /\ new[r] = <<>>
        /\ valid' = ValidWithout(r) /\ fin' \subseteq fin \union {r}
        /\ phase' = phase /\ new' = new /\ req_blocks' = req_blocks
    BY <1>2 DEF Preempt, Finish, defragVars
  <2>2. owned \in [Reqs -> SUBSET Block]
    BY DEF IInv, TableInv, TypeOK
  <2>3. ~PrefixCaching => valid' \subseteq UNION {owned'[q] : q \in Reqs}
    <3>1. \A q \in Reqs \ {r} : owned'[q] = owned[q]
      BY <2>1, <2>2
    <3>2. OwnedByOthers(r) \subseteq UNION {owned'[q] : q \in Reqs}
      BY <3>1 DEF OwnedByOthers
    <3>3. QED BY <2>1, <3>2 DEF ValidWithout
  <2>4. \A q \in fin' : owned'[q] = {} /\ new'[q] = <<>>
    BY <2>1, <2>2 DEF IInv, OwnedRecorded, TableInv, TypeOK
  <2>5. \A q \in Reqs : owned'[q] \subseteq owned[q]
    BY <2>1, <2>2
  <2>6. QED BY <2>1, <2>3, <2>4, <2>5 DEF IInv, OwnedRecorded
<1>3. ASSUME UpdateState PROVE OwnedRecorded'
  <2>1. /\ req_blocks' = [r \in Reqs |-> IF r \in fin THEN <<>> ELSE req_blocks[r] \o new[r]]
        /\ phase = "schedule" /\ phase' = "defragment"
        /\ UNCHANGED <<live, owned, valid, new, fin>>
    BY <1>3 DEF UpdateState, schedVars
  <2>2. ASSUME NEW r \in Reqs PROVE owned[r] \subseteq Elems(req_blocks'[r])
    <3>1. CASE r \in fin
      BY <3>1 DEF IInv, OwnedRecorded
    <3>2. CASE r \notin fin
      <4>1. req_blocks[r] \in Seq(Block) /\ new[r] \in Seq(Block)
        BY BlockListsType DEF IInv, TableInv, TypeOK
      <4>2. Elems(req_blocks[r] \o new[r]) = Elems(req_blocks[r]) \union Elems(new[r])
        BY <4>1, ElemsConcat
      <4>3. QED BY <2>1, <3>2, <4>2 DEF IInv, OwnedRecorded
    <3>3. QED BY <3>1, <3>2
  <2>3. QED BY <2>1, <2>2 DEF IInv, OwnedRecorded
<1>4. ASSUME DefragmentMoves \/ DefragmentSkips PROVE OwnedRecorded'
  BY <1>4 DEF DefragmentMoves, DefragmentSkips, schedVars, defragVars, IInv, OwnedRecorded
<1>5. ASSUME Forward PROVE OwnedRecorded'
  <2>1. PICK written \in SUBSET UNION {owned[r] : r \in Reqs} : valid' = valid \union written
    BY <1>5 DEF Forward
  <2>2. /\ fin' = {} /\ phase = "forward" /\ UNCHANGED <<live, owned, req_blocks>>
    BY <1>5 DEF Forward, defragVars
  <2>3. QED BY <2>1, <2>2 DEF IInv, OwnedRecorded
<1>6. ASSUME UNCHANGED vars PROVE OwnedRecorded'
  BY <1>6 DEF vars, schedVars, defragVars, IInv, OwnedRecorded
<1>7. QED BY <1>1, <1>2, <1>3, <1>4, <1>5, <1>6 DEF Next

(* A block some request owns lies in a used physical block.                   *)
LEMMA OwnedIsUsed ==
  ASSUME IInv, phase # "schedule", NEW r \in Reqs, NEW b \in owned[r]
  PROVE  resolve(b) \in Used
<1>1. PICK i \in DOMAIN req_blocks[r] : req_blocks[r][i] = b
  BY DEF IInv, OwnedRecorded, Elems
<1>2. /\ b \in Block
      /\ req_blocks[r] \in Seq(Block) /\ Len(req_blocks[r]) <= MaxRefs
  BY DEF IInv, TableInv, TypeOK
<1>3. i \in 1..(MaxRefs + MaxNew)
  BY <1>1, <1>2, ConstantsAssumption
<1>4. <<r, i>> \in RefsTo(req_blocks, fwd_mapping_table, resolve(b))
  BY <1>1, <1>3 DEF RefsTo, resolve
<1>5. Cardinality(RefsTo(req_blocks, fwd_mapping_table, resolve(b))) # 0
  BY <1>4, RefsFinite, FS_EmptySet
<1>6. resolve(b) \in Block
  BY <1>2, ResolveOneToOne DEF IInv
<1>7. used_blocks[resolve(b)] = Cardinality(RefsTo(req_blocks, fwd_mapping_table, resolve(b)))
  BY <1>6 DEF IInv, TableInv, RefCountExact
<1>8. QED BY <1>5, <1>6, <1>7, RefsFinite DEF Used

LEMMA DataStep ==
  ASSUME Resubmit = FALSE, IInv, [Next]_vars
  PROVE  DataPreserved'
<1>0. /\ \A b \in valid : kv[resolve(b)] = b
      /\ valid \subseteq Block
      /\ \A b \in Block : resolve(b) \in Block
  BY ResolveOneToOne DEF IInv, TableInv, TypeOK, DataPreserved
<1>1. ASSUME NEW r \in Reqs, Grant(r) \/ Preempt(r) \/ Finish(r) PROVE DataPreserved'
  <2>1. valid' \subseteq valid /\ kv' = kv /\ fwd_mapping_table' = fwd_mapping_table
    BY <1>1 DEF Grant, Preempt, Finish, ValidWithout, defragVars
  <2>2. QED BY <1>0, <2>1 DEF DataPreserved, resolve
<1>2. ASSUME UpdateState PROVE DataPreserved'
  <2> DEFINE granted == UNION {Elems(new[r]) : r \in Reqs}
  <2>1. /\ fwd_mapping_table' = Extend(fwd_mapping_table, granted)
        /\ kv' = kv /\ valid' = valid
    BY <1>2 DEF UpdateState, schedVars
  <2> HIDE DEF granted
  <2>2. \A b : ResolveIn(fwd_mapping_table', b) = ResolveIn(fwd_mapping_table, b)
    BY <2>1, ExtendResolves
  <2>3. QED BY <1>0, <2>1, <2>2 DEF DataPreserved, resolve
<1>3. ASSUME DefragmentMoves PROVE DataPreserved'
  <2>1. /\ fwd_mapping_table' = [b \in DOMAIN fwd_mapping_table |-> Partner(fwd_mapping_table[b])]
        /\ kv' = Swapped /\ valid' = valid /\ phase = "defragment"
    BY <1>3 DEF DefragmentMoves, schedVars
  <2> SUFFICES ASSUME NEW b \in valid PROVE kv'[ResolveIn(fwd_mapping_table', b)] = b
    BY <2>1 DEF DataPreserved, resolve
  <2> DEFINE p == resolve(b)
             q == ResolveIn(fwd_mapping_table', b)
  <2>2. p \in Block /\ kv[p] = b /\ Partner(p) \in Block
    BY <1>0, PartnerFacts
  <2>3. ASSUME b \notin DOMAIN fwd_mapping_table
        PROVE  q = p /\ Partner(p) = p
    <3>1. p = b /\ q = b
      BY <2>1, <2>3 DEF resolve, ResolveIn
    <3>2. p \notin Used
      BY <2>3, <3>1, UsedInTable DEF IInv
    <3>3. ASSUME Partner(p) # p PROVE FALSE
      <4>1. Partner(p) \in Used
        BY <2>2, <3>2, <3>3, PartnerFacts, NotUsedPartner
      <4>2. Partner(p) \in DOMAIN fwd_mapping_table
        BY <4>1, UsedInTable DEF IInv
      <4>3. Partner(Partner(p)) \in DOMAIN fwd_mapping_table
        BY <4>2, PartnerInTable DEF IInv
      <4>4. QED BY <2>3, <3>1, <4>3, PartnerFacts
    <3>4. QED BY <3>1, <3>3
  <2>4. q = Partner(p)
    BY <2>1, <2>3 DEF resolve, ResolveIn
  <2> HIDE DEF p, q
  <2>5. q \in Block /\ Partner(q) = p
    BY <2>2, <2>4, PartnerFacts
  <2>6. CASE PrefixCaching
    BY <2>1, <2>2, <2>5, <2>6 DEF Swapped, q
  <2>7. CASE ~PrefixCaching
    <3>1. PICK r \in Reqs : b \in owned[r]
      BY <2>7 DEF IInv, OwnedRecorded
    <3>2. p \in Used
      BY <2>1, <3>1, OwnedIsUsed DEF p
    <3>3. q = p \/ q \notin Used
      BY <2>4, <3>2, PartnerFacts DEF Free
    <3>4. QED BY <2>1, <2>2, <2>5, <3>2, <3>3 DEF Swapped, q
  <2>8. QED BY <2>6, <2>7, ConstantsAssumption
<1>4. ASSUME DefragmentSkips \/ UNCHANGED vars PROVE DataPreserved'
  BY <1>0, <1>4 DEF DefragmentSkips, vars, schedVars, defragVars, DataPreserved, resolve
<1>5. ASSUME Forward PROVE DataPreserved'
  <2>1. PICK written \in SUBSET UNION {owned[r] : r \in Reqs} :
          /\ kv' = [p \in Block |->
               IF \E b \in written : resolve(b) = p
                 THEN CHOOSE b \in written : resolve(b) = p
                 ELSE IF kv[p] \in written THEN NONE ELSE kv[p]]
          /\ valid' = valid \union written
    BY <1>5 DEF Forward
  <2>2. fwd_mapping_table' = fwd_mapping_table
    BY <1>5 DEF Forward, defragVars
  <2>3. written \subseteq Block
    BY <2>1 DEF IInv, TableInv, TypeOK
  <2> SUFFICES ASSUME NEW b \in valid' PROVE kv'[resolve(b)] = b
    BY <2>2 DEF DataPreserved, resolve
  <2>4. b \in Block /\ resolve(b) \in Block
    BY <1>0, <2>1, <2>3
  <2>5. \A c \in written : resolve(c) = resolve(b) => c = b
    BY <2>3, <2>4, ResolveOneToOne DEF IInv
  <2>6. CASE b \in written
    BY <2>1, <2>4, <2>5, <2>6
  <2>7. CASE b \notin written
    <3>1. ~ \E c \in written : resolve(c) = resolve(b)
      BY <2>5, <2>7
    <3>2. kv[resolve(b)] = b
      BY <1>0, <2>1, <2>7
    <3>3. QED BY <2>1, <2>4, <2>7, <3>1, <3>2
  <2>8. QED BY <2>6, <2>7
<1>6. QED BY <1>1, <1>2, <1>3, <1>4, <1>5 DEF Next

(* As long as no id is finished and submitted again between two engine steps, *)
(* no defragmentation ever loses the data of a block a request may read.      *)
THEOREM DataSafe == Resubmit = FALSE => (Spec => []DataPreserved)
<1> SUFFICES ASSUME Resubmit = FALSE PROVE Spec => []DataPreserved
  OBVIOUS
<1>1. IInv /\ [Next]_vars => IInv'
  BY NextTableInv, OwnedStep, DataStep DEF IInv
<1>2. IInv => DataPreserved
  BY DEF IInv
<1>3. QED BY InitIInv, <1>1, <1>2, PTL DEF Spec
=============================================================================
