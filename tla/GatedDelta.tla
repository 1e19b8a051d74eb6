------------------------------ MODULE GatedDelta ------------------------------
(***************************************************************************)
(* The gated delta rule of ops/hpu_gdn_pytorch.py: the recurrence of a     *)
(* decode step, and the chunked form prompts are computed with.            *)
(*                                                                         *)
(* One head and one value channel (heads and the rows of a state do not    *)
(* interact), keys of KDim entries.  Numbers are those of a field of P     *)
(* elements, where exp is n |-> Root^n: what the two forms share is the    *)
(* algebra, and rounding is not modelled.  A token is a record of q, k     *)
(* (vectors), v, g (a logarithm) and b (beta).                             *)
(***************************************************************************)
EXTENDS FieldArithmetic
LOCAL INSTANCE SequencesExt

CONSTANTS KDim, Scale, NeumannIters

LOCAL Ceil(a, b) == (a + b - 1) \div b
ZeroKey == Vector(KDim, LAMBDA i : 0)
----------------------------------------------------------------------------
(* The recurrence.                                                         *)

\* _recurrent_timestep_body
Timestep(t, h) ==
  LET decayed == Vector(KDim, LAMBDA i : h[i] * Exp(t.g))
      v_new == (t.v - Dot(decayed, t.k)) * t.b
      next == Vector(KDim, LAMBDA i : decayed[i] + v_new * t.k[i])
  IN [out |-> <<(Dot(next, t.q) * Scale) % P>>, state |-> next]

\* Outputs so far, with those of one more step.
Continued(acc, s) == [out |-> acc.out \o s.out, state |-> s.state]

\* _recurrent_general_path: the tokens of one sequence.
Recurrent(tokens, h) ==
  FoldLeft(LAMBDA acc, t : Continued(acc, Timestep(t, acc.state)), [out |-> <<>>, state |-> h], tokens)
----------------------------------------------------------------------------
(* The chunked form of one sequence.                                       *)

\* hpu_chunk_gdr_preprocess: cumulative g within each chunk.
Cumsum(tokens, cs) ==
  LET sum[i \in 1..Len(tokens)] == tokens[i].g + IF (i - 1) % cs = 0 THEN 0 ELSE sum[i - 1] IN sum

\* The padding of hpu_chunk_gdr_phase_a; g is cumulative from here on.
TailToken(g) == [q |-> ZeroKey, k |-> ZeroKey, v |-> 0, b |-> 0, g |-> g]
Chunks(tokens, cs) ==
  LET n == Len(tokens)
      sums == Cumsum(tokens, cs)
      at(i) == IF i <= n THEN [tokens[i] EXCEPT !.g = sums[i]] ELSE TailToken(sums[n])
  IN [c \in 1..Ceil(n, cs) |-> [i \in 1..cs |-> at((c - 1) * cs + i)]]

\* _hpu_solve_lower_triangular_batched
Neumann(l) ==
  FoldLeft(LAMBDA inv, k : Minus(inv, Product(inv, Lower(Product(l, inv), -1))),
           Eye(Len(l)), [k \in 1..NeumannIters |-> k])
\* _solve_exact_forward_sub
ForwardSub(l) ==
  FoldLeft(LAMBDA rows, i :
             Append(rows, Vector(Len(l), LAMBDA c :
               (IF c = i THEN 1 ELSE 0) - Sum(i - 1, LAMBDA j : l[i][j] * rows[j][c]))),
           <<>>, [i \in 1..Len(l) |-> i])

\* The products of a chunk's tokens up to each, with the decay in between.
Scores(c, diagonal, products) ==
  Lower(Matrix(Len(c), Len(c), LAMBDA i, j : products[i][j] * Exp(c[i].g - c[j].g)), diagonal)
QueryKeys(c) == Matrix(Len(c), Len(c), LAMBDA i, j : Dot(c[i].q, c[j].k))

\* hpu_chunk_gdr_phase_a: u and w of a chunk.
Lmat(below) == Matrix(Len(below), Len(below), LAMBDA i, j : below[i][j] + IF i = j THEN 1 ELSE 0)
Solved(lmat, exact) == IF exact THEN ForwardSub(lmat) ELSE Neumann(lmat)
PhaseA(c, solved) ==
  [u |-> Product(solved, Matrix(Len(c), 1, LAMBDA i, j : c[i].v * c[i].b)),
   w |-> Product(solved, Matrix(Len(c), KDim, LAMBDA i, j : c[i].k[j] * c[i].b * Exp(c[i].g)))]

\* _hpu_chunk_gdr_phase_b_optimized: out = core + C state, state' = M state + N.
OptimizedStep(c, a, h) ==
  LET n == Len(c)
      last == c[n].g
      attn == Scores(c, 0, QueryKeys(c))
      core == Product(attn, a.u)
      aw == Product(attn, a.w)
      C == Matrix(n, KDim, LAMBDA i, j : c[i].q[j] * Exp(c[i].g) - aw[i][j])
      N == Vector(KDim, LAMBDA j : Sum(n, LAMBDA i : a.u[i][1] * Exp(last - c[i].g) * c[i].k[j]))
      R == Matrix(KDim, KDim, LAMBDA l, j : Sum(n, LAMBDA i : a.w[i][l] * Exp(last - c[i].g) * c[i].k[j]))
      M == Matrix(KDim, KDim, LAMBDA j, l : (IF j = l THEN Exp(last) ELSE 0) - R[l][j])
  IN [out |-> Vector(n, LAMBDA i : (core[i][1] + Dot(C[i], h)) * Scale),
      state |-> Vector(KDim, LAMBDA j : Dot(M[j], h) + N[j])]

\* _phase_b_step
LegacyStep(c, a, h) ==
  LET n == Len(c)
      last == c[n].g
      v_new == Vector(n, LAMBDA i : a.u[i][1] - Dot(a.w[i], h))
      attn == Scores(c, 0, QueryKeys(c))
  IN [out |-> Vector(n, LAMBDA i : (Dot(c[i].q, h) * Exp(c[i].g) + Dot(attn[i], v_new)) * Scale),
      state |-> Vector(KDim, LAMBDA j :
                  h[j] * Exp(last) + Sum(n, LAMBDA i : v_new[i] * Exp(last - c[i].g) * c[i].k[j]))]

\* hpu_chunk_gdr_phase_b: the loop over the chunks, the output cut to the
\* sequence.
Chunked(tokens, cs, path, h) ==
  LET products(c) == Matrix(Len(c), Len(c), LAMBDA i, j : c[i].b * Dot(c[i].k, c[j].k))
      a(c) == PhaseA(c, Solved(Lmat(Scores(c, -1, products(c))), path = "exact"))
      step(c, s) == IF path = "legacy" THEN LegacyStep(c, a(c), s) ELSE OptimizedStep(c, a(c), s)
  IN [FoldLeft(LAMBDA acc, c : Continued(acc, step(c, acc.state)), [out |-> <<>>, state |-> h], Chunks(tokens, cs))
        EXCEPT !.out = SubSeq(@, 1, Len(tokens))]
----------------------------------------------------------------------------
(* Whole batches.                                                          *)

\* _materialize_seq_ranges: the sequences between cu_seqlens, within bounds.
Ranges(cu, total) ==
  LET within(x) == IF x < 0 THEN 0 ELSE IF x > total THEN total ELSE x
  IN [i \in 1..(Len(cu) - 1) |->
        <<within(cu[i]), IF within(cu[i + 1]) < within(cu[i]) THEN within(cu[i]) ELSE within(cu[i + 1])>>]

\* hpu_chunk_gated_delta_rule: flat holds a sequence of n tokens for every
\* state, one after the other; with cu_seqlens n is the first one's length,
\* and the outputs of what is left are zero.
Joined(runs) ==
  [out |-> FlattenSeq([i \in DOMAIN runs |-> runs[i].out]), states |-> [i \in DOMAIN runs |-> runs[i].state]]
ChunkRule(flat, n, cs, path, states) ==
  Joined([i \in 1..Len(states) |-> Chunked(SubSeq(flat, (i - 1) * n + 1, i * n), cs, path, states[i])])
VarlenRule(flat, cu, cs, states) ==
  LET first == Ranges(cu, Len(flat))[1]
  IN [ChunkRule(flat, first[2] - first[1], cs, "legacy", states)
        EXCEPT !.out = @ \o [i \in 1..(Len(flat) - Len(@)) |-> 0]]

\* hpu_fused_recurrent_gated_delta_rule: one token per sequence, states
\* gathered from their slots and copied back; index -1 is the last slot.
FusedDecode(tokens, index, slots) ==
  LET n == Len(slots)
      s(i) == Timestep(tokens[i], slots[(index[i] % n) + 1])
  IN [out |-> [i \in DOMAIN tokens |-> s(i).out[1]],
      slots |-> FoldLeft(LAMBDA acc, i : [acc EXCEPT ![(index[i] % n) + 1] = s(i).state],
                         slots, [i \in DOMAIN tokens |-> i])]

\* _recurrent_general_path: sequences of any length; the state of slot 0 is
\* written back in place of one with an invalid index.
GeneralPath(flat, cu, index, slots) ==
  LET ranges == Ranges(cu, Len(flat))
      valid(i) == index[i] \in 0..(Len(slots) - 1)
      slot(i) == IF valid(i) THEN index[i] + 1 ELSE 1
      one(acc, i) ==
        LET r == Recurrent(SubSeq(flat, ranges[i][1] + 1, ranges[i][2]), acc.slots[slot(i)])
        IN IF ranges[i][2] <= ranges[i][1] THEN acc
           ELSE [out |-> acc.out \o r.out, slots |-> IF valid(i) THEN [acc.slots EXCEPT ![slot(i)] = r.state] ELSE acc.slots]
  IN FoldLeft(one, [out |-> <<>>, slots |-> slots], [i \in DOMAIN ranges |-> i])
=============================================================================
