------------------------------- MODULE Experts -------------------------------
(***************************************************************************)
(* The mixture-of-experts layer on one rank: routing a token, and the      *)
(* forms in which the rank's share of its experts is computed.  Tensors    *)
(* hold numbers of a field; any function of it does for the sigmoid.       *)
(* Expert ids count from 0, sequences from 1.                              *)
(***************************************************************************)
EXTENDS FieldArithmetic
LOCAL INSTANCE SequencesExt
LOCAL INSTANCE FiniteSetsExt

CONSTANTS ExpertWeights,   \* the experts: gate, up, down and their biases
          TopK,
          NumGroups, TopGroups, Correction, ScalingFactor,  \* grouped routing
          ExpertChunk, TokenTile, GatherTokens  \* of the unfused passes
NumExperts == Len(ExpertWeights)

Reciprocal(a) == IF a % P = 0 THEN 0 ELSE CHOOSE b \in 1..(P - 1) : (a * b) % P = 1
Scaled(v, f) == Vector(Len(v), LAMBDA i : v[i] * f)
Total(v) == Sum(Len(v), LAMBDA i : v[i])
Normalised(v) == Scaled(v, Reciprocal(Total(v)))
Ranked(S, Before(_, _)) == [n \in 1..Cardinality(S) |-> CHOOSE i \in S : Cardinality({j \in S : Before(j, i)}) = n - 1]
\* torch.topk, of scores no two of which are equal
Top(scores, k) == SubSeq(Ranked(DOMAIN scores, LAMBDA i, j : scores[i] > scores[j]), 1, k)
At(v, places) == Vector(Len(places), LAMBDA i : v[places[i]])
Softmax(logits) == Normalised(Vector(Len(logits), LAMBDA i : Exp(logits[i])))
Routed(places, weights) == [ids |-> [i \in DOMAIN places |-> places[i] - 1], weights |-> weights]
----------------------------------------------------------------------------
(* Routing a token, whose scores are its router logits                     *)

SoftmaxRoute(logits) ==
  LET places == Top(logits, TopK) IN Routed(places, Normalised(At(Softmax(logits), places)))
GptOssRoute(logits) ==
  LET places == Top(logits, TopK) IN Routed(places, Softmax([i \in 1..TopK |-> logits[places[i]]]))

Least == -1000
GroupSize == NumExperts \div NumGroups
GroupOf(i) == (i - 1) \div GroupSize
GroupScores(scores, bias) ==
  [g \in 1..NumGroups |->
     LET group == {scores[i] : i \in {j \in DOMAIN scores : GroupOf(j) = g - 1}}
     IN IF bias THEN Max(group) + Max((group \ {Max(group)}) \cup {Least}) ELSE Max(group)]
\* One at a time beyond 1024 tokens, otherwise by topk.
GroupMask(groupScores, many) ==
  LET pick(acc, i) == LET g == CHOOSE g \in DOMAIN acc : \A h \in DOMAIN acc : acc[g] >= acc[h]
                      IN [acc EXCEPT ![g] = Least]
      left == FoldLeft(pick, groupScores, [i \in 1..TopGroups |-> i])
  IN IF many THEN {g \in DOMAIN left : left[g] = Least} ELSE Range(Top(groupScores, TopGroups))
GroupedRoute(scores, bias, renormalize, many) ==
  LET corrected == [i \in DOMAIN scores |-> scores[i] + IF bias THEN Correction[i] ELSE 0]
      mask == GroupMask(GroupScores(corrected, bias), many)
      masked == [i \in DOMAIN scores |-> corrected[i] + IF GroupOf(i) + 1 \in mask THEN 0 ELSE Least]
      places == Top(masked, TopK)
      weights == At(IF bias THEN scores ELSE masked, places)
  IN Routed(places, Scaled(IF renormalize THEN Normalised(weights) ELSE weights, ScalingFactor))

Route(layer, token, many) ==
  CASE layer.route = "softmax" -> SoftmaxRoute(token.logits)
    [] layer.route = "gpt_oss" -> GptOssRoute(token.logits)
    [] OTHER -> GroupedRoute(token.logits, layer.route = "biased", layer.renormalize, many)
----------------------------------------------------------------------------
(* One expert, and the fused op the rank's experts are given to            *)

\* The experts of a layer, which have biases or not (has_bias).
WithoutBias(e) == [e EXCEPT !.gateBias = 0, !.upBias = 0, !.downBias = 0]
LayerExperts(layer) == IF layer.bias THEN ExpertWeights ELSE [i \in 1..NumExperts |-> WithoutBias(ExpertWeights[i])]

Sigmoid(n) == Exp(n)
SiluMlp(e, x) ==
  LET gate == e.gate * x + e.gateBias  up == e.up * x + e.upBias
  IN (((gate % P) * Sigmoid(gate % P)) % P) * ((up % P) * e.down) + e.downBias
Alpha == 2
Beta == 1
Limit == P \div 2
SwigluOaiMlp(e, x) ==
  LET g == Min({(e.gate * x) % P, Limit})  u == Min({(e.up * x) % P, Limit})
  IN ((g * Sigmoid(Alpha * g)) % P) * ((u + Beta) * e.down)

MixtureOfExperts(batch, experts, least, most) ==
  Vector(Len(batch), LAMBDA t :
    Sum(TopK, LAMBDA k :
      LET id == batch[t].ids[k]
      IN IF id \in least..most THEN batch[t].weights[k] * (SiluMlp(experts[id - least + 1], batch[t].x) % P) ELSE 0))

SumOf(vectors) == Vector(Len(vectors[1]), LAMBDA t : Sum(Len(vectors), LAMBDA i : vectors[i][t]))

MoeSlices(count, limit) == IF count <= limit THEN 1 ELSE count \div limit
\* Mutant: every slice starts at the rank's first expert.
SliceBoundsUnshifted(i, group, least) == [first |-> i * group + 1, least |-> least, most |-> least + group - 1]
SliceBounds(i, group, least) == [first |-> i * group + 1, least |-> least + i * group, most |-> least + (i + 1) * group - 1]
\* A slice without biases gets its own experts and their ids.  With biases it gets
\* all experts and all ids, and the biases of its own: the j-th expert is given the
\* j-th of them, what the kernel takes for the others being unknown (here 0).
BiasesFrom(experts, first, group) ==
  [j \in DOMAIN experts |->
     IF j <= group
     THEN LET own == experts[first + j - 1]
          IN [experts[j] EXCEPT !.gateBias = own.gateBias, !.upBias = own.upBias, !.downBias = own.downBias]
     ELSE WithoutBias(experts[j])]
SlicedForward(batch, experts, least, limit, bias) ==
  LET count == Len(experts)
      slices == MoeSlices(count, limit)
      group == count \div slices
      slice(i) == LET b == SliceBounds(i, group, least)
                  IN IF bias
                     THEN MixtureOfExperts(batch, BiasesFrom(experts, b.first, group), least, least + count - 1)
                     ELSE MixtureOfExperts(batch, SubSeq(experts, b.first, b.first + group - 1), b.least, b.most)
  IN IF slices = 1 THEN MixtureOfExperts(batch, experts, least, least + count - 1)
     ELSE SumOf([i \in 1..slices |-> slice(i - 1)])
\* Per-channel fp8 and mxfp4 experts are never sliced.
WholeForward(batch, experts, least) == MixtureOfExperts(batch, experts, least, least + Len(experts) - 1)
----------------------------------------------------------------------------
(* The passes written out in PyTorch                                       *)

\* The weight of each of the rank's experts for each token.
GateWeights(batch, least, count) ==
  Matrix(Len(batch), count, LAMBDA t, e :
    Sum(TopK, LAMBDA k :
      LET local == batch[t].ids[k] - least
          inRange == local \in 0..(count - 1)
      IN IF (IF inRange THEN local ELSE 0) = e - 1 THEN (IF inRange THEN batch[t].weights[k] ELSE 0) ELSE 0))

UnfusedSwigluOai(batch, experts, least) ==
  LET count == Len(experts)
      gate == GateWeights(batch, least, count)
      tile == IF TokenTile <= 0 \/ TokenTile >= Len(batch) THEN Len(batch) ELSE TokenTile
      chunks == (count + ExpertChunk - 1) \div ExpertChunk
      row(t) == Sum(chunks, LAMBDA c :
                  Sum(Min({ExpertChunk, count - (c - 1) * ExpertChunk}), LAMBDA j :
                    LET e == (c - 1) * ExpertChunk + j
                    IN gate[t][e] * (SwigluOaiMlp(experts[e], batch[t].x) % P)))
      tileRows(start) == [i \in 1..Min({tile, Len(batch) - start}) |-> row(start + i)]
  IN FlattenSeq([n \in 1..((Len(batch) + tile - 1) \div tile) |-> tileRows((n - 1) * tile)])

\* The experts worth gathering: those with the most tokens, as many as could
\* be hit, in ascending order.
GatherIds(gate, size) ==
  LET hits(e) == Cardinality({t \in DOMAIN gate : gate[t][e] # 0})
      order == Ranked(1..Len(gate[1]), LAMBDA e, f : hits(e) > hits(f) \/ (hits(e) = hits(f) /\ e > f))
  IN Ranked(Range(SubSeq(order, 1, size)), <)
GatherSwigluOai(batch, experts, least) ==
  LET gate == GateWeights(batch, least, Len(experts))
      ids == GatherIds(gate, Min({Len(experts), Len(batch) * TopK}))
      chunks == (Len(experts) + ExpertChunk - 1) \div ExpertChunk
  IN Vector(Len(batch), LAMBDA t :
       Sum(chunks, LAMBDA c :
         Sum(Len(ids), LAMBDA i : IF (ids[i] - 1) \div ExpertChunk = c - 1
                                  THEN gate[t][ids[i]] * (SwigluOaiMlp(experts[ids[i]], batch[t].x) % P) ELSE 0)))
SwigluOai(batch, experts, least) ==
  IF Len(batch) <= GatherTokens /\ Len(batch) * TopK < Len(experts)
  THEN GatherSwigluOai(batch, experts, least) ELSE UnfusedSwigluOai(batch, experts, least)

GatherSiluFp8(batch, experts, least) ==
  LET gate == GateWeights(batch, least, Len(experts))
      ids == GatherIds(gate, Min({Len(experts), Len(batch) * TopK}))
  IN Vector(Len(batch), LAMBDA t : Sum(Len(ids), LAMBDA i : gate[t][ids[i]] * (SiluMlp(experts[ids[i]], batch[t].x) % P)))
----------------------------------------------------------------------------
\* What a rank computes of the tokens it was dispatched.
ExpertsMin(epRank, local) == epRank * local
Partial(layer, epRank, ranks, batch) ==
  LET local == NumExperts \div ranks
      least == ExpertsMin(epRank, local)
      experts == SubSeq(LayerExperts(layer), least + 1, least + local)
  IN CASE layer.kind = "swigluoai" -> SwigluOai(batch, experts, least)
       [] layer.kind = "gather_fp8" /\ 2 * Len(batch) * TopK <= local -> GatherSiluFp8(batch, experts, least)
       [] layer.kind \in {"gather_fp8", "mxfp4"} -> WholeForward(batch, experts, least)
       [] OTHER -> SlicedForward(batch, experts, least, layer.limit, layer.bias)

(* What the layer promises: the best experts of a token, of the best       *)
(* groups when routing is grouped, weighted by its scores.                 *)

BestExperts(layer, token) ==
  LET score(i) == token.logits[i] + IF layer.route = "biased" THEN Correction[i] ELSE 0
      members(g) == {i \in 1..NumExperts : GroupOf(i) = g}
      best(S) == CHOOSE i \in S : \A j \in S : score(i) >= score(j)
      top(g) == score(best(members(g))) + IF layer.route = "biased" THEN score(best(members(g) \ {best(members(g))})) ELSE 0
      groups == CHOOSE G \in kSubset(TopGroups, 0..(NumGroups - 1)) :
                  \A g \in G : \A h \in (0..(NumGroups - 1)) \ G : top(g) > top(h)
      pool == IF layer.route \in {"softmax", "gpt_oss"} THEN 1..NumExperts ELSE UNION {members(g) : g \in groups}
  IN CHOOSE S \in kSubset(TopK, pool) : \A i \in S : \A j \in pool \ S : score(i) > score(j)
Mixture(layer, token) ==
  LET best == BestExperts(layer, token)
      worth(i) == IF layer.route \in {"softmax", "gpt_oss"} THEN Exp(token.logits[i]) ELSE token.logits[i]
      over(F(_)) == MapThenSumSet(F, best)
      share == CASE layer.route \in {"softmax", "gpt_oss"} -> Reciprocal(over(worth))
                 [] layer.renormalize -> (Reciprocal(over(worth)) * ScalingFactor) % P
                 [] OTHER -> ScalingFactor
      one(i) == IF layer.kind = "swigluoai" THEN SwigluOaiMlp(LayerExperts(layer)[i], token.x) ELSE SiluMlp(LayerExperts(layer)[i], token.x)
      term(i) == ((worth(i) * (one(i) % P)) % P) * share
  IN over(term) % P
=============================================================================
