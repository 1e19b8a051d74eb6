--------------------------- MODULE QuantizedLayers ---------------------------
(***************************************************************************)
(* A quantised layer from its checkpoint to its output: the tensors of the *)
(* file arrive in any order, each rank takes its part, the method turns    *)
(* them into what the device's kernels want, and applies them.             *)
(***************************************************************************)
EXTENDS QuantizedWeights
LOCAL INSTANCE SequencesExt
LOCAL INSTANCE FiniteSetsExt

CONSTANTS
  Configs,            \* method, shapes, options
  Value(_, _, _),     \* the quantised weight of (shard, output, input)
  ScaleOf(_, _, _),   \* the scale of (shard, row group, column group)
  ZeroOf(_, _, _),    \* and its zero point
  InputOf(_, _),      \* the values of an input
  CheckpointMax, DeviceMax  \* the largest fp8 number of either

VARIABLES config,
  loaded,   \* the tensors of the file that have arrived
  ready,    \* process_weights_after_loading has run
  layers,   \* rank -> the parameters of its layer
  output    \* the input applied last and what came out
vars == <<config, loaded, ready, layers, output>>

Shards == 1..Len(config.widths)
Linear == config.kind = "linear"
\* The scales of an attention layer's query, keys and values.
Cache == config.kind = "cache"
PackedKind == config.method \in {"gptq", "awq", "wna16"}
----------------------------------------------------------------------------
(* The checkpoint, in its format                                           *)

\* A fused file holds one matrix with one scale.
ScaleShard(s) == IF config.fused THEN 1 ELSE s
RowGroup(i) == (i - 1) \div config.rows + 1
ColumnGroup(j) == IF config.gIdx = <<>> THEN (j - 1) \div config.columns + 1 ELSE config.gIdx[j] + 1
\* The third matrix of an expert has the outputs of the first as inputs.
InputsOf(s) == IF ~Linear /\ s % 3 = 0 THEN config.widths[s - 2] ELSE config.inputs
Groups(s) == IF config.gIdx = <<>> THEN (InputsOf(s) + config.columns - 1) \div config.columns ELSE Max(Range(config.gIdx)) + 1
RowGroups(s) == (config.widths[s] + config.rows - 1) \div config.rows

\* A rank's part of n things.
Part(r, n) == [k \in 1..(n \div config.tp) |-> (r - 1) * (n \div config.tp) + k]
Values(s, r) == LET part == Part(r, InputsOf(s)) IN [i \in 1..config.widths[s] |-> [j \in DOMAIN part |-> Value(s, i, part[j])]]
\* The four-bit files: GPTQ, AWQ, compressed tensors.
AwqPacked(row) ==
  [w \in DOMAIN Words(row) |-> [n \in 1..Pack |-> Words(row)[w][<<0, 2, 4, 6, 1, 3, 5, 7>>[n] + 1]]]
FileWeight(s, r) ==
  CASE config.method = "gptq" -> Transposed(pack_tensor(Values(s, r)))
    [] config.method = "awq" -> [k \in DOMAIN Transposed(Values(s, r)) |-> AwqPacked(Transposed(Values(s, r))[k])]
    [] config.method = "wna16" -> pack_tensor(Values(s, r))
    [] OTHER -> [i \in DOMAIN Values(s, r) |-> [j \in DOMAIN Values(s, r)[i] |->
                   gaudi_weight_wrapper(Values(s, r)[i][j], TRUE, config.gaudi2 /\ config.method # "int8")]]

\* A rank has the groups of its inputs, or all of them: those of a GPTQ
\* layer, and the one group of all inputs.
RankGroups(s, r) ==
  IF config.method = "gptq" \/ Groups(s) = 1 THEN [g \in 1..Groups(s) |-> g] ELSE Part(r, Groups(s))
GroupMatrix(s, r, F(_, _)) == [g \in DOMAIN RankGroups(s, r) |-> [n \in 1..config.widths[s] |-> F(n, RankGroups(s, r)[g])]]
FileZeros(s, r) ==
  LET z == GroupMatrix(s, r, LAMBDA n, g : ZeroOf(s, n, g))
  IN CASE config.method = "gptq" -> [g \in DOMAIN z |-> Words([n \in DOMAIN z[g] |-> (z[g][n] + Mask - 1) % Mask])]
       [] config.method = "awq" -> [g \in DOMAIN z |-> AwqPacked(z[g])]
       [] OTHER -> Transposed(pack_tensor(z))
FileScales(s, r) ==
  CASE PackedKind -> LET m == GroupMatrix(s, r, LAMBDA n, g : ScaleOf(s, n, g)) IN IF config.method = "wna16" THEN Transposed(m) ELSE m
    [] config.strategy = "tensor" -> gaudi_weight_wrapper(ScaleOf(s, 1, 1), FALSE, config.gaudi2)
    [] config.strategy = "channel" ->
         [i \in 1..config.widths[s] |-> gaudi_weight_wrapper(ScaleOf(s, i, 1), FALSE, config.gaudi2 /\ config.method # "int8")]
    [] OTHER -> [a \in 1..RowGroups(s) |-> [g \in DOMAIN RankGroups(s, r) |-> gaudi_weight_wrapper(ScaleOf(s, a, RankGroups(s, r)[g]), FALSE, config.gaudi2)]]
FileInputScale(s) == gaudi_weight_wrapper(ScaleOf(s, 1, 2), FALSE, config.gaudi2)
\* Every GPTQ layer has a g_idx, of the groups in order unless reordered.
RankGIdx(r) == LET part == Part(r, config.inputs) IN [j \in DOMAIN part |-> ColumnGroup(part[j]) - 1]
----------------------------------------------------------------------------
(* create_weights and the loader                                           *)

Created ==
  [s \in Shards |-> [weight |-> <<>>, zeros |-> <<>>, inputScale |-> Unset,
                     scales |-> IF ~PackedKind /\ config.strategy = "tensor" THEN Unset ELSE <<>>]]
Tensors == (IF Cache THEN {} ELSE {<<s, "weight">> : s \in Shards}) \cup (IF config.fused THEN {<<1, "scales">>} ELSE {<<s, "scales">> : s \in Shards})

Load(t) ==
  LET s == t[1]
  IN /\ ~ready /\ t \in Tensors \ loaded
     /\ loaded' = loaded \cup {t}
     /\ layers' = [r \in DOMAIN layers |->
          IF t[2] = "weight" THEN [layers[r] EXCEPT ![s].weight = FileWeight(s, r)]
          ELSE [layers[r] EXCEPT ![s].scales = FileScales(s, r),
                                 ![s].zeros = IF PackedKind /\ ~config.symmetric THEN FileZeros(s, r) ELSE @,
                                 ![s].inputScale = IF config.static THEN FileInputScale(s) ELSE @]]
     /\ UNCHANGED <<config, ready, output>>

Along(parts) == [k \in DOMAIN parts[1] |-> FlattenSeq([s \in DOMAIN parts |-> parts[s][k]])]
\* The shards of a linear layer in their one parameter.
FusedLayer(r) ==
  LET l == layers[r]
      all(F(_)) == [s \in Shards |-> F(s)]
      onOutputs == config.method \in {"gptq", "awq"}
      join(parts) == IF onOutputs THEN Along(parts) ELSE FlattenSeq(parts)
      zeros == all(LAMBDA s : l[s].zeros)
  IN [weight |-> join(all(LAMBDA s : l[s].weight)),
      scales |-> join(all(LAMBDA s : l[s].scales)),
      zeros |-> IF zeros[1] = <<>> THEN <<>> ELSE join(zeros),
      gIdx |-> RankGIdx(r)]
ScaledLayer(r) ==
  LET l == layers[r]
      scales == [s \in Shards |-> l[s].scales]
  IN [weight |-> FlattenSeq([s \in Shards |-> l[s].weight]),
      scale |-> IF config.strategy = "tensor" THEN scales ELSE FlattenSeq(scales),
      inputScale |-> IF config.static THEN [s \in Shards |-> l[s].inputScale] ELSE <<>>,
      origM |-> 0, origN |-> 0]
\* Three shards are an expert: gate, up, down.
Experts == 1..(Len(config.widths) \div 3)
PackedExpert(r, e) ==
  LET l(n) == layers[r][(e - 1) * 3 + n]
  IN [w13 |-> [weight |-> l(1).weight \o l(2).weight, scales |-> l(1).scales \o l(2).scales, zeros |-> <<>>],
      w2 |-> [weight |-> l(3).weight, scales |-> l(3).scales, zeros |-> <<>>]]
ScaledExpert(r, e) ==
  LET l(n) == layers[r][(e - 1) * 3 + n]
  IN [w13 |-> l(1).weight \o l(2).weight, w2 |-> l(3).weight,
      scale13 |-> IF config.strategy = "tensor" THEN <<l(1).scales, l(2).scales>> ELSE l(1).scales \o l(2).scales,
      scale2 |-> IF config.strategy = "tensor" THEN <<l(3).scales>> ELSE l(3).scales]
----------------------------------------------------------------------------
(* process_weights_after_loading                                           *)

Block == <<config.rows, config.columns>>
GroupSize(s) == IF Groups(s) = 1 THEN -1 ELSE config.columns
Outputs == Sum(Len(config.widths), LAMBDA s : config.widths[s])
LinearProcessed(r) ==
  CASE config.method = "gptq" -> GptqProcessed(FusedLayer(r))
    [] config.method = "awq" -> AwqProcessed(FusedLayer(r))
    [] config.method = "wna16" -> Wna16Processed(FusedLayer(r), config.symmetric, config.inputs \div config.tp, Outputs, GroupSize(1))
    [] config.strategy = "block" -> fp8_block_linear_postprocess_weights(ScaledLayer(r), Block, config.forceChannel)
    [] config.method = "fp8" -> Fp8Processed(ScaledLayer(r), config.widths)
    [] config.method = "modelopt" -> ModelOptProcessed(ScaledLayer(r), config.widths)
    [] config.method = "int8" -> Int8Processed(ScaledLayer(r))
    [] OTHER -> W8A8Fp8Processed(ScaledLayer(r), config.strategy, config.widths)
ExpertProcessed(r, e) ==
  CASE config.method = "wna16" ->
         LET p == PackedExpert(r, e)
             wide == 2 * config.widths[1]
         IN [w13 |-> Wna16MoeProcessed(p.w13, config.inputs, wide, GroupSize(1)),
             w2 |-> Wna16MoeProcessed(p.w2, config.widths[1], config.widths[3], GroupSize(3))]
    [] config.method = "fp8" -> Fp8MoeProcessed(ScaledExpert(r, e), config.strategy, Block, config.forceChannel)
    [] OTHER -> CtMoeProcessed(ScaledExpert(r, e), config.strategy, Block, config.forceChannel)

Process ==
  /\ ~ready /\ loaded = Tensors
  /\ ready' = TRUE
  /\ layers' = [r \in DOMAIN layers |->
       CASE Linear -> LinearProcessed(r)
         [] Cache -> KvScales([q |-> layers[r][1].scales, k |-> layers[r][2].scales, v |-> layers[r][3].scales],
                              config.latent, CheckpointMax, DeviceMax)
         [] OTHER -> [e \in Experts |-> ExpertProcessed(r, e)]]
  /\ UNCHANGED <<config, loaded, output>>
----------------------------------------------------------------------------
(* apply                                                                   *)

Times4Bit(x, w) == Vector(Len(w[1]), LAMBDA n : Sum(Len(x), LAMBDA k : x[k] * w[k][n]))
LinearApplied(r, x) ==
  LET l == layers[r]
  IN CASE config.method = "gptq" -> Times4Bit(x, GptqWeight(l))
       [] config.method = "awq" -> Times4Bit(x, AwqWeight(l))
       [] config.method = "wna16" -> Times4Bit(x, Wna16Weight(l))
       [] config.calibrated -> LET w == dequant_fp8_weight(l, config.strategy, Block) IN Vector(Len(w), LAMBDA n : Dot(x, w[n]))
       [] config.strategy = "block" -> apply_block_fp8_linear_hpu(x, l, Block, config.forceChannel)
       [] config.method = "int8" -> Int8Applied(x, l)
       [] OTHER -> Fp8Applied(x, l)
Gated(w13x) ==
  LET half == Len(w13x) \div 2
  IN Vector(half, LAMBDA i : ((w13x[i] * Exp(w13x[i])) % P) * w13x[half + i])
ExpertApplied(r, e, x) ==
  LET l == layers[r][e]
      blocks == config.strategy = "block" /\ ~config.forceChannel
      through(w, y) == Vector(Len(w), LAMBDA n : Dot(y, w[n]))
  IN IF PackedKind THEN Times4Bit(Gated(Times4Bit(x, Wna16Weight(l.w13))), Wna16Weight(l.w2))
     ELSE through(get_dequant_weight(l.w2, l.scale2, blocks, Block),
                  Gated(through(get_dequant_weight(l.w13, l.scale13, blocks, Block), x)))

AllInputs(n) == [k \in 1..config.inputs |-> InputOf(n, k)]
RankInput(n, r) == LET part == Part(r, config.inputs) IN [k \in DOMAIN part |-> AllInputs(n)[part[k]]]
Apply(n) ==
  /\ ready
  /\ output' = [input |-> n,
                of |-> CASE Linear -> LET part(r) == LinearApplied(r, RankInput(n, r))
                                      IN Vector(Outputs, LAMBDA i : Sum(config.tp, LAMBDA r : part(r)[i]))
                         [] Cache -> LET x == AllInputs(n) IN ThroughCache(x[1], x[2], x[3], x[4], layers[1], config.latent)
                         [] OTHER -> FlattenSeq([e \in Experts |-> ExpertApplied(1, e, AllInputs(n))])]
  /\ UNCHANGED <<config, loaded, ready, layers>>
----------------------------------------------------------------------------
Init ==
  /\ config \in Configs /\ loaded = {} /\ ready = FALSE
  /\ layers = [r \in 1..config.tp |-> Created] /\ output = [input |-> 0, of |-> <<>>]
Next == (\E t \in Tensors : Load(t)) \/ Process \/ \E n \in {1, 2} : Apply(n)
Spec == Init /\ [][Next]_vars
----------------------------------------------------------------------------
Zero(s, i, g) == IF ~PackedKind THEN 0 ELSE IF config.symmetric THEN Bias ELSE ZeroOf(s, i, g)
TrueWeight(s, i, j) ==
  LET g == ColumnGroup(j) IN ((Value(s, i, j) - Zero(s, i, g)) * ScaleOf(ScaleShard(s), RowGroup(i), g)) % P
TrueOutput(s, x) == Vector(config.widths[s], LAMBDA i : Sum(Len(x), LAMBDA j : x[j] * TrueWeight(s, i, j)))

\* What a layer gives is its input times the weights its checkpoint stands
\* for, each with its own scale and zero point, and a key or a value comes
\* out of the cache as it went in: no order of loading, layout, repacking,
\* padding, requantisation, alignment or split over ranks loses one.
WeightsExact ==
  LET x == AllInputs(output.input)
  IN output.input # 0 =>
       output.of = CASE Linear -> FlattenSeq([s \in Shards |-> TrueOutput(s, x)])
                     [] Cache -> <<(x[1] * x[2]) % P, (x[3] * x[4]) % P>>
                     [] OTHER -> FlattenSeq([e \in Experts |->
                          TrueOutput(3 * e, Gated(TrueOutput(3 * e - 2, x) \o TrueOutput(3 * e - 1, x)))])
=============================================================================
