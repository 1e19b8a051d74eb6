-------------------------- MODULE QuantizedWeights ---------------------------
(***************************************************************************)
(* The conversions of quantised weights, from what checkpoints hold to     *)
(* what the device's kernels want.                                         *)
(***************************************************************************)
EXTENDS FieldArithmetic
LOCAL INSTANCE SequencesExt
LOCAL INSTANCE FiniteSetsExt

(***************************************************************************)
(* Four-bit weights.  A word packs eight values, lowest first; checkpoints *)
(* pack them along the input or the output features, in their own order,   *)
(* and the device's conversion wants them along the output features in     *)
(* order.  Matrices are [inputs][outputs] where nothing else is said.      *)
(***************************************************************************)
Pack == 8
Mask == 16
Words(row) == [w \in 1..(Len(row) \div Pack) |-> SubSeq(row, (w - 1) * Pack + 1, w * Pack)]
\* Packed along the second dimension, and back.
pack_tensor(m) == [i \in DOMAIN m |-> Words(m[i])]
unpack_tensor(m) == [i \in DOMAIN m |-> FlattenSeq(m[i])]
Transposed(m) == SubSeq([j \in 1..Len(m[1]) |-> SubSeq([i \in 1..Len(m) |-> m[i][j]], 1, Len(m))], 1, Len(m[1]))
\* Words along the first dimension, unpacked.
UnpackRows(m) == Transposed(unpack_tensor(Transposed(m)))

\* torch.ops.hpu.convert_from_uint4: groups of equal size without a g_idx.
ConvertFromUint4(words, scales, zeros, gIdx) ==
  LET q == unpack_tensor(words)
      z == unpack_tensor(zeros)
      group(k) == IF gIdx = <<>> THEN (k - 1) \div (Len(q) \div Len(scales)) + 1 ELSE gIdx[k] + 1
  IN Matrix(Len(q), Len(q[1]), LAMBDA k, n : (q[k][n] - z[group(k)][n]) * scales[group(k)][n])
----------------------------------------------------------------------------
\* GPTQ packs the inputs of the weight and the outputs of the zero points,
\* which it stores decremented.
unpack_weight_from_cuda_old_format(qweight) == UnpackRows(qweight)
\* Mutant: the stored zero points are used as they are.
unpack_zeros_as_stored(qzeros) == unpack_tensor(qzeros)
unpack_zeros_from_cuda_old_format(qzeros) ==
  [g \in DOMAIN qzeros |-> [n \in DOMAIN FlattenSeq(qzeros[g]) |-> (FlattenSeq(qzeros[g])[n] + 1) % Mask]]
GptqProcessed(p) ==
  [p EXCEPT !.weight = pack_tensor(unpack_weight_from_cuda_old_format(@)),
            !.zeros = pack_tensor(unpack_zeros_from_cuda_old_format(@))]

\* AWQ packs the outputs of both, in its own order.
awq_order(m) ==
  LET order == <<0, 4, 1, 5, 2, 6, 3, 7>>
      source(j) == ((j - 1) \div Pack) * Pack + order[((j - 1) % Pack) + 1] + 1
  IN [i \in DOMAIN m |-> [j \in DOMAIN m[i] |-> m[i][source(j)]]]
AwqProcessed(p) ==
  [p EXCEPT !.weight = pack_tensor(awq_order(unpack_tensor(@))), !.zeros = pack_tensor(awq_order(unpack_tensor(@)))]

\* Compressed tensors are [outputs][inputs]: weights packed along the
\* inputs, zero points along the outputs; symmetric ones have none.
Repacked(weight) == pack_tensor(UnpackRows(Transposed(weight)))
Bias == 8
FullZeros(groups, outputs) == pack_tensor([g \in 1..groups |-> [n \in 1..outputs |-> Bias]])
Wna16Processed(p, symmetric, inputs, outputs, groupSize) ==
  [p EXCEPT !.weight = Repacked(@), !.scales = Transposed(@),
            !.zeros = IF symmetric THEN FullZeros(IF groupSize > 0 THEN inputs \div groupSize ELSE 1, outputs)
                      ELSE Transposed(@)]
\* Every expert: its part of the weights and scales, one set of zeros.
Wna16MoeProcessed(p, inputs, outputs, groupSize) ==
  [p EXCEPT !.weight = Repacked(@), !.scales = Transposed(@),
            !.zeros = FullZeros(IF groupSize > 0 THEN inputs \div groupSize ELSE 1, outputs)]

GptqWeight(p) == ConvertFromUint4(p.weight, p.scales, p.zeros, p.gIdx)
AwqWeight(p) == ConvertFromUint4(p.weight, p.scales, p.zeros, <<>>)
Wna16Weight(p) == ConvertFromUint4(p.weight, p.scales, p.zeros, <<>>)

(***************************************************************************)
(* Eight-bit weights, [outputs][inputs], with a scale for the tensor, each *)
(* row or each block.  Division is exact in the field: quantising with any *)
(* scale that is not zero loses nothing, so what is lost is a mistake.     *)
(***************************************************************************)
Inverted(a) == CHOOSE b \in 1..(P - 1) : (a * b) % P = 1
Times(m, f) == Matrix(Len(m), Len(m[1]), LAMBDA i, j : m[i][j] * f)
Flip(m) == Matrix(Len(m[1]), Len(m), LAMBDA j, i : m[i][j])
\* The scale of a parameter nothing was loaded into: finfo.min.
Unset == -1000

gaudi_weight_wrapper(value, fp8, adjust) ==
  IF ~adjust THEN value ELSE (value * IF fp8 THEN Inverted(2) ELSE 2) % P

\* One scale per row.
dynamic_quant(data) ==
  LET scales == [i \in DOMAIN data |-> IF Max(Range(data[i])) = 0 THEN 1 ELSE Max(Range(data[i]))]
  IN [weight |-> Matrix(Len(data), Len(data[1]), LAMBDA i, j : data[i][j] * Inverted(scales[i])), scale |-> scales]

\* x and its scale, times a weight [inputs][outputs] and its scale or scales.
apply_fp8_linear_hpu(x, weight, scale, inputScale) ==
  LET xScale == IF inputScale = Unset THEN dynamic_quant(<<x>>).scale[1] ELSE inputScale
      quantised == Vector(Len(x), LAMBDA k : x[k] * Inverted(xScale))
      of(n) == IF Len(scale) = 1 THEN scale[1] ELSE scale[n]
  IN Vector(Len(weight[1]), LAMBDA n :
       ((Sum(Len(x), LAMBDA k : quantised[k] * weight[k][n]) * xScale) % P) * of(n))
----------------------------------------------------------------------------
(* Blocks                                                                  *)

pad_weight(weight, block) ==
  LET up(n, b) == n + ((b - (n % b)) % b)
  IN Matrix(up(Len(weight), block[1]), up(Len(weight[1]), block[2]),
            LAMBDA i, j : IF i <= Len(weight) /\ j <= Len(weight[1]) THEN weight[i][j] ELSE 0)
unpad_weight(weight, rows, columns) == Matrix(rows, columns, LAMBDA i, j : weight[i][j])
dequant_block_fp8_weight_naive(weight, scale, block) ==
  Matrix(Len(weight), Len(weight[1]), LAMBDA i, j :
    weight[i][j] * scale[(i - 1) \div block[1] + 1][(j - 1) \div block[2] + 1])

fp8_block_linear_postprocess_weights(layer, block, forceChannel) ==
  LET rows == Len(layer.weight)  columns == Len(layer.weight[1])
      padded == pad_weight(layer.weight, block)
      channels == dynamic_quant(unpad_weight(dequant_block_fp8_weight_naive(padded, layer.scale, block), rows, columns))
  IN IF forceChannel THEN [layer EXCEPT !.weight = channels.weight, !.scale = channels.scale]
     ELSE [layer EXCEPT !.weight = padded, !.origM = rows, !.origN = columns]

BlockWeight(layer, block) ==
  unpad_weight(dequant_block_fp8_weight_naive(layer.weight, layer.scale, block), layer.origM, layer.origN)
apply_block_fp8_linear_hpu_dequant(x, layer, block) ==
  LET w == BlockWeight(layer, block) IN Vector(Len(w), LAMBDA n : Dot(x, w[n]))
apply_block_fp8_linear_hpu(x, layer, block, forceChannel) ==
  IF forceChannel THEN apply_fp8_linear_hpu(x, Flip(layer.weight), layer.scale, Unset)
  ELSE apply_block_fp8_linear_hpu_dequant(x, layer, block)
----------------------------------------------------------------------------
(* One scale per fused matrix, of which a checkpoint may hold just one     *)

per_tensor_dequantize(rows, scale) == Times(rows, scale)
requantize_with_max_scale(weight, scales, widths) ==
  LET max == Max(Range(scales))
      start(s) == Sum(s - 1, LAMBDA t : widths[t])
      one(s) == IF widths[s] = 0 THEN <<>>
                ELSE Times(per_tensor_dequantize(SubSeq(weight, start(s) + 1, start(s) + widths[s]), scales[s]), Inverted(max))
  IN [weight |-> IF scales[Len(scales)] > Unset THEN FlattenSeq([s \in DOMAIN widths |-> one(s)]) ELSE weight,
      scale |-> max]

\* Fp8LinearMethod
Fp8Processed(layer, widths) ==
  LET one == requantize_with_max_scale(layer.weight, layer.scale, widths)
  IN [layer EXCEPT !.weight = Flip(one.weight), !.scale = <<one.scale>>,
                   !.inputScale = IF @ = <<>> THEN @ ELSE <<Max(Range(@))>>]
\* HPUModelOptFp8LinearMethod
ModelOptProcessed(layer, widths) ==
  LET one == IF \A s \in DOMAIN layer.scale : layer.scale[s] = layer.scale[1]
             THEN [weight |-> layer.weight, scale |-> Max(Range(layer.scale))]
             ELSE requantize_with_max_scale(layer.weight, layer.scale, widths)
  IN [layer EXCEPT !.weight = Flip(one.weight), !.scale = <<one.scale>>, !.inputScale = <<Max(Range(@))>>]
\* HPUCompressedTensorsW8A8Fp8: a scale for every row of its matrix.
ConvertToChannelwise(scales, widths) == FlattenSeq([s \in DOMAIN widths |-> [i \in 1..widths[s] |-> scales[s]]])
W8A8Fp8Processed(layer, strategy, widths) ==
  [layer EXCEPT !.weight = Flip(@), !.scale = IF strategy = "tensor" THEN ConvertToChannelwise(@, widths) ELSE @,
                !.inputScale = IF @ = <<>> THEN @ ELSE <<Max(Range(@))>>]
Int8Processed(layer) == [layer EXCEPT !.weight = Matrix(Len(@), Len(@[1]), LAMBDA i, j : @[i][j] * layer.scale[i])]

Fp8Applied(x, layer) ==
  apply_fp8_linear_hpu(x, layer.weight, layer.scale, IF layer.inputScale = <<>> THEN Unset ELSE layer.inputScale[1])
Int8Applied(x, layer) == Vector(Len(layer.weight), LAMBDA n : Dot(x, layer.weight[n]))
\* What the calibration tool is given instead.
dequant_fp8_weight(layer, strategy, block) ==
  IF strategy = "channel" THEN Flip(Matrix(Len(layer.weight), Len(layer.weight[1]), LAMBDA k, n : layer.weight[k][n] * layer.scale[n]))
  ELSE BlockWeight(layer, block)
----------------------------------------------------------------------------
(* Experts: w13 stacks the gate and the up projection                      *)

fp8_channel_moe_prepare_weights(expert) ==
  LET ones(m) == [i \in DOMAIN m |-> 1]
      expanded(scales, rows) == [i \in 1..rows |-> scales[(i - 1) \div (rows \div Len(scales)) + 1]]
      s13 == IF expert.scale13 = <<>> THEN ones(expert.w13) ELSE expert.scale13
      s2 == IF expert.scale2 = <<>> THEN ones(expert.w2) ELSE expert.scale2
      perTensor == Len(s2) = 1 /\ Len(s13) = 2
  IN [expert EXCEPT !.scale13 = IF perTensor THEN expanded(s13, Len(expert.w13)) ELSE s13,
                    !.scale2 = IF perTensor THEN expanded(s2, Len(expert.w2)) ELSE s2]
fp8_block_moe_prepare_weights(expert, block, forceChannel) ==
  LET c13 == dynamic_quant(dequant_block_fp8_weight_naive(expert.w13, expert.scale13, block))
      c2 == dynamic_quant(dequant_block_fp8_weight_naive(expert.w2, expert.scale2, block))
  IN IF forceChannel
     THEN fp8_channel_moe_prepare_weights([w13 |-> c13.weight, scale13 |-> c13.scale, w2 |-> c2.weight, scale2 |-> c2.scale])
     ELSE expert
\* HPUCompressedTensorsW8A8Fp8MoEMethod, one scale for gate, up and down.
CtMoeProcessed(expert, strategy, block, forceChannel) ==
  LET repeated(scale, rows) == [i \in 1..rows |-> scale]
      half == Len(expert.w13) \div 2
  IN CASE strategy = "tensor" -> fp8_channel_moe_prepare_weights(
              [expert EXCEPT !.scale13 = repeated(@[1], half) \o repeated(@[2], half),
                             !.scale2 = repeated(@[1], Len(expert.w2))])
       [] strategy = "block" -> fp8_block_moe_prepare_weights(expert, block, forceChannel)
       [] OTHER -> fp8_channel_moe_prepare_weights(expert)
Fp8MoeProcessed(expert, strategy, block, forceChannel) ==
  IF strategy = "block" THEN fp8_block_moe_prepare_weights(expert, block, forceChannel)
  ELSE fp8_channel_moe_prepare_weights(expert)
\* What the fused op multiplies with.
get_dequant_weight(weight, scale, blocks, block) ==
  IF blocks THEN dequant_block_fp8_weight_naive(weight, scale, block)
  ELSE Matrix(Len(weight), Len(weight[1]), LAMBDA i, j : weight[i][j] * scale[i])
----------------------------------------------------------------------------
(* The key-value cache: scales of the checkpoint, to those of the device   *)

KvScale(scale, checkpointMax, deviceMax) == (deviceMax * Inverted((scale * checkpointMax) % P)) % P
\* A latent cache holds keys and values in one, under one scale.
KvScales(scales, mla, checkpointMax, deviceMax) ==
  LET aligned == IF mla THEN [scales EXCEPT !.k = Max({scales.k, scales.v}), !.v = Max({scales.k, scales.v})] ELSE scales
  IN [n \in {"q", "k", "v"} |-> KvScale(aligned[n], checkpointMax, deviceMax)]
\* A query against a cached key, and an attention weight times its value.
ThroughCache(q, k, a, v, s, mla) ==
  LET key == k * s.k  value == IF mla THEN v * s.k ELSE v * s.v
  IN <<((((q * s.q) % P) * (key % P)) % P) * Inverted((s.q * s.k) % P) % P, ((a * (value % P)) % P) * Inverted(s.v) % P>>
=============================================================================
