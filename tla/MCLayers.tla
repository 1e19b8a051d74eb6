------------------------------ MODULE MCLayers ------------------------------
(* What the layers of a model are given and what they compute, in one run: the *)
(* bucket lists of one model runner, the padding data-parallel ranks agree on  *)
(* and their experts, quantised layers from their checkpoint on, and recurrent *)
(* layers in pieces.  An initial state begins one of the four; the variables   *)
(* of the others rest.                                                         *)
EXTENDS FieldArithmetic, TLC

CONSTANTS TopK, NumGroups, TopGroups, ScalingFactor, ExpertChunk, TokenTile, GatherTokens,
          ExpertWeights, Correction, PadToken, Steps(_), Buckets, RankConfigs,
          BucketConfigs, MaxLookups,
          CheckpointMax, DeviceMax, WeightConfigs, Value(_, _, _), ScaleOf(_, _, _), ZeroOf(_, _, _), InputOf(_, _),
          KDim, Scale, NeumannIters, D, A, Weights, DeltaStreams, SsmStreams, Junk, ScanConfigs

VARIABLES part, config,
          prompt_buckets, decode_buckets, seed_decode_buckets, fallback_max_ctx, last, missed, lookups,
          plan, stage, calls, asked, dims, work, forwards, outputs,
          loaded, ready, layers, output,
          streams, done, state, out

BM == INSTANCE BucketManager WITH Configs <- BucketConfigs
DP == INSTANCE DataParallel WITH Configs <- RankConfigs
QL == INSTANCE QuantizedLayers WITH Configs <- WeightConfigs
RL == INSTANCE RecurrentLayers WITH Configs <- ScanConfigs

bucketVars == <<prompt_buckets, decode_buckets, seed_decode_buckets, fallback_max_ctx, last, missed, lookups>>
rankVars == <<plan, stage, calls, asked, dims, work, forwards, outputs>>
weightVars == <<loaded, ready, layers, output>>
scanVars == <<streams, done, state, out>>
vars == <<part, config, bucketVars, rankVars, weightVars, scanVars>>
-----------------------------------------------------------------------------
Bucketed == [strategy |-> "exp", max_num_seqs |-> 4, max_num_prefill_seqs |-> 2, block_size |-> 4,
         attn_block_size |-> 4, max_num_batched_tokens |-> 16, max_model_len |-> 24,
         long_ctx_threshold |-> 1000, contiguous_pa |-> FALSE, merged_prefill |-> FALSE,
         mamba_chunk_size |-> 0, mamba_chunk_size_is_explicit |-> FALSE,
         num_speculative_tokens |-> 0, num_hpu_blocks |-> 9, skip_decode_block_clamp |-> FALSE,
         use_sliding_window |-> FALSE, slice_thld |-> 8, slice_size |-> 4,
         fallback_bs_base_step |-> 2, fallback_seq_base_step |-> 4, fallback_blocks_base_step |-> 4]
MCBucketConfigs ==
  {Bucketed,
   [Bucketed EXCEPT !.strategy = "lin", !.max_num_batched_tokens = 18, !.max_num_seqs = 3, !.num_speculative_tokens = 1],
   [Bucketed EXCEPT !.strategy = "pad", !.num_speculative_tokens = 1],
   [Bucketed EXCEPT !.contiguous_pa = TRUE, !.num_speculative_tokens = 2, !.max_num_seqs = 3, !.max_model_len = 12, !.num_hpu_blocks = 7],
   [Bucketed EXCEPT !.long_ctx_threshold = 20, !.strategy = "pad", !.contiguous_pa = TRUE, !.max_num_seqs = 3],
   [Bucketed EXCEPT !.long_ctx_threshold = 20, !.num_speculative_tokens = 1],
   [Bucketed EXCEPT !.mamba_chunk_size = 8, !.mamba_chunk_size_is_explicit = TRUE, !.attn_block_size = 2, !.max_num_seqs = 2, !.max_model_len = 16,
                !.fallback_seq_base_step = 8],
   [Bucketed EXCEPT !.strategy = "lin", !.use_sliding_window = TRUE]}

Token(x, logits) == [x |-> x, logits |-> logits]
TokenA == Token(3, <<2, 7, 4, 9>>)
TokenB == Token(5, <<8, 1, 6, 3>>)
TokenC == Token(11, <<5, 3, 9, 1>>)
MCPad == Token(2, <<5, 1, 2, 6>>)

Expert(g, u, d, gb, ub, db) == [gate |-> g, up |-> u, down |-> d, gateBias |-> gb, upBias |-> ub, downBias |-> db]
MCExperts == <<Expert(2, 3, 5, 1, 2, 3), Expert(7, 4, 6, 0, 1, 9), Expert(1, 9, 8, 5, 3, 0), Expert(6, 5, 2, 4, 7, 1)>>
MCCorrection == <<3, 9, 0, 1>>

Layer(kind, route, limit, sp) ==
  [kind |-> kind, route |-> route, limit |-> limit, sp |-> sp, renormalize |-> route # "groups", bias |-> FALSE]
Biased(layer) == [layer EXCEPT !.bias = TRUE]
Config(ranks, tp, layer, options) ==
  [ranks |-> ranks, tp |-> tp, layer |-> layer, dummyTokens |-> 2,
   kvTransfer |-> "kv" \in options, window |-> "window" \in options, many |-> "many" \in options]

MCRankConfigs ==
  {Config(2, 1, Layer("bf16", "softmax", 1, FALSE), {}), Config(2, 1, Biased(Layer("mxfp4", "biased", 4, FALSE)), {"window", "many"}),
   Config(2, 2, Layer("swigluoai", "gpt_oss", 4, FALSE), {"kv"}), Config(2, 2, Layer("bf16", "groups", 4, TRUE), {}),
   Config(1, 2, Layer("gather_fp8", "biased", 4, TRUE), {}), Config(1, 1, Layer("gather_fp8", "groups", 4, FALSE), {"many"}),
   Config(1, 1, Layer("swigluoai", "softmax", 4, FALSE), {}), Config(1, 1, Layer("bf16", "softmax", 2, FALSE), {}),
   Config(1, 1, Biased(Layer("bf16", "gpt_oss", 4, FALSE)), {})}
\* Slices of experts with biases, and of a number of experts they do not divide.
MCBiasedSlices == {Config(1, 1, Biased(Layer("bf16", "gpt_oss", 2, FALSE)), {})}
MCUnevenSlices == {Config(1, 1, Layer("bf16", "softmax", 2, FALSE), {})}
MCFiveExperts == Append(MCExperts, Expert(3, 8, 4, 0, 0, 0))
MCFivePad == Token(2, <<5, 1, 2, 6, 3>>)
MCFiveSteps(c) == {[batches |-> <<>>, decodes |-> <<Token(3, <<2, 7, 4, 9, 8>>)>>]}
MCSteps(c) ==
  {[batches |-> <<>>, decodes |-> <<TokenA>>], [batches |-> <<>>, decodes |-> <<TokenB, TokenA, TokenC>>],
   [batches |-> <<DP!Prefill(<<<<TokenA, TokenB>>, <<TokenC>>>>, 0)>>, decodes |-> <<>>],
   [batches |-> <<DP!Prefill(<<<<TokenC, TokenB, TokenA>>>>, 0), DP!Prefill(<<<<TokenB>>>>, 1)>>, decodes |-> <<TokenC>>]}

MCValue(s, i, j) == (5 * s + 3 * i + 7 * j + i * j) % 16
MCScaleOf(s, a, b) == ((4 * s + 5 * a + 3 * b + a * b) % 30) + 1
MCZeroOf(s, i, g) == ((3 * s + i + 5 * g) % 15) + 1
MCInputOf(n, k) == (n * n + 2 * k) % 31

Of(kind, method, strategy, widths, inputs, rows, columns, options) ==
  [kind |-> kind, method |-> method, strategy |-> strategy, widths |-> widths, inputs |-> inputs,
   rows |-> rows, columns |-> columns, tp |-> IF "tp2" \in options THEN 2 ELSE 1,
   gIdx |-> IF "desc_act" \in options THEN [j \in 1..inputs |-> (5 * j) % 4] ELSE <<>>,
   gaudi2 |-> "gaudi2" \in options, forceChannel |-> "channel" \in options, static |-> "static" \in options,
   latent |-> "latent" \in options,
   fused |-> "fused" \in options, symmetric |-> "symmetric" \in options, calibrated |-> "calibrated" \in options]

MCWeightConfigs ==
  {Of("linear", "fp8", "block", <<2, 4>>, 3, 2, 2, {"gaudi2"}), Of("linear", "fp8", "block", <<3>>, 8, 2, 2, {"tp2"}),
   Of("linear", "ct", "block", <<3>>, 3, 2, 2, {"channel"}), Of("linear", "ct", "block", <<3>>, 3, 2, 2, {"calibrated"}),
   Of("linear", "fp8", "tensor", <<2, 1, 2>>, 3, 9, 9, {"static", "gaudi2"}), Of("linear", "fp8", "tensor", <<2, 1>>, 3, 9, 9, {"fused"}),
   Of("linear", "modelopt", "tensor", <<2, 1, 2>>, 3, 9, 9, {"static"}), Of("linear", "modelopt", "tensor", <<1, 2>>, 3, 9, 9, {"static", "fused"}),
   Of("linear", "ct", "tensor", <<2, 1>>, 3, 9, 9, {"gaudi2"}), Of("linear", "ct", "channel", <<2, 1>>, 3, 1, 9, {"static"}),
   Of("linear", "ct", "channel", <<2, 1>>, 3, 1, 9, {"calibrated"}), Of("linear", "int8", "channel", <<2, 1>>, 3, 1, 9, {}),
   Of("linear", "gptq", "group", <<8, 8>>, 16, 1, 4, {"tp2"}), Of("linear", "gptq", "group", <<8>>, 16, 1, 4, {"tp2", "desc_act"}),
   Of("linear", "awq", "group", <<8, 8>>, 16, 1, 4, {"tp2"}), Of("linear", "wna16", "group", <<8, 8>>, 16, 1, 4, {"tp2", "symmetric"}),
   Of("linear", "wna16", "group", <<16>>, 16, 1, 4, {}), Of("linear", "wna16", "channel", <<8>>, 16, 1, 16, {"tp2", "symmetric"}),
   Of("moe", "fp8", "tensor", <<2, 2, 3>>, 3, 9, 9, {"gaudi2"}), Of("moe", "fp8", "block", <<2, 2, 4>>, 4, 2, 2, {}),
   Of("moe", "fp8", "block", <<2, 2, 4>>, 4, 2, 2, {"channel"}), Of("moe", "ct", "tensor", <<2, 2, 3>>, 3, 9, 9, {}),
   Of("moe", "ct", "channel", <<2, 2, 3, 2, 2, 3>>, 3, 1, 9, {}), Of("moe", "wna16", "group", <<8, 8, 8>>, 8, 1, 4, {"symmetric"}),
   Of("cache", "ct", "tensor", <<0, 0, 0>>, 4, 9, 9, {}), Of("cache", "ct", "tensor", <<0, 0, 0>>, 4, 9, 9, {"latent"})}
MCFused == {Of("linear", "ct", "tensor", <<2, 1>>, 3, 9, 9, {"fused"})}

Delta1(q1, q2, k1, k2, v, g, b) == [q |-> <<q1, q2>>, k |-> <<k1, k2>>, v |-> v, g |-> g, b |-> b]
\* Any numbers would do: the two forms agree as polynomials.
Deltas == <<Delta1(1, 2, 3, 1, 5, -2, 3), Delta1(2, 1, 1, 4, 7, -1, 2), Delta1(0, 3, 2, 2, 1, -3, 5),
            Delta1(4, 1, 5, 1, 4, 0, 1), Delta1(1, 6, 5, 3, 9, -4, 2)>>
Rotated(s, n) == SubSeq(s, n + 1, Len(s)) \o SubSeq(s, 1, n)
MCDeltaStreams == {<<Deltas \o <<Deltas[2]>>, Rotated(Deltas, n)>> : n \in {0, 2, 3}}

Ssm1(x, B, C, dt) == [x |-> x, B |-> B, C |-> C, dt |-> dt]
Ssms == <<Ssm1(3, 2, 5, 1), Ssm1(7, 1, 4, 0), Ssm1(2, 6, 1, 2), Ssm1(9, 3, 8, 1), Ssm1(5, 4, 2, 3)>>
MCSsmStreams == {<<Ssms \o <<Ssms[3]>>, Rotated(Ssms, n)>> : n \in {1, 2, 4}}
MCJunk == Ssm1(11, 13, 17, 4)
MCWeights == [x |-> <<2, 3, 5>>, B |-> <<7, 1, 4>>, C |-> <<6, 2, 3>>]
MCA == -1

MCScanConfigs ==
  {[layer |-> "gdn", chunk |-> 4, path |-> "optimized"], [layer |-> "gdn", chunk |-> 3, path |-> "exact"],
   [layer |-> "gdn", chunk |-> 2, path |-> "legacy"], [layer |-> "gdn", chunk |-> 2, path |-> "varlen", uneven |-> FALSE],
   [layer |-> "mamba2", chunk |-> 2, pad |-> 1], [layer |-> "mamba2", chunk |-> 4, pad |-> 0]}
MCUneven == {[layer |-> "gdn", chunk |-> 2, path |-> "varlen", uneven |-> TRUE]}
-----------------------------------------------------------------------------
BucketsRest ==
  /\ prompt_buckets = 0 /\ decode_buckets = 0 /\ seed_decode_buckets = 0 /\ fallback_max_ctx = 0
  /\ last = 0 /\ missed = 0 /\ lookups = 0
RanksRest ==
  /\ plan = 0 /\ stage = 0 /\ calls = 0 /\ asked = 0 /\ dims = 0 /\ work = 0 /\ forwards = 0 /\ outputs = 0
WeightsRest == loaded = 0 /\ ready = 0 /\ layers = 0 /\ output = 0
ScansRest == streams = 0 /\ done = 0 /\ state = 0 /\ out = 0

Init == \/ part = "buckets" /\ BM!Init /\ RanksRest /\ WeightsRest /\ ScansRest
        \/ part = "ranks" /\ DP!Init /\ BucketsRest /\ WeightsRest /\ ScansRest
        \/ part = "weights" /\ QL!Init /\ BucketsRest /\ RanksRest /\ ScansRest
        \/ part = "scans" /\ RL!Init /\ BucketsRest /\ RanksRest /\ WeightsRest
\* Only the lookups are bounded, and the sequences end; nothing else may.
Ended == \/ part = "buckets" /\ lookups = MaxLookups
         \/ part = "scans" /\ \A r \in DOMAIN streams : done[r] = Len(streams[r])
Next == /\ UNCHANGED part
        /\ \/ part = "buckets" /\ BM!Next /\ UNCHANGED <<rankVars, weightVars, scanVars>>
           \/ part = "ranks" /\ DP!Next /\ UNCHANGED <<bucketVars, weightVars, scanVars>>
           \/ part = "weights" /\ QL!Next /\ UNCHANGED <<bucketVars, rankVars, scanVars>>
           \/ part = "scans" /\ RL!Next /\ UNCHANGED <<bucketVars, rankVars, weightVars>>
           \/ Ended /\ UNCHANGED vars
Spec == Init /\ [][Next]_vars
-----------------------------------------------------------------------------
\* Every batch the scheduler may form is padded into a bucket that holds it,
\* prompts of hybrid models to whole chunks (find_prompt_bucket,
\* find_decode_bucket, calc_fallback_value).
BucketHolds == part = "buckets" => BM!BucketHolds /\ BM!WholeChunks

\* No shape of at most max_num_seqs rows misses twice, prompt or decode: the
\* bucket made for it is found the next time (find_decode_bucket).
NoRepeatedMiss == part = "buckets" => BM!MissesOnce
NeverTwice == part = "buckets" => BM!NeverTwice

\* A step with draft tokens, fewer than the most or not, whose requests were
\* given a seed bucket finds its block list among the prepared buckets
\* (generate_spec_decode_buckets).
SpecPrepared == part = "buckets" => BM!SpecPrepared

\* Data-parallel ranks of different work make the same collectives in the
\* same order, and model calls of the same shapes (get_dp_padding).
Lockstep == part = "ranks" => DP!Lockstep

\* Every row of a model call gets the mixture of its own best experts,
\* whatever ranks they live on (HpuFusedMOEMethod, VllmMixtureOfExpertsOp).
ExpertsExact == part = "ranks" => DP!ExpertsExact

\* What a quantised layer gives is its input times the weights its checkpoint
\* stands for, in every format (process_weights_after_loading and apply).
WeightsExact == part = "weights" => QL!WeightsExact

\* Outputs and states of a recurrent layer are those of its recurrence, token
\* by token, however a prompt is cut and padded (hpu_gdn_pytorch,
\* hpu_mamba_mixer2).
ScansExact == part = "scans" => RL!ScansExact
=============================================================================
