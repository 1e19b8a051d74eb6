------------------------------ MODULE Bucketing ------------------------------
(***************************************************************************)
(* Shapes the device graphs are compiled for (extension/bucketing/).  A    *)
(* bucket is a triple <<batch size, query length, context blocks>>; a      *)
(* bucket list is the set of its members, its order being lexicographic    *)
(* (the code keeps it sorted).  c is the configuration: the attributes of  *)
(* HPUBucketingManager and the flags of get_config() it reads.             *)
(***************************************************************************)
EXTENDS Integers, Sequences, FiniteSets
LOCAL INSTANCE FiniteSetsExt

LOCAL Lesser(a, b) == IF a < b THEN a ELSE b
LOCAL Greater(a, b) == IF a > b THEN a ELSE b
CeilDiv(a, b) == (a + b - 1) \div b
RoundUp(value, k) == CeilDiv(value, k) * k
CeilLog2(n) == CHOOSE k \in 0..n : 2^k >= n /\ \A j \in 0..(k - 1) : 2^j < n
CeilCbrt(n) == CHOOSE k \in 0..n : k^3 >= n /\ \A j \in 0..(k - 1) : j^3 < n

----------------------------------------------------------------------------
(* Ranges: the values warmed up in one dimension.                          *)

\* LinearBucketingStrategy: powers of two up to the step, then multiples of it.
warmup_range(bmin, bstep, bmax) ==
  IF bmin = 0 /\ bmax = 0 THEN {0}
  ELSE LET first   == IF bmin = 0 THEN bstep ELSE bmin
           ramp_up == {x \in {first * 2^k : k \in 0..CeilLog2(bmax + 1)} : x < bstep /\ x <= bmax}
           stable  == {x \in bstep..bmax : x % bstep = 0}
       IN {x \in ramp_up \cup stable : x >= first} \cup {x \in {0} : bmin = 0}

\* ExponentialBucketingStrategy: n values spaced exponentially from first to
\* bmax, each rounded up to the step; the roots are compared as powers.
warmup_range_with_limit(bmin, bstep, bmax, n, contiguous_pa) ==
  IF n <= 1 THEN {bmax}
  ELSE LET first == IF bmin \in {0, 1} THEN bstep ELSE bmin
           Spaced(i) == CHOOSE x \in 0..(bmax + first + bstep) :
                          /\ x % bstep = 0
                          /\ x^(n - 1) >= first^(n - 1 - i) * bmax^i
                          /\ x < bstep \/ (x - bstep)^(n - 1) < first^(n - 1 - i) * bmax^i
           all == {IF i = n - 1 /\ contiguous_pa THEN bmax ELSE Spaced(i) : i \in 0..(n - 1)}
                    \cup {x \in {bmin} : bmin \in {0, 1}}
           \* sorted_buckets[-1] = bmax when the last is larger
       IN IF Max(all) > bmax THEN (all \ {Max(all)}) \cup {bmax} ELSE all

\* PaddingAwareBucketingStrategy: doubled up to the step, then only those
\* multiples whose successor would pad too much.
warmup_range_with_limits(bmin, bstep, bmax, pad_max, pad_percent) ==
  LET limit == IF pad_max = 0 THEN bmax ELSE pad_max
      walk[current \in Nat, last \in Nat] ==
        IF current > bmax THEN {}
        ELSE IF current <= bstep
          THEN LET next == IF last = 0 THEN 1 ELSE 2 * last
               IN {x \in {next} : next <= bmax} \cup
                  walk[next, IF next <= bmax THEN next ELSE last]
          ELSE LET next == current + bstep
                   padding == next - last - 1
                   keep == /\ current # last
                           /\ \/ 100 * padding > pad_percent * next
                              \/ padding > limit
                              \/ current % limit = 0
               IN {x \in {current} : keep} \cup walk[next, IF keep THEN current ELSE last]
  IN {bmin, bmax} \cup walk[bmin, bmin]

----------------------------------------------------------------------------
(* The ranges of each strategy, as sets: batch sizes, queries, contexts.   *)

\* get_prompt_cfgs and get_range of each strategy; read_bucket_settings with
\* its defaults (no environment variable set).  Merged prefill is one row of
\* queries in larger steps, with every prompt's context.
QueryStep(c) == IF c.merged_prefill THEN 4 * c.block_size ELSE c.block_size
LOCAL AllCtx(c, ctx) == IF c.merged_prefill THEN ctx * c.max_num_prefill_seqs ELSE ctx
LOCAL Rows(c, range) == IF c.merged_prefill THEN {1} ELSE range

LinearPromptRanges(c) ==
  <<Rows(c, warmup_range(1, 1, c.max_num_prefill_seqs)),
    warmup_range(c.block_size, QueryStep(c), c.max_num_batched_tokens),
    warmup_range(0, IF c.merged_prefill THEN 4 ELSE 1,
                 AllCtx(c, (c.max_model_len - c.block_size) \div c.block_size))>>

ExponentialPromptRanges(c) ==
  LET seqs == c.max_num_prefill_seqs
      ctx == Greater(1, (c.max_model_len - (IF c.max_model_len >= c.long_ctx_threshold
                                            THEN c.max_num_batched_tokens ELSE c.block_size)) \div c.block_size)
  IN <<Rows(c, warmup_range_with_limit(1, 2, seqs, CeilLog2(seqs) + 1, c.contiguous_pa)),
       warmup_range_with_limit(c.block_size, QueryStep(c), c.max_num_batched_tokens,
                               CeilLog2(c.max_num_batched_tokens), c.contiguous_pa),
       warmup_range_with_limit(0, IF c.merged_prefill THEN 4 ELSE 1, AllCtx(c, ctx),
                               IF ctx = 1 THEN 2 ELSE CeilLog2(ctx) + 1, c.contiguous_pa)>>

PaddingAwarePromptRanges(c) ==
  LET seqs == c.max_num_prefill_seqs
      tokens == c.max_num_batched_tokens
  IN <<Rows(c, warmup_range_with_limits(1, 1, seqs, CeilDiv(seqs, 4), 25)),
       warmup_range_with_limits(c.block_size, QueryStep(c), tokens, CeilDiv(tokens, 4), 25),
       warmup_range_with_limits(0, IF c.merged_prefill THEN 4 ELSE 2,
                                AllCtx(c, CeilDiv(c.max_model_len - c.block_size, c.block_size)),
                                CeilDiv(tokens, c.block_size), 25)>>

PromptRanges(c) ==
  CASE c.strategy = "lin" -> LinearPromptRanges(c)
    [] c.strategy = "exp" -> ExponentialPromptRanges(c)
    [] c.strategy = "pad" -> PaddingAwarePromptRanges(c)

\* get_decode_cfgs and get_range; the query is always one token.
LinearDecodeRanges(c) ==
  <<warmup_range(1, 32, c.max_num_seqs), {1},
    warmup_range(1, c.block_size,
                 IF c.contiguous_pa THEN c.num_hpu_blocks
                 ELSE Greater((c.max_model_len * c.max_num_seqs) \div c.block_size, c.block_size))>>

ExponentialDecodeRanges(c) ==
  LET seqs == c.max_num_seqs
      worst == CeilDiv(c.max_model_len, c.block_size) * seqs
      clamp == 3 * c.num_hpu_blocks
      most == IF c.contiguous_pa THEN Lesser(c.num_hpu_blocks, worst)
              ELSE IF c.skip_decode_block_clamp THEN worst ELSE Lesser(worst, clamp)
      limit == CeilLog2(most) + 1 +
               (IF ~c.contiguous_pa /\ most > clamp THEN CeilLog2(CeilDiv(most, clamp)) + 1 ELSE 0)
  IN <<warmup_range_with_limit(1, 2, seqs, CeilLog2(seqs) + 1, c.contiguous_pa), {1},
       warmup_range_with_limit(1, seqs, most, limit, c.contiguous_pa)>>

PaddingAwareDecodeRanges(c) ==
  LET seqs == c.max_num_seqs
      most == IF c.contiguous_pa THEN c.num_hpu_blocks
              ELSE Greater(CeilDiv(c.max_model_len * seqs, c.block_size), c.block_size)
      least == IF c.block_size > c.num_hpu_blocks THEN Greater(1, c.num_hpu_blocks - c.block_size)
               ELSE c.block_size
  IN <<warmup_range_with_limits(1, 2, seqs, CeilDiv(seqs, 4), 25), {1},
       warmup_range_with_limits(least, c.block_size, most, CeilDiv(most, 4), 25)>>

\* With contiguous PA the whole cache is always among the block counts.
DecodeRanges(c) ==
  LET r == CASE c.strategy = "lin" -> LinearDecodeRanges(c)
             [] c.strategy = "exp" -> ExponentialDecodeRanges(c)
             [] c.strategy = "pad" -> PaddingAwareDecodeRanges(c)
  IN IF c.contiguous_pa /\ Max(r[3]) < c.num_hpu_blocks
     THEN [r EXCEPT ![3] = @ \cup {c.num_hpu_blocks}] ELSE r

----------------------------------------------------------------------------
(* generate_buckets: the product of the ranges, filtered and corrected.    *)

MaxCtxBlocks(c) == CeilDiv(c.max_model_len - 1, c.block_size)

PromptAllowed(c, b) ==
  IF c.merged_prefill
  THEN b[3] <= c.max_num_prefill_seqs *
               ((c.max_model_len - b[2] \div c.max_num_prefill_seqs) \div c.block_size)
  ELSE /\ b[3] <= MaxCtxBlocks(c) /\ b[2] <= c.max_model_len
       /\ b[1] * b[2] <= c.max_num_batched_tokens

\* For long contexts the largest context is replaced by the largest one that
\* still fits beside the query.
EdgeCtx(c, query) == (c.max_model_len - query) \div c.block_size

PromptQueries(c, queries) ==
  IF c.mamba_chunk_size > 0 /\ c.mamba_chunk_size_is_explicit
  THEN {RoundUp(q, c.mamba_chunk_size) : q \in queries} ELSE queries

generate_prompt_buckets(c) ==
  LET r == PromptRanges(c)
      queries == PromptQueries(c, r[2])
      fitting(q) == {p \in queries : p <= q /\ EdgeCtx(c, p) >= 0}
      Ctx(ctx, q) == IF /\ ctx = Max(r[3]) /\ c.max_model_len >= c.long_ctx_threshold
                        /\ fitting(q) # {}
                     THEN EdgeCtx(c, Max(fitting(q))) ELSE ctx
      all == {<<bs, q, Ctx(ctx, q)>> : bs \in r[1], q \in queries, ctx \in r[3]}
  IN {b \in all : /\ PromptAllowed(c, b)
                  /\ c.use_sliding_window /\ b[3] = 0 /\ b[2] >= c.slice_thld => b[2] % c.slice_size = 0}

\* Without contiguous PA a bucket needs a block per row, and no more context
\* than its rows can have.
Corrected(c, b) ==
  IF c.contiguous_pa THEN b
  ELSE <<b[1], b[2], Lesser(b[3], b[1] * CeilDiv(c.max_model_len, c.block_size))>>

\* expand_to_neighbor_buckets adds pairs that are in the product already.
SeedDecodeBuckets(c) ==
  LET r == DecodeRanges(c)
  IN {Corrected(c, b) : b \in {x \in r[1] \X r[2] \X r[3] : c.contiguous_pa \/ x[1] <= x[3]}}

\* generate_spec_decode_buckets: rows for every draft token.
\* Mutant: the blocks grow with the draft tokens, the rows do not.
generate_spec_decode_buckets_no_rows(c, seed) ==
  seed \cup {Corrected(c, <<b[1], b[2], (1 + c.num_speculative_tokens) * b[3]>>) : b \in seed}

generate_spec_decode_buckets(c, seed) ==
  LET n == 1 + c.num_speculative_tokens
  IN seed \cup {Corrected(c, <<n * b[1], b[2], b[3]>>) : b \in {x \in seed : n * x[1] <= x[3]}}
          \cup {Corrected(c, <<n * b[1], b[2], n * b[3]>>) : b \in seed}

generate_decode_buckets(c) ==
  IF c.num_speculative_tokens = 0 THEN SeedDecodeBuckets(c)
  ELSE generate_spec_decode_buckets(c, SeedDecodeBuckets(c))

FallbackMaxCtx(buckets) == IF buckets = {} THEN 0 ELSE Max({b[3] : b \in buckets})

----------------------------------------------------------------------------
(* Lookup.                                                                 *)

is_greater_or_equal(a, b) == \A i \in 1..3 : a[i] >= b[i]
Precedes(a, b) ==
  \/ a[1] < b[1]
  \/ a[1] = b[1] /\ a[2] < b[2]
  \/ a[1] = b[1] /\ a[2] = b[2] /\ a[3] <= b[3]

\* find_equal_or_closest_greater_config: the first in order that covers the
\* shape; a singleton, or empty when there is none.
Found(buckets, shape) ==
  LET covering == {b \in buckets : is_greater_or_equal(b, shape)}
  IN {b \in covering : \A d \in covering : Precedes(b, d)}

\* Mutant: the last, partial step is dropped.
calc_fallback_value_floor(n, base_step) ==
  IF n <= 1 THEN n ELSE Greater(1, n \div (CeilCbrt(n) * base_step)) * CeilCbrt(n) * base_step

calc_fallback_value(n, base_step) ==
  IF n <= 1 THEN n ELSE RoundUp(n, CeilCbrt(n) * base_step)

\* generate_fallback_bucket; maxctx is _fallback_max_ctx.
Fallback(c, shape, is_prompt, maxctx) ==
  LET ctx == calc_fallback_value(shape[3], c.fallback_blocks_base_step)
      cap == IF is_prompt THEN MaxCtxBlocks(c) ELSE IF maxctx > 0 THEN maxctx ELSE ctx
  IN <<Lesser(calc_fallback_value(shape[1], c.fallback_bs_base_step), c.max_num_seqs),
       IF c.use_sliding_window /\ shape[2] >= c.slice_thld
       THEN RoundUp(shape[2], c.slice_size)
       ELSE Lesser(calc_fallback_value(shape[2], c.fallback_seq_base_step), c.max_num_batched_tokens),
       Lesser(ctx, cap)>>

\* find_prompt_bucket: the bucket, and the list with it.
find_prompt_bucket(c, buckets, shape) ==
  LET found == Found(buckets, shape)
      bucket == IF found # {} THEN CHOOSE b \in found : TRUE
                ELSE Fallback(c, shape, TRUE, 0)
  IN [bucket |-> bucket, hit |-> found # {}, buckets |-> buckets \cup {bucket}]

\* Mutant: the blocks are not capped before the lookup, only the fallback's are.
find_decode_bucket_uncapped(c, buckets, seeds, batch_size, num_blocks, seed_buckets, maxctx) ==
  LET shape  == <<batch_size, 1, num_blocks>>
      seeded == IF seed_buckets /\ c.num_speculative_tokens > 0 THEN Found(seeds, shape) ELSE {}
      found  == IF seeded # {} THEN seeded ELSE Found(buckets, shape)
      bucket == IF found # {} THEN CHOOSE b \in found : TRUE ELSE Fallback(c, shape, FALSE, maxctx)
  IN [bucket |-> bucket, hit |-> found # {}, buckets |-> buckets \cup {bucket}]

\* find_decode_bucket: first among the seeds when asked, and with the blocks
\* capped by the largest prepared context.
find_decode_bucket(c, buckets, seeds, batch_size, num_blocks, seed_buckets, maxctx) ==
  LET shape  == <<batch_size, 1, IF maxctx > 0 THEN Lesser(num_blocks, maxctx) ELSE num_blocks>>
      seeded == IF seed_buckets /\ c.num_speculative_tokens > 0 THEN Found(seeds, shape) ELSE {}
      found  == IF seeded # {} THEN seeded ELSE Found(buckets, shape)
      bucket == IF found # {} THEN CHOOSE b \in found : TRUE ELSE Fallback(c, shape, FALSE, maxctx)
  IN [bucket |-> bucket, hit |-> found # {}, buckets |-> buckets \cup {bucket}]
=============================================================================
