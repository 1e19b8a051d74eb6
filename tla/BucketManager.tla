---------------------------- MODULE BucketManager ----------------------------
(***************************************************************************)
(* The bucket lists of one model runner (HPUBucketingManager): generated   *)
(* once by warmup_model, then consulted for every prompt batch and every   *)
(* decode batch, and extended by a fallback whenever a shape has no        *)
(* bucket.  Prompts are looked up by _bucketize_2d_prompt, decodes by      *)
(* _create_decode_input_data and get_habana_paged_attn_buffers.            *)
(***************************************************************************)
EXTENDS Bucketing
LOCAL INSTANCE FiniteSetsExt

CONSTANTS Configs,      \* the configurations explored
          MaxLookups    \* bound on the lookups of one behaviour

VARIABLES config,           \* the attributes set by initialize
          prompt_buckets, decode_buckets, seed_decode_buckets,
          fallback_max_ctx, \* _fallback_max_ctx
          last,             \* the lookup of the call being prepared
          missed,           \* ghost: the shapes a fallback was made for
          lookups
vars == <<config, prompt_buckets, decode_buckets, seed_decode_buckets, fallback_max_ctx,
          last, missed, lookups>>

\* warmup_model: decode buckets count blocks of the attention kernel.
DecodeConfig(c) ==
  [c EXCEPT !.block_size = c.attn_block_size,
            !.skip_decode_block_clamp = c.attn_block_size # c.block_size \/ c.mamba_chunk_size > 0]

NoLookup == [phase |-> "none"]

Init ==
  /\ config \in Configs
  /\ prompt_buckets = generate_prompt_buckets(config)
  /\ seed_decode_buckets = SeedDecodeBuckets(DecodeConfig(config))
  /\ decode_buckets = generate_decode_buckets(DecodeConfig(config))
  /\ fallback_max_ctx = FallbackMaxCtx(decode_buckets)
  /\ last = NoLookup
  /\ missed = {}
  /\ lookups = 0

\* A lookup that found nothing prepared.
Missing(phase, shape, r) == {x \in {<<phase, shape>>} : ~r.hit}
Looked(now, misses) ==
  /\ last = NoLookup
  /\ lookups < MaxLookups /\ lookups' = lookups + 1
  /\ last' = [now EXCEPT !.again = misses \cap missed]
  /\ missed' = missed \cup misses

\* _form_prefill_batch: bs prompts of at most seq tokens after at most ctx
\* blocks of context, within what the scheduler may schedule.
PromptLookup(bs, seq, ctx) ==
  /\ bs * seq <= config.max_num_batched_tokens
  /\ ctx * config.block_size < config.max_model_len
  /\ LET r == find_prompt_bucket(config, prompt_buckets, <<bs, seq, ctx>>)
     IN /\ Looked([phase |-> "prompt", shape |-> <<bs, seq, ctx>>, bucket |-> r.bucket, again |-> {}],
                  Missing("prompt", <<bs, seq, ctx>>, r))
        /\ prompt_buckets' = r.buckets
  /\ UNCHANGED <<config, decode_buckets, seed_decode_buckets, fallback_max_ctx>>

\* _create_decode_input_data: the rows, for bs requests of so many blocks, n being
\* the most tokens any of them has in this step.
RowLookup(bs, blocks, n) ==
  find_decode_bucket(config, decode_buckets, seed_decode_buckets, bs, blocks, n > 1, fallback_max_ctx)

\* get_habana_paged_attn_buffers: the length of the block list, in which every
\* request's blocks stand once per token (pad_list leaves a longer one as it is);
\* with contiguous PA it is the cache up to the highest block id, and at most all.
AskedBlocks(blocks, n, highest) == IF config.contiguous_pa THEN highest + 1 ELSE blocks * n
ListLength(bucket, asked) ==
  LET longer == Max({bucket[3], asked})
  IN IF config.contiguous_pa THEN Min({longer, config.num_hpu_blocks + 1}) ELSE longer

\* The two lookups of a decode step.
DecodeLookup(bs, blocks, n, highest) ==
  LET r1 == RowLookup(bs, blocks, n)
      rows == r1.bucket[1] * n
      asked == AskedBlocks(blocks, n, highest)
      r2 == find_decode_bucket(config, r1.buckets, seed_decode_buckets, rows, asked, FALSE, fallback_max_ctx)
  IN /\ bs <= blocks /\ blocks <= bs * CeilDiv(config.max_model_len, config.attn_block_size)
     /\ highest * bs >= blocks     \* block 0 is nobody's; prefixes may be shared
     /\ Looked([phase |-> "decode", shape |-> <<bs, 1, blocks>>, bucket |-> r1.bucket, hit |-> r1.hit, asked |-> asked,
                padded |-> r2.bucket, size |-> ListLength(r2.bucket, asked), hit2 |-> r2.hit, again |-> {}],
               Missing("decode", <<bs, 1, blocks>>, r1) \cup Missing("decode", <<rows, 1, asked>>, r2))
     /\ decode_buckets' = r2.buckets
     /\ UNCHANGED <<config, prompt_buckets, seed_decode_buckets, fallback_max_ctx>>

\* Only contiguous PA looks at the ids of the blocks.
BlockIds == IF config.contiguous_pa THEN 1..(config.num_hpu_blocks - 1) ELSE {config.num_hpu_blocks * config.max_num_seqs}

\* The call is made with the shapes found.
Call == last # NoLookup /\ last' = NoLookup
        /\ UNCHANGED <<config, prompt_buckets, decode_buckets, seed_decode_buckets, fallback_max_ctx, missed, lookups>>

Next ==
  \/ Call
  \/ \E bs \in 1..config.max_num_prefill_seqs, seq \in 1..config.max_num_batched_tokens,
        ctx \in 0..MaxCtxBlocks(config) : PromptLookup(bs, seq, ctx)
  \/ \E bs \in 1..config.max_num_seqs,
        blocks \in 1..(config.max_num_seqs * CeilDiv(config.max_model_len, config.attn_block_size)),
        n \in 1..(1 + config.num_speculative_tokens), highest \in BlockIds : DecodeLookup(bs, blocks, n, highest)

Spec == Init /\ [][Next]_vars
----------------------------------------------------------------------------
\* Every prompt batch the scheduler may form is padded into a bucket that
\* holds its rows, its queries and its context, prepared or made on demand, at
\* and beyond the boundaries of the ranges; a decode batch has a row for every
\* request and a place for every block, within the cache, and as long as the
\* blocks were foreseen at warm-up the place is that of a bucket
\* (find_prompt_bucket, find_decode_bucket, get_habana_paged_attn_buffers).
BucketHolds ==
  /\ last.phase = "prompt" => is_greater_or_equal(last.bucket, last.shape)
  /\ last.phase = "decode" =>
       /\ last.bucket[1] >= last.shape[1]
       /\ last.size >= last.asked
       /\ config.contiguous_pa => last.size <= config.num_hpu_blocks + 1
       /\ last.asked <= fallback_max_ctx => last.size <= last.padded[3]

\* The query length of every bucket a hybrid model uses is a whole number of
\* mamba chunks: _form_prefill_batch counts target_seq \div chunk_size chunks
\* and a remainder would be left uncomputed.
WholeChunks ==
  last.phase = "prompt" /\ config.mamba_chunk_size > 0 => last.bucket[2] % config.mamba_chunk_size = 0

\* A shape that had to be given a fallback is prepared from then on, "avoiding an
\* infinite loop": none misses twice, prompt or decode, within the rows that the
\* fallback can give (it has at most max_num_seqs).
MissesOnce == last # NoLookup => \A x \in last.again : x[2][1] > config.max_num_seqs
NeverTwice == last # NoLookup => last.again = {}

\* A step with draft tokens, fewer than the most or not, whose requests were
\* given a seed bucket finds its block list among the prepared buckets
\* (generate_spec_decode_buckets).
SpecPrepared == last.phase = "decode" /\ last.hit /\ last.bucket \in seed_decode_buckets => last.hit2
=============================================================================
