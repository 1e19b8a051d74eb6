----------------------------- MODULE InputBatch -----------------------------
(***************************************************************************)
(* The persistent batch of v1/worker/hpu_input_batch.py as a value, and    *)
(* its operations as operators from batch to batch.                        *)
(*                                                                         *)
(* A batch is a record: req_ids and index are _req_ids and                 *)
(* req_id_to_index; row[i] is what the per-row arrays and the dictionaries *)
(* keyed by row hold for row i; cache is _prompt_token_ids_cache, by the   *)
(* owners of its rows (<<>> for None).  Rows count from 1.  Array contents *)
(* are represented by the request they belong to; rows past the end of the *)
(* batch keep what was last written to them, as the arrays do.  Pooling    *)
(* models are left out.                                                    *)
(***************************************************************************)
EXTENDS Integers, Sequences, FiniteSets, SequencesExt

CONSTANTS
  Reqs,          \* request ids
  MaxReqs,       \* max_num_reqs: rows of the batch
  HasGenerator,  \* requests with a seeded generator
  HasBadWords,   \* requests with bad_words_token_ids
  Restricted,    \* requests with allowed_token_ids
  NONE           \* no request

ASSUME BatchAssumption ==
  /\ IsFiniteSet(Reqs)
  /\ MaxReqs \in Nat \ {0}
  /\ HasGenerator \union HasBadWords \union Restricted \subseteq Reqs
  /\ NONE \notin Reqs

Rows == 1..MaxReqs

(* A block list: whose blocks, how often that request had lost its blocks     *)
(* when they were granted, and how many there are.                            *)
NoBlocks == [of |-> NONE, epoch |-> 0, len |-> 0]

EmptyRow ==
  [own    |-> NONE,      \* token ids, temperature, top_p, top_k, penalties, LoRA id
   comp   |-> 0,         \* num_computed_tokens_cpu
   prompt |-> 0,         \* num_prompt_tokens
   tokens |-> 0,         \* num_tokens, num_tokens_no_spec
   blocks |-> NoBlocks,  \* block_table
   gen    |-> NONE,      \* generators.get(row)
   bad    |-> NONE,      \* bad_words_token_ids.get(row)
   mask   |-> NONE]      \* allowed_token_ids_mask_cpu_tensor[row], NONE: all False

EmptyBatch ==
  [req_ids |-> <<>>, index |-> [r \in {} |-> 0], row |-> [i \in Rows |-> EmptyRow], cache |-> <<>>]

Members(b) == DOMAIN b.index
NumReqs(b) == Cardinality(Members(b))

(* add_request writes the row; the dictionaries and the mask only for a       *)
(* request that has such parameters.  req is a CachedRequestState.            *)
add_request(b, req, i) ==
  LET r == req.id
      row == b.row[i]
  IN  [req_ids |-> IF i = Len(b.req_ids) + 1 THEN Append(b.req_ids, r) ELSE [b.req_ids EXCEPT ![i] = r],
       index   |-> [q \in Members(b) \union {r} |-> IF q = r THEN i ELSE b.index[q]],
       row     |-> [b.row EXCEPT ![i] =
                      [own    |-> r,
                       comp   |-> req.comp,
                       prompt |-> IF req.comp = 0 THEN req.prompt + req.outs ELSE req.prompt,
                       tokens |-> req.prompt + req.outs,
                       blocks |-> req.blocks,
                       gen    |-> IF r \in HasGenerator THEN r ELSE row.gen,
                       bad    |-> IF r \in HasBadWords THEN r ELSE row.bad,
                       mask   |-> IF r \in Restricted THEN r ELSE row.mask]],
       cache   |-> <<>>]

(* remove_request for every member of gone.                                   *)
remove_requests(b, gone) ==
  LET left == {b.index[r] : r \in gone}
  IN  IF gone = {} THEN b ELSE
      [req_ids |-> [i \in DOMAIN b.req_ids |-> IF i \in left THEN NONE ELSE b.req_ids[i]],
       index   |-> [q \in Members(b) \ gone |-> b.index[q]],
       row     |-> [i \in Rows |->
                      IF i \in left THEN [b.row[i] EXCEPT !.gen = NONE, !.bad = NONE, !.mask = NONE]
                                    ELSE b.row[i]],
       cache   |-> <<>>]

(* swap_states.  The two mask rows are views of one tensor: the tuple          *)
(* assignment writes row i before it reads it for row j.                       *)
swap_states_not_blocks(b, i, j) ==  \* mutant: forgets block_table.swap_row
  LET q == b.req_ids[i]
      r == b.req_ids[j]
  IN  [b EXCEPT !.req_ids = [@ EXCEPT ![i] = r, ![j] = q],
                !.index = [@ EXCEPT ![q] = j, ![r] = i],
                !.row = [@ EXCEPT ![i] = [b.row[j] EXCEPT !.blocks = b.row[i].blocks],
                                  ![j] = [b.row[i] EXCEPT !.blocks = b.row[j].blocks]]]

swap_states(b, i, j) ==
  LET q == b.req_ids[i]
      r == b.req_ids[j]
  IN  [b EXCEPT !.req_ids = [@ EXCEPT ![i] = r, ![j] = q],
                !.index = [@ EXCEPT ![q] = j, ![r] = i],
                !.row = [@ EXCEPT ![i] = b.row[j],
                                  ![j] = [b.row[i] EXCEPT !.mask = b.row[j].mask]]]

(* condense: the smallest empty row takes over the largest used one, and so    *)
(* on, while it lies below.  A row that was moved away loses its dictionary    *)
(* entries and keeps its array contents.                                       *)
MovedTo(b, empty, i) ==
  CHOOSE j \in DOMAIN b.req_ids \ empty :
    Cardinality({k \in DOMAIN b.req_ids \ empty : k > j}) = Cardinality({e \in empty : e < i})

condense(b, empty) ==
  LET m == NumReqs(b)
      from(i) == IF i \in empty THEN MovedTo(b, empty, i) ELSE i
  IN  IF empty = {} THEN b
      ELSE IF m = 0 THEN [b EXCEPT !.req_ids = <<>>]
      ELSE [req_ids |-> [i \in 1..m |-> b.req_ids[from(i)]],
            index   |-> [r \in Members(b) |-> CHOOSE i \in 1..m : b.req_ids[from(i)] = r],
            row     |-> [i \in Rows |->
                           IF i <= m THEN b.row[from(i)]
                           ELSE IF i \in DOMAIN b.req_ids THEN [b.row[i] EXCEPT !.gen = NONE, !.bad = NONE]
                           ELSE b.row[i]],
            cache   |-> <<>>]

(* _get_cached_prompt_token_ids builds the cache when there is none.            *)
cached_prompt_token_ids(b) ==
  IF b.cache = <<>> THEN [i \in DOMAIN b.req_ids |-> b.row[i].own] ELSE b.cache

Row ==
  [own : Reqs \union {NONE}, comp : Nat, prompt : Nat, tokens : Nat,
   blocks : [of : Reqs \union {NONE}, epoch : Nat, len : Nat],
   gen : HasGenerator \union {NONE}, bad : HasBadWords \union {NONE}, mask : Restricted \union {NONE}]

(* The batch between two engine calls has no holes and one row per member.      *)
BatchTypeOK(b) ==
  /\ b.req_ids \in Seq(Reqs)
  /\ Len(b.req_ids) <= MaxReqs
  /\ Members(b) \subseteq Reqs
  /\ b.index \in [Members(b) -> Rows]
  /\ b.row \in [Rows -> Row]
  /\ b.cache \in Seq(Reqs)
=============================================================================
