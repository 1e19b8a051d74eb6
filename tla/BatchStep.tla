----------------------------- MODULE BatchStep -----------------------------
(***************************************************************************)
(* What one engine step does to the rows of the persistent batch, whichever*)
(* way it is scheduled: the batch part of _update_states and the reordering*)
(* into decodes and prompts.  s are the scheduler's requests after         *)
(* schedule(), n the tokens each request is scheduled for.                 *)
(***************************************************************************)
EXTENDS InputBatch

CONSTANT PromptLen  \* prompt tokens of each request

ASSUME PromptAssumption == PromptLen \in [Reqs -> Nat \ {0}]

(* num_computed_tokens and new blocks of the requests that stay in the batch.   *)
UpdateRows(b, s, n) ==
  [b EXCEPT !.row = [i \in Rows |->
     IF i \in DOMAIN b.req_ids /\ b.req_ids[i] # NONE
       THEN LET r == b.req_ids[i]
            IN  [b.row[i] EXCEPT !.comp = s.comp[r] - n[r], !.blocks.len = @ + n[r]]
       ELSE b.row[i]]]

(* Requests are added in order, into the smallest empty row if there is one.   *)
Holes(b) == {i \in DOMAIN b.req_ids : b.req_ids[i] = NONE}

AddRequest(b, req) == add_request(b, req, IF Holes(b) = {} THEN Len(b.req_ids) + 1 ELSE Min(Holes(b)))
Adding == INSTANCE LeftFold WITH Step <- AddRequest

AddRequests(b, order, s, n, blocks) ==
  Adding!Fold(b, [i \in DOMAIN order |->
    LET r == order[i]
    IN  [id |-> r, comp |-> s.comp[r] - n[r], prompt |-> PromptLen[r],
         outs |-> s.outs[r], blocks |-> blocks[r]]])

UpdatedBatch(b, s, n, order, blocks) ==
  LET kept  == remove_requests(b, {r \in Members(b) : n[r] = 0})
      added == AddRequests(UpdateRows(kept, s, n), order, s, n, blocks)
  IN  condense(added, Holes(added))

-----------------------------------------------------------------------------
IsPrompt(b, n, i) ==
  \/ b.row[i].comp < b.row[i].prompt
  \/ n[b.req_ids[i]] > 1

PromptRows(b, n) == {i \in DOMAIN b.req_ids : IsPrompt(b, n, i)}
DecodeRows(b, n) == DOMAIN b.req_ids \ PromptRows(b, n)

(* _ensure_decodes_first: swap the first prompt with the last decode until no  *)
(* prompt precedes a decode.                                                   *)
SwapMisplaced(b, n) ==
  IF PromptRows(b, n) = {} \/ DecodeRows(b, n) = {} THEN b
  ELSE IF Min(PromptRows(b, n)) > Max(DecodeRows(b, n)) THEN b
  ELSE swap_states(b, Min(PromptRows(b, n)), Max(DecodeRows(b, n)))
Swapping == INSTANCE LeftFold WITH Step <- SwapMisplaced

EnsureDecodesFirst(b, n) == Swapping!Fold(b, [k \in DOMAIN b.req_ids |-> n])

(* ensure_multi_token_decodes_last: within the leading rows whose prompt is     *)
(* computed, single-token requests come first.                                 *)
MoveUp(acc, e) ==
  IF e.n[acc.b.req_ids[e.read]] # 1 THEN acc
  ELSE [b     |-> IF e.read = acc.write THEN acc.b ELSE swap_states(acc.b, acc.write, e.read),
        write |-> acc.write + 1]
MovingUp == INSTANCE LeftFold WITH Step <- MoveUp

EnsureMultiTokenDecodesLast(b, n) ==
  LET unfinished == {i \in DOMAIN b.req_ids : b.row[i].comp < b.row[i].prompt}
      end        == IF unfinished = {} THEN Len(b.req_ids) ELSE Min(unfinished) - 1
  IN  MovingUp!Fold([b |-> b, write |-> 1], [k \in 1..end |-> [read |-> k, n |-> n]]).b

(* _get_prompts_and_decodes: the decodes are the leading rows.                  *)
NumDecodes(b, n) ==
  Max({k \in 0..Len(b.req_ids) : \A i \in 1..k : ~IsPrompt(b, n, i)})

(* What a step makes of the batch before it prepares its inputs.                *)
Reordered(b, n) == EnsureMultiTokenDecodesLast(EnsureDecodesFirst(b, n), n)
=============================================================================
