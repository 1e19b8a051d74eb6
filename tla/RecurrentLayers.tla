--------------------------- MODULE RecurrentLayers ---------------------------
(***************************************************************************)
(* The recurrent layers of a hybrid model over the life of two requests:   *)
(* prompts in pieces of any length, padded, through the chunked forms, then*)
(* decodes one token at a time, alone or together.  (Which slots the       *)
(* states live in is module RecurrentStates' subject.)                     *)
(***************************************************************************)
EXTENDS GatedDelta, StateSpace
LOCAL INSTANCE SequencesExt

CONSTANTS DeltaStreams, SsmStreams,  \* the tokens of the two requests
          Junk,                      \* what a mamba2 layer sees in padding
          Configs  \* layer, chunk, path, and whether lengths may differ

VARIABLES config, streams,
          done,     \* how many tokens of each request were computed
          state,    \* their states: a vector, or window and state
          out       \* their outputs
vars == <<config, streams, done, state, out>>

Delta == config.layer = "gdn"
Requests == 1..2
Start == IF Delta THEN ZeroKey ELSE [window |-> NoWindow, state |-> 0]

Init ==
  /\ config \in Configs
  /\ streams \in IF Delta THEN DeltaStreams ELSE SsmStreams
  /\ done = [r \in Requests |-> 0]
  /\ state = [r \in Requests |-> Start]
  /\ out = [r \in Requests |-> <<>>]

Upcoming(r, n) == SubSeq(streams[r], done[r] + 1, done[r] + n)
Both(n) == Upcoming(1, n[1]) \o Upcoming(2, n[2])
Left(r) == Len(streams[r]) - done[r]
Advance(n) == done' = [r \in Requests |-> done[r] + n[r]]

Computed(rule, n) ==
  /\ state' = rule.states
  /\ out' = [out EXCEPT ![1] = @ \o SubSeq(rule.out, 1, n[1]), ![2] = @ \o SubSeq(rule.out, n[1] + 1, n[1] + n[2])]
  /\ Advance(n) /\ UNCHANGED <<config, streams>>

\* A batch of prompts of one padded length.
DeltaPrompt(n) ==
  /\ Delta /\ config.path \in {"optimized", "exact", "legacy"}
  /\ n <= Left(1) /\ n <= Left(2)
  /\ Computed(ChunkRule(Both(<<n, n>>), n, config.chunk, config.path, state), <<n, n>>)

\* Sequences told apart by cu_seqlens, chunked or token by token.
DeltaVarlen(n) ==
  /\ Delta /\ config.path = "varlen"
  /\ n[1] <= Left(1) /\ n[2] <= Left(2)
  /\ IF config.uneven THEN n[1] <= n[2] ELSE n[1] = n[2]
  /\ Computed(VarlenRule(Both(n), <<0, n[1], n[1] + n[2]>>, config.chunk, state), n)
DeltaSteps(n) ==
  LET back(rule) == [out |-> rule.out, states |-> <<rule.slots[2], rule.slots[1]>>]
  IN /\ Delta /\ config.path = "varlen"
     /\ n[1] <= Left(1) /\ n[2] <= Left(2) /\ n[1] + n[2] > 1
     /\ Computed(back(GeneralPath(Both(n), <<0, n[1], n[1] + n[2]>>, <<1, 0>>, <<state[2], state[1]>>)), n)

\* A decode batch of rs, padded with a row of the last slot.
DeltaDecode(rs) ==
  LET order == SetToSortSeq(rs, <)
      pad == [Upcoming(order[1], 1)[1] EXCEPT !.v = 0]
      rule == FusedDecode([i \in DOMAIN order |-> Upcoming(order[i], 1)[1]] \o <<pad>>, order \o <<-1>>,
                          <<Start>> \o state \o <<Start>>)
      row(r) == CHOOSE i \in DOMAIN order : order[i] = r
  IN /\ Delta /\ rs # {} /\ \A r \in rs : Left(r) > 0
     /\ state' = [r \in Requests |-> rule.slots[r + 1]]
     /\ out' = [r \in Requests |-> IF r \in rs THEN Append(out[r], rule.out[row(r)]) ELSE out[r]]
     /\ Advance([r \in Requests |-> IF r \in rs THEN 1 ELSE 0]) /\ UNCHANGED <<config, streams>>

SsmPrompt(r, n) ==
  LET chunks == (n + config.chunk - 1) \div config.chunk + config.pad
      took(rule) == /\ state' = [state EXCEPT ![r] = [window |-> rule.window, state |-> rule.state]]
                    /\ out' = [out EXCEPT ![r] = @ \o rule.out]
  IN /\ ~Delta /\ n <= Left(r)
     /\ took(MixerPrefill(Upcoming(r, n), [i \in 1..(chunks * config.chunk - n) |-> Junk], config.chunk, state[r]))
     /\ done' = [done EXCEPT ![r] = @ + n] /\ UNCHANGED <<config, streams>>
SsmDecode(rs) ==
  LET rule(r) == MixerDecode(Upcoming(r, 1)[1], state[r])
  IN /\ ~Delta /\ rs # {} /\ \A r \in rs : Left(r) > 0
     /\ state' = [r \in Requests |-> IF r \in rs THEN [window |-> rule(r).window, state |-> rule(r).state] ELSE state[r]]
     /\ out' = [r \in Requests |-> IF r \in rs THEN out[r] \o rule(r).out ELSE out[r]]
     /\ Advance([r \in Requests |-> IF r \in rs THEN 1 ELSE 0]) /\ UNCHANGED <<config, streams>>

Next ==
  \/ \E n \in 1..Left(1) : DeltaPrompt(n)
  \/ \E n \in (0..Left(1)) \X (0..Left(2)) : n[1] > 0 /\ (DeltaVarlen(n) \/ DeltaSteps(n))
  \/ \E r \in Requests : \E n \in 1..Left(r) : SsmPrompt(r, n)
  \/ \E rs \in SUBSET Requests : DeltaDecode(rs) \/ SsmDecode(rs)

Spec == Init /\ [][Next]_vars
----------------------------------------------------------------------------
\* What the tokens of r computed so far give, one at a time from an empty
\* state.
StepByStep(r) ==
  LET tokens == SubSeq(streams[r], 1, done[r])
      decode(acc, t) == LET s == MixerDecode(t, acc.state)
                        IN [out |-> acc.out \o s.out, state |-> [window |-> s.window, state |-> s.state]]
  IN IF Delta THEN Recurrent(tokens, Start) ELSE FoldLeft(decode, [out |-> <<>>, state |-> Start], tokens)

\* However a request's tokens are divided into prompt pieces and decodes,
\* whatever the chunks, the padding and the form of the rule, outputs and
\* states are those of the recurrence taken token by token: chunk-local
\* decays, triangular solve, hoisted state updates, masked paddings and the
\* convolution's windows fit together.
ScansExact ==
  \A r \in Requests : [out |-> out[r], state |-> state[r]] = StepByStep(r)
=============================================================================
