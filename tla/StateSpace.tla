------------------------------ MODULE StateSpace ------------------------------
(***************************************************************************)
(* The mamba2 mixer (ops/hpu_mamba_mixer2.py, conv_ssm_forward): a causal  *)
(* convolution, then a state space model, chunked for prompts             *)
(* (ops/ssd_combined.py, ops/pytorch_implementation.py) and step by step   *)
(* for decodes.  One head, one channel, a state of one number: channels    *)
(* and the entries of a state do not interact but in sums.  A token is a   *)
(* record of x, B, C and dt.                                               *)
(***************************************************************************)
EXTENDS FieldArithmetic
LOCAL INSTANCE SequencesExt

CONSTANTS Weights,  \* [{"x", "B", "C"} -> taps of the convolution]
          A, D      \* of the state space model

\* The activation and softplus are any functions, softplus with no zero.
Activation(x) == (x * x + x) % P
Softplus(x) == x * x + 1
WindowLen == Len(Weights["x"]) - 1
NoToken == [x |-> 0, B |-> 0, C |-> 0, dt |-> 0]
NoWindow == [i \in 1..WindowLen |-> NoToken]
----------------------------------------------------------------------------
(* The convolution: _depthwise_conv1d_tpc over the window before the tokens, *)
(* then the activation; dt passes by.                                        *)

Convolved(input) ==
  LET tap(c, i) == Activation(Sum(Len(Weights[c]), LAMBDA k : Weights[c][k] * input[i + k - 1][c]))
  IN SubSeq([i \in 1..(Len(input) - WindowLen) |->
               [x |-> tap("x", i), B |-> tap("B", i), C |-> tap("C", i), dt |-> input[i + WindowLen].dt]],
            1, Len(input) - WindowLen)
----------------------------------------------------------------------------
(* Decodes: selective_state_update_ref after granite_causal_conv1d_update.   *)

UpdateState(t, h) ==
  LET dt == Softplus(t.dt)
      next == (h * Exp(dt * A) + dt * t.x * t.B) % P
  IN [out |-> (next * t.C + t.x * D) % P, state |-> next]
MixerDecode(t, m) ==
  LET s == UpdateState(Convolved(Append(m.window, t))[1], m.state)
  IN [out |-> <<s.out>>, window |-> Append(Tail(m.window), t), state |-> s.state]
----------------------------------------------------------------------------
(* Prompts.                                                                *)

\* new_chunk_cumsum: padded tokens (mask 0) get a dt of 0 after softplus.
\* Mutant: the mask comes before softplus, as for the projected dt.
MaskedDtEarly(t, mask) == Softplus(t.dt * mask)
MaskedDt(t, mask) == Softplus(t.dt) * mask
CumsumOf(dt, cs) == LET sum[i \in 1..Len(dt)] == dt[i] * A + IF (i - 1) % cs = 0 THEN 0 ELSE sum[i - 1] IN sum

\* A chunk: its tokens with their dt and its cumulative logarithms.
SsdChunks(tokens, n, cs) ==
  LET dt == [i \in DOMAIN tokens |-> MaskedDt(tokens[i], IF i <= n THEN 1 ELSE 0)]
      sums == CumsumOf(dt, cs)
      at(i) == [x |-> tokens[i].x, B |-> tokens[i].B, C |-> tokens[i].C, dt |-> dt[i], cum |-> sums[i]]
  IN [c \in 1..(Len(tokens) \div cs) |-> [i \in 1..cs |-> at((c - 1) * cs + i)]]

\* new_chunk_state
ChunkState(c) == Sum(Len(c), LAMBDA i : c[i].B * Exp(c[Len(c)].cum - c[i].cum) * c[i].dt * c[i].x)
\* new_ssd_state_passing: the states after each chunk, the initial one first.
StatePassing(chunks, h) ==
  LET n == Len(chunks)
      all == <<h>> \o [c \in 1..n |-> ChunkState(chunks[c])]
      total[i \in 0..n] == IF i = 0 THEN 0 ELSE total[i - 1] + chunks[i][Len(chunks[i])].cum
      decay == Lower(Matrix(n + 1, n + 1, LAMBDA i, j : Exp(total[i - 1] - total[j - 1])), 0)
  IN Vector(n, LAMBDA i : Dot(decay[i + 1], all))
\* new_ssd_bmm and new_chunk_scan
ChunkScan(c, before) ==
  LET n == Len(c)
      CB == Lower(Matrix(n, n, LAMBDA i, j : c[i].C * c[j].B), 0)
  IN Vector(n, LAMBDA i : c[i].C * before * Exp(c[i].cum)
                            + Sum(n, LAMBDA j : CB[i][j] * Exp(c[i].cum - c[j].cum) * c[j].dt * c[j].x)
                            + c[i].x * D)

\* conv_ssm_forward for a prompt of n tokens padded to whole chunks: the
\* convolution sees what is in the padding, everything after it is masked.
\* The window is that after the last token; states has one for every chunk.
MixerPrefill(tokens, pad, cs, m) ==
  LET n == Len(tokens)
      input == m.window \o tokens \o pad
      conv == Convolved(input)
      masked == SubSeq([i \in DOMAIN conv |-> IF i <= n THEN conv[i] ELSE NoToken], 1, Len(conv))
      chunks == SsdChunks(masked, n, cs)
      states == StatePassing(chunks, m.state)
      before(c) == IF c = 1 THEN m.state ELSE states[c - 1]
  IN [out |-> SubSeq(FlattenSeq([c \in DOMAIN chunks |-> ChunkScan(chunks[c], before(c))]), 1, n),
      window |-> SubSeq(input, n + 1, n + WindowLen),
      states |-> states,
      state |-> states[Len(states)]]
=============================================================================
