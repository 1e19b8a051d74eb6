---------------------------- MODULE TokenStreams ----------------------------
(***************************************************************************)
(* What decoding promises each client, however steps are scheduled: a      *)
(* request's output grows by its own next token, never by another's, an    *)
(* earlier or a later one, and is final once the request is done.          *)
(***************************************************************************)
EXTENDS Integers, Sequences

CONSTANTS
  Reqs,   \* request ids
  MaxOut  \* output tokens after which a request is done

VARIABLES
  stream,  \* the tokens each request has been given
  done     \* requests that are finished

(* The token that follows a prefix of r's output: the k-th token of r.         *)
NextToken(r, s) == [of |-> r, at |-> Len(s) + 1]

Init == stream = [r \in Reqs |-> <<>>] /\ done = {}

(* One processed step may give tokens to several requests and end some.        *)
Deliver ==
  \E given \in SUBSET (Reqs \ done), ended \in SUBSET (Reqs \ done) :
    /\ \A r \in given : Len(stream[r]) < MaxOut
    /\ stream' = [r \in Reqs |-> IF r \in given THEN Append(stream[r], NextToken(r, stream[r])) ELSE stream[r]]
    /\ done' = done \union ended

Spec == Init /\ [][Deliver]_<<stream, done>>
=============================================================================
