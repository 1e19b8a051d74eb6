---------------------------- MODULE MCSpecDecode ----------------------------
EXTENDS SpecDecode, TLC
LOCAL INSTANCE FiniteSetsExt

\* The next token depends on every key: on its token and on its position.
MCModel(keys) == ((3 * Cardinality(keys) + MapThenSumSet(LAMBDA k : (k[1] + 1) * (2 * k[2] + 3), keys)) % 13) % 2
MCPrompt == (1 :> <<1, 0>>) @@ (2 :> <<2>>)
Base == [method |-> "eagle", pad |-> 1, trim |-> FALSE, even |-> TRUE, chunked |-> FALSE, max_preempts |-> 0,
         requests |-> {1, 2}]
MCConfigs == {Base, [Base EXCEPT !.method = "ngram", !.requests = {1}], [Base EXCEPT !.pad = 0, !.max_preempts = 1, !.requests = {1}]}
\* As the scheduler may also do: rows with different numbers of drafts.
MCUneven == {[Base EXCEPT !.even = FALSE]}
MCOne == {[Base EXCEPT !.pad = 0]}
MCChunked == {[Base EXCEPT !.chunked = TRUE]}
=============================================================================
