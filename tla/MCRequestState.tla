--------------------------- MODULE MCRequestState ---------------------------
(***************************************************************************)
(* Instances of RequestState: q1 reasons within a budget, q2 reasons       *)
(* without one and may open a tool call in it, q3 does neither and has its *)
(* prompt prefilled in two passes.                                         *)
(***************************************************************************)
EXTENDS RequestState

MCRequests == {"q1", "q2", "q3"}
MCTokens == {"t", "u", "o", "c", "e"}
MCEos == "e"

MCSays == [q1 |-> {"t", "u", "e"}, q2 |-> {"o", "c"}, q3 |-> {"t"}]
MCMaxTokens == [q1 |-> 6, q2 |-> 6, q3 |-> 2]
MCChunks == [q1 |-> 1, q2 |-> 1, q3 |-> 2]
MCBudget == [q1 |-> 0, q2 |-> -1, q3 |-> 0]

MCThinks == {"q1", "q2"}
MCHasTools == {"q2"}
NoRequests == {}

\* The delimiter is two tokens; reasoning also ends with u t u, or with one
\* token between t and the last u.
MCClose == <<"t", "u">>
MCReleases == {[head |-> <<"u", "t">>, tail |-> <<"u">>, gap |-> 1]}
MCOpeners == {Exactly(<<"o">>)}
MCClosers == {Exactly(<<"c">>)}
MCUnbounded == 100

BothLoops == {TRUE, FALSE}
=============================================================================
