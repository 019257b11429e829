---------------------------- MODULE MCSpecDecode ----------------------------
(***************************************************************************)
(* Instances of SpecDecode: request 1 reasons within a budget, 2 does not, *)
(* and 3 asks for logprobs.                                                *)
(***************************************************************************)
EXTENDS SpecDecode

MCTokens == 0..2
MCPrompt == <<<<1>>, <<0, 1>>, <<1>>>>
MCMaxTokens == <<6, 4, 2>>
\* Right and wrong ones, of every length; some end the turn or the reasoning.
MCDrafts == {<< >>, <<1>>, <<0, 1>>, <<1, 1>>, <<1, 2>>}
MCBudget == <<2, 0, 0>>

MCClose == <<1, 1>>
MCReleases == {}
MCOpeners == {Exactly(<<0>>)}
MCClosers == {Exactly(<<1>>)}

\* GDN with graphs off; ReplaySSM with the one width verify_width_ladder gives
\* for two drafts; and ReplaySSM with a ring that has room for one of the two
\* captured widths only, as REPLAY_RING_LEN has for two of 3, 7 and 15.
MCServers ==
    {[model |-> 3, kind |-> "gdn", ring |-> 0, ladder |-> {}],
     [model |-> 1, kind |-> "gdn", ring |-> 3, ladder |-> {2}],
     [model |-> 1, kind |-> "gdn", ring |-> 2, ladder |-> {1, 2}]}

MCCcaServers == {[model |-> m, kind |-> "cca", ring |-> 0, ladder |-> {2}] : m \in {1, 3}}

\* What is likeliest depends on everything the model reads; if it is not
\* allowed, the next one is.
Weight(m, s) ==
    LET w[n \in 0 .. Len(s)] == IF n = 0 THEN 0 ELSE (3 * (w[n - 1] + s[n]) + m) % 11
    IN  w[Len(s)]
Likeliest ==
    [seed \in 0..2, allowed \in SUBSET MCTokens \ {{}} |->
        CHOOSE t \in allowed : \A u \in allowed : (t - seed) % 3 <= (u - seed) % 3]
MCArgmax(m, context, state, allowed) ==
    Likeliest[(Weight(m, context) + Weight(m, state.conv) + 2 * Weight(m, state.ssm)) % 3, allowed]
=============================================================================
