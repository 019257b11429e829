---------------------------- MODULE GreedyDecode ----------------------------
(***************************************************************************)
(* What speculative decoding promises: the text of every request is the    *)
(* one that is had by taking the model's next token over and over, until   *)
(* the end of the turn or the token limit.  How many tokens come at a time *)
(* is left open, and a client may give up.  SpecDecode implements this.    *)
(***************************************************************************)
EXTENDS Integers, Sequences, SequencesExt

CONSTANTS
    Requests,
    Eos,
    Prompt,                \* request -> its prompt
    MaxTokens,             \* request -> the most tokens it may get
    NextToken(_, _)        \* model, text -> the token that follows

VARIABLES
    model,
    text,    \* request -> its prompt and the tokens it got
    over     \* the requests that get no more

vars == <<model, text, over>>

Init == text = [q \in Requests |-> Prompt[q]] /\ over = {}

Ended(q, t) == Last(t) = Eos \/ Len(t) = Len(Prompt[q]) + MaxTokens[q]

\* t is what q may have been sent: nothing follows the end.
Continues(q, t) ==
    /\ IsStrictPrefix(Prompt[q], t)
    /\ Len(t) <= Len(Prompt[q]) + MaxTokens[q]
    /\ \A i \in Len(Prompt[q]) + 1 .. Len(t) :
          /\ t[i] = NextToken(model, SubSeq(t, 1, i - 1))
          /\ i < Len(t) => t[i] # Eos

Grow(q) ==
    /\ q \notin over
    /\ IsStrictPrefix(text[q], text'[q])
    /\ Continues(q, text'[q])
    /\ q \in over' <=> Ended(q, text'[q])

Stay(q) == text'[q] = text[q] /\ (q \in over => q \in over')

Next ==
    /\ DOMAIN text' = Requests
    /\ \A q \in Requests : Grow(q) \/ Stay(q)
    /\ UNCHANGED model

Spec == Init /\ [][Next]_vars
=============================================================================
