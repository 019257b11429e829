------------------------------ MODULE Filters ------------------------------
(***************************************************************************)
(* Loops that go through a list and take some of it.                       *)
(***************************************************************************)
EXTENDS Integers, SequencesExt

\* Those of a sequence that are in a set, and the others, in their order.
Only(s, keys) ==
    LET only[i \in 0 .. Len(s)] ==
            IF i = 0 THEN << >>
            ELSE IF s[i] \in keys THEN Append(only[i - 1], s[i]) ELSE only[i - 1]
    IN  only[Len(s)]

Without(s, keys) == Only(s, ToSet(s) \ keys)
=============================================================================
