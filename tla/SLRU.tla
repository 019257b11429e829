-------------------------------- MODULE SLRU --------------------------------
(***************************************************************************)
(* The replacement policy of the expert cache (weights/expert_cache.py,    *)
(* _SLRU): a probation segment that new keys enter and a protected segment *)
(* a second hit takes them to, both from the oldest key to the newest.     *)
(* The policy knows keys only; who holds which slot is ExpertCache's.      *)
(***************************************************************************)
EXTENDS Filters

CONSTANTS
    Capacity,      \* cap: the number of slots
    ProtectedCap   \* prot_cap

EmptyPolicy == [probation |-> << >>, protected |-> << >>]

\* The keys from the next victim to the last.
ByValue(p) == p.probation \o p.protected

Resident(p) == ToSet(p.probation) \cup ToSet(p.protected)

\* A hit makes a protected key the newest; it promotes one on probation, and
\* the oldest protected key is demoted, never dropped, when there are too many.
Touch(p, k) ==
    LET protected == Append(Without(p.protected, {k}), k)
        full == k \notin ToSet(p.protected) /\ Len(protected) > ProtectedCap
    IN  [probation |-> Without(p.probation, {k})
                         \o (IF full THEN <<Head(protected)>> ELSE << >>),
         protected |-> IF full THEN Tail(protected) ELSE protected]

\* The first n victims, and the policy without them (take_victim n times).
Victims(p, n) == SubSeq(ByValue(p), 1, n)

WithoutKeys(p, keys) ==
    [probation |-> Without(p.probation, keys),
     protected |-> Without(p.protected, keys)]

\* What admitting one more key evicts: nothing while there is room.
AdmitVictims(p) == IF Len(ByValue(p)) >= Capacity THEN Victims(p, 1) ELSE << >>

Admit(p, k) ==
    LET q == WithoutKeys(p, ToSet(AdmitVictims(p)))
    IN  [q EXCEPT !.probation = Append(@, k)]
=============================================================================
