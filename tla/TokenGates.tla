----------------------------- MODULE TokenGates -----------------------------
(***************************************************************************)
(* The two gates of scheduler/think_gate.py, for one request: records that *)
(* advance by one committed token at a time and answer what the next token *)
(* has to be, or may not be.                                               *)
(*                                                                         *)
(* ThinkGate follows a reasoning span to the delimiter that ends it, and   *)
(* when the budget is spent forces that delimiter token by token.          *)
(* ToolCallGate follows a tool call from its opener to its closer.  Both   *)
(* match patterns against a window of the last tokens.  A pattern is a     *)
(* head, or a head and a tail with at most gap tokens between.             *)
(*                                                                         *)
(* No delimiter holds the end-of-turn token (may_suppress_eos).            *)
(***************************************************************************)
EXTENDS Integers, Sequences, SequencesExt, FiniteSets

CONSTANTS
    Close,          \* force_seq: the delimiter the backstop emits
    Releases,       \* other patterns that end a reasoning span
    DefaultBudget,  \* default_budget of a ThinkGate
    Unbounded,      \* _UNBOUNDED: a budget that is never spent
    LoopSpan,       \* loop_span, loop_reps, loop_period
    LoopReps,
    LoopPeriod,
    Openers,        \* patterns that open a tool call
    Closers,        \* and patterns that close it
    ToolBudget      \* tokens a call may hold the end of the turn

ASSUME GatesAssumption ==
    /\ {Len(Close), DefaultBudget, Unbounded, LoopReps, LoopPeriod, ToolBudget} \subseteq Nat \ {0}
    /\ LoopSpan \in Nat

ASSUME ReleasesAssumption ==
    /\ IsFiniteSet(Releases)
    /\ \A p \in Releases : {Len(p.head), Len(p.tail), p.gap} \subseteq Nat

ASSUME ToolsAssumption ==
    \A patterns \in {Openers, Closers} :
        /\ IsFiniteSet(patterns)
        /\ \A p \in patterns : {Len(p.head), Len(p.tail), p.gap} \subseteq Nat

Off == [at |-> "off"]

LastOf(s, n) == SubSeq(s, IF Len(s) > n THEN Len(s) - n + 1 ELSE 1, Len(s))

\* A pattern at the end of a window.
Exactly(tokens) == [head |-> tokens, tail |-> << >>, gap |-> 0]

Matches(window, pattern) ==
    \/ pattern.tail = << >> /\ IsSuffix(pattern.head, window)
    \/ /\ pattern.tail # << >> /\ IsSuffix(pattern.tail, window)
       /\ \E g \in 0..pattern.gap :
             LET rest == Len(window) - Len(pattern.tail) - g
             IN  rest >= 0 /\ IsSuffix(pattern.head, SubSeq(window, 1, rest))

MatchesOne(window, patterns) == \E p \in patterns : Matches(window, p)

\* The tokens a gate has to remember: the longest pattern.
CloseWidth(patterns) == Len(Close) - 1
Width(patterns) ==
    LET w(p) == Len(p.head) + (IF p.tail = << >> THEN 0 ELSE Len(p.tail) + p.gap)
    IN  CHOOSE n \in {w(p) : p \in patterns} : \A p \in patterns : w(p) <= n
----------------------------------------------------------------------------
(* ThinkGate.                                                              *)

Ends == Releases \cup {Exactly(Close)}

\* The budget leaves room for the answer and for the delimiter itself.
EffectiveBudget(asked, maxTokens) ==
    LET b == IF asked > 0 THEN asked ELSE DefaultBudget
        most == (maxTokens * 3) \div 4 - Len(Close)
    IN  IF asked < 0 THEN Unbounded
        ELSE IF b + Len(Close) < maxTokens THEN b
        ELSE IF most > 1 THEN most ELSE 1

ArmThink(asked, maxTokens) ==
    [at |-> "armed", budget |-> EffectiveBudget(asked, maxTokens), count |-> 0,
     window |-> << >>, forcing |-> 0, spoken |-> << >>, loop |-> FALSE]

\* Where the delimiter is continued: after what was forced of it, or after the
\* longest part of it the model said by itself; and always from its start.
StartAgain(gate) == 1
ForceBase(gate) ==
    IF gate.forcing > 0 THEN gate.forcing
    ELSE LET said == {k \in 0 .. Len(Close) - 1 : IsSuffix(SubSeq(Close, 1, k), gate.window)}
         IN  1 + CHOOSE k \in said : \A j \in said : j <= k

Spent(gate) == gate.at = "armed" /\ gate.count >= gate.budget

\* forced_next, where Spent(gate).
ForcedNext(gate) == Close[ForceBase(gate)]

\* forced_at, for the positions of a block: past the end of the delimiter it
\* stays at its last token.
ForcedAt(gate, ahead) ==
    LET i == ForceBase(gate) + ahead IN Close[IF i < Len(Close) THEN i ELSE Len(Close)]

\* suppress_eos: never for a budget that nothing ends.
HoldsTooShort(gate) ==
    gate.at = "armed" /\ gate.budget # Unbounded /\ gate.count + 1 < gate.budget
ThinkHolds(gate) ==
    gate.at = "armed" /\ gate.budget # Unbounded /\ gate.count < gate.budget

\* _loop_step: the text ends in copies of one unit.
Repeated(text, p) ==
    LET breaks == {i \in p + 1 .. Len(text) : text[i] # text[i - p]} \cup {p}
    IN  Len(text) - CHOOSE i \in breaks : \A j \in breaks : j <= i

Loops(text) ==
    /\ LoopSpan > 0
    /\ \E p \in 1..LoopPeriod :
          p < Len(text) /\ Repeated(text, p) >= LoopSpan /\ Repeated(text, p) >= p * LoopReps

\* A token of the delimiter is not counted; any other one ends a forced run.
CommitThink(gate, token) ==
    LET forced == Spent(gate) /\ token = ForcedNext(gate)
        text == Append(gate.spoken, token)
        loops == ~forced /\ ~gate.loop /\ Loops(text)
        moved == [gate EXCEPT
            !.window = LastOf(Append(@, token), Width(Ends)),
            !.forcing = IF forced THEN ForceBase(gate) + 1 ELSE 0,
            !.spoken = IF forced THEN @ ELSE text,
            !.count = IF forced THEN @ ELSE @ + 1,
            !.loop = @ \/ loops,
            !.budget = IF loops /\ gate.count + 1 < @ THEN gate.count + 1 ELSE @]
    IN  IF MatchesOne(moved.window, Ends) \/ moved.forcing > Len(Close)
        THEN [at |-> "released"] ELSE moved

\* scan: where in a run of tokens the reasoning would be over.
EndsIn(gate, tokens) ==
    {i \in 1 .. Len(tokens) :
        MatchesOne(LastOf(gate.window \o SubSeq(tokens, 1, i), Width(Ends)), Ends)}

\* commit_many: up to the release.
CommitRun(gate, tokens) ==
    FoldLeft(LAMBDA g, t : IF g.at = "armed" THEN CommitThink(g, t) ELSE g, gate, tokens)

----------------------------------------------------------------------------
(* ToolCallGate.                                                           *)

ArmTool(thinkClosers) ==
    [at |-> "armed", inside |-> FALSE, count |-> 0, window |-> << >>,
     closers |-> thinkClosers, inThink |-> thinkClosers # {}]

ToolHolds(gate) == gate.at = "armed" /\ gate.inside /\ gate.count < ToolBudget

CommitTool(gate, token) ==
    LET window == LastOf(Append(gate.window, token), Width(Openers \cup Closers \cup gate.closers))
        moved == [gate EXCEPT !.window = window]
    IN  IF gate.at = "off" THEN gate
        ELSE IF gate.inThink THEN
            [moved EXCEPT !.inThink = ~MatchesOne(window, gate.closers)]
        ELSE IF gate.inside THEN
            IF MatchesOne(window, Closers) THEN [moved EXCEPT !.inside = FALSE, !.count = 0]
            ELSE [moved EXCEPT !.count = @ + 1]
        ELSE [moved EXCEPT !.inside = MatchesOne(window, Openers)]

CommitToolRun(gate, tokens) == FoldLeft(CommitTool, gate, tokens)
=============================================================================
