---------------------------- MODULE RequestState ----------------------------
(***************************************************************************)
(* What the scheduler keeps of a request beside its KV pages, along the    *)
(* normal and the overlap loop of scheduler/scheduler.py: the cells of its *)
(* token-pool row, from which the next forward reads its input; its two    *)
(* gates (think_gate.py); its recurrent-state slot (recurrent_slots.py).   *)
(*                                                                         *)
(* In the overlap loop the next batch is scheduled and launched before the *)
(* last one is committed, so that all three are read one token before they *)
(* are brought up to date, and a request can be released while a batch     *)
(* with it is in flight.  Batches follow one another on the engine's       *)
(* stream; the scheduler's own copies are on another one, which batches    *)
(* wait for and which does not wait for batches.                           *)
(*                                                                         *)
(* The free table rows and the free recurrent slots are two stacks, taken  *)
(* from and given back to together: slot[q] stands for both.  A prefill    *)
(* batch has one request, and its pages are always to be had (KVScheduler  *)
(* packs them).  Structured output, speculative steps, CAM and the         *)
(* snapshots of the radix cache are left out.                              *)
(***************************************************************************)
EXTENDS TokenGates, FiniteSets

CONSTANTS
    Requests,
    Tokens,       \* the vocabulary
    Eos,          \* and its end-of-turn token
    Says,         \* request -> the tokens the model may sample for it
    MaxTokens,    \* request -> max_tokens
    Chunks,       \* request -> prefill passes its prompt takes
    Thinks,       \* requests with a think_close_delim
    Budget,       \* request -> think_budget: asked, 0 for none, below 0 unbounded
    HasTools,     \* requests with tool-call delimiters
    Gated,        \* those of them with think closers (tool_match_gated)
    Rows,         \* max_running_req: table rows and recurrent slots
    Overlap       \* the values of overlap looked at

\* A batch gives each of its requests what is sampled for it, if it is not a
\* chunk, and the slot it is computed with.
NoBatch == << >>
Chunk == "chunk"

ASSUME RequestsAssumption ==
    /\ Chunk \notin Tokens
    /\ Eos \in Tokens /\ Says \in [Requests -> SUBSET Tokens]
    /\ MaxTokens \in [Requests -> Nat \ {0}] /\ Chunks \in [Requests -> Nat \ {0}]
    /\ Budget \in [Requests -> Int]
    /\ Thinks \subseteq Requests /\ HasTools \subseteq Requests /\ Gated \subseteq HasTools
    /\ Rows \in Nat \ {0} /\ Overlap \subseteq BOOLEAN

\* No delimiter holds the end-of-turn token; a tool gate has something to match;
\* and no request asks for as many tokens as _UNBOUNDED.
ASSUME DelimitersAssumption ==
    /\ Close \in Seq(Tokens \ {Eos})
    /\ HasTools # {} => Openers # {} /\ Closers # {}
    /\ Unbounded > 1 /\ \A q \in Requests : MaxTokens[q] < Unbounded

VARIABLES
    overlap,    \* which loop runs
    pc,         \* "receive" or "commit"
    stage,      \* request -> "new", "waiting", "chunked", "running" or "done"
    reason,     \* request -> its finish reason, or "none"
    left,       \* request -> prefill passes left
    launched,   \* request -> forwards launched that sample for it
    cells,      \* request -> generated tokens in its token-pool row
    out,        \* request -> generated tokens committed: the host's input_ids
    think,      \* request -> its entry in the think gate
    tool,       \* request -> its entry in the tool gate
    torn,       \* requests with a prompt cell another request's token is in
    slot,       \* request -> its table row and recurrent slot, or 0
    free,       \* the slots nobody has, the next one last
    state,      \* slot -> the requests whose forwards went into its state
    last,       \* the batch launched in the iteration before
    ongoing     \* the batch launched in this one

gates == <<think, tool>>
slots == <<slot, free, state>>
vars == <<overlap, pc, stage, reason, left, launched, cells, out, gates, torn, slots, last, ongoing>>

Init ==
    /\ overlap \in Overlap /\ pc = "receive"
    /\ stage = [q \in Requests |-> "new"] /\ reason = [q \in Requests |-> "none"]
    /\ left = Chunks
    /\ launched = [q \in Requests |-> 0]
    /\ cells = [q \in Requests |-> << >>] /\ out = [q \in Requests |-> << >>]
    /\ think = [q \in Requests |-> Off] /\ tool = [q \in Requests |-> Off]
    /\ torn = {}
    /\ slot = [q \in Requests |-> 0] /\ free = [i \in 1..Rows |-> i]
    /\ state = [s \in 1..Rows |-> << >>]
    /\ last = NoBatch /\ ongoing = NoBatch

Holders == {q \in Requests : stage[q] \in {"chunked", "running"}}
Talking == {q \in Requests : stage[q] = "running"}

\* can_decode, and the running set filter_reqs keeps.
CanDecode(q) == launched[q] < MaxTokens[q]
Running == {q \in Requests : stage[q] = "running" /\ CanDecode(q)}

----------------------------------------------------------------------------
(* _free_req_resources: once for a request, whoever reaches it.            *)

\* TableManager.free and RecurrentSlotManager.free: what S had, and only once.
KeepSlots(S) ==
    /\ free' = free \o SetToSeq({slot[q] : q \in S} \ {0})
    /\ UNCHANGED <<slot, state>>
FreeSlots(S) ==
    /\ free' = free \o SetToSeq({slot[q] : q \in S} \ {0})
    /\ slot' = [q \in Requests |-> IF q \in S THEN 0 ELSE slot[q]]
    /\ UNCHANGED state

\* What is left in the gates of those who are released.
Kept(S, entries) == entries
Freed(S, entries) == [q \in Requests |-> IF q \in S THEN Off ELSE entries[q]]

Release(S) ==
    /\ stage' = [q \in Requests |-> IF q \in S THEN "done" ELSE stage[q]]
    /\ torn' = torn \ S
    /\ FreeSlots(S)

----------------------------------------------------------------------------
(* receive_msg.                                                            *)

Arrive(q) ==
    /\ pc = "receive" /\ stage[q] = "new"
    /\ stage' = [stage EXCEPT ![q] = "waiting"]
    /\ UNCHANGED <<overlap, pc, reason, left, launched, cells, out, gates, torn, slots, last, ongoing>>

\* An abort finds who is queued, between two chunks, or in the running set.
Abort(q) ==
    /\ pc = "receive"
    /\ stage[q] \in {"waiting", "chunked"} \/ q \in Running
    /\ Release({q}) /\ reason' = [reason EXCEPT ![q] = "abort"]
    /\ think' = Freed({q}, think) /\ tool' = Freed({q}, tool)
    /\ out' = [out EXCEPT ![q] = << >>] /\ cells' = [cells EXCEPT ![q] = << >>]
    /\ UNCHANGED <<overlap, pc, left, launched, last, ongoing>>

----------------------------------------------------------------------------
(* _schedule_next_batch and _forward.                                      *)

\* What may be sampled: the end of the turn is masked by the gates as they
\* are when the batch is prepared.
Sampled(q) == Says[q] \ (IF ThinkHolds(think[q]) \/ ToolHolds(tool[q]) THEN {Eos} ELSE {})

\* A prompt that is being chunked goes before the others.
CanPrefill(q) ==
    \/ stage[q] = "chunked"
    \/ /\ stage[q] = "waiting" /\ free # << >>
       /\ \A p \in Requests : stage[p] # "chunked"

\* TableManager.allocate and state_indices: who has no slot gets one, zeroed.
SlotFor(q) == IF slot[q] # 0 THEN slot[q] ELSE Last(free)
TakeSlot(q) ==
    /\ slot' = [slot EXCEPT ![q] = SlotFor(q)]
    /\ free' = IF slot[q] # 0 THEN free ELSE Front(free)
ZeroSlot(q) == TakeSlot(q) /\ state' = [state EXCEPT ![SlotFor(q)] = <<q>>]
EnsureSlot(q) ==
    /\ TakeSlot(q)
    /\ state' = [state EXCEPT ![SlotFor(q)] = IF slot[q] # 0 THEN Append(@, q) ELSE <<q>>]

\* The prompt is copied into the row on the scheduler's stream.  The batch in
\* flight writes what it samples on the engine's, at a place in the row that
\* the new prompt may reach to, and after the copy or before it.
WritersOf(s) == {r \in DOMAIN last : last[r].slot = s /\ last[r].token # Chunk}
CopyPrompt(q) ==
    \/ UNCHANGED torn
    \/ overlap /\ slot[q] = 0 /\ WritersOf(SlotFor(q)) # {} /\ torn' = torn \cup {q}

Prefill(q) ==
    /\ pc = "receive" /\ CanPrefill(q)
    /\ EnsureSlot(q) /\ CopyPrompt(q)
    /\ left' = [left EXCEPT ![q] = @ - 1]
    /\ \/ /\ left[q] > 1
          /\ stage' = [stage EXCEPT ![q] = "chunked"]
          /\ ongoing' = [p \in {q} |-> [token |-> Chunk, slot |-> SlotFor(q)]]
          /\ UNCHANGED <<launched, cells>>
       \/ /\ left[q] = 1
          /\ stage' = [stage EXCEPT ![q] = "running"]
          /\ launched' = [launched EXCEPT ![q] = 1]
          /\ \E t \in Sampled(q) :
                /\ ongoing' = [p \in {q} |-> [token |-> t, slot |-> SlotFor(q)]]
                /\ cells' = [cells EXCEPT ![q] = <<t>>]
    /\ pc' = "commit"
    /\ UNCHANGED <<overlap, reason, out, gates, last>>

\* The last cell of each row is the input; what is sampled goes into the next.
Decode ==
    /\ pc = "receive" /\ (\A q \in Requests : ~CanPrefill(q)) /\ Running # {}
    /\ \E sampled \in [Running -> Tokens] :
          /\ \A q \in Running : sampled[q] \in Sampled(q)
          /\ ongoing' = [q \in Running |-> [token |-> sampled[q], slot |-> slot[q]]]
          /\ cells' = [q \in Requests |->
                IF q \in Running THEN Append(cells[q], sampled[q]) ELSE cells[q]]
    /\ launched' = [q \in Requests |-> IF q \in Running THEN launched[q] + 1 ELSE launched[q]]
    /\ state' = [s \in 1..Rows |->
          state[s] \o SetToSeq({q \in Running : slot[q] = s})]
    /\ pc' = "commit"
    /\ UNCHANGED <<overlap, stage, reason, left, out, gates, torn, slot, free, last>>

NothingToDo ==
    /\ pc = "receive" /\ (\A q \in Requests : ~CanPrefill(q)) /\ Running = {}
    /\ last # NoBatch
    /\ pc' = "commit"
    /\ UNCHANGED <<overlap, stage, reason, left, launched, cells, out, gates, torn, slots, last, ongoing>>

----------------------------------------------------------------------------
(* _process_last_data.                                                     *)

\* The batch that is committed, and the one in flight meanwhile.
Committed == IF overlap THEN last ELSE ongoing
InFlight == IF overlap THEN DOMAIN ongoing ELSE {}

Sampling == {q \in DOMAIN Committed : Committed[q].token # Chunk}

\* Both gates are armed at each commit, unless they are or the span is over.
ArmedThink(q) ==
    IF q \in Thinks /\ think[q].at = "off" THEN ArmThink(Budget[q], MaxTokens[q]) ELSE think[q]

ArmedTool(q) ==
    IF q \in HasTools /\ tool[q].at = "off"
    THEN ArmTool(IF q \in Gated THEN {Exactly(Close)} ELSE {}) ELSE tool[q]

\* The token committed: what was sampled, or what the backstop demands.
Token(q) == IF Spent(ArmedThink(q)) THEN ForcedNext(ArmedThink(q)) ELSE Committed[q].token
Overridden == {q \in Sampling : Token(q) # Committed[q].token}

\* The override is written where the forward wrote, if the forward is the last
\* one launched; a forward in flight may write the same cell after it.
HostOnly(q, tokens) == tokens
Overwrite(q, tokens) == [tokens EXCEPT ![Len(tokens)] = Token(q)]

Finished(q) == Token(q) = Eos \/ ~CanDecode(q)

\* The gates move while the reasoning gate is armed, and only then.
MovedThink(q) ==
    IF Finished(q) \/ ArmedThink(q).at # "armed" THEN ArmedThink(q)
    ELSE CommitThink(ArmedThink(q), Token(q))

MovedTool(q) ==
    IF Finished(q) \/ ArmedThink(q).at # "armed" THEN ArmedTool(q)
    ELSE CommitTool(ArmedTool(q), Token(q))

Commit ==
    /\ pc = "commit"
    /\ LET over == {q \in Sampling : Finished(q) /\ stage[q] # "done"}
           goOn == {q \in Sampling : stage[q] # "done"} \ over
       IN  /\ Release(over)
           /\ reason' = [q \in Requests |->
                 IF q \notin over THEN reason[q] ELSE IF Token(q) = Eos THEN "stop" ELSE "length"]
           /\ think' = Freed(over, [q \in Requests |-> IF q \in Sampling THEN MovedThink(q) ELSE think[q]])
           /\ tool' = Freed(over, [q \in Requests |-> IF q \in Sampling THEN MovedTool(q) ELSE tool[q]])
           /\ out' = [q \in Requests |->
                 IF q \in over THEN << >> ELSE IF q \in goOn THEN Append(out[q], Token(q)) ELSE out[q]]
           /\ \E lost \in SUBSET (Overridden \cap InFlight) :
                 cells' = [q \in Requests |->
                     IF q \in over THEN << >>
                     ELSE IF q \in goOn \cap (Overridden \ lost) THEN Overwrite(q, cells[q])
                     ELSE cells[q]]
    /\ last' = IF overlap THEN ongoing ELSE NoBatch
    /\ ongoing' = NoBatch /\ pc' = "receive"
    /\ UNCHANGED <<overlap, left, launched>>

----------------------------------------------------------------------------
Next ==
    \/ \E q \in Requests : Arrive(q) \/ Abort(q) \/ Prefill(q)
    \/ Decode \/ NothingToDo \/ Commit

Spec == Init /\ [][Next]_vars

----------------------------------------------------------------------------
(* Properties.                                                             *)

\* The text of a request says that its reasoning is over, or that a tool call
\* it opened is not closed.
Reasoned(text) == \E n \in 1 .. Len(text) : MatchesOne(SubSeq(text, 1, n), Ends)

OpenCall(text) ==
    \E n \in 1 .. Len(text) :
        /\ MatchesOne(SubSeq(text, 1, n), Openers)
        /\ \A m \in n + 1 .. Len(text) : ~MatchesOne(SubSeq(text, 1, m), Closers)

\* A slot has one holder, who has it from its first prefill to its release, and
\* the recurrent state in it comes from every forward of that request and from
\* no other: a continuation is not zeroed, a second release frees nothing.
SlotsFollowRequests ==
    /\ \A q \in Requests : q \in Holders <=> slot[q] # 0
    /\ \A p, q \in Holders : p # q => slot[p] # slot[q]
    /\ ToSet(free) = (1..Rows) \ {slot[q] : q \in Holders}
    /\ IsInjective(free)
    /\ \A q \in Holders :
          state[slot[q]] = [i \in 1 .. (Chunks[q] - left[q]) + (IF launched[q] = 0 THEN 0 ELSE launched[q] - 1) |-> q]

\* The override of a sampled token (scheduler.py:1517) writes into the row of a
\* request that still has it, though the request of a late commit may be gone:
\* its gate was freed, and the one the late commit arms has counted nothing.
OnlyOwnRows == pc = "commit" => Overridden \cap {q \in Requests : stage[q] = "done"} = {}

\* The cells the next forward reads are the tokens the client was sent, forced
\* ones too.  In the overlap loop: for requests without a reasoning gate.
ContextIsCommitted ==
    \A q \in Talking : (overlap => q \notin Thinks) =>
        /\ Len(out[q]) <= Len(cells[q])
        /\ SubSeq(cells[q], 1, Len(out[q])) = out[q]

\* The same for every request of both loops, and for its prompt: what the
\* comment on the feedback check of _forward says of the token pool.
ContextIsTheText ==
    \A q \in Talking : q \notin torn /\ SubSeq(cells[q], 1, Len(out[q])) = out[q]

\* Reasoning is bounded: once the budget is spent, or the text is caught in a
\* loop, the delimiter is out after at most its own length in tokens, whatever
\* part of it the model says by itself and however stale the next batch is.
ReasoningIsBounded ==
    \A q \in Talking \cap Thinks : \A n \in 1 .. Len(out[q]) - Len(Close) :
        (n >= EffectiveBudget(Budget[q], MaxTokens[q]) \/ Loops(SubSeq(out[q], 1, n)))
            => Reasoned(out[q])

\* The gates follow the text: the reasoning gate is armed exactly while the
\* tokens sent do not end the reasoning (the window loses no delimiter, and a
\* gate that was released is not armed again), and as long as it is, an ungated
\* tool gate knows whether the text has an open tool call.
GatesFollowText ==
    \A q \in Talking :
        /\ q \in Thinks =>
               (think[q].at = "armed" <=> out[q] # << >> /\ ~Reasoned(out[q]))
        /\ q \in HasTools \ Gated /\ think[q].at = "armed" =>
               (tool[q].inside <=> OpenCall(out[q]))

\* A bounded reasoner does not end its turn before its reasoning: only its
\* first token, and under the overlap loop its second, is sampled before its
\* gate is armed.
EosWaitsForReasoning ==
    [][\A q \in Thinks :
          (/\ Budget[q] >= 0 /\ reason[q] # reason'[q] /\ reason'[q] = "stop"
           /\ Len(out[q]) >= (IF overlap THEN 2 ELSE 1)) => Reasoned(out[q])]_vars
=============================================================================
