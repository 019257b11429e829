----------------------------- MODULE SpecDecode -----------------------------
(***************************************************************************)
(* Speculative decoding: _spec_loop and _spec_decode_step of               *)
(* scheduler/scheduler.py, with spec/accept.py and spec/width.py.          *)
(*                                                                         *)
(* A step stages a block for every running request: its last token and the *)
(* drafts a proposer makes up.  One forward gives the model's own next     *)
(* token after each of them.  The drafts that agree are kept, with the one *)
(* token that follows; what the forward left of the others is taken back:  *)
(* KV pages, token-pool cells, and the recurrent state, which has moved    *)
(* over the whole block.                                                   *)
(*                                                                         *)
(* The loop is synchronous: one action is one iteration.  A prefill has    *)
(* one request and one pass, shares no prefix and gives its pages back     *)
(* when it ends (KVScheduler has the cache).  Left out: sampled and        *)
(* constrained requests, penalties, draft trees, the fused TiDAR step, and *)
(* the broadcasts between the ranks of one replica.                        *)
(***************************************************************************)
EXTENDS TokenGates, Filters, FiniteSets, FiniteSetsExt

CONSTANTS
    Requests,     \* uids: a batch is in their order
    Tokens,
    Eos,
    Filler,       \* the token a block is padded with
    Prompt,       \* request -> its prompt
    MaxTokens,    \* request -> max_tokens
    Thinks,       \* requests with a think_close_delim
    Budget,       \* request -> think_budget
    HasTools,     \* requests with tool-call delimiters
    Gated,        \* those of them with think closers
    LogProbs,     \* requests that ask for logprobs: they do not speculate
    Impatient,    \* requests a client may give up
    NumDraft,     \* num_draft
    Drafts,       \* what a proposer may make up
    SpecMaxBs,    \* the largest batch that speculates
    VerifyBs,     \* the largest batch a verify graph is captured for
    PageSize,
    NumPages,
    Rows,         \* table rows
    Servers,      \* how the server may be started
    Argmax(_, _, _, _)   \* model, context, recurrent state, tokens allowed

ASSUME SpecAssumption ==
    /\ Requests \subseteq Nat /\ IsFiniteSet(Requests)
    /\ {Eos, Filler} \subseteq Tokens /\ Close \in Seq(Tokens)
    /\ Prompt \in [Requests -> Seq(Tokens) \ {<< >>}] /\ MaxTokens \in [Requests -> Nat \ {0}]
    /\ Budget \in [Requests -> Int]
    /\ Thinks \subseteq Requests /\ HasTools \subseteq Requests /\ Gated \subseteq HasTools
    /\ LogProbs \subseteq Requests /\ Impatient \subseteq Requests
    /\ Drafts \subseteq BoundedSeq(Tokens, NumDraft)
    /\ {NumDraft, SpecMaxBs, VerifyBs, PageSize, NumPages, Rows} \subseteq Nat \ {0}
    /\ \A s \in Servers :
          /\ s.kind \in {"gdn", "cca"} /\ s.ladder \subseteq 1..NumDraft
          /\ s.ring \in Nat /\ (s.kind = "cca" => s.ring = 0)

VARIABLES
    server,    \* the model; its recurrent state: "gdn" or "cca"; the length of
               \* the ReplaySSM ring, 0: none; the captured verify widths, in
               \* drafts, {}: graphs off
    up,        \* the scheduler is alive
    stage,     \* request -> "new", "waiting", "running" or "done"
    queue,     \* pending_list
    text,      \* request -> input_ids: prompt and committed tokens
    cached,    \* request -> cached_len
    device,    \* request -> device_len
    input,     \* request -> the token-pool cell at cached_len
    row,       \* request -> the pages of its page-table row
    free,      \* free_slots
    kv,        \* location -> the token whose keys and values are there
    rec,       \* request -> its recurrent state: the tokens that went into it
    snap,      \* request -> the snapshot it left to the recurrent radix cache
    think,     \* request -> its entry in the think gate
    tool       \* request -> its entry in the tool gate

vars == <<server, up, stage, queue, text, cached, device, input, row, free, kv, rec, snap, think, tool>>

Pages == 1..NumPages
Locations == PageSize .. (NumPages + 1) * PageSize - 1
NoState == [conv |-> << >>, ssm |-> << >>]
NoSnap == [len |-> 0, state |-> NoState]

Init ==
    /\ server \in Servers /\ up = TRUE
    /\ stage = [q \in Requests |-> "new"] /\ queue = << >>
    /\ text = Prompt /\ input = [q \in Requests |-> Filler]
    /\ cached = [q \in Requests |-> 0] /\ device = [q \in Requests |-> 0]
    /\ row = [q \in Requests |-> << >>] /\ free = [i \in Pages |-> i]
    /\ kv = [l \in Locations |-> Filler]
    /\ rec = [q \in Requests |-> NoState] /\ snap = [q \in Requests |-> NoSnap]
    /\ think = [q \in Requests |-> Off] /\ tool = [q \in Requests |-> Off]

Running == {q \in Requests : stage[q] = "running"}
Limit(q) == Len(Prompt[q]) + MaxTokens[q]
Remain(q) == Limit(q) - device[q]
PagesFor(n) == (n + PageSize - 1) \div PageSize

\* The order of a batch, and what f has for the requests of S in that order.
Ordered(S) ==
    CHOOSE s \in [1 .. Cardinality(S) -> S] : \A i, j \in DOMAIN s : i < j => s[i] < s[j]
InOrder(S, f) == FlattenSeq([i \in 1 .. Cardinality(S) |-> f[Ordered(S)[i]]])

----------------------------------------------------------------------------
(* A forward.  A block has the input tokens of each request of the batch.  *)

\* allocate_paged: from the first page cached_len does not reach.
PagesNeeded(q, block) == PagesFor(cached[q] + Len(block[q])) - PagesFor(cached[q])
PagesTaken(block, S) == SumFunctionOnSet([q \in S |-> PagesNeeded(q, block)], S)
TooFewPages(block) == PagesTaken(block, DOMAIN block) > Len(free)

RowsFor(block) ==
    [q \in DOMAIN block |->
        LET before == PagesTaken(block, {r \in DOMAIN block : r < q})
        IN  SubSeq(row[q], 1, PagesFor(cached[q]))
                \o SubSeq(free, before + 1, before + PagesNeeded(q, block))]
FreeAfter(block) == SubSeq(free, PagesTaken(block, DOMAIN block) + 1, Len(free))

\* The location of position n of a row of pages.
Location(pages, n) == pages[(n \div PageSize) + 1] * PageSize + (n % PageSize)

\* Keys and values go where the rows say, from cached_len on (out_loc).
Written(block) ==
    LET rows == RowsFor(block)
        writes == UNION {{<<Location(rows[q], cached[q] + j - 1), block[q][j]>> :
                              j \in DOMAIN block[q]} : q \in DOMAIN block}
    IN  [l \in Locations |->
            IF \E w \in writes : w[1] = l THEN (CHOOSE w \in writes : w[1] = l)[2] ELSE kv[l]]

\* What attention reads for q: the tokens below cached_len, through its row.
Context(q) == [n \in 1 .. cached[q] |-> kv[Location(row[q], n - 1)]]

After(state, tokens) == [conv |-> state.conv \o tokens, ssm |-> state.ssm \o tokens]

\* The model's token after the first j of the block.
TokenAt(q, block, j, allowed) ==
    LET read == SubSeq(block[q], 1, j)
    IN  Argmax(server.model, Context(q) \o read, After(rec[q], read), allowed)

----------------------------------------------------------------------------
(* The end of a step: kept has the tokens committed for each request of    *)
(* the batch, length its cached_len, state what its recurrent slot holds,  *)
(* thinks and tools its gates.                                             *)

\* The turn is over, or there is no room for another token (can_decode).
Over(kept, length) ==
    {q \in DOMAIN kept : Last(kept[q]) = Eos \/ length[q] + 1 >= Limit(q)}

\* _free_req_resources takes a snapshot of the slot, if cached_len is the end of
\* a page: no prefill stopped there to leave one.
SnapshotOf(length, state) ==
    IF length % PageSize = 0 THEN [len |-> length, state |-> state] ELSE NoSnap

\* Pages past the kept tokens are given back, then those of who is over.
KeptPages(q, rows, length) == SubSeq(rows[q], 1, PagesFor(length))
DroppedEarly(q, rows, length) == SubSeq(rows[q], length \div PageSize + 1, Len(rows[q]))
NotDropped(q, rows, length) == << >>
Dropped(q, rows, length) == SubSeq(rows[q], PagesFor(length) + 1, Len(rows[q]))

Commit(block, kept, length, state, thinks, tools) ==
    LET over == Over(kept, length)
        batch == DOMAIN block
        rows == RowsFor(block)
        stay == [q \in batch |-> KeptPages(q, rows, length[q])]
        drop == [q \in batch |-> Dropped(q, rows, length[q])]
        set(f, g, gone) == [q \in Requests |->
            IF q \in over THEN gone ELSE IF q \in batch THEN g[q] ELSE f[q]]
    IN  /\ kv' = Written(block)
        /\ stage' = [q \in Requests |->
              IF q \in over THEN "done" ELSE IF q \in batch THEN "running" ELSE stage[q]]
        /\ text' = [q \in Requests |-> IF q \in batch THEN text[q] \o kept[q] ELSE text[q]]
        /\ input' = [q \in Requests |-> IF q \in batch THEN Last(kept[q]) ELSE input[q]]
        /\ cached' = set(cached, length, 0)
        /\ device' = set(device, [q \in batch |-> length[q] + 1], 0)
        /\ row' = set(row, stay, << >>)
        /\ free' = FreeAfter(block) \o InOrder(batch, drop) \o InOrder(over, stay)
        /\ rec' = set(rec, state, NoState)
        /\ snap' = [q \in Requests |->
              IF q \in over THEN SnapshotOf(length[q], state[q]) ELSE snap[q]]
        /\ think' = set(think, thinks, Off) /\ tool' = set(tool, tools, Off)

----------------------------------------------------------------------------
(* Messages.                                                               *)

Arrive(q) ==
    /\ up /\ stage[q] = "new"
    /\ stage' = [stage EXCEPT ![q] = "waiting"] /\ queue' = Append(queue, q)
    /\ UNCHANGED <<server, up, text, cached, device, input, row, free, kv, rec, snap, think, tool>>

Abort(q) ==
    /\ up /\ q \in Impatient /\ stage[q] \in {"waiting", "running"}
    /\ stage' = [stage EXCEPT ![q] = "done"] /\ queue' = Without(queue, {q})
    /\ free' = free \o row[q] /\ row' = [row EXCEPT ![q] = << >>]
    /\ cached' = [cached EXCEPT ![q] = 0] /\ device' = [device EXCEPT ![q] = 0]
    /\ rec' = [rec EXCEPT ![q] = NoState]
    /\ snap' = [snap EXCEPT ![q] = SnapshotOf(cached[q], rec[q])]
    /\ think' = [think EXCEPT ![q] = Off] /\ tool' = [tool EXCEPT ![q] = Off]
    /\ UNCHANGED <<server, up, text, input, kv>>

----------------------------------------------------------------------------
(* The normal lane: _prepare_batch, _forward, _process_last_data.          *)

Held(q) == ThinkHolds(think[q]) \/ ToolHolds(tool[q])

ArmedThink(q) ==
    IF q \in Thinks /\ think[q].at = "off" THEN ArmThink(Budget[q], MaxTokens[q]) ELSE think[q]
ArmedTool(q) ==
    IF q \in HasTools /\ tool[q].at = "off"
    THEN ArmTool(IF q \in Gated THEN {Exactly(Close)} ELSE {}) ELSE tool[q]

\* What is sampled, or what the backstop puts in its place.
PlainToken(q, block) ==
    IF Spent(ArmedThink(q)) THEN ForcedNext(ArmedThink(q))
    ELSE TokenAt(q, block, Len(block[q]), Tokens \ (IF Held(q) THEN {Eos} ELSE {}))

\* The gates move while the reasoning gate is armed.
PlainStep(block) ==
    LET token == [q \in DOMAIN block |-> PlainToken(q, block)]
        moves(q) == ArmedThink(q).at = "armed"
    IN  Commit(block, [q \in DOMAIN block |-> <<token[q]>>],
               [q \in DOMAIN block |-> cached[q] + Len(block[q])],
               [q \in DOMAIN block |-> After(rec[q], block[q])],
               [q \in DOMAIN block |->
                   IF moves(q) THEN CommitThink(ArmedThink(q), token[q]) ELSE ArmedThink(q)],
               [q \in DOMAIN block |->
                   IF moves(q) THEN CommitTool(ArmedTool(q), token[q]) ELSE ArmedTool(q)])

\* _try_allocate_one: room for the prompt and for all the tokens still to come.
InflightTokens ==
    SumFunction([q \in Running |-> Remain(q) + PageSize - 1])
CanPrefill ==
    /\ queue # << >> /\ Cardinality(Running) < Rows
    /\ Limit(Head(queue)) + InflightTokens <= Len(free) * PageSize

PromptBlock == [q \in {Head(queue)} |-> Prompt[q]]
Prefill ==
    /\ up /\ CanPrefill /\ ~TooFewPages(PromptBlock)
    /\ PlainStep(PromptBlock) /\ queue' = Tail(queue)
    /\ UNCHANGED <<server, up>>

\* Also where a batch may not speculate, and where no proposer has a draft.
PlainBlock == [q \in Running |-> <<input[q]>>]
PlainDecode ==
    /\ up /\ ~CanPrefill /\ Running # {} /\ ~TooFewPages(PlainBlock)
    /\ PlainStep(PlainBlock)
    /\ UNCHANGED <<server, up, queue>>

----------------------------------------------------------------------------
(* The speculative lane: _spec_decode_step.                                *)

\* _req_spec_ok, _spec_batch_ok.
MaySpeculate == Running \cap LogProbs = {} /\ Cardinality(Running) <= SpecMaxBs

\* Every proposer leaves room for the token that follows its drafts.
Proposals ==
    {d \in [Running -> Drafts] :
        /\ \A q \in Running : Len(d[q]) <= Remain(q) - 1
        /\ \E q \in Running : d[q] # << >>}

\* pad_to_captured_width: the smallest captured width that takes the longest
\* drafts, or the widest there is, to which longer ones are cut.  With graphs
\* off, or a batch larger than was captured, every block has its own length.
Padded(drafts) == server.ladder # {} /\ Cardinality(DOMAIN drafts) <= VerifyBs
Longest(drafts) == Max({Len(drafts[q]) : q \in DOMAIN drafts})
CapturedWidth(drafts) ==
    LET wide == {w \in server.ladder : w >= Longest(drafts)}
    IN  IF wide = {} THEN Max(server.ladder) ELSE Min(wide)
Cut(drafts) ==
    IF Padded(drafts)
    THEN [q \in DOMAIN drafts |-> SubSeq(drafts[q], 1, Min({Len(drafts[q]), CapturedWidth(drafts)}))]
    ELSE drafts
Padding(drafts, q) ==
    IF Padded(drafts)
    THEN [i \in 1 .. CapturedWidth(drafts) - Len(Cut(drafts)[q]) |-> Filler]
    ELSE << >>
Staged(drafts) == [q \in DOMAIN drafts |-> <<input[q]>> \o Cut(drafts)[q] \o Padding(drafts, q)]

\* _gate_mask_spec_logits, with the gates as they are before the block.
Allowed(q, j) ==
    IF Spent(think[q]) THEN {ForcedAt(think[q], j - 1)}
    ELSE Tokens \ (IF Held(q) THEN {Eos} ELSE {})

\* verify_greedy: the drafts that agree with the model, and the token after them.
CountEqual(draft, target) == SubSeq(target, 1, 1 + Cardinality({i \in DOMAIN draft : draft[i] = target[i]}))
VerifyGreedy(draft, target) ==
    LET agree == {n \in 0 .. Len(draft) : \A i \in 1..n : draft[i] = target[i]}
    IN  SubSeq(target, 1, 1 + Max(agree))

\* What the step keeps of a run: up to the end of the reasoning, if the gate is
\* armed, and up to the end of the turn.
UpTo(run, ends) == IF ends = {} THEN run ELSE SubSeq(run, 1, Min(ends))
PastRelease(q, run) == run
UpToRelease(q, run) == IF think[q].at = "armed" THEN UpTo(run, EndsIn(think[q], run)) ELSE run
UpToEos(run) == UpTo(run, {i \in DOMAIN run : run[i] = Eos})

Kept(q, draft, block) ==
    LET target == [j \in 1 .. Len(draft) + 1 |-> TokenAt(q, block, j, Allowed(q, j))]
    IN  UpToEos(UpToRelease(q, VerifyGreedy(draft, target)))

\* The verify forward captures the state after each token of the block.  While
\* the longest block fits the ring, the ssm half is in the ring instead, and is
\* rewound by what the request kept less than that block.
Window(block) == Max({Len(block[r]) : r \in DOMAIN block})
OnRing(block) == Window(block) <= server.ring
Captured(q, block, t) == After(rec[q], SubSeq(block[q], 1, t))
Rewound(q, block, t) ==
    LET run == After(rec[q], block[q]).ssm
    IN  SubSeq(run, 1, Len(run) - (Window(block) - t))

\* install_verify_state: GDN reads the column of the request in the batch.  CCA
\* counts the columns among the requests that go on.
Column(q, batch, goOn) ==
    IF server.kind = "cca"
    THEN Ordered(batch)[Cardinality({r \in goOn : r <= q})] ELSE q
WholeBlock(q, block, kept, goOn) == After(rec[q], block[q])
Installed(q, block, kept, goOn) ==
    LET t == Len(kept[q])
        from == Captured(Column(q, DOMAIN block, goOn), block, t)
    IN  IF OnRing(block) THEN [from EXCEPT !.ssm = Rewound(q, block, t)] ELSE from

\* Who is over keeps what the forward left, but for what is on the ring.
NotRewound(q, block, kept) == After(rec[q], block[q])
LeftBehind(q, block, kept) ==
    LET run == After(rec[q], block[q])
    IN  IF OnRing(block) THEN [run EXCEPT !.ssm = Rewound(q, block, Len(kept[q]))] ELSE run

\* Both gates move over what is kept while the reasoning gate is armed.
SpecStep(drafts) ==
    LET block == Staged(drafts)
        kept == [q \in Running |-> Kept(q, Cut(drafts)[q], block)]
        length == [q \in Running |-> cached[q] + Len(kept[q])]
        goOn == Running \ Over(kept, length)
        armed(q) == think[q].at = "armed"
    IN  Commit(block, kept, length,
               [q \in Running |-> IF q \in goOn THEN Installed(q, block, kept, goOn)
                                  ELSE LeftBehind(q, block, kept)],
               [q \in Running |-> IF armed(q) THEN CommitRun(think[q], kept[q]) ELSE think[q]],
               [q \in Running |-> IF armed(q) THEN CommitToolRun(tool[q], kept[q]) ELSE tool[q]])

SpecDecode ==
    /\ up /\ ~CanPrefill /\ Running # {} /\ MaySpeculate
    /\ \E drafts \in Proposals :
          /\ ~TooFewPages(Staged(drafts))
          /\ SpecStep(drafts)
    /\ UNCHANGED <<server, up, queue>>

\* The eviction assertion of _allocate fails and ends the scheduler.
Blocks ==
    IF CanPrefill THEN {PromptBlock}
    ELSE IF Running = {} THEN {}
    ELSE {PlainBlock} \cup {Staged(drafts) : drafts \in {d \in Proposals : MaySpeculate}}
OutOfPages ==
    /\ up /\ up' = FALSE
    /\ \E block \in Blocks :
          /\ TooFewPages(block)
          /\ device' = [q \in Requests |->
                IF q \in DOMAIN block THEN cached[q] + Len(block[q]) ELSE device[q]]
    /\ UNCHANGED <<server, stage, queue, text, cached, input, row, free, kv, rec, snap, think, tool>>

Next ==
    \/ \E q \in Requests : Arrive(q) \/ Abort(q)
    \/ Prefill \/ PlainDecode \/ SpecDecode \/ OutOfPages

Spec == Init /\ [][Next]_vars

----------------------------------------------------------------------------
(* Properties.                                                             *)

Generated(q) == SubSeq(text[q], Len(Prompt[q]) + 1, Len(text[q]))
Reasoned(tokens) == \E n \in 1 .. Len(tokens) : MatchesOne(SubSeq(tokens, 1, n), Ends)

\* Between two steps nothing is left of a rejected draft: what attention will
\* read, the input of the next forward and both halves of the recurrent state
\* are those of the committed text (the rollback of _spec_decode_step).
StateFollowsText ==
    \A q \in Running :
        LET read == SubSeq(text[q], 1, Len(text[q]) - 1)
        IN  /\ up => cached[q] = Len(read) /\ device[q] = Len(text[q])
            /\ input[q] = Last(text[q])
            /\ Context(q) = read
            /\ rec[q] = [conv |-> read, ssm |-> read]

\* A request has the pages its cached tokens take, however much its block
\* took; every other page is free, and none is twice (the rollback, _free).
PagesFollowLength ==
    /\ \A q \in Requests : Len(row[q]) = PagesFor(cached[q])
    /\ IsInjective(free \o InOrder(Requests, row))
    /\ Len(free) + SumFunction([q \in Requests |-> Len(row[q])]) = NumPages

\* What admission set aside (prefill.py:87, decode.py:59) is enough for every
\* block whose drafts a proposer made up: the eviction assertion of _allocate
\* only fails a block that was padded up to the limit of its request, to which
\* no drafts go (nothing is set aside for the last token: it needs no page).
BlocksFit == ~up => server.ladder # {} /\ \E q \in Running : device[q] >= Limit(q)

\* Speculation changes no request's text: it is the one plain greedy decoding
\* gives, and ends where that ends (docstring of verify_greedy).
Ungated == Requests \ (Thinks \cup HasTools)
NextToken(m, t) == Argmax(m, t, [conv |-> t, ssm |-> t], Tokens)
Greedy == INSTANCE GreedyDecode WITH
    Requests <- Ungated,
    model <- server.model,
    text <- [q \in Ungated |-> text[q]],
    over <- {q \in Ungated : stage[q] = "done"}
Lossless == Greedy!Spec

\* Inside a block, too, the gate bounds the reasoning and nothing else.  It is
\* armed while the tokens sent do not end the reasoning.  A bounded one ends, by
\* itself or by the delimiter, before the turn does, at whatever place of a block
\* the model tries to end it (only the first token is sampled without a gate); a
\* block may run over the budget by its drafts, then the delimiter follows.  And
\* what comes after it, be it of the same block, is the model's own choice (but
\* for an end of turn that a tool call may hold).
OwnChoice(q, i, allowed) ==
    LET t == SubSeq(text[q], 1, Len(Prompt[q]) + i - 1)
    IN  Argmax(server.model, t, [conv |-> t, ssm |-> t], allowed)

ReasoningIsDelimited ==
    \A q \in Thinks :
        LET gen == Generated(q)
            limit == EffectiveBudget(Budget[q], MaxTokens[q]) + NumDraft + Len(Close)
        IN  /\ q \in Running => (think[q].at = "armed" <=> ~Reasoned(gen))
            /\ Budget[q] >= 0 /\ (Len(gen) >= limit \/ (Len(gen) > 1 /\ Last(gen) = Eos))
                   => Reasoned(gen)
            /\ \A i \in 2 .. Len(gen) : Reasoned(SubSeq(gen, 1, i - 1)) =>
                   gen[i] \in {OwnChoice(q, i, Tokens), OwnChoice(q, i, Tokens \ {Eos})}

\* Under ReplaySSM a request leaves the ssm state of exactly the tokens its
\* pages hold to the cache: the rewind of finished requests.  It is there for
\* servers whose blocks are equally long in a batch, and always fit the ring.
EqualBlocks(s) == SpecMaxBs = 1 \/ (s.ladder # {} /\ SpecMaxBs <= VerifyBs)
WidthsOf(s) == IF s.ladder # {} /\ SpecMaxBs <= VerifyBs THEN s.ladder ELSE 1..NumDraft
AlwaysOnRing(s) == EqualBlocks(s) /\ \A w \in WidthsOf(s) : w + 1 <= s.ring
SnapshotsAreExact ==
    AlwaysOnRing(server) => \A q \in Requests :
        snap[q].state.ssm = SubSeq(text[q], 1, snap[q].len)
=============================================================================
