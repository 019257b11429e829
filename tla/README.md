# TLA+ models of minisgl

minisgl is a language-model server: an HTTP frontend, tokenizer and detokenizer
workers, and one scheduler process per tensor-parallel rank of each data-parallel
replica, which owns a GPU engine and a paged KV cache with prefix reuse. This
directory models the parts of it whose correctness depends on the order of
events: who owns a KV page, when a request is released, what an abort meets, which
token the next forward reads, how messages reach the ranks, whether replicas stay in
step, what an expert slot holds, what a rejected draft leaves behind, and what a client is told
in the end. Numeric code is
not modelled.

All source paths below are relative to `src/python/minisgl/`. `PROJECT.json` maps
every definition to the lines it stands for and lists runs, mutants, theorems,
findings and hazards.

## 1. Inventory

| Part | State | Operations | Talks to | What is hard |
|---|---|---|---|---|
| Frontend (`server/api_server.py` FrontendManager, `server/metrics.py`) | `ack_map`, `event_map`, metrics records | `new_user`, `send_one`, `listen`, `wait_for_ack` and its cleanup, `abort_user` | tokenizer workers by PUSH, replies by PULL | a disconnect racing the last reply; exactly one settlement per request |
| Tokenizer / detokenizer workers (`tokenizer/server.py`, `tokenizer/detokenize.py`) | `prompt_tokens_map`, `stop_map`, `decode_map`, `rr_cursor` | tokenize and route, detokenize, stop strings, forward aborts | frontend, every replica | tokens after the end; metadata that two processes need; aborts sent everywhere |
| Inter-rank link (`scheduler/io.py`, `utils/mp.py`) | PUB/SUB sockets, gloo group | handshake, count broadcast, fan-out | the ranks of one replica | slow joiners; ranks disagreeing about blocking |
| Scheduler (`scheduler/scheduler.py`, `prefill.py`, `decode.py`, `core.py`) | `pending_list`, `running_reqs`, `finished_reqs`, `last_data`, `Req` objects | receive, pack, prepare, forward, commit, abort | cache, engine | overlap: the commit of batch n runs after the launch of n+1; aborts in between |
| Pages and rows (`scheduler/cache.py`, `table.py`) | `free_slots`, `page_table`, free rows | match, lock, allocate, cache, free, integrity check | radix cache | a page freed twice, never, or while read; the pool at its limit |
| Radix cache (`kvcache/radix_cache.py`) | tree, `ref_count`, sizes, eviction heap, snapshots | walk, split, insert, lock, match, evict, attach | — | lazy heap, splits under locks, snapshots at moving boundaries |
| Recurrent slots (`scheduler/recurrent_slots.py`, `gdn_slots.py`, `cca_slots.py`) | uid -> slot | ensure, free, snapshot, restore | scheduler, snapshots | release and reuse while a batch is in flight; zeroing once and only once |
| Expert-parallel loop (`scheduler/ep.py`) | the votes, the step agreed on | agree on the step by all-reduce, real or dummy forward | the other replicas | every replica must issue the same collectives, eager or by graph |
| Expert cache (`weights/expert_cache.py`) | `slot_of`, free slots, policy, fences, queues | observe, promote, retract, publish, abandon | manager thread, scheduler thread, two device streams | a slot reused while a kernel may read it; a slot handed over twice or lost |
| Weight offload (`weights/`, the rest) | pinned arenas, staging copies | plan, bake, stream | expert cache, engine | start-up arithmetic, I/O |
| Think and tool gates (`scheduler/think_gate.py`) | per-uid gate | arm, commit, force, free | commit of the scheduler | masks read a token before the gate has moved; a forced token against one in flight |
| Speculative decoding (`spec/`, `_spec_loop` of the scheduler) | drafts, verify width | propose, stage, verify, accept, roll back | scheduler, pages, recurrent slots, gates | several tokens per commit; pages, cells and recurrent state of rejected drafts |
| Diffusion (`scheduler/diffusion.py`) | blocks | denoise, commit | scheduler, engine | a scheduling loop of its own |
| CAM, PLE, RSA (`cam/`, `ple/`, `rsa/`) | stores, token histories, rounds | write, read, deliver; push, restore; fan out, join | scheduler; engine; HTTP API | namespaces and eviction of facts; histories per slot |
| Engine, models, kernels, layers, formats, tools | tensors | numeric work, parsing, I/O | — | outside the reach of TLC |

What makes each modelled part correct is the list of properties in section 4; the
hazards behind them, line by line, are in `PROJECT.json`.

## 2. Modules

```
PrefixTrie  <-- KVCache  <-- KVScheduler  <-- MCKVScheduler      (KVScheduler_proofs)
    ^                            |  implements (pages)
    |                            v
    |                        KVLedger
    +------- PageTrie  <-- RadixCache  <-- MCRadixCache          (RadixCache_proofs)
InterRankLink   <-- MCInterRankLink                              (InterRankLink_proofs)
RequestPipeline <-- MCRequestPipeline                            (RequestPipeline_proofs)
SLRU       <-- ExpertCache  <-- MCExpertCache                    (ExpertCache_proofs)
LockstepLoop    <-- MCLockstepLoop                               (LockstepLoop_proofs)
TokenGates <-- RequestState <-- MCRequestState                   (RequestState_proofs)
    ^
    +--------- SpecDecode   <-- MCSpecDecode                     (SpecDecode_proofs)
                   |  implements (texts)
                   v
               GreedyDecode
```

**Filters** has what the code does to lists by comprehension, keeping the entries of a set and dropping the first
of one; `SLRU`, `RequestPipeline` and `RadixCache` use it.

**PrefixTrie** is the prefix cache as a trie with one node per page, named by the
tokens from the root to its end, with its reference count: match, lock, unlock,
insert, and the sets of pages an eviction may take (any set that is closed
downwards, unreferenced, and frees enough). It has operators only.

**KVCache** adds the pool of pages, the free table rows and the page table:
`CacheManager` and `TableManager`. `free_slots` and the free rows are sequences in
the order of the code.

**KVScheduler** is one scheduler process. `pc` walks through an iteration as
`run_forever` does:

| `pc` | Actions | Code |
|---|---|---|
| `recv` | `RecvUser`, `RecvAbort`, `Idle`, `BeginPack` | `receive_msg`, `_process_one_msg`, `run_when_idle` |
| `pack` | `PackOne`, `EndPack` | `PrefillManager.schedule_next_batch`, `DecodeManager.schedule_next_batch` |
| `evict` | `EnsurePages` | `allocate_paged`, `_allocate`, `evict` |
| `write` | `WriteOne`, `Forward` | `_write_page_table`, `_forward` (`complete_one`, `filter_reqs`) |
| `commit` | `CommitChunk`, `CommitToken`, `EndCommit` | `_process_last_data` |
| `dead` | none | an assertion or integrity error stopped the process; `fault` says which |

In the normal order `commit` commits `batch`; in the overlap order it commits `last`,
the batch launched an iteration before. The chunk size rule is the code's: budget,
head-of-line reserve, then alignment; `ChunkGran` stands for `chunk_gran`.
`_free_req_resources` (`FreeReqResources`) is idempotent per `Req` object; the commit
branch that caches a prompt (`CachePrompt`) is, as in the code, not.
`req[u]` is the latest `Req` object of a request: a chunk replaces its predecessor and
only the latest one is ever released or committed with an effect.

Two constants are switches over the environment. `AbortsInFlightPrefill` says whether
an abort may name a request whose last prefill chunk is launched and not committed;
`Twins` whether a prompt may arrive while another one with the same first page is not
in the prefix cache yet. The code forbids neither. Either of them leads to a defect
(section 5), so the passing runs switch off the one that would hide the rest.

**KVLedger** is what the page bookkeeping promises: each page is free, cached, or
one request's; it moves only by allocation, by settling (what a request held becomes
cached or free), and by evicting pages nobody has pinned. `KVScheduler` implements it
with `owner` computed from free list, trie and page table.

**RadixCache** is the tree of the code: nodes that hold runs of pages and are split on
demand, `ref_count` and timestamps, `evictable_size` and `protected_size`, the heap
with its stale entries, and recurrent-state snapshots with their FIFO cap. One tick
of `clock` is one tree walk (all nodes of a walk get one timestamp). `recNodes` keeps
only nodes that still have a snapshot; the code drops the others when it enforces the cap.
**PageTrie** is the abstract cache the scheduler model assumes, with users that
match, cache, and finish; `RadixCache` implements it under a mapping that expands
each node into its pages. That is the link between the two levels: `KVScheduler` is
checked against the trie, and the trie is what the tree implements.

**InterRankLink** is `establish_inter_rank_link` and the receive functions of rank 0
and the others. ZMQ and gloo are external: a subscription takes effect at any moment
(`Subscribe`), what is published before that is lost, a connection keeps its order,
and the root of a broadcast may run ahead of its receivers.

**RequestPipeline** follows requests through frontend, workers and replicas. Each
socket is one FIFO per pair of processes; PULL merges them arbitrarily. A replica is
seen from outside: an overlap iteration launches new requests or the others, then
commits the batch launched before, so tokens arrive after an abort or an end. Texts are
reduced to whether a token completes a stop string or ends the request.

**SLRU** is the admission policy of the expert cache as operators on a record with two
key sequences, probation and protected.

**ExpertCache** has one action for what a thread does between two points where the other
one matters: the manager's `Hit`, `Miss`, `Wake`, `PlacePending`, `Reclaim`; the
scheduler's `apply_pending`, cut into `BeginTick`, `Retract`, `Publish`, `KeepWaiting`,
`Abandon`, `FreeAbandoned`, `EndTick`; and the device's `WriteTable`, `BeginCopy`,
`EndCopy`. A CUDA event is the number of operations its stream has left before it, so
that it happens exactly when they did. A launch reads table and slabs at some moment
of the compute stream, so "a kernel never reads foreign bytes" is an invariant of the two.
A behaviour has an environment (`env`), one of `Environments`: `lossy` lets copies get lost, which
the code answers by abandoning them after `MaxAge` ticks; `racing` lets the manager reclaim while a tick
runs; and a copy that is made is waited for in at most `patience` ticks. Lossy
and racing together lead to finding 9, racing and a patience of 3 to finding 15, so the passing run
leaves these out and has losses alone and races alone.

**LockstepLoop** is `ep_loop` for any number of replicas. `Vote` schedules a prefill batch or
none, `AllReduce` returns the maxima to everybody at once, `Prefill` and `Decode` issue the
collectives of a real or a dummy forward, `Complete` is a collective everybody issued,
and `CommitPrefill` and `CommitDecode` come after the forward. A replica with a dummy does
not wait for its collectives and may run ahead into the next vote. Requests are reduced to
what decides votes.

**TokenGates** has `ThinkGate` and `ToolCallGate` for one request as pure operators: patterns
with gaps, budget, forced delimiter, loop detection, holding of the end-of-turn token.

**RequestState** is the scheduler's loop again, from another side: the token-pool row, the
gates and the recurrent-state slot of each request. `Prefill` and `Decode` read gates and
slots as they are when the batch is prepared; `Commit` commits the batch of this
iteration (normal loop) or of the last one (overlap), arms and moves the gates, overrides the
token, and releases. `torn` holds the requests whose prompt cells a batch in flight may
have overwritten. Table rows and recurrent slots are taken and given back together, so that
one variable stands for both. It shares no variable with `KVScheduler`: that module decides
who is packed and which pages it gets, here every order of packing is possible.

**SpecDecode** is `_spec_loop`, which is synchronous: one action is one iteration.

| Action | Code |
|---|---|
| `Arrive`, `Abort` | `_process_one_msg` |
| `Prefill`, `PlainDecode` | the normal lane: `_prepare_batch`, `_forward`, `_process_last_data` |
| `SpecDecode` | `_spec_decode_step`: `Staged`, `Written`, `Kept`, `Dropped`, `Installed`, `LeftBehind`, `Commit` |
| `OutOfPages` | the assertion of `_allocate` ends the scheduler |

The forward is one function, `Argmax`, of the tokens whose keys and values attention reads
through the row (`Context`), of the recurrent state, and of the tokens the gates allow; nothing is
said about it but that it answers with an allowed token. So a page given back too early, a column
of another request or a state that has seen a rejected draft changes what the model says, and is
not just a flag. Drafts are any of `Drafts`: a proposer may be right, wrong, or end the turn. The
recurrent state is the sequence of tokens that went into it, in two halves (`conv`, `ssm`), because
ReplaySSM takes them back in different ways. `server` says whether the model has GDN or CCA state, how
long the ReplaySSM ring is (0: none) and which verify widths are captured; it is chosen in `Init` and stays.
A batch of at most `VerifyBs` requests is padded to a captured width (`Padded`); otherwise its blocks
have their own lengths. A batch is verified on the ring if its longest block fits (`OnRing`, as
`gdn/layer.py` asks), and else by the materialised path, whatever the server.
**GreedyDecode** is what speculation promises: each text grows by the model's own next tokens, in
pieces of any length, until its end. `SpecDecode` implements it for the requests without gates.

## 3. Runs

| Run | Question | Bounds |
|---|---|---|
| `sched_safety` | Are pages, rows, locks and admission consistent under every interleaving of arrivals, chunks, aborts and commits, in both loops? | 3 requests, pages of 2 tokens, 5 pages, 3 rows |
| `sched_live` | Is every request answered, and does it read its own pages? | 4 requests, 4 pages, 2 rows |
| `radix` | Do tree, counters, heap and snapshots agree, and is it the trie? | 2 users, 4 streams, 4 pages, 2 snapshots, 5 walks |
| `link` | Is the link live, do ranks agree, does every message arrive? | 2 ranks, 3 messages, 2 broadcasts ahead |
| `pipeline` | Is each client shown one stream and answered, and does nothing run on unread? | 2 requests, 2 replicas, one shared worker |
| `expert` | Does the table tell the truth, is each slot in one place, is demand served? | 3 experts, 2 slots, 1 copy in flight, 1 pending reference |
| `lockstep` | Do the replicas stay in step, and does every request end? | 3 replicas, 4 requests, 2 rows, graphs for 1 and 2 |
| `gates` | Do row, slot and gates follow the text of their request, and is reasoning bounded? | 3 requests, 2 rows, both loops |
| `spec` | Does nothing of a rejected draft remain, do the gates hold inside a block, and is the text that of plain decoding? | 3 requests, 2 rows, 2 drafts, 7 pages of 2 tokens |
| `sched_twins`, `gates_reuse`, `spec_cca` | Does what a comment or docstring says hold? Each finds that it does not. | see section 5 |

Why the bounds suffice for the cases that matter:

- In `sched_safety` requests 1 and 2 have the same prompt of three tokens (a full page
  and an unaligned tail), and request 3 shares the first page, needs three chunks under
  a budget of 2, and has `max_tokens` beyond `MaxSeqLen`, so that it is clipped. With
  5 pages not all of them fit, so requests queue, prefixes are evicted, and admission
  refuses. Request 2 has `cache_output` off. One token is end-of-sequence.
- `sched_live` adds a prompt that is rejected and one that shares nothing, on 4 pages
  and 2 rows, so that progress depends on requests ending and on eviction.
- In `radix` the streams part after two pages, in the middle of a page, and at the root,
  so a walk splits nodes at every position and a match may be capped. A snapshot cap of 2
  is exceeded by the ladder of one handle plus another. `MaxClock` bounds the walks: five
  are enough for insert, split, re-access, release and a second eviction in one behaviour.
  The run stops there, so `CHECK_DEADLOCK FALSE`.
- In `link`, `MaxAhead` bounds the lead of a broadcast root; 2 lets rank 0 be a whole
  iteration ahead.
- In `pipeline` request 1 may hit a stop string, leave in the middle (`Leaving`), and sends
  two aborts as the streaming lanes do; it has three tokens, so that some are unfinished
  while another is in flight. Request 2 is plain, refused by the tokenizer, or refused by the
  scheduler. The pipeline stops when both requests are over, so `CHECK_DEADLOCK FALSE`.
- In `expert` three experts compete for two slots, one of them protected, so that every
  admission beyond the second evicts; one copy in flight and one pending reference put
  both limits to use (`CanPlace`, a pending reference pushed out); `LowWater` 1 makes
  `Reclaim` act. With `MaxAge` 1 a copy is waited for once and then abandoned. (Without losses the
  same invariants hold in separate runs with `MaxAge` and `patience` 2, and with losses with 3; they take
  too long to repeat.) `MaxLag` 0 lets a
  tick start only when the compute stream is drained; within a tick it still holds up to one
  write per slot and retraction, which is what fences are for.
- In `lockstep` replica 1 has three requests for two rows (a prompt of one token, one of two
  batches, one of exactly one), replica 2 one, replica 3 none, so that prefill, decode, idle
  and dummy steps meet in every combination, and unequal batch sizes are padded.
- In `gates` request `q1` reasons within a budget, `q2` without one and may open a tool call
  in its reasoning, and `q3` does neither and has a prompt of two chunks. The delimiter has two
  tokens and there is a release pattern with a gap, so that the model may say part of
  either by itself. Six tokens leave room for budget, delimiter and an answer. Three requests
  on two rows hand rows and slots over. The run ends when all are over, so `CHECK_DEADLOCK
  FALSE`. `gates_reuse` is the same instance without reasoners.
- In `spec` request 1 reasons within a budget of two tokens and may open a tool call, request 2 is
  plain and impatient, request 3 asks for logprobs, which keeps every batch it is in off the
  speculative lane. So a request changes lanes several times in its life. The drafts have every length up to
  `NumDraft` 2; blocks of one, two and three tokens cross a page end at every offset of a page of two.
  Seven pages are what admission needs for requests 1 and 2, so a padded block may not fit.
  There are three servers: GDN without a ring, graphs off and no padding; ReplaySSM with the one captured
  width that `verify_width_ladder` gives for two drafts; and ReplaySSM with two captured widths and a ring
  that has room for the narrower only, as the served ladder 3, 7, 15 has over a ring of 8, so that a request
  goes from the ring to the materialised path and back. Wherever there is a ring, `VerifyBs` is the largest
  batch that speculates and blocks are equally long; the other case is finding 16. A step is deterministic but for
  the drafts, the aborts and the arrivals, which keeps the run small. `spec_cca` has the CCA
  servers, kept apart since they violate `StateFollowsText` (finding 11).

### Fairness

- `KVScheduler`: weak fairness of `Step`. `run_forever` never stops iterating while it has
  work, and each step is enabled until taken. Arrivals and aborts are not fair.
- `InterRankLink`: weak fairness of each rank's process and of `Subscribe`: an established
  ZMQ connection eventually delivers the subscription. Arrivals are not fair.
- `RequestPipeline`: weak fairness of each process per connection it takes from (PULL sockets
  serve their peers in turn), and of the frontend's handler and background tasks. Submitting and
  disconnecting are not fair.
- `ExpertCache`: weak fairness of the manager's `Wake`, `PlacePending` and `Reclaim` (its wait
  has a timeout and ends at every tick) and of both streams; references are not fair. A tick
  is strongly fair because `Serial` disables it while the manager is at work, which the code
  does not do: in the code the scheduler thread steps whatever the manager does. In behaviours
  without losses the two never wait for each other.
- `LockstepLoop`: weak fairness of each replica's step, of the all-reduce everybody entered and
  of a collective everybody issued. Arrivals and aborts are not fair.

## 4. Properties

Types are proved or left to the proofs' invariants; no run spends time on them.

- **Ownership** (`EveryPageHasOneOwner`, `EveryRowHasOneOwner`, `LedgerSpec`): each page and row
  is in one place, counted once. They relate free list, trie, page table and the lengths in
  every `Req`; a wrong slice in `cache_req`, two releases, or a kept page break them several steps later.
- **Locks** (`NothingLeaks`): a reference count is the number of handles through the node, and
  whoever holds resources is a request the scheduler comes back to.
- **Packing** (`PackingIsSound`): what admitted requests may still need can be allocated, no
  assertion of the allocation path fires, and chunks start on the granularity.
- **Lengths** (`LengthFinishes`): length finishes are at most one token short.
- **Reading** (`RowsReadCachedPages`): a row names the pages of its own prefix.
- **Radix** (`TreeWellFormed`, `EvictNeverFails`, `EvictsLeastRecentlyUsed`, `SnapshotsMatchNodes`,
  `MatchesAreRestorable`, `TrieSpec`).
- **Link** (`LinkIsLive`, `BatchesAgree`, `EveryMessageArrives`).
- **Pipeline** (`OneStreamPerClient`, `NoZombies`, `InflightHonest`, `EveryClientAnswered`).
- **Expert cache**: `TableNeverOverReports` is the invariant the docstring of the module names: a
  slot the table gives for an expert holds that expert's bytes. `EverySlotHasOneHolder` counts each
  slot over five places on two threads; `TableFollowsClaims` relates the host's claims to what the
  table will say once the compute stream drains; `DemandIsServed` is progress.
- **Lockstep**: `CollectivesMatch` compares the streams of all replicas, `EveryReplicaSteps`
  excludes the lookup of a graph that was never captured, and `EveryRequestEnds` that a replica
  waits for ever or starves its own requests for another's.
- **Request state**: `SlotsFollowRequests` says that the state in a slot comes from every forward
  of its holder and no other; `OnlyOwnRows` that a late commit writes into nobody else's row;
  `ContextIsCommitted` that the row the model reads is what the client was sent.
- **Gates**: `ReasoningIsBounded`, `GatesFollowText` and `EosWaitsForReasoning` are stated about the text a client gets, from its beginning, while the code sees one token at a time,
  a window, and in the overlap loop a stale mask.
- **Speculation**: `StateFollowsText` relates rows, pages, cells and both halves of the recurrent state
  to the committed text after every step; `PagesFollowLength` is the roll-back of pages;
  `BlocksFit` compares what blocks take with what admission set aside; `ReasoningIsDelimited` is about
  delimiters, budgets and ends of turns that fall inside a block; `SnapshotsAreExact` is what a request leaves to the
  cache, on servers whose blocks are equally long and always fit the ring (`AlwaysOnRing`; the others
  are finding 12); `Lossless` is the refinement of `GreedyDecode`.
- **Progress** (`EveryRequestEnds` of the scheduler, and the liveness properties above).

Every property of a passing run has a mutant: a definition changed the way a plausible
bug would change it, under which TLC finds the property violated. The mutated forms stand
next to the definitions they replace.

## 5. Findings

Three have a run of their own. The others are shown by changing the constants named here in the
configuration of a passing run.

1. **`sched_twins`.** Two requests with a common prefix prefilled before either is cached: the second
   commit frees its copies of the shared pages (`scheduler/cache.py:119`) but leaves its page-table row
   naming them. It keeps reading pages that are free.
2. **An abort in flight.** An abort between launch and commit of the last prefill chunk (overlap): the
   commit caches the released request (`scheduler/scheduler.py:1582`), and the next idle integrity
   check fails. `MCKVScheduler.cfg` with `AbortsInFlightPrefill = TRUE` violates `EveryPageHasOneOwner`.
3. **Pages against tokens.** Admission counts tokens, allocation takes pages; with pages of more than two
   tokens the eviction assertion can fire under admitted requests (`scheduler/prefill.py:87`).
   `MCKVScheduler.cfg` with `Uids = {6, 7}`, `CacheOutput = {6, 7}`, `PageSize = 4`, `NumPages = 3`,
   `Budgets = {8}` violates `PackingIsSound`.
4. **One token short.** In overlap order `can_decode` is one forward ahead of the commit, and a request
   finishes with reason `length` one token short (`scheduler/scheduler.py:1530`).
   `LengthMeansMaxTokens` is violated in `MCKVScheduler.cfg`; `LengthFinishes` is what holds.
5. **Three ranks.** The handshake hears rank 1 only; with three ranks the third may not be subscribed.
   `MCInterRankLink.cfg` with `Ranks = {1, 2}` violates `LinkIsLive`.
6. **Dedicated tokenizers.** With dedicated tokenizer processes, the prompt length and the stop strings
   are recorded in a process that never sees the replies. `MCRequestPipeline.cfg` with
   `Tokenizers = {"t"}` violates `OneStreamPerClient`.
7. **A tool gate that does not move.** The tool gate is moved only while a reasoning gate is armed
   (`scheduler/scheduler.py:1558`). A request that does not reason, or has finished reasoning, may
   end its turn inside a call it opened, which the gate is there to prevent. The speculative lane has the
   same condition. `MCRequestState.cfg` with `Thinks = {"q1"}`, and `tool[q].at` for `think[q].at` in the second
   conjunct of `GatesFollowText`, violates it.
8. **`gates_reuse`.** In overlap a row can change hands while a batch with its former holder is in
   flight; the sampled token of that batch may land in the prompt of the new holder
   (`scheduler/prefill.py:164`). A second divergence shows with `Thinks = {"q1"}` and the conjunct
   about `torn` taken out of `ContextIsTheText`: a forced token is written one cell too far
   (`scheduler/scheduler.py:1517`), so that the row reads `t t t t` where the client was sent `t t t u`.
9. **Abandoned copies.** `apply_pending` frees the slot of an abandoned copy even if the manager
   has reclaimed it during the tick (`weights/expert_cache.py:681`): the slot is freed twice.
   `MCExpertCache.cfg` with an environment that is lossy and racing violates `EverySlotHasOneHolder`
   and, with that one left out, `TableNeverOverReports`.
10. **Graphs that are too small.** With a largest graph below `max_running_req`, one replica runs
    eagerly and another looks up a graph that does not exist (`scheduler/ep.py:141`).
    `MCLockstepLoop.cfg` with `GraphSizes = {1}` violates `EveryReplicaSteps`.
11. **`spec_cca`.** When a request of a block ends, the CCA requests after it in the batch get another one's
    state: `install_verify_state` counts columns among the survivors (`kvcache/cca_state.py:119`).
12. **Snapshots after every draft.** A request that ends in a speculative step leaves the recurrent
    cache a state that has seen its rejected drafts, but for the ssm half of a block that was on the
    ReplaySSM ring (`scheduler/scheduler.py:5508`). A window longer than the ring is verified by the
    materialised path (`gdn/layer.py:577`), and nothing of it is rewound. `SnapshotsAreExact` with `server.ring > 0`
    for its premise, or with `conv` for `ssm`, is violated.
13. **Fillers past admission.** A padded block may need a page nobody set aside, and the eviction
    assertion ends the scheduler (`spec/width.py:213`). `BlocksFit == up` is violated.
14. **A late delimiter.** A block staged below the budget may commit drafts beyond it, up to `num_draft`
    tokens (`scheduler/scheduler.py:2139`); the reserve for the delimiter does not count them.
    `ReasoningIsDelimited` without `NumDraft` in its limit is violated.
15. **The same slot again.** `apply_pending` publishes a copy that landed if its key still has the copy's
    slot (`weights/expert_cache.py:689`). A key that lost the slot during one tick, and got it again
    after another key had it, passes this test while the other key's copy into the slot is still to
    come. It takes a first copy that outlasts three ticks; the code waits for 64. `MCExpertCache.cfg` with `MaxAge = 3` and
    an environment that is racing, not lossy, and has patience 3 violates `TableNeverOverReports`.
16. **Blocks of different lengths on the ring.** A commit on the ring rewinds each request by the length of the
    longest block of the batch, less what it kept (`scheduler/scheduler.py:5498`). With graphs off, or a
    batch larger than any that was captured, blocks have different lengths, and a request with a shorter one
    loses tokens of its committed text from its ssm state. In `MCSpecDecode`, `ring |-> 3` on the server with
    `ladder |-> {}`, or `VerifyBs = 1`, violates `StateFollowsText`.

Observed while modelling, without a property of their own:

- With several tokenizer processes an abort can overtake its own prompt: the frontend's socket may
  hand them to different workers. `NoZombies` is therefore stated of the one-worker set-up only.
- The commit of a released request arms its gates again. Nothing is forced (`OverridesOwnRows`), but
  the record stays in the gate's dictionary.
- `apply_pending` takes the in-flight list away for the time of a tick, so the manager sees an empty one and
  may place `_max_inflight` more copies: a threshold, not a bound.
- A replica that leaves after `MINISGL_EXIT_AFTER_STEPS` leaves its peers in the all-reduce.
- A group decodes only in iterations in which no replica has something to prefill.

## 6. Proofs

TLAPS checks these for every value of the constants that meets the named assumptions:

| Theorem | Says |
|---|---|
| `KVScheduler_proofs!TypeCorrect` | `Spec => []TypeOK` |
| `KVScheduler_proofs!RowsHaveOneOwner` | `Spec => []EveryRowHasOneOwner` |
| `KVScheduler_proofs!PagesHaveOneOwner` | if `AbortsInFlightPrefill = FALSE`, `Spec => []EveryPageHasOneOwner` |
| `KVScheduler_proofs!LocksAreCounted` | under the same hypothesis, `Spec => []NothingLeaks` |
| `KVScheduler_proofs!RequestsGetTheirTokens` | under the same hypothesis, `Spec => LengthFinishes` |
| `KVScheduler_proofs!AssertionsHold` | under the same hypothesis, no unlock underflows and no integrity check fails |
| `KVScheduler_proofs!ImplementsLedger` | under the same hypothesis, `Spec => LedgerSpec`: the scheduler implements `KVLedger` |
| `KVScheduler_proofs!LedgerTypeCorrect`, `PinnedStay`, `TransfersGoThroughThePool` | under the same hypothesis, every page has an owner and pinned ones are cached; pinned pages stay; no page passes directly between requests |
| `RadixCache_proofs!TreeStaysWellFormed` | `Spec => []TreeWellFormed` |
| `RadixCache_proofs!EvictionFindsLeaves` | `Spec => []EvictNeverFails` |
| `RadixCache_proofs!SnapshotsStayOnNodes` | `Spec => []SnapshotsMatchNodes` |
| `RadixCache_proofs!EvictionTakesTheOldest` | `Spec => EvictsLeastRecentlyUsed` |
| `RadixCache_proofs!MatchesStayRestorable` | `Spec => MatchesAreRestorable` |
| `RadixCache_proofs!PagesStayDistinct` | `Spec => []PagesDistinct`: no page in the tree twice, or in the tree and free |
| `RadixCache_proofs!RadixRefinesTrie` | `Spec => TrieSpec`: the compressed tree implements `PageTrie` |
| `InterRankLink_proofs!RankOneIsLive` | rank 1 is subscribed when rank 0 leaves the handshake, for any number of ranks |
| `InterRankLink_proofs!TwoRanksLive` | with two ranks, `Spec => []LinkIsLive` |
| `InterRankLink_proofs!RankOneAgrees` | rank 1 works through rank 0's messages in rank 0's batches, for any number of ranks |
| `InterRankLink_proofs!TwoRanksAgree` | with two ranks, `Spec => []BatchesAgree` |
| `LockstepLoop_proofs!LoopTypeCorrect` | `Spec => []TypeOK`, votes within the rows of a replica included |
| `LockstepLoop_proofs!LoopCollectivesMatch` | `Spec => []CollectivesMatch`, for any replicas and any captured graphs |
| `LockstepLoop_proofs!CoveredLoopSteps` | if a graph is captured for `Rows` requests, `Spec => []EveryReplicaSteps` |
| `RequestState_proofs!OverridesOwnRows` | `Spec => []OnlyOwnRows` |
| `RequestState_proofs!SlotsAreFollowed` | `Spec => []SlotsFollowRequests` |
| `RequestState_proofs!CellsAreCommitted` | `Spec => []ContextIsCommitted` |
| `RequestState_proofs!ReasoningAlwaysBounded` | `Spec => []ReasoningIsBounded` |
| `RequestState_proofs!GatesAlwaysFollowText` | if no text ends in an opener and a closer at once, `Spec => []GatesFollowText` |
| `RequestState_proofs!EosAlwaysWaits` | `Spec => EosWaitsForReasoning` |
| `ExpertCache_proofs!SlotsHaveOneHolder` | if no environment is lossy and racing, `Spec => []EverySlotHasOneHolder` |
| `ExpertCache_proofs!HostAndDeviceAgree` | under the same hypothesis, `Spec => []TableFollowsClaims` |
| `ExpertCache_proofs!TableIsHonest` | under the same hypothesis, `Spec => [](Orderly => TableNeverOverReports)`: in behaviours without evictions during a tick, and, if copies get lost, with `MaxLag = 0` |
| `RequestPipeline_proofs!PipelineTypesCorrect` | the types, with any number of tokenizers |
| `RequestPipeline_proofs!InflightStaysHonest` | `Spec => []InflightHonest`, with any number of tokenizers |
| `RequestPipeline_proofs!ReplicasHearOfAborts` | if one worker does both directions, `Spec => []NoZombies` |
| `RequestPipeline_proofs!ClientsSeeOneStream` | under the same hypothesis, `Spec => []OneStreamPerClient` |
| `SpecDecode_proofs!SpeculationIsLossless` | a speculative step from a state that follows the text appends only the model's own answers among what the gates allow |
| `SpecDecode_proofs!StateAlwaysFollowsText` | if every server has GDN state, and either no ring or blocks that are equally long in a batch (`AllRollBack`), `Spec => []StateFollowsText` |
| `SpecDecode_proofs!PagesAlwaysFollowLength` | `Spec => []PagesFollowLength` |
| `SpecDecode_proofs!SnapshotsAreAlwaysExact` | `Spec => []SnapshotsAreExact`: on servers with `AlwaysOnRing`, its premise |
| `SpecDecode_proofs!BlocksAlwaysFit` | `Spec => []BlocksFit` |
| `SpecDecode_proofs!SpeculationImplementsGreedy` | under the hypothesis of `StateAlwaysFollowsText`, `Spec => Lossless`: the loop implements `GreedyDecode` |

**The scheduler.** Neither `TypeOK` nor row ownership is inductive: that a row is not handed out twice
depends on a request being in the pending list at most once, on a queued request that is not
chunked holding nothing, on a chunked one holding a row, and on the packing pass being in step with
the list it walks. These are `Queues`; with the rows they make `IInv == TypeOK /\ Queues /\ RowsOK`.
The proof has one lemma per action and, for the pages, relies only on `cacheVars` changing in ways
that leave the rows alone. It does not use the switches: aborts in flight and twins are covered.

**The pages.** The second half of the module goes on from `IInv`. Page ownership is not inductive either, and what it
lacks is spread over the whole scheduler. `PInv` names it:

- `Whereabouts`: which requests the batches, the running set and the tokens still to come may name, and how
  `cached`, `device` and the number of tokens of a `Req` follow from where it is. `cache_req` slices a row by
  these lengths one batch after they moved, so which pages it hands to the cache depends on them.
- `TrieOK`: the trie is finite, closed under prefixes and has one `ref_count` per path. A match is therefore
  in the tree as far as it goes, and evicting a leaf leaves a tree.
- `LocksOK`: a `ref_count` is the number of handles through its path, so what is evicted is under no handle.
- `PagesOK`: `EveryPageHasOneOwner`, and the types of pool and rows.
- `StopsOnlyToEvict`: the process stops only because packing promised pages that cannot be evicted. Of a
  stopped process `PInv` says only that trie, locks and pages are as they should be.

The argument about pages is `OneOwner(f, t, o)`: a list, a map and another map that are injective, disjoint and
cover all pages. The free list, the trie and the parts of the rows beyond the handles stand in this
relation, and every action is made of a few moves that keep it: pages from the list to a row
(allocate), from a row to the trie (insert), from a row or the trie to the list (free, evict).
`ImplementsLedger` uses the same moves: each action maps to one step of `KVLedger` (a settling, an
allocation, an eviction or a change of pins) or to a stutter.

`RequestsGetTheirTokens` follows a `Req` over its chunks: a request that is no longer in the queue either is
still waiting or holds nothing, and the limits of its latest `Req` are those of the first (`LengthInv`), so
that `can_decode` fails exactly at the last token.

The hypothesis `AbortsInFlightPrefill = FALSE` is finding 2 turned around: with `TRUE` these theorems are
false, as `MCKVScheduler.cfg` shows. Twins, both loops, and aborts of queued, chunked and running requests
and of a decode in flight are all included.

**The link.** `LinkIsLive` is about rank 1's broadcast, so the invariant `Handshake` follows the
knowledge backwards: rank 0 left the handshake because it received a true acknowledgement, which was
sent because rank 1 saw a marker, which its socket held because it was subscribed.

`BatchesAgree` needs the rest of a message's way (`Batches`). While rank 1 serves, what it received, followed by what its
socket holds and what rank 0 has still to publish, is what rank 0 received (`Serving`); while it drains, the same
holds behind the end marker (`Draining`); and the counts under way are the differences of the ends of rank 0's
iterations (`CountsAddUp`). With more ranks this holds of rank 1 alone: the others may
have missed messages (finding 5).

**The ledger.** The three theorems say of the scheduler's own pages what the ledger promises. A step that
`NextImplements` maps to one of the ledger moves each page at most once and along its rules (`Moves`);
with the types of `LedgerTypeCorrect` the two action properties are cases of that.

**The radix cache.** Everything rests on one invariant, `RInv`, for any page size, pool, snapshot cap, users and
token streams, with and without recurrent state. No property is inductive alone: that `evict` finds a leaf depends on
the heap, the heap on the counts, the counts on the tree.

- `Tree`: nodes are finitely many paths of whole pages, each hangs from the nearest node above it, and every
  page is held by one node (`OneOver`). That siblings part at their first page, so that a walk cannot
  miss a cached prefix, is a consequence (`SiblingsDiffer`).
- `Counts`: a `ref_count` is the number of handles that go through the node. So what is unreferenced has only
  unreferenced nodes below it, and the lowest of these is a leaf (`FreeLeaf`).
- `Sized`: the counters are the tokens of the unreferenced and of the referenced nodes. The model counts
  the tokens of a set of nodes as the cardinality of a union, so that sums become facts about finite sets (`TotalJoin`,
  `TotalLess`): a node that moves from one side to the other moves its tokens, and a split moves none (`SplitTotal`).
- `Heaped`: every unreferenced leaf has a heap entry with its present time. Older entries may be there as well and do
  no harm, since the least one is at most as old as each leaf (`TopIsOldest`).
- `RecOK`: snapshots are on their own nodes, and listed once. A new node of a split has none, which is
  what keeps a deep state off a shallow prefix.

The operations are composed of few changes to the nodes: split, touch, graft, count, unlink. Each has a lemma
that it keeps `Good`, the first four parts, for given handles (`SplitGood`, `TouchGood`, `InsertedGood`,
`LockedGood`, `UnlockedGood`, `UnlinkedGood`), and the lemmas of the actions put them together. Between a change
and the `_push_leaf` after it the heap may miss some leaves; `Nearly` says which.

That the tree implements `PageTrie` (`TrieSpec`) is proved path by path. `PathsIn` and `PageIn` are the paths of a
tree and their pages, `ViewIs` says that the refinement mapping shows just these, and that the
count of a path is the number of handles through it. Then every change to the nodes is one of three kinds: it leaves
the pages of all paths alone (`Alike`: a touch, a count, a snapshot, and a split, whose halves share the
pages out in order), it adds pages for the paths of a commit (`Gains`: a graft), or it takes the pages of one leaf away
(`LeafGone`), which `PageTrie` may evict because whatever is below a path of a leaf is on that leaf (`LeafGoes`). `PageTrie` also
claims that no page has two paths. This is not inductive by itself: the pages of a commit must be new, so
`PagesDistinct` adds that no free page is in the tree, which eviction keeps because it frees
exactly the pages it unlinks (`ValueIs`).

**The lockstep loop.** The invariant has two halves. `Own` is what a replica knows of itself: types, a
batch still to be prefilled, a vote within its rows and within the decision. `InStep` is what
replicas know of each other: while one is behind, it has issued nothing and every other one exactly
the collectives of the step (`StreamsAgree`), and somebody has real work and waits for them
(`Waits`), which is why no dummy can run on through the next all-reduce. That every replica
takes the same step follows from each vote being at most the maximum.

**The gates.** A released request may still be in the batch that is committed. `Gone` says that it
is in no batch launched later and has no gate; the commit arms a new one, whose count of 0 is below
every budget `EffectiveBudget` gives, so nothing is forced and nothing written.

What the gates of a running request know is `GateInv`. A window as wide as the longest pattern
matches what the whole text does (`WindowIsEnough`), so a gate that looks at one token at a time
has let go exactly when the text ends its reasoning (`FollowsText`), and an ungated tool gate is inside a call
exactly when the text is (`ToolFollows`); the second needs the hypothesis `Apart`, that no text ends in an
opener and a closer at once, because the gate then closes a call that a scan of the text finds opened.
`Bounded` is the strengthening behind `ReasoningIsBounded`: the gate has counted every token as long as there is budget,
and from then on each token is the next one of the delimiter, starting behind the part of it
the model has said by itself (`ForceBaseFollows`). `EosInv` adds that an end of turn that is sampled
and not yet committed was sampled under a gate that had let go, unless it was sampled
before the gate was armed; a gate that has let go keeps letting go (`LetGoStays`), so the stale mask
of the overlap loop does no harm. The theorems assume of the constants what `DelimitersAssumption` and `ToolsAssumption`
say: no delimiter holds the end-of-turn token (a request where one does is not modelled), a tool gate
that is armed has an opener and a closer (`arm` declines without, `scheduler/think_gate.py:171`), and nobody
asks for `_UNBOUNDED` tokens, which is 2^62.

**Slots and cells.** `SlotInv` adds to that how many chunks and forwards a request is behind (`Progress`), and that who
is in a batch was given a slot before its launch (`Batched`); the state of a slot is then the list of the
forwards of its holder. `TextInv` says that a row is its text followed by what was sampled in the one
or two batches that are not committed (`CellsRunAhead`). Where a forced token could meet such a batch, reasoning requests in the
overlap loop, it says nothing: there an override can be lost (finding 8). The theorem needs `Chunk`, the
mark of a batch that samples nothing, not to be a token, which `RequestsAssumption` states.

**The expert cache.** Three invariants, each resting on the one before it, all checked by TLC before they were proved.

- `HInv` is about the two threads. The five places of a slot (`free`, claims, `toRetract`, `retracting`,
  the entry `Abandon` took) are disjoint and cover all slots, so a key admitted into a free slot evicts
  nobody; without evictions during a tick, whoever is in a copy list still has the slot, so the slot that is
  given back by `FreeAbandoned` is one that `Abandon` has just taken.
- `AInv` is about host and device. What the table will say once the compute stream has drained is claimed or queued for
  retraction, a claim is readable or its copy is followed, and, without evictions during a tick, what is followed is not yet
  published.
- `BInv` is about bytes. A slot the table refers to, now or after any of the writes left, has the key's
  bytes (`Fits`); a copy waits until the last reference of another key to its slot is overwritten (`CopiesWait`), which
  the event of a free slot tells (`FreeIsFenced`); and an entry whose event has happened has its bytes in place, with
  no later copy into the slot (`Arrive`). `Fits` for what the table says now is `TableNeverOverReports`.

Two hypotheses. `Separate` keeps losses and evictions during a tick apart; together they violate all three
(finding 9), and the passing run satisfies `Separate`. `Orderly` selects the behaviours `TableIsHonest` speaks of. It
excludes racing ones, where copies that outlast three ticks violate the property (finding 15); with patience 1 TLC checks
them. If copies get lost it asks for `MaxLag = 0`, the bound of the run: a tick begins with an empty compute
stream. An abandoned slot is given back without an event of its own, so that only the age of the copy tells that
its retraction was passed; with `MaxLag = 1` and `MaxAge = 1` TLC finds a violation, a compute stream that
lags behind all ticks of an abandoned copy, which with the code's 64 ticks does not happen. Without losses
`MaxLag` is arbitrary.

**The pipeline.** Four invariants, each resting on the one before it.

- `Types` and `Recorded`: a metrics record is closed once, by the way its handler is left. They hold with any number of
  tokenizers and give `InflightHonest`.
- `Structure` says where a request is: it is asked for once, routed once, and then worked on by one replica; a batch
  of replies names it once; what a replica sends last of it is last.
- `Chased` says that once a request is over for its client, because it left or because its last reply is on its way, the
  request is followed by its abort wherever it still is: behind it in the same queue, or not sent yet.
  The order of the queues does the rest, and `NoZombies` is the case of a replica with empty queues.
- `Streams` numbers the replies of a request along their way: shown, waiting in `ackMap`, in the batches to the frontend,
  counted by the detokenizer. These numbers go on from each other and nothing follows a reply that ends the
  request, so what the client is shown is a prefix of one stream.

From `Structure` on the proof assumes `Tokenizers = {}`, the default of the server, in which requests and aborts share
one queue. With separate tokenizers an abort may overtake its request, and `NoZombies` is then false (section 5).

**Speculation.** `SpeculationIsLossless` is about one step: for any model, drafts, padding, captured widths and
batch, if `StateFollowsText` and the types hold before it, each token it appends to a request is the
model's answer to the text before that token, among the tokens the gates allow there. No induction along the
block is needed: the accepted drafts are, by the definition of `VerifyGreedy`, equal to the answers at
their places, so that what the forward has read before the j-th kept token is the text with the
tokens kept before it (`ReadOn`, `AcceptedPrefix`), and cutting at the end of the reasoning or of the
turn takes a prefix (`KeptIsPrefix`).

The other theorems are about the whole loop, with its prefills, plain steps, arrivals and aborts, and need the
invariant `SInv`:

- `Following` is `StateFollowsText` with what the step needs besides: a running request has tokens to come, so
  that a proposer's drafts, the token after them and the roll-back all stay within its limit.
- `PagesOK`: free list and rows are injective and disjoint, and a row has the pages its cached tokens take. With it
  no two positions of a batch share a location (`PlacesDiffer`), so a forward writes the block it was given and
  nothing else that attention reads (`WrittenIs`, `ContextAfter`, `ContextElse`).
- `Reserved`: the pages all running requests will take up to their last token are no more than the pool has.
  Admission compares tokens, so the proof goes from `InflightTokens` to pages (`PrefillRoom`). The last
  token needs no page, which is why `BlocksFit` says "up to" the limit: a block padded to exactly the
  limit may be the first that finds too few pages.
- `Idle` and `Snapped`: who is not running has no pages, no state and no gate, and left at most an exact snapshot.

Each forward is shown to be a step that commits what a forward may give (`Commits`: `PrefillCommits`,
`PlainDecodeCommits`, `SpecDecodeCommits`), and `CommitsKeeps` does the rest once for all three. For
`Lossless` the texts of running requests without gates are those of greedy decoding so far
(`GreedyInv`); each step then maps to one of `GreedyDecode` or leaves the texts alone.

Two hypotheses: `Answers`, the model answers with a token; and, where the state is concerned, `AllRollBack`. It leaves
out CCA servers, and servers with a ring whose batches may have blocks of different lengths, since the claim is
false of both (findings 11 and 16). Blocks are equally long if a batch has one request (`SpecMaxBs = 1`), or widths are captured for
every batch that speculates (`EqualLengths`). A ring that has room for some of the windows only is covered:
blocks are rewound while they are on the ring, and read from the scratch while they are not. `SnapshotsAreExact` needs
`AlwaysOnRing` on top, which is its premise (`BlockOnRing`; finding 12). Pages and room are proved for every server.

Only model-checked:

- Liveness, everywhere.
- `RowsReadCachedPages`: finding 1 is its failure with twins, and what keeps it true without them is about the
  prompts of the run. In general a prompt may match what another request has generated, and prompts shorter than a page share no
  first page, so no bound on the prompts makes it hold for every instance.
- `PackingIsSound`: a sum over admitted requests, which the provers cannot unfold, and false for larger
  pages (finding 3). Two of the assertions it speaks of are `AssertionsHold`.
- `TableNeverOverReports` in racing behaviours, and `DemandIsServed`.
- `ReasoningIsDelimited` of `SpecDecode`, where a gate takes a whole block of tokens in a fold and an
  override may fall on any of them.

## 7. Not modelled

- In the scheduler: tidar and diffusion steps, grammar-constrained batches (they
  serialise the overlap loop), CAM overrides, the pool-relative length guard, sliding-window
  state, image boundaries inside a chunk, and the alignment of chunks to pages (`scheduler/prefill.py:137`), which
  only a cache with recurrent state makes: `ChunkSize` is that of a cache without.
- In the cache: `lazy_free_region`, which puts off the frees of a commit to its end; nothing is allocated
  in between.
- In speculation: how drafts come about, sampled and constrained requests, penalties, draft trees, the
  fused TiDAR step, the controller that adapts the width (any captured width that takes the drafts would
  do), steps without any draft, which some proposers keep on the verify path (here a plain step), PLE
  histories, the prefix cache (a prompt is prefilled in one pass and its pages are given back at its end).
- In the pipeline: HTTP and its formats, statistics and CAM messages, worker crashes (the watchdog ends
  the whole server), the batching of several messages in one worker turn, and everything inside a replica.
- In the expert cache: the inline mode without a manager thread; the second-reference filter and the
  reference queue (their outcome is left open); graph capture; a manager thread that dies; statistics.
- In the expert-parallel loop: `_spec_ep_loop`, the tensor-parallel communicators, leaving after a
  number of steps. Prefill batches have one request, since only their tokens count.
- In the request state: snapshots and restores through a slot (their tree side is in `RadixCache`),
  PLE histories; grammar masks; delimiters that contain the end-of-turn token.
- The parts listed in `PROJECT.json` as `not_modelled`, each with its reason. Most of the repository by
  lines is numeric code, benchmarks, start-up planning and measurement tools without concurrent
  state of their own.

## 8. Plan

Done: the scheduler with its pages and the radix cache, link, pipeline, expert cache, lockstep
loop, gates and recurrent slots, speculative decoding. Next, in the order of what is at stake:

1. `_spec_ep_loop`: the speculative step inside `LockstepLoop`, where every replica pads to one width.
2. Snapshots and restores through recurrent slots; connects `RequestState` with `RadixCache`.
3. The hand-over of `stream_tier` between the host tiers of the weights.
4. Namespaces and eviction of CAM facts.
5. Proofs: `ReasoningIsDelimited`, from the lemmas about one token in `RequestState_proofs`.

## 9. Running

```
tlasany KVScheduler.tla
tlc -workers 2 -config MCKVScheduler.cfg MCKVScheduler
tlapm KVScheduler_proofs.tla
```
