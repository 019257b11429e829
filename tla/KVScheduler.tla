---------------------------- MODULE KVScheduler ----------------------------
(***************************************************************************)
(* One scheduler process serving requests from the radix KV cache:         *)
(* PrefillManager with its chunked-prefill packing (scheduler/prefill.py), *)
(* DecodeManager (scheduler/decode.py), and the iteration of               *)
(* scheduler/scheduler.py in both of its orders:                           *)
(*                                                                         *)
(*   normal_loop    receive - schedule - forward - commit this batch       *)
(*   overlap_loop   receive - schedule - forward - commit the LAST batch   *)
(*                                                                         *)
(* The process is sequential; pc says where in the iteration it stands.    *)
(* The loops over a batch are one action per request, in any order.        *)
(* Speculative, expert-parallel, diffusion and grammar-constrained steps   *)
(* and the recurrent-state snapshots are not part of this module.          *)
(***************************************************************************)
EXTENDS KVCache, FiniteSetsExt

CONSTANTS
    Uids,             \* request ids
    Prompt,           \* uid -> input_ids
    MaxTokens,        \* uid -> sampling_params.max_tokens
    CacheOutput,      \* uids with sampling_params.cache_output
    Tokens,           \* what the model may sample
    Eos,              \* eos_token_ids
    MaxSeqLen,        \* engine.max_seq_len
    Budgets,          \* per-step prefill budgets _prefill_budget_now may return
    ChunkGran,        \* PrefillManager.chunk_gran
    ShortReqReserve,  \* _SHORT_REQ_RESERVE
    MinChunk,         \* _MIN_CHUNK
    Loops,            \* the loop orders to consider
    AbortsInFlightPrefill, \* may an abort name a request whose last prefill
                           \* chunk was launched and not committed?
    Twins             \* may a prompt arrive while another one that shares its
                      \* first page is not in the prefix cache yet?

ASSUME SchedulerAssumption ==
    /\ Uids \subseteq Nat /\ IsFiniteSet(Uids)
    /\ Prompt \in [Uids -> Seq(Nat) \ {<< >>}]
    /\ MaxTokens \in [Uids -> Nat \ {0}]
    /\ CacheOutput \subseteq Uids /\ Eos \subseteq Tokens /\ Tokens \subseteq Nat
    /\ MaxSeqLen \in 1..(NumPages * PageSize)
    /\ Budgets \subseteq Nat \ {0} /\ Budgets # {}
    /\ ChunkGran \in Nat \ {0} /\ ShortReqReserve \in Nat /\ MinChunk \in Nat
    /\ Loops \subseteq {"normal", "overlap"}
    /\ AbortsInFlightPrefill \in BOOLEAN /\ Twins \in BOOLEAN

VARIABLES
    loop,      \* which loop run_forever entered
    pc,        \* "recv" | "pack" | "evict" | "write" | "commit" | "dead"
    outcome,   \* uid -> what the client has been told or asked for
    pending,   \* PrefillManager.pending_list
    chunked,   \* uids whose PendingReq.chunked_req is set
    running,   \* DecodeManager.running_reqs
    req,       \* uid -> the latest Req object
    adder,     \* PrefillAdder of the current iteration, how far it got in the
               \* pending list (taken) and its chunked_list (chunks)
    reserved,  \* PrefillAdder.reserved_size
    batch,     \* the batch being built or launched
    last,      \* last_data: launched, not committed
    todo,      \* requests the current loop over a batch has not reached
    finished,  \* finished_reqs (old) and new_finished_reqs (new)
    fault      \* the assertion that stopped the process

schedVars == <<loop, pc, outcome, pending, chunked, running, req, adder,
               reserved, batch, last, todo, finished, fault>>
vars == <<cacheVars, schedVars>>

ReqObjects == [row : Rows \cup {0}, cached : Nat, device : Nat, maxDevice : Nat,
               handle : Seq(Nat), ids : Seq(Nat), freed : BOOLEAN]
NoReq == [row |-> 0, cached |-> 0, device |-> 0, maxDevice |-> 0,
          handle |-> << >>, ids |-> << >>, freed |-> TRUE]
Batches == { b \in [phase : {"none", "prefill", "decode"},
                    uids : SUBSET Uids, chunks : SUBSET Uids] : b.chunks \subseteq b.uids }
NoBatch == [phase |-> "none", uids |-> {}, chunks |-> {}]
Adders == [budget : Nat, others : Nat, taken : Nat, chunks : Seq(Uids)]
NoAdder == [budget |-> 0, others |-> 0, taken |-> 0, chunks |-> << >>]

Init ==
    /\ CacheInit
    /\ loop \in Loops
    /\ pc = "recv"
    /\ outcome = [u \in Uids |-> "new"]
    /\ pending = << >> /\ chunked = {} /\ running = {}
    /\ req = [u \in Uids |-> NoReq]
    /\ adder = NoAdder /\ reserved = 0
    /\ batch = NoBatch /\ last = NoBatch /\ todo = {}
    /\ finished = [old |-> {}, new |-> {}]
    /\ fault = "none"

----------------------------------------------------------------------------
(* Request arithmetic (core.py).                                           *)

OutputLen(u) ==   \* max_tokens clipped to the servable maximum
    LET room == MaxSeqLen - Len(Prompt[u])
    IN  IF MaxTokens[u] > room THEN room ELSE MaxTokens[u]

RemainLen(u) == req[u].maxDevice - req[u].device

\* can_decode, and one that stops a token early.
CanDecodeEarly(u) == RemainLen(u) > 1
CanDecode(u) == RemainLen(u) > 0

\* The first n tokens of s, by a slice that stops where s does; and what
\* cache_req inserts of a request: input_ids[: cached_len].
FirstIds(s, n) == SubSeq(s, 1, IF n < Len(s) THEN n ELSE Len(s))
InsertIds(r) == FirstIds(r.ids, r.cached)

\* Requests that hold a row, a lock and pages.
Holders == { u \in Uids : ~req[u].freed }

\* DecodeManager.inflight_tokens, and an estimate blind to the running requests.
NothingInflight == 0
InflightTokens ==
    MapThenSumSet(RemainLen, running) + (PageSize - 1) * Cardinality(running)

\* The client may name any request it sent; without AbortsInFlightPrefill,
\* not one between the launch and the commit of its final prefill chunk.
MayAbort(u) ==
    last.phase = "prefill" /\ u \in last.uids \ last.chunks => AbortsInFlightPrefill

\* Without Twins, a prompt arrives only when no request sharing its first
\* page is still pending or between launch and commit of its prefill.
MaySend(u) ==
    ~Twins => \A v \in ToSet(pending) \cup (IF last.phase = "prefill" THEN last.uids ELSE {}) :
                  PathsOf(Prompt[u]) \cap PathsOf(Prompt[v]) = {}

----------------------------------------------------------------------------
(* Releasing a request: _free_req_resources, idempotent per Req object.    *)

ReleaseOnce(u, r) ==
    LET ids == InsertIds(r)
    IN  /\ req' = [req EXCEPT ![u] = [r EXCEPT !.freed = TRUE]]
        /\ IF UnlockUnderflows(InsertRefs(refs, ids), r.handle)
           THEN /\ fault' = "ref_count"
                /\ freeRows' = Append(freeRows, r.row)
                /\ UNCHANGED <<tree, refs, freePages, pageTable>>
           ELSE Release(r.row, r.handle, ids, u \in CacheOutput) /\ UNCHANGED fault

FreeReqResources(u, r) ==
    IF r.freed
    THEN req' = [req EXCEPT ![u] = r] /\ UNCHANGED <<cacheVars, fault>>
    ELSE ReleaseOnce(u, r)

----------------------------------------------------------------------------
(* Receiving (_process_one_msg).                                           *)

\* A prompt as long as the pool is answered with an error; any other joins
\* the end of the pending list.
RecvUser(u) ==
    /\ pc = "recv" /\ outcome[u] = "new" /\ MaySend(u)
    /\ \/ /\ Len(Prompt[u]) >= MaxSeqLen
          /\ outcome' = [outcome EXCEPT ![u] = "rejected"]
          /\ UNCHANGED pending
       \/ /\ Len(Prompt[u]) < MaxSeqLen
          /\ outcome' = [outcome EXCEPT ![u] = "waiting"]
          /\ pending' = Append(pending, u)
    /\ UNCHANGED <<cacheVars, loop, pc, chunked, running, req, adder, reserved, batch,
                   last, todo, finished, fault>>

\* Who an abort finds with resources to give back: a chunked request through
\* prefill_manager.abort_req, a running one through decode_manager.abort_req.
FoundRunning(u) == u \in running
FoundWithResources(u) == u \in chunked \cup running

\* The pending list is searched first, then the running set; a request found
\* with resources gives them back at once, whatever is in flight.  (An abort
\* of a request that already ended finds it in neither and changes nothing.)
RecvAbort(u) ==
    /\ pc = "recv" /\ outcome[u] = "waiting" /\ MayAbort(u)
    /\ outcome' = [outcome EXCEPT ![u] = "aborted"]
    /\ \/ u \notin ToSet(pending) /\ UNCHANGED pending
       \/ \E i \in DOMAIN pending : pending[i] = u /\ pending' = RemoveAt(pending, i)
    /\ chunked' = chunked \ {u}
    /\ running' = running \ {u}
    /\ IF FoundWithResources(u)
       THEN FreeReqResources(u, req[u])
       ELSE UNCHANGED <<cacheVars, req, fault>>
    /\ pc' = IF fault' = "none" THEN pc ELSE "dead"
    /\ UNCHANGED <<loop, adder, reserved, batch, last, todo, finished>>

Blocking == pending = << >> /\ running = {} /\ last = NoBatch

\* receive_msg found nothing to wait with: run_when_idle checks the cache.
Idle ==
    /\ pc = "recv" /\ Blocking
    /\ IF IntegrityHolds THEN UNCHANGED <<fault, pc>> ELSE fault' = "integrity" /\ pc' = "dead"
    /\ UNCHANGED <<cacheVars, loop, outcome, pending, chunked, running, req, adder, reserved,
                   batch, last, todo, finished>>

----------------------------------------------------------------------------
(* Scheduling (_schedule_next_batch).                                      *)

\* PrefillManager.schedule_next_batch opens a PrefillAdder.
BeginPack ==
    /\ pc = "recv" /\ ~Blocking
    /\ \E budget \in Budgets :
         adder' = [budget |-> budget, taken |-> 0, chunks |-> << >>,
                   others |-> IF pending = << >> THEN 0 ELSE Len(pending) - 1]
    /\ reserved' = InflightTokens
    /\ pc' = "pack"
    /\ UNCHANGED <<cacheVars, loop, outcome, pending, chunked, running, req,
                   batch, last, todo, finished, fault>>

\* The chunk the budget allows, less the reserve for whoever queues behind.
BudgetChunk(inputLen, cachedLen) ==
    LET remain   == inputLen - cachedLen
        whole    == IF adder.budget < remain THEN adder.budget ELSE remain
        giveBack == /\ adder.others > 0 /\ whole < remain
                    /\ adder.budget > ShortReqReserve + MinChunk
    IN  IF giveBack /\ adder.budget - ShortReqReserve < whole
        THEN adder.budget - ShortReqReserve ELSE whole

\* The tokens of the next chunk of a prompt of inputLen tokens of which
\* cachedLen are done; 0 when no chunk ends on the hard granularity.  Of a cache
\* without recurrent state: with one, a chunk also ends on a page.
ChunkSize(inputLen, cachedLen) ==
    LET end     == cachedLen + BudgetChunk(inputLen, cachedLen)
        aligned == end - (end % ChunkGran)
    IN  IF ChunkGran = 1 \/ end >= inputLen THEN end - cachedLen
        ELSE IF aligned <= cachedLen THEN 0 ELSE aligned - cachedLen

\* _add_one_req: a fresh Req object for this chunk, over the row and handle
\* the request already has.
AddOneReq(u, row, handle, cachedLen) ==
    LET size == ChunkSize(Len(Prompt[u]), cachedLen)
        end  == cachedLen + size
    IN  /\ size > 0
        /\ req' = [req EXCEPT ![u] =
               [row |-> row, cached |-> cachedLen, device |-> end,
                maxDevice |-> end + OutputLen(u), handle |-> handle,
                ids |-> FirstIds(Prompt[u], end), freed |-> FALSE]]
        /\ chunked' = IF end < Len(Prompt[u]) THEN chunked \cup {u} ELSE chunked \ {u}
        /\ batch' = [phase |-> "prefill", uids |-> batch.uids \cup {u},
                     chunks |-> IF end < Len(Prompt[u]) THEN batch.chunks \cup {u}
                                ELSE batch.chunks]
        /\ adder' = [adder EXCEPT
               !.budget = @ - size, !.taken = @ + 1,
               !.chunks = IF end < Len(Prompt[u]) THEN Append(@, u) ELSE @]
        /\ reserved' = reserved + (Len(Prompt[u]) - cachedLen) + OutputLen(u)

\* A chunked request continues where it stands.
PackChunk(u) ==
    /\ u \in chunked
    /\ AddOneReq(u, req[u].row, req[u].handle, req[u].cached)
    /\ UNCHANGED cacheVars

\* _try_allocate_one admits a new request: a row is free, and prompt plus
\* output fit what is available, before and after locking the match.
Matched(u) == MatchPrefix(tree, FirstIds(Prompt[u], Len(Prompt[u]) - 1))

EstimatedLen(u) == (Len(Prompt[u]) - Len(Matched(u))) + OutputLen(u)

Admissible(u) ==
    /\ freeRows # << >>
    /\ EstimatedLen(u) + reserved <= AvailableSize(refs)
    /\ EstimatedLen(u) + reserved <= AvailableSize(Lock(refs, Matched(u)))

PackNew(u) ==
    /\ u \notin chunked
    /\ Admissible(u)
    /\ TakeRow(Matched(u))
    /\ AddOneReq(u, NextRow, Matched(u), Len(Matched(u)))

PackOne ==
    /\ pc = "pack" /\ adder.taken < Len(pending) /\ adder.budget > 0
    /\ LET u == pending[adder.taken + 1] IN PackChunk(u) \/ PackNew(u)
    /\ UNCHANGED <<loop, pc, outcome, pending, running, last, todo, finished, fault>>

\* try_add_one refuses the next pending request.
Refused ==
    adder.taken < Len(pending) /\ adder.budget > 0 =>
        LET u == pending[adder.taken + 1]
        IN  IF u \in chunked THEN ChunkSize(Len(Prompt[u]), req[u].cached) = 0
            ELSE ~Admissible(u) \/ ChunkSize(Len(Prompt[u]), Len(Matched(u))) = 0

\* The next pending list: chunked_list in front of whoever was not reached.
NotReached == SubSeq(pending, adder.taken + 1, Len(pending))
Requeued == adder.chunks \o NotReached

\* Packing is over.  Unfinished chunks go back to the front of the pending
\* list; an empty prefill batch gives way to a decode batch, if any.
EndPack ==
    /\ pc = "pack" /\ Refused
    /\ pending' = Requeued
    /\ batch' = IF batch # NoBatch THEN batch
                ELSE IF running = {} THEN NoBatch
                ELSE [phase |-> "decode", uids |-> running, chunks |-> {}]
    /\ adder' = NoAdder /\ reserved' = 0
    /\ \/ /\ batch' = NoBatch /\ pc' = "commit"
          /\ todo' = (IF loop = "overlap" THEN last ELSE batch').uids
       \/ batch' # NoBatch /\ pc' = "evict" /\ todo' = batch'.uids
    /\ UNCHANGED <<cacheVars, loop, outcome, chunked, running, req, last, finished, fault>>

----------------------------------------------------------------------------
(* Preparing and launching the batch (_prepare_batch, _forward).           *)

BatchPages ==
    LET need(u) == PagesNeeded(req[u].cached, req[u].device)
    IN  MapThenSumSet(need, batch.uids)

\* allocate_paged for the whole batch: evict when the free list is short;
\* asking for more than is evictable trips the assertion in evict().
EnsurePages ==
    /\ pc = "evict"
    /\ LET short == BatchPages - Len(freePages)
       IN  IF short <= 0
           THEN pc' = "write" /\ UNCHANGED <<cacheVars, fault>>
           ELSE IF short <= Cardinality(Unreferenced(refs))
           THEN EvictFor(BatchPages) /\ pc' = "write" /\ UNCHANGED fault
           ELSE pc' = "dead" /\ fault' = "evict" /\ UNCHANGED cacheVars
    /\ UNCHANGED <<loop, outcome, pending, chunked, running, req, adder, reserved, batch,
                   last, todo, finished>>

WriteOne(u) ==
    /\ pc = "write" /\ u \in todo
    /\ WriteRow(req[u].row, req[u].cached, req[u].device)
    /\ todo' = todo \ {u}
    /\ UNCHANGED <<loop, pc, outcome, pending, chunked, running, req, adder, reserved,
                   batch, last, finished, fault>>

\* Req.complete_one.
CompleteOne(r) == [r EXCEPT !.cached = r.device, !.device = @ + 1]

\* forward_batch: complete_one on every request, then filter_reqs; the loop
\* goes on to commit the last batch (overlap) or this one (normal).
Forward ==
    /\ pc = "write" /\ todo = {}
    /\ req' = [u \in Uids |-> IF u \in batch.uids THEN CompleteOne(req[u]) ELSE req[u]]
    /\ LET decodable == { u \in batch.uids \ batch.chunks :
                              req'[u].maxDevice > req'[u].device }
       IN  running' = (running \ batch.uids) \cup decodable
    /\ pc' = "commit"
    /\ todo' = (IF loop = "overlap" THEN last ELSE batch).uids
    /\ UNCHANGED <<cacheVars, loop, outcome, pending, chunked, adder, reserved, batch,
                   last, finished, fault>>

----------------------------------------------------------------------------
(* Committing the results of a batch (_process_last_data).                 *)

Committing == IF loop = "overlap" THEN last ELSE batch

\* A non-final chunk samples nothing.
CommitChunk(u) ==
    /\ pc = "commit" /\ u \in todo \cap Committing.chunks
    /\ todo' = todo \ {u}
    /\ UNCHANGED <<cacheVars, loop, pc, outcome, pending, chunked, running, req,
                   adder, reserved, batch, last, finished, fault>>

\* A request whose token ends it, for the first time.
FinishReq(u, r) ==
    /\ running' = running \ {u}
    /\ finished' = [finished EXCEPT !.new = @ \cup {u}]
    /\ FreeReqResources(u, r)

\* A prompt that goes on decoding is put into the prefix cache.  The code
\* does not ask here whether the request was released meanwhile.
CachePrompt(u, r) ==
    LET ids == InsertIds(r)
    IN  /\ UNCHANGED <<running, finished>>
        /\ IF UnlockUnderflows(InsertRefs(refs, ids), r.handle)
           THEN /\ fault' = "ref_count" /\ UNCHANGED cacheVars
                /\ req' = [req EXCEPT ![u] = r]
           ELSE /\ CachePrefix(r.row, r.handle, ids)
                /\ req' = [req EXCEPT ![u] =
                       [r EXCEPT !.handle = PathTo(ids, Len(ids) \div PageSize)]]
                /\ UNCHANGED fault

\* A sampled token is appended, reported, and ends the request or not.
CommitToken(u, token) ==
    /\ pc = "commit" /\ u \in todo \ Committing.chunks
    /\ LET r    == [req[u] EXCEPT !.ids = Append(@, token)]
           ends == token \in Eos \/ ~CanDecode(u)
       IN  /\ outcome' = [outcome EXCEPT ![u] =
                             IF ends /\ @ = "waiting" THEN "finished" ELSE @]
           /\ \/ ends /\ u \notin finished.old /\ FinishReq(u, r)
              \/ /\ ~(ends /\ u \notin finished.old)
                 /\ Committing.phase = "prefill"
                 /\ CachePrompt(u, r)
              \/ /\ ~(ends /\ u \notin finished.old)
                 /\ Committing.phase = "decode"
                 /\ req' = [req EXCEPT ![u] = r]
                 /\ UNCHANGED <<cacheVars, running, finished, fault>>
    /\ todo' = todo \ {u}
    /\ pc' = IF fault' = "none" THEN pc ELSE "dead"
    /\ UNCHANGED <<loop, pending, chunked, adder, reserved, batch, last>>

\* finished_reqs is replaced whenever a batch was committed, and the loop
\* hands the launched batch to its next iteration.
EndCommit ==
    /\ pc = "commit" /\ todo = {}
    /\ finished' = IF Committing = NoBatch THEN finished
                   ELSE [old |-> finished.new, new |-> {}]
    /\ last' = IF loop = "overlap" THEN batch ELSE NoBatch
    /\ batch' = NoBatch
    /\ pc' = "recv"
    /\ UNCHANGED <<cacheVars, loop, outcome, pending, chunked, running, req,
                   adder, reserved, todo, fault>>

----------------------------------------------------------------------------
Client == \E u \in Uids : RecvUser(u) \/ RecvAbort(u)

\* One step of the iteration, whatever the clients do.
Step ==
    \/ BeginPack \/ PackOne \/ EndPack \/ EnsurePages \/ Forward \/ EndCommit
    \/ \E u \in Uids : WriteOne(u) \/ CommitChunk(u)
    \/ \E u \in Uids, token \in Tokens : CommitToken(u, token)

Next == Client \/ Idle \/ Step

Spec == Init /\ [][Next]_vars

\* run_forever never stops iterating while there is work.
FairSpec == Spec /\ WF_vars(Step)

----------------------------------------------------------------------------
(* Properties.                                                             *)

\* The pages allocated to a request, by page index.
Allocated(u) ==
    IF pc = "write" /\ u \in batch.uids \ todo
    THEN PagesFor(req[u].device) ELSE PagesFor(req[u].cached)

HandlePages(u) == Len(req[u].handle) \div PageSize

\* Pages allocated to a request beyond its handle: its own until cache_req.
OwnIndices(u) == HandlePages(u) + 1 .. Allocated(u)
OwnPages(u) == { pageTable[req[u].row][i] : i \in OwnIndices(u) }

\* The types of the scheduler's own variables and of the free rows.
TypeOK ==
    /\ freeRows \in Seq(Rows)
    /\ loop \in Loops
    /\ pc \in {"recv", "pack", "evict", "write", "commit", "dead"}
    /\ outcome \in [Uids -> {"new", "waiting", "finished", "rejected", "aborted"}]
    /\ pending \in Seq(Uids) /\ chunked \subseteq ToSet(pending)
    /\ running \subseteq Uids /\ todo \subseteq Uids
    /\ req \in [Uids -> ReqObjects]
    /\ adder \in Adders
    /\ batch \in Batches /\ last \in Batches
    /\ fault \in {"none", "ref_count", "evict", "integrity"}

\* All of them, by the request and the index in its row.
Owned == [at \in UNION { {u} \X OwnIndices(u) : u \in Holders } |->
             pageTable[req[at[1]].row][at[2]]]

\* Every KV page is free, or in the prefix cache, or allocated to one
\* request beyond its handle: in one place of all three, and none missing.
EveryPageHasOneOwner ==
    /\ IsInjective(freePages) /\ IsInjective(tree) /\ IsInjective(Owned)
    /\ Range(freePages) \cap Range(tree) = {}
    /\ Range(freePages) \cap Range(Owned) = {} /\ Range(tree) \cap Range(Owned) = {}
    /\ Range(freePages) \cup Range(tree) \cup Range(Owned) = Pages

\* A table row is in the free list once, or held by one request, never both
\* and never neither, however often a request is finished, aborted or found
\* again in a batch in flight.
EveryRowHasOneOwner ==
    /\ \A i, j \in DOMAIN freeRows : freeRows[i] = freeRows[j] => i = j
    /\ \A u, v \in Holders : req[u].row = req[v].row => u = v
    /\ \A u \in Holders : req[u].row \notin ToSet(freeRows)
    /\ Rows \subseteq ToSet(freeRows) \cup { req[u].row : u \in Holders }

\* Whatever is locked or held is let go once: a ref_count is the number of
\* requests whose handle runs through the node, and resources are held by the
\* requests the scheduler will still come back to, those it can schedule and
\* those of the batch in flight.  When it has nothing left to do it holds nothing.
NothingLeaks ==
    /\ \A n \in DOMAIN refs :
         refs[n] = Cardinality({ u \in Holders : n \in PathsOf(req[u].handle) })
    /\ \A u \in Holders : PathsOf(req[u].handle) \subseteq DOMAIN tree
    /\ pc = "recv" => /\ chunked \cup running \subseteq Holders
                      /\ Holders \subseteq chunked \cup running \cup last.uids

\* The pages an admitted request may still ask for.
StillNeeds(u) ==
    LET end == IF u \in chunked THEN Len(Prompt[u]) + OutputLen(u) ELSE req[u].maxDevice
    IN  PagesFor(end - 1) - PagesFor(req[u].cached)

AdmittedRequestsFit ==
    MapThenSumSet(StillNeeds, chunked \cup running)
        <= Cardinality(Unreferenced(refs)) + Len(freePages)

\* Packing is sound: no assertion of the page bookkeeping fires; whatever the
\* admitted requests still need can be allocated, if need be by evicting what no
\* one has locked; and every chunk starts on the granularity the model's index
\* keys require, whatever leftover budgets cut the chunks.
PackingIsSound ==
    /\ fault = "none"
    /\ pc = "recv" => AdmittedRequestsFit
    /\ batch.phase = "prefill" /\ pc \in {"evict", "write"} =>
           \A u \in batch.uids : req[u].cached % ChunkGran = 0

\* The pages attention reads through a request's row hold its own prefix:
\* up to its handle they are the cached pages of that prefix.
RowsReadCachedPages ==
    \A u \in Holders : \A i \in 1..HandlePages(u) :
        pageTable[req[u].row][i] = tree[PathTo(req[u].handle, i)]

\* The page bookkeeping implements the abstract ledger: who owns each page
\* (a request by its uid), and which cached pages are locked.
FreePage == -1
CachedPage == -2
LostPage == -3

OwnerOf(p) ==
    CASE p \in ToSet(freePages) -> FreePage
      [] \E n \in DOMAIN tree : tree[n] = p -> CachedPage
      [] \E u \in Holders : p \in OwnPages(u) -> CHOOSE u \in Holders : p \in OwnPages(u)
      [] OTHER -> LostPage

Ledger == INSTANCE KVLedger WITH
    Requests <- Uids, Free <- FreePage, Cached <- CachedPage,
    owner  <- [p \in Pages |-> OwnerOf(p)],
    pinned <- { tree[n] : n \in DOMAIN tree \ Unreferenced(refs) }

LedgerSpec == Ledger!Spec

\* The step that finishes u does so for an end-of-sequence token, or with this
\* many of its tokens committed.
FinishesWith(u, counts) ==
    outcome[u] = "waiting" /\ outcome'[u] = "finished" =>
        \/ Last(req'[u].ids) \in Eos
        \/ Len(req'[u].ids) - Len(Prompt[u]) \in counts

\* A request that no end-of-sequence token ends is given its max_tokens: all of
\* them in the normal loop, and at most one short in the overlap loop, where
\* can_decode is asked when the next forward was already launched.
LengthFinishes ==
    [][\A u \in Uids :
         FinishesWith(u, IF loop = "normal" THEN {OutputLen(u)}
                         ELSE {OutputLen(u) - 1, OutputLen(u)})]_vars

\* finish_reason "length" means that the request hit max_tokens.
LengthMeansMaxTokens == [][\A u \in Uids : FinishesWith(u, {OutputLen(u)})]_vars

\* Every request taken into the queue is answered or aborted.
EveryRequestEnds ==
    \A u \in Uids : outcome[u] = "waiting" ~> outcome[u] # "waiting"
=============================================================================
