----------------------------- MODULE RadixCache -----------------------------
(***************************************************************************)
(* The compressed radix tree of kvcache/radix_cache.py: nodes that hold    *)
(* runs of pages and are split on demand, reference counts, the evictable  *)
(* and protected sizes, least-recently-used eviction from a lazily         *)
(* maintained heap, and the recurrent-state snapshots that cap a match and *)
(* are themselves capped first in, first out.                              *)
(*                                                                         *)
(* A node is named by the tokens from the root to its end.  No operation   *)
(* changes that name: a split names the new, shallow node.  One tick of    *)
(* the clock stands for one tree walk.                                     *)
(***************************************************************************)
EXTENDS PrefixTrie, SequencesExt

Lists == INSTANCE Filters

CONSTANTS
    Users,         \* requests that may hold a handle
    Streams,       \* prompt and output of a request
    NumPages,      \* size of the KV pool, in pages
    SnapshotCap,   \* max_rec_snapshots
    MaxClock       \* bound on the number of tree walks

ASSUME RadixAssumption ==
    /\ \A s \in Streams : s \in Seq(Nat) /\ s # << >>
    /\ NumPages \in Nat \ {0} /\ SnapshotCap \in Nat \ {0} /\ MaxClock \in Nat

VARIABLES
    recurrent,   \* RadixPrefixCache.recurrent
    cache,       \* nodes, evictable_size, protected_size and _evict_heap
    recNodes,    \* _rec_nodes
    clock,       \* time.monotonic_ns
    freePages,   \* pages nobody cached: what requests bring and evict returns
    held,        \* user -> its stream and the handle it holds locked
    pc,          \* "idle" | "capture" | "evict"
    fresh,       \* while states are captured: the handle cache_req returned
                 \* (end) and the last boundary of the ladder marked (done)
    want         \* tokens evict() has yet to free

vars == <<recurrent, cache, recNodes, clock, freePages, held, pc, fresh, want>>

Root == << >>
NoState == << >>   \* no snapshot; the root never carries one
NoHandle == [ids |-> Root, handle |-> <<-1>>]
NoCapture == [end |-> Root, done |-> 0]

Init ==
    /\ recurrent \in BOOLEAN
    /\ cache = [nodes |-> << >>, evictable |-> 0, protected |-> 0, heap |-> {}]
    /\ recNodes = << >> /\ clock = 0
    /\ freePages = 1..NumPages
    /\ held = [u \in Users |-> NoHandle]
    /\ pc = "idle" /\ fresh = NoCapture /\ want = 0

----------------------------------------------------------------------------
(* Nodes.  ns is the function from names to nodes.                         *)

LengthOf(ns, n) == Len(n) - Len(ns[n].parent)
TokensOf(ns, n) == {n} \X (Len(ns[n].parent) + 1 .. Len(n))
TotalLength(ns, S) == Cardinality(UNION { TokensOf(ns, n) : n \in S })
IsLeaf(ns, n) == \A m \in DOMAIN ns : ns[m].parent # n

\* The node at or above path p, from p up to (not including) the root.
Lineage(ns, p) == { n \in DOMAIN ns : IsPrefix(n, p) }

Deepest(S) == IF S = {} THEN Root ELSE CHOOSE n \in S : \A m \in S : Len(m) <= Len(n)

\* The new shallow half of a split node inherits ref_count and timestamp; the
\* snapshot stays with the deep half.  The first two get one of these wrong.
ShallowWithState(node, k) == [node EXCEPT !.value = SubSeq(@, 1, k)]
ShallowLastPages(node, k) ==
    [node EXCEPT !.value = SubSeq(@, Len(@) - k + 1, Len(@)), !.rec = NoState]
ShallowHalf(node, k) == [node EXCEPT !.value = SubSeq(@, 1, k), !.rec = NoState]

DeepHalf(node, k, p) == [node EXCEPT !.value = SubSeq(@, k + 1, Len(@)), !.parent = p]

\* split_at: the node that runs through p is cut there.
SplitAt(ns, p) ==
    LET deep == CHOOSE n \in DOMAIN ns :
                    IsStrictPrefix(p, n) /\ Len(ns[n].parent) < Len(p)
        k    == (Len(p) - Len(ns[deep].parent)) \div PageSize
    IN  [n \in DOMAIN ns \cup {p} |->
            IF n = p THEN ShallowHalf(ns[deep], k)
            ELSE IF n = deep THEN DeepHalf(ns[deep], k, p) ELSE ns[n]]

\* Where _tree_walk stops: the longest page-aligned prefix of ids that some
\* node holds or runs through; and the same without align_down.
WalkUnaligned(ns, ids) ==
    Deepest({ p \in { SubSeq(ids, 1, i) : i \in 1..Len(ids) } :
                 \E n \in DOMAIN ns : IsPrefix(p, n) })
WalkEnd(ns, ids) ==
    Deepest({ p \in PathsOf(ids) : \E n \in DOMAIN ns : IsPrefix(p, n) })

----------------------------------------------------------------------------
(* The operations, on a cache record c at time tic.                        *)

\* _push_leaf for those of S that are leaves.
Armed(c, S) ==
    [c EXCEPT !.heap = @ \cup { <<c.nodes[n].time, n>> :
                                  n \in { m \in S : IsLeaf(c.nodes, m) } }]

\* _tree_walk: the node it stops inside is split, the visited ones are
\* touched, and a touched leaf is pushed again with its new timestamp.
Walked(c, ids, tic) ==
    LET stop  == WalkEnd(c.nodes, ids)
        ns    == IF stop \in DOMAIN c.nodes \cup {Root} THEN c.nodes ELSE SplitAt(c.nodes, stop)
        touched == Lineage(ns, stop)
    IN  Armed([c EXCEPT !.nodes = [n \in DOMAIN ns |->
                  IF n \in touched THEN [ns[n] EXCEPT !.time = tic] ELSE ns[n]]],
              touched)

\* insert_prefix: the pages past the match become one new unreferenced leaf.
Inserted(c, ids, pages, tic) ==
    LET w    == Walked(c, ids, tic)
        stop == WalkEnd(c.nodes, ids)
        leaf == [parent |-> stop, value |-> pages, ref |-> 0, time |-> tic, rec |-> NoState]
    IN  IF stop = ids THEN w
        ELSE Armed([w EXCEPT
                 !.nodes = [n \in DOMAIN w.nodes \cup {ids} |->
                               IF n = ids THEN leaf ELSE w.nodes[n]],
                 !.evictable = @ + (Len(ids) - Len(stop))], {ids})

Counted(ns, S, d) ==
    [n \in DOMAIN ns |-> IF n \in S THEN [ns[n] EXCEPT !.ref = @ + d] ELSE ns[n]]

\* lock_handle: the nodes that gain their first reference are protected.
Locked(c, h) ==
    LET up   == Lineage(c.nodes, h)
        size == TotalLength(c.nodes, { n \in up : c.nodes[n].ref = 0 })
    IN  [c EXCEPT !.nodes = Counted(@, up, 1), !.evictable = @ - size, !.protected = @ + size]

\* lock_handle(unlock=True): those that lose their last are evictable, and
\* the leaf among them is pushed.
Unlocked(c, h) ==
    LET up   == Lineage(c.nodes, h)
        free == { n \in up : c.nodes[n].ref = 1 }
        size == TotalLength(c.nodes, free)
    IN  Armed([c EXCEPT !.nodes = Counted(@, up, -1), !.evictable = @ + size, !.protected = @ - size], free)

\* match_prefix: in a recurrent cache the match ends at the deepest node on
\* the way that carries a snapshot.
MatchUncapped(ns, ids) == WalkEnd(ns, ids)
MatchResult(ns, ids) ==
    LET stop == WalkEnd(ns, ids)
    IN  IF recurrent THEN Deepest({ n \in Lineage(ns, stop) : ns[n].rec # NoState }) ELSE stop

----------------------------------------------------------------------------
(* What CacheManager does with them.                                       *)

Tick == clock < MaxClock /\ clock' = clock + 1

\* match_req: the prompt but its last token.  The match is locked when the
\* request is admitted, and forgotten when it is refused.
Match(u) ==
    /\ pc = "idle" /\ held[u] = NoHandle /\ Tick
    /\ \E s \in Streams :
         LET ids == SubSeq(s, 1, Len(s) - 1)
             w   == Walked(cache, ids, clock')
             h   == MatchResult(w.nodes, ids)
         IN  \/ cache' = w /\ UNCHANGED held
             \/ /\ cache' = Locked(w, h)
                /\ held' = [held EXCEPT ![u] = [ids |-> s, handle |-> h]]
    /\ UNCHANGED <<recurrent, recNodes, freePages, pc, fresh, want>>

\* The pages the request computed beyond what is cached come from the pool.
Brought(ids) ==
    LET count == (Len(ids) - Len(WalkEnd(cache.nodes, ids))) \div PageSize
    IN  SubSeq(SetToSeq(freePages), 1, count)

Insert(ids) ==
    /\ (Len(ids) - Len(WalkEnd(cache.nodes, ids))) \div PageSize <= Cardinality(freePages)
    /\ freePages' = freePages \ ToSet(Brought(ids))

\* A recurrent cache goes on to capture states along the returned handle.
Capture(h) ==
    IF recurrent THEN pc' = "capture" /\ fresh' = [end |-> h, done |-> 0]
    ELSE UNCHANGED <<pc, fresh>>

\* cache_req(finished=False): insert what was committed so far, give up the
\* old handle, lock the new one.
CacheReq(u) ==
    /\ pc = "idle" /\ held[u] # NoHandle /\ Tick
    /\ \E k \in (Len(held[u].handle) \div PageSize)..(Len(held[u].ids) \div PageSize) :
         LET ids == PathTo(held[u].ids, k)
         IN  /\ Insert(ids)
             /\ cache' = Locked(Unlocked(Inserted(cache, ids, Brought(ids), clock'),
                                         held[u].handle), ids)
             /\ held' = [held EXCEPT ![u].handle = ids]
             /\ Capture(ids)
    /\ UNCHANGED <<recurrent, recNodes, want>>

\* cache_req(finished=True): the same without a new lock; or, for output that
\* is not to be cached, the unlock alone.
FinishReq(u) ==
    /\ pc = "idle" /\ held[u] # NoHandle
    /\ held' = [held EXCEPT ![u] = NoHandle]
    /\ \/ /\ Tick
          /\ \E k \in (Len(held[u].handle) \div PageSize)..(Len(held[u].ids) \div PageSize) :
               LET ids == PathTo(held[u].ids, k)
               IN  /\ Insert(ids)
                   /\ cache' = Unlocked(Inserted(cache, ids, Brought(ids), clock'),
                                        held[u].handle)
                   /\ Capture(ids)
       \/ /\ cache' = Unlocked(cache, held[u].handle)
          /\ Capture(held[u].handle)
          /\ UNCHANGED <<clock, freePages>>
    /\ UNCHANGED <<recurrent, recNodes, want>>

----------------------------------------------------------------------------
(* Recurrent-state snapshots.  A snapshot is named by the tokens whose     *)
(* state it holds.                                                         *)

\* The node n of ns gets a snapshot; the oldest ones beyond the cap are dropped.
Attach(ns, n, state) ==
    LET live == IF ns[n].rec = NoState THEN Append(recNodes, n) ELSE recNodes
        over == IF Len(live) > SnapshotCap THEN Len(live) - SnapshotCap ELSE 0
        lost == ToSet(SubSeq(live, 1, over))
    IN  /\ recNodes' = SubSeq(live, over + 1, Len(live))
        /\ cache' = [cache EXCEPT !.nodes = [m \in DOMAIN ns |->
               IF m \in lost THEN [ns[m] EXCEPT !.rec = NoState]
               ELSE IF m = n THEN [ns[m] EXCEPT !.rec = state] ELSE ns[m]]]

\* attach_rec_state_at: a chunk boundary strictly inside the handle becomes
\* a node of its own if it is none yet.  The ladder is in ascending order.
AttachAt ==
    /\ pc = "capture"
    /\ \E k \in fresh.done + 1..(Len(fresh.end) \div PageSize) - 1 :
         LET p  == PathTo(fresh.end, k)
             ns == IF p \in DOMAIN cache.nodes THEN cache.nodes ELSE SplitAt(cache.nodes, p)
         IN  Attach(ns, p, p) /\ fresh' = [fresh EXCEPT !.done = k]
    /\ UNCHANGED <<recurrent, clock, freePages, held, pc, want>>

\* attach_rec_state at the handle's own end; skipped for an empty handle or
\* when no snapshot was to be had.
AttachEnd ==
    /\ pc = "capture" /\ pc' = "idle" /\ fresh' = NoCapture
    /\ \/ fresh.end # Root /\ Attach(cache.nodes, fresh.end, fresh.end)
       \/ UNCHANGED <<cache, recNodes>>
    /\ UNCHANGED <<recurrent, clock, freePages, held, want>>

----------------------------------------------------------------------------
(* Eviction: _allocate asks for what the free pages lack.                  *)

BeginEvict ==
    /\ pc = "idle"
    /\ \E needed \in 1..NumPages :
         LET size == (needed - Cardinality(freePages)) * PageSize
         IN  0 < size /\ size <= cache.evictable /\ want' = size
    /\ pc' = "evict"
    /\ UNCHANGED <<recurrent, cache, recNodes, clock, freePages, held, fresh>>

Top == CHOOSE e \in cache.heap : \A f \in cache.heap : e[1] <= f[1]

ValidUntimed(e) ==
    /\ e[2] \in DOMAIN cache.nodes
    /\ IsLeaf(cache.nodes, e[2]) /\ cache.nodes[e[2]].ref = 0

\* An entry is good when its node is still there, a leaf, unreferenced, and
\* not touched since the entry was pushed.
Valid(e) ==
    /\ e[2] \in DOMAIN cache.nodes
    /\ IsLeaf(cache.nodes, e[2])
    /\ cache.nodes[e[2]].ref = 0 /\ cache.nodes[e[2]].time = e[1]

UnlinkedUnarmed(c, n) ==
    [c EXCEPT !.nodes = Without(@, {n}), !.evictable = @ - LengthOf(c.nodes, n)]

\* Unlink leaf n; its parent is armed when that makes it an evictable leaf.
Unlinked(c, n) ==
    LET parent == c.nodes[n].parent
        rest   == UnlinkedUnarmed(c, n)
    IN  Armed(rest, { m \in {parent} \ {Root} : rest.nodes[m].ref = 0 })

\* A snapshot goes with its node.
PopEntry ==
    /\ pc = "evict" /\ want > 0 /\ cache.heap # {}
    /\ LET popped == [cache EXCEPT !.heap = @ \ {Top}]
           n      == Top[2]
       IN  \/ /\ ~Valid(Top)
              /\ cache' = popped
              /\ UNCHANGED <<recNodes, freePages, want>>
           \/ /\ Valid(Top)
              /\ cache' = Unlinked(popped, n)
              /\ recNodes' = Lists!Without(recNodes, {n})
              /\ freePages' = freePages \cup ToSet(cache.nodes[n].value)
              /\ want' = want - LengthOf(cache.nodes, n)
    /\ UNCHANGED <<recurrent, clock, held, pc, fresh>>

EndEvict ==
    /\ pc = "evict" /\ want <= 0 /\ pc' = "idle" /\ want' = 0
    /\ UNCHANGED <<recurrent, cache, recNodes, clock, freePages, held, fresh>>

Next ==
    \/ \E u \in Users : Match(u) \/ CacheReq(u) \/ FinishReq(u)
    \/ AttachAt \/ AttachEnd
    \/ BeginEvict \/ PopEntry \/ EndEvict

Spec == Init /\ [][Next]_vars

----------------------------------------------------------------------------
(* Properties.                                                             *)

\* evictable_size and protected_size, kept by increments over locks, splits,
\* insertions and evictions, are what counting the nodes would give; admission
\* control trusts them.
SizesAgree ==
    LET unlocked == { n \in DOMAIN cache.nodes : cache.nodes[n].ref = 0 }
    IN  /\ cache.evictable = TotalLength(cache.nodes, unlocked)
        /\ cache.protected = TotalLength(cache.nodes, DOMAIN cache.nodes \ unlocked)

\* The tree stays a compressed trie through every split, insertion and
\* eviction: a node hangs from the nearest node above it, holds a page for
\* each page of its key, and no two siblings share a first page, so
\* _tree_walk can never miss a cached prefix; and its size counters agree.
TreeWellFormed ==
    /\ SizesAgree
    /\ \A n \in DOMAIN cache.nodes :
         /\ n # Root /\ Len(n) % PageSize = 0
         /\ cache.nodes[n].parent = Deepest(Lineage(cache.nodes, n) \ {n})
         /\ Len(cache.nodes[n].value) * PageSize = LengthOf(cache.nodes, n)
    /\ \A m, n \in DOMAIN cache.nodes :
         m # n /\ cache.nodes[m].parent = cache.nodes[n].parent =>
             LET first == Len(cache.nodes[m].parent) + PageSize
             IN  SubSeq(m, 1, first) # SubSeq(n, 1, first)

\* While evict() still owes pages there is an unreferenced leaf to take them
\* from: it never fails with "Cannot evict enough cache".
EvictNeverFails ==
    pc = "evict" /\ want > 0 => \E e \in cache.heap : Valid(e)

\* evict() removes the unreferenced leaf that was used least recently, as a
\* heap rebuilt from the tree would.
EvictsLeastRecentlyUsed ==
    [][\A n \in DOMAIN cache.nodes \ DOMAIN cache'.nodes :
         /\ IsLeaf(cache.nodes, n) /\ cache.nodes[n].ref = 0
         /\ \A m \in DOMAIN cache.nodes :
              IsLeaf(cache.nodes, m) /\ cache.nodes[m].ref = 0 =>
                  cache.nodes[n].time <= cache.nodes[m].time]_vars

\* A snapshot is the state at the end of the node that carries it, through
\* every later split; and exactly the nodes of _rec_nodes, each once and no
\* more than the cap, carry one.
SnapshotsMatchNodes ==
    /\ \A n \in DOMAIN cache.nodes : cache.nodes[n].rec \in {NoState, n}
    /\ ToSet(recNodes) = { n \in DOMAIN cache.nodes : cache.nodes[n].rec # NoState }
    /\ Len(recNodes) = Cardinality(ToSet(recNodes)) /\ Len(recNodes) <= SnapshotCap

\* A recurrent request never skips a prefix whose state it cannot restore: the
\* moment a match is locked, its node carries the snapshot of that prefix.
MatchesAreRestorable ==
    [][\A u \in Users :
         recurrent /\ held[u] = NoHandle /\ held'[u] # NoHandle /\ held'[u].handle # Root =>
             cache'.nodes[held'[u].handle].rec = held'[u].handle]_vars

\* The tree and its reference counts implement the page-granular prefix cache.
Cached == { p \in UNION { PathsOf(n) : n \in DOMAIN cache.nodes } : p # Root }
NodeOver(p) ==
    CHOOSE n \in DOMAIN cache.nodes :
        IsPrefix(p, n) /\ Len(cache.nodes[n].parent) < Len(p)
PageAt(p) ==
    LET n == NodeOver(p)
    IN  cache.nodes[n].value[(Len(p) - Len(cache.nodes[n].parent)) \div PageSize]

Trie == INSTANCE PageTrie WITH
    capped <- recurrent,
    NoHandle <- <<-1>>,
    tree <- [p \in Cached |-> PageAt(p)],
    refs <- [p \in Cached |-> cache.nodes[NodeOver(p)].ref],
    held <- [u \in Users |-> held[u].handle]

TrieSpec == Trie!Spec
=============================================================================
