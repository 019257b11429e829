------------------------------ MODULE KVLedger ------------------------------
(***************************************************************************)
(* What the KV-page bookkeeping promises, whatever tree, free list and     *)
(* page table it is kept in.  Every page has one owner: nobody (Free), the *)
(* prefix cache (Cached) or one request.  A page reaches a request only    *)
(* from the free pool, leaves it only into the cache or back to the pool,  *)
(* and leaves the cache only for the pool and only while unpinned, that    *)
(* is, while no live request was handed it as part of its prefix.          *)
(* KVScheduler implements this specification.                              *)
(***************************************************************************)
CONSTANTS Pages, Requests, Free, Cached

VARIABLES
    owner,    \* page -> Free, Cached or a request
    pinned    \* cached pages some request's handle runs through

vars == <<owner, pinned>>

Owners == Requests \cup {Free, Cached}

CachedPages(own) == { p \in Pages : own[p] = Cached }

TypeOK ==
    /\ owner \in [Pages -> Owners]
    /\ pinned \subseteq CachedPages(owner)

Init == owner = [p \in Pages |-> Free] /\ pinned = {}

\* Every page whose owner changes goes from an owner in `from` to one in `to`.
Transfer(from, to) ==
    /\ owner' \in [Pages -> Owners]
    /\ \A p \in Pages : owner'[p] # owner[p] => owner[p] = from /\ owner'[p] \in to

\* Pages are allocated for the next forward of request r.
Allocate(r) == Transfer(Free, {r}) /\ UNCHANGED pinned

\* Request r hands pages over to the cache or back to the pool, and moves
\* its lock.
Settle(r) ==
    /\ Transfer(r, {Free, Cached})
    /\ pinned' \in SUBSET CachedPages(owner')

\* The cache gives unpinned pages back to the pool.
Evict ==
    /\ Transfer(Cached, {Free})
    /\ \A p \in pinned : owner'[p] = owner[p]
    /\ UNCHANGED pinned

\* A request locks a matched prefix.
Pin ==
    /\ pinned' \in SUBSET CachedPages(owner)
    /\ UNCHANGED owner

Next == Evict \/ Pin \/ \E r \in Requests : Allocate(r) \/ Settle(r)

Spec == Init /\ [][Next]_vars
=============================================================================
