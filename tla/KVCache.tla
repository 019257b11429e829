------------------------------ MODULE KVCache ------------------------------
(***************************************************************************)
(* The KV-page bookkeeping of one scheduler: CacheManager over the radix   *)
(* prefix cache (scheduler/cache.py), the request table with its page      *)
(* table (scheduler/table.py), and the operations the scheduler calls on   *)
(* them.  Each operation says what one call does to the five variables;    *)
(* KVScheduler calls them from its handlers.                               *)
(***************************************************************************)
EXTENDS PrefixTrie, SequencesExt

CONSTANTS
    NumPages,   \* size of the KV pool, in pages
    NumRows     \* max_running_reqs: rows of the request table

ASSUME PoolAssumption == NumPages \in Nat \ {0} /\ NumRows \in Nat \ {0}

Pages == 1..NumPages
Rows  == 1..NumRows
NoPage == 0

VARIABLES
    tree,       \* prefix cache: path -> page
    refs,       \* ref_count of every path in the tree
    freePages,  \* CacheManager.free_slots, first in first out
    freeRows,   \* TableManager._free_slots, last in first out
    pageTable   \* row -> page index -> page; what attention reads

cacheVars == <<tree, refs, freePages, freeRows, pageTable>>

CacheInit ==
    /\ tree = << >>
    /\ refs = << >>
    /\ freePages = [i \in 1..NumPages |-> i]
    /\ freeRows = [i \in 1..NumRows |-> i]
    /\ pageTable = [row \in Rows |-> [i \in Pages |-> NoPage]]

----------------------------------------------------------------------------
(* Reading the state.                                                      *)

\* available_size in tokens: evictable plus free.
AvailableSize(someRefs) ==
    (Cardinality(Unreferenced(someRefs)) + Len(freePages)) * PageSize

\* page_table[row, first:last][::page_size], first being page-aligned.
RowSlice(row, first, last) ==
    LET skipped == first \div PageSize
        count   == IF last > first THEN PagesFor(last) - skipped ELSE 0
    IN  [i \in 1..count |-> pageTable[row][skipped + i]]

\* allocate_paged: the pages a request still lacks for its next forward.
PagesNeeded(cachedLen, deviceLen) ==
    IF PagesFor(deviceLen) > PagesFor(cachedLen)
    THEN PagesFor(deviceLen) - PagesFor(cachedLen) ELSE 0

----------------------------------------------------------------------------
(* Operations.                                                             *)

\* The row allocate() pops, and what a mistaken queue discipline would take.
NextRowFifo == Head(freeRows)
NextRow == Last(freeRows)

\* The page entries copied into a fresh row: the matched pages.  Entries past
\* the match are not this request's to read until allocate_paged writes them.
BlankRow(handle) == [i \in Pages |-> NoPage]
MatchedRow(handle) ==
    [i \in Pages |-> IF i <= Len(handle) \div PageSize
                     THEN tree[PathTo(handle, i)] ELSE NoPage]

\* The second half of _try_allocate_one: lock the matched handle, take a
\* table row and copy the matched pages into it.
TakeRow(handle) ==
    /\ refs' = Lock(refs, handle)
    /\ freeRows' = Front(freeRows)
    /\ pageTable' = [pageTable EXCEPT ![NextRow] = MatchedRow(handle)]
    /\ UNCHANGED <<tree, freePages>>

\* _allocate when the free list is short: evict() unlinks unreferenced
\* leaves until enough pages came back.
EvictFor(needed) ==
    \E gone \in EvictionSets(refs, needed - Len(freePages)) :
        /\ freePages' = freePages \o SetToSeq({ tree[n] : n \in gone })
        /\ tree' = Without(tree, gone)
        /\ refs' = Without(refs, gone)
        /\ UNCHANGED <<freeRows, pageTable>>

\* _allocate and _write_page_table for one request of the batch.
WriteRow(row, cachedLen, deviceLen) ==
    LET count == PagesNeeded(cachedLen, deviceLen)
        from  == PagesFor(cachedLen)
    IN  /\ Len(freePages) >= count
        /\ freePages' = SubSeq(freePages, count + 1, Len(freePages))
        /\ pageTable' = [pageTable EXCEPT ![row] =
               [i \in Pages |-> IF i \in from+1..from+count
                                THEN freePages[i - from] ELSE @[i]]]
        /\ UNCHANGED <<tree, refs, freeRows>>

\* cache_req(req, finished=False): insert the prefix, swap the lock from the
\* old handle to the new one, free the pages another request inserted first.
\* The row keeps pointing at the freed pages.
CachePrefix(row, oldHandle, ids) ==
    LET matched   == Len(MatchPrefix(tree, ids))
        newHandle == PathTo(ids, Len(ids) \div PageSize)
    IN  /\ tree' = InsertPages(tree, ids, pageTable[row])
        /\ refs' = Lock(Unlock(InsertRefs(refs, ids), oldHandle), newHandle)
        /\ freePages' = freePages \o RowSlice(row, Len(oldHandle), matched)
        /\ UNCHANGED <<freeRows, pageTable>>

\* "this tail part should be freed": the page only partly filled.
KeptTail(row, ids) == << >>
TailSlice(row, ids) == RowSlice(row, AlignDown(Len(ids)), Len(ids))

\* cache_req(req, finished=True) with the release of the table row.  Output
\* the client asked not to cache is freed instead of inserted.
Release(row, oldHandle, ids, cacheOutput) ==
    /\ freeRows' = Append(freeRows, row)
    /\ UNCHANGED pageTable
    /\ \/ /\ ~cacheOutput
          /\ refs' = Unlock(refs, oldHandle)
          /\ freePages' = freePages \o RowSlice(row, Len(oldHandle), Len(ids))
          /\ UNCHANGED tree
       \/ /\ cacheOutput
          /\ tree' = InsertPages(tree, ids, pageTable[row])
          /\ refs' = Unlock(InsertRefs(refs, ids), oldHandle)
          /\ freePages' = freePages
               \o RowSlice(row, Len(oldHandle), Len(MatchPrefix(tree, ids)))
               \o TailSlice(row, ids)

\* check_integrity: every page is free or cached, and none twice over.
IntegrityHolds == Len(freePages) + Cardinality(DOMAIN tree) = NumPages
=============================================================================
