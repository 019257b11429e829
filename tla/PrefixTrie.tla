----------------------------- MODULE PrefixTrie -----------------------------
(***************************************************************************)
(* The page-granular view of kvcache/radix_cache.py that the scheduler     *)
(* relies on.  A path is a token sequence whose length is a multiple of    *)
(* the page size; the trie holds one page per path and is closed under     *)
(* (page-aligned) prefixes.  The compressed tree of the source stores runs *)
(* of such paths in one node and splits a run on demand; a reference count *)
(* is inherited by both halves of a split, so counting per path and        *)
(* counting per node agree.  RadixCache.tla models the compressed tree     *)
(* itself.                                                                 *)
(***************************************************************************)
EXTENDS Integers, Sequences, FiniteSets

CONSTANT PageSize   \* tokens per KV page (config.page_size)

ASSUME PageSizeAssumption == PageSize \in Nat \ {0}

\* minisgl.utils.align_down and div_ceil at the page size.
AlignDown(n) == n - (n % PageSize)
PagesFor(n)  == (n + PageSize - 1) \div PageSize

\* The page-aligned prefix of length k pages of a token sequence.
PathTo(ids, k) == SubSeq(ids, 1, k * PageSize)

\* Every path from the root down to the last full page of ids.
PathsOf(ids) == { PathTo(ids, k) : k \in 1..(Len(ids) \div PageSize) }

\* _tree_walk: how many leading pages of ids the trie holds.  The trie is
\* closed under prefixes, so the held paths of ids are its first ones.
MatchedPages(tree, ids) == Cardinality(PathsOf(ids) \cap DOMAIN tree)

\* The handle match_prefix returns: the deepest held path of ids, << >> for the root.
MatchPrefix(tree, ids) == PathTo(ids, MatchedPages(tree, ids))

\* lock_handle walks from the node up to the root.
Lock(refs, handle) ==
    [n \in DOMAIN refs |-> IF n \in PathsOf(handle) THEN refs[n] + 1 ELSE refs[n]]

UnlockSkipped(refs, handle) == refs

Unlock(refs, handle) ==
    [n \in DOMAIN refs |-> IF n \in PathsOf(handle) THEN refs[n] - 1 ELSE refs[n]]

\* The unlock would trip `assert node.ref_count >= 0`: a node of the handle
\* has no reference left (an evicted node had none when it was evicted).
UnlockUnderflows(refs, handle) ==
    \E n \in PathsOf(handle) : n \notin DOMAIN refs \/ refs[n] = 0

\* insert_prefix: the pages of row become the pages of the paths of ids the
\* trie lacks, unreferenced.  Pages of paths it already holds stay out.
InsertPages(tree, ids, row) ==
    [n \in DOMAIN tree \cup PathsOf(ids) |->
        IF n \in DOMAIN tree THEN tree[n] ELSE row[Len(n) \div PageSize]]

InsertRefs(refs, ids) ==
    [n \in DOMAIN refs \cup PathsOf(ids) |-> IF n \in DOMAIN refs THEN refs[n] ELSE 0]

\* evictable_size, in pages.
Unreferenced(refs) == { n \in DOMAIN refs : refs[n] = 0 }

\* An eviction that ignores the reference counts, for comparison.
PinnedEvictionSets(refs, needed) ==
    { S \in SUBSET DOMAIN refs :
        /\ Cardinality(S) >= needed
        /\ \A n \in S, m \in DOMAIN refs : n \in PathsOf(m) => m \in S }

\* What one evict() call may remove to give back at least `needed` pages:
\* unreferenced paths, leaves first, whichever the LRU heap names.
EvictionSets(refs, needed) ==
    { S \in SUBSET Unreferenced(refs) :
        /\ Cardinality(S) >= needed
        /\ \A n \in S, m \in DOMAIN refs : n \in PathsOf(m) => m \in S }

\* The function f without the paths of S.
Without(f, S) == [n \in DOMAIN f \ S |-> f[n]]
=============================================================================
