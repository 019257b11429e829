------------------------ MODULE KVScheduler_proofs ------------------------
(***************************************************************************)
(* What is proved of KVScheduler, for every pool, page size, set of        *)
(* prompts, budget and loop order.                                         *)
(*                                                                         *)
(* Types and rows.  A row of the request table is free once or held by one *)
(* request, whatever the timing of aborts (AbortsInFlightPrefill and Twins *)
(* included).  EveryRowHasOneOwner is not inductive: that a request taken  *)
(* from the queue holds no row yet, and that a request which continues a   *)
(* prompt still holds its own, depends on where a request may be at one    *)
(* time: pending, chunked, running, or in the batch being built or in      *)
(* flight.  The inductive invariant IInv says so.                          *)
(*                                                                         *)
(* Pages.  Every page has one owner, locks are counted, and the            *)
(* bookkeeping implements KVLedger.  All of it assumes                     *)
(* AbortsInFlightPrefill = FALSE: cache_req of a request released in       *)
(* flight unlocks a handle twice (see the README's findings).              *)
(* EveryPageHasOneOwner is not inductive either.  That what a request      *)
(* gives to the cache or back to the pool is its own depends on which      *)
(* slice of its row its handle, its cached length and its tokens name;     *)
(* that nobody is cached after its release depends on where requests whose *)
(* token is still to come may be; that evicted pages are nobody's depends  *)
(* on the counts being the locks.  PInv adds to IInv:                      *)
(*   Whereabouts    which requests the batches, the running set and the    *)
(*                  tokens still to come may name, and how the lengths of  *)
(*                  a Req object follow from where it is;                  *)
(*   TrieOK         the trie is finite, closed under prefixes, and has one *)
(*                  ref_count per path;                                    *)
(*   LocksOK        a ref_count is the number of handles through the path; *)
(*   PagesOK        EveryPageHasOneOwner, and the types of pool and rows.  *)
(* It says nothing about the process once it stopped: StopsOnlyToEvict     *)
(* says it stops only when packing promised pages that cannot be evicted.  *)
(*                                                                         *)
(* The last section follows the limits of a request over its chunks and    *)
(* bounds what a request is sent before it ends for its length.            *)
(***************************************************************************)
EXTENDS KVScheduler, FiniteSetTheorems, SequenceTheorems, TLAPS

\* A request the client has not sent is nowhere.
UnsentNowhere ==
    \A u \in Uids : outcome[u] = "new" =>
        /\ u \notin ToSet(pending)
        /\ u \notin running /\ u \notin batch.uids /\ u \notin last.uids
        /\ req[u].freed

\* No request is queued twice.
QueueDistinct ==
    \A i, j \in DOMAIN pending : pending[i] = pending[j] => i = j

\* Only servable prompts are queued.
QueueServable == \A u \in ToSet(pending) : Len(Prompt[u]) < MaxSeqLen

\* A queued request packing has not reached holds nothing and is in no
\* batch, unless it continues a prompt.
QueuedHoldNothing ==
    \A i \in DOMAIN pending : i > adder.taken /\ pending[i] \notin chunked =>
        /\ req[pending[i]].freed
        /\ pending[i] \notin running
        /\ pending[i] \notin batch.uids /\ pending[i] \notin last.uids

\* A request that continues a prompt holds its resources, does not decode,
\* and is in a batch only with a chunk.
ChunkedHold ==
    \A u \in chunked :
        /\ ~req[u].freed
        /\ u \notin running
        /\ u \in batch.uids => u \in batch.chunks
        /\ u \in last.uids => u \in last.chunks

\* chunked_list holds the chunked requests among those packing reached.
PackState ==
    /\ adder.taken <= Len(pending)
    /\ pc # "pack" => adder = NoAdder
    /\ \A i \in DOMAIN pending :
         i <= adder.taken /\ pending[i] \in chunked =>
            \E j \in DOMAIN adder.chunks : adder.chunks[j] = pending[i]
    /\ \A j \in DOMAIN adder.chunks :
         /\ adder.chunks[j] \in chunked
         /\ \E i \in DOMAIN pending : i <= adder.taken /\ pending[i] = adder.chunks[j]
    /\ \A i, j \in DOMAIN adder.chunks : adder.chunks[i] = adder.chunks[j] => i = j

\* The loops over a batch are over the batch they say.
TodoInBatch ==
    /\ pc \in {"evict", "write"} => todo \subseteq batch.uids
    /\ pc = "commit" => todo \subseteq Committing.uids

\* Whoever holds resources holds a row of the table.
HoldersHaveRows == \A u \in Holders : req[u].row \in Rows

RowsOK == freeRows \in Seq(Rows) /\ HoldersHaveRows /\ EveryRowHasOneOwner

Queues == UnsentNowhere /\ QueueDistinct /\ QueueServable /\ QueuedHoldNothing
          /\ ChunkedHold /\ PackState /\ TodoInBatch

IInv == TypeOK /\ Queues /\ RowsOK

----------------------------------------------------------------------------
(* Paths of the prefix trie.                                               *)

\* Whole pages of a length fit into it.
LEMMA PagesFit ==
    ASSUME NEW n \in Nat, NEW k \in 0..(n \div PageSize)
    PROVE  /\ n \div PageSize \in Nat
           /\ k * PageSize \in 0..n
<1>1. n \div PageSize \in Nat
    BY PageSizeAssumption, SMT
<1>2. (n \div PageSize) * PageSize <= n
    BY PageSizeAssumption, SMT
<1>3. k * PageSize <= (n \div PageSize) * PageSize
    BY <1>1, PageSizeAssumption, SMT
<1>4. k * PageSize \in Nat
    BY <1>1, PageSizeAssumption, SMT
<1>. QED  BY <1>1, <1>2, <1>3, <1>4, PageSizeAssumption, SMT

\* A path of k pages is a sequence of k * PageSize tokens.
LEMMA PathToType ==
    ASSUME NEW ids \in Seq(Nat), NEW k \in 0..(Len(ids) \div PageSize)
    PROVE  /\ PathTo(ids, k) \in Seq(Nat)
           /\ Len(PathTo(ids, k)) = k * PageSize
           /\ Len(PathTo(ids, k)) \in 0..Len(ids)
<1>1. k * PageSize \in 0..Len(ids)
    BY PagesFit
<1>. QED  BY <1>1 DEF PathTo

\* At most Len(ids) \div PageSize paths lead to the last full page of ids.
LEMMA FewPaths ==
    ASSUME NEW ids \in Seq(Nat)
    PROVE  /\ IsFiniteSet(PathsOf(ids))
           /\ Cardinality(PathsOf(ids)) \in 0..(Len(ids) \div PageSize)
<1>. DEFINE whole == Len(ids) \div PageSize
            f == [k \in 1..whole |-> PathTo(ids, k)]
<1>1. whole \in Nat
    BY PagesFit, PageSizeAssumption, SMT
<1>2. IsFiniteSet(1..whole) /\ Cardinality(1..whole) = whole
    BY <1>1, FS_Interval
<1>3. f \in Surjection(1..whole, PathsOf(ids))
    BY DEF Surjection, PathsOf
<1>4. IsFiniteSet(PathsOf(ids)) /\ Cardinality(PathsOf(ids)) <= whole
    BY <1>2, <1>3, FS_Surjection
<1>5. Cardinality(PathsOf(ids)) \in Nat
    BY <1>4, FS_CardinalityType
<1>. QED  BY <1>1, <1>4, <1>5

\* match_prefix returns a page-aligned prefix of ids.
LEMMA MatchPrefixType ==
    ASSUME NEW held, NEW ids \in Seq(Nat)
    PROVE  /\ MatchPrefix(held, ids) \in Seq(Nat)
           /\ Len(MatchPrefix(held, ids)) \in 0..Len(ids)
           /\ MatchedPages(held, ids) \in 0..(Len(ids) \div PageSize)
           /\ Len(MatchPrefix(held, ids)) = MatchedPages(held, ids) * PageSize
<1>1. /\ IsFiniteSet(PathsOf(ids) \cap DOMAIN held)
      /\ Cardinality(PathsOf(ids) \cap DOMAIN held) <= Cardinality(PathsOf(ids))
    BY FewPaths, FS_Subset
<1>2. MatchedPages(held, ids) \in 0..(Len(ids) \div PageSize)
    BY <1>1, FewPaths, FS_CardinalityType, PagesFit DEF MatchedPages
<1>. QED  BY <1>2, PathToType DEF MatchPrefix

\* A length is its whole pages and a rest.
LEMMA Division ==
    ASSUME NEW n \in Nat
    PROVE  /\ n \div PageSize \in Nat
           /\ n % PageSize \in 0..PageSize - 1
           /\ n = (n \div PageSize) * PageSize + (n % PageSize)
    BY PageSizeAssumption, SMT

\* Nothing else divides it.
LEMMA DivisionUnique ==
    ASSUME NEW k \in Nat, NEW r \in 0..PageSize - 1
    PROVE  /\ k * PageSize + r \in Nat
           /\ (k * PageSize + r) \div PageSize = k
           /\ (k * PageSize + r) % PageSize = r
<1>1. k * PageSize \in Nat
    BY PageSizeAssumption, SMT
<1>2. k * PageSize + r \in Nat
    BY <1>1, PageSizeAssumption, SMT
<1>. DEFINE n == k * PageSize + r
            q == n \div PageSize
            s == n % PageSize
<1>3. q \in Nat /\ s \in 0..PageSize - 1 /\ n = q * PageSize + s
    BY <1>2, Division
<1>. HIDE DEF q, s
<1>4. k * PageSize + r = q * PageSize + s
    BY <1>3
<1>5. k = q
  <2>1. ASSUME k < q PROVE FALSE
    <3>1. (k + 1) * PageSize <= q * PageSize
        BY <1>3, <2>1, PageSizeAssumption, SMT
    <3>2. (k + 1) * PageSize = k * PageSize + PageSize
        BY PageSizeAssumption, SMT
    <3>. QED  BY <1>1, <1>3, <1>4, <3>1, <3>2, PageSizeAssumption, SMT
  <2>2. ASSUME q < k PROVE FALSE
    <3>1. (q + 1) * PageSize <= k * PageSize
        BY <1>3, <2>2, PageSizeAssumption, SMT
    <3>2. (q + 1) * PageSize = q * PageSize + PageSize
        BY <1>3, PageSizeAssumption, SMT
    <3>3. q * PageSize \in Nat
        BY <1>3, PageSizeAssumption, SMT
    <3>. QED  BY <1>1, <1>3, <1>4, <3>1, <3>2, <3>3, PageSizeAssumption, SMT
  <2>. QED  BY <1>3, <2>1, <2>2
<1>6. r = s
    BY <1>1, <1>3, <1>4, <1>5, PageSizeAssumption, SMT
<1>. QED  BY <1>2, <1>5, <1>6 DEF q, s

LEMMA WholePages ==
    ASSUME NEW k \in Nat
    PROVE  /\ k * PageSize \in Nat
           /\ (k * PageSize) \div PageSize = k
           /\ (k * PageSize) % PageSize = 0
<1>1. 0 \in 0..PageSize - 1 /\ k * PageSize \in Nat
    BY PageSizeAssumption, SMT
<1>2. k * PageSize + 0 = k * PageSize
    BY <1>1
<1>. QED  BY <1>1, <1>2, DivisionUnique

\* Pages are counted up, a rest filling one of its own.
LEMMA PagesForRest ==
    ASSUME NEW n \in Nat
    PROVE  /\ PagesFor(n) \in Nat
           /\ PagesFor(n) = IF n % PageSize = 0 THEN n \div PageSize ELSE n \div PageSize + 1
<1>. DEFINE k == n \div PageSize
            r == n % PageSize
<1>1. k \in Nat /\ r \in 0..PageSize - 1 /\ n = k * PageSize + r /\ k * PageSize \in Nat
    BY Division, WholePages
<1>. HIDE DEF k, r
<1>2. CASE r = 0
  <2>1. PageSize - 1 \in 0..PageSize - 1 /\ n + PageSize - 1 = k * PageSize + (PageSize - 1)
      BY <1>1, <1>2, PageSizeAssumption
  <2>2. PagesFor(n) = k
      BY <1>1, <2>1, DivisionUnique DEF PagesFor
  <2>. QED  BY <1>1, <1>2, <2>2 DEF k, r
<1>3. CASE r # 0
  <2>1. (k + 1) * PageSize = k * PageSize + PageSize
      BY <1>1, PageSizeAssumption, SMT
  <2>2. r - 1 \in 0..PageSize - 1 /\ n + PageSize - 1 = (k + 1) * PageSize + (r - 1) /\ k + 1 \in Nat
      BY <1>1, <1>3, <2>1, PageSizeAssumption
  <2>3. PagesFor(n) = k + 1
      BY <2>2, DivisionUnique DEF PagesFor
  <2>. QED  BY <1>1, <1>3, <2>3 DEF k, r
<1>. QED  BY <1>2, <1>3

\* More tokens take no fewer pages.
LEMMA PagesGrow ==
    ASSUME NEW m \in Nat, NEW n \in Nat, m <= n
    PROVE  /\ m \div PageSize <= n \div PageSize
           /\ PagesFor(m) <= PagesFor(n)
           /\ n \div PageSize <= PagesFor(n)
<1>. DEFINE j == m \div PageSize
            k == n \div PageSize
            q == m % PageSize
            r == n % PageSize
<1>1. /\ j \in Nat /\ q \in 0..PageSize - 1 /\ m = j * PageSize + q /\ j * PageSize \in Nat
      /\ k \in Nat /\ r \in 0..PageSize - 1 /\ n = k * PageSize + r /\ k * PageSize \in Nat
    BY Division, WholePages
<1>2. /\ PagesFor(m) = IF q = 0 THEN j ELSE j + 1
      /\ PagesFor(n) = IF r = 0 THEN k ELSE k + 1
    BY PagesForRest
<1>. HIDE DEF j, k, q, r
<1>3. j <= k
  <2>1. ASSUME k < j PROVE FALSE
    <3>1. (k + 1) * PageSize <= j * PageSize
        BY <1>1, <2>1, PageSizeAssumption, SMT
    <3>2. (k + 1) * PageSize = k * PageSize + PageSize
        BY <1>1, PageSizeAssumption, SMT
    <3>. QED  BY <1>1, <3>1, <3>2, PageSizeAssumption
  <2>. QED  BY <1>1, <2>1
<1>4. j = k /\ r = 0 => q = 0
    BY <1>1
<1>. QED  BY <1>1, <1>2, <1>3, <1>4 DEF j, k

----------------------------------------------------------------------------
(* Paths.                                                                  *)

Depths(ids) == 0..(Len(ids) \div PageSize)

\* A path holds the first tokens of its sequence, in as many pages as asked.
LEMMA PathElements ==
    ASSUME NEW ids \in Seq(Nat), NEW k \in Depths(ids)
    PROVE  /\ k \in Nat /\ k * PageSize \in 0..Len(ids)
           /\ PathTo(ids, k) \in Seq(Nat)
           /\ Len(PathTo(ids, k)) = k * PageSize
           /\ Len(PathTo(ids, k)) \div PageSize = k
           /\ Len(PathTo(ids, k)) % PageSize = 0
           /\ \A i \in 1..k * PageSize : PathTo(ids, k)[i] = ids[i]
<1>1. k \in Nat /\ k \in 0..(Len(ids) \div PageSize) /\ Len(ids) \in Nat
    BY Division DEF Depths
<1>2. k * PageSize \in 0..Len(ids)
    BY <1>1, PagesFit
<1>3. /\ PathTo(ids, k) \in Seq(Nat) /\ Len(PathTo(ids, k)) = k * PageSize
      /\ \A i \in 1..k * PageSize : PathTo(ids, k)[i] = ids[i]
    BY <1>2 DEF PathTo
<1>. QED  BY <1>1, <1>2, <1>3, WholePages

\* Sequences that agree on k pages have the same path of k pages.
LEMMA SamePath ==
    ASSUME NEW s \in Seq(Nat), NEW t \in Seq(Nat), NEW k \in Depths(s), k \in Depths(t),
           \A i \in 1..k * PageSize : s[i] = t[i]
    PROVE  PathTo(s, k) = PathTo(t, k)
<1>. DEFINE a == PathTo(s, k)
            b == PathTo(t, k)
<1>1. /\ a \in Seq(Nat) /\ b \in Seq(Nat) /\ Len(a) = k * PageSize /\ Len(b) = k * PageSize
      /\ k * PageSize \in Nat
      /\ \A i \in 1..k * PageSize : a[i] = s[i]
      /\ \A i \in 1..k * PageSize : b[i] = t[i]
  <2>1. k \in Nat /\ k * PageSize \in Nat
      BY WholePages, Division DEF Depths
  <2>2. a \in Seq(Nat) /\ Len(a) = k * PageSize /\ \A i \in 1..k * PageSize : a[i] = s[i]
      BY PathElements, Zenon
  <2>3. b \in Seq(Nat) /\ Len(b) = k * PageSize /\ \A i \in 1..k * PageSize : b[i] = t[i]
      BY PathElements, Zenon
  <2>. QED  BY <2>1, <2>2, <2>3
<1>. HIDE DEF a, b
<1>2. \A i \in 1..Len(a) : a[i] = b[i]
    BY <1>1
<1>3. a = b
    BY <1>1, <1>2, SeqEqual
<1>. QED  BY <1>3 DEF a, b

\* Fewer pages are within more.
LEMMA FewerPages ==
    ASSUME NEW k \in Nat, NEW j \in 0..k
    PROVE  j * PageSize \in 0..k * PageSize
<1>1. j * PageSize <= k * PageSize
    BY PageSizeAssumption, SMT
<1>. QED  BY <1>1, WholePages

\* The path of j pages of the path of k pages is the path of j pages.
LEMMA PathOfPath ==
    ASSUME NEW ids \in Seq(Nat), NEW k \in Depths(ids), NEW j \in 0..k
    PROVE  /\ j \in Depths(ids) /\ j \in Depths(PathTo(ids, k))
           /\ PathTo(PathTo(ids, k), j) = PathTo(ids, j)
<1>. DEFINE p == PathTo(ids, k)
<1>1. /\ k \in Nat /\ p \in Seq(Nat) /\ Len(p) \div PageSize = k
      /\ \A i \in 1..k * PageSize : p[i] = ids[i]
    BY PathElements
<1>2. j \in Depths(ids) /\ j \in Depths(p)
  <2>1. Len(ids) \in Nat /\ Len(ids) \div PageSize \in Nat
      BY Division
  <2>2. k <= Len(ids) \div PageSize
      BY <2>1 DEF Depths
  <2>. QED  BY <1>1, <2>1, <2>2 DEF Depths
<1>3. j * PageSize \in 0..k * PageSize /\ k * PageSize \in Nat
    BY <1>1, FewerPages, WholePages
<1>. HIDE DEF p
<1>4. \A i \in 1..j * PageSize : p[i] = ids[i]
    BY <1>1, <1>3
<1>5. PathTo(p, j) = PathTo(ids, j)
    BY <1>1, <1>2, <1>4, SamePath
<1>. QED  BY <1>2, <1>5 DEF p

\* The paths of a path are the shorter ones.
LEMMA PathsOfPath ==
    ASSUME NEW ids \in Seq(Nat), NEW k \in Depths(ids)
    PROVE  PathsOf(PathTo(ids, k)) = { PathTo(ids, j) : j \in 1..k }
<1>1. k \in Nat /\ Len(PathTo(ids, k)) \div PageSize = k
    BY PathElements
<1>2. \A j \in 1..k : PathTo(PathTo(ids, k), j) = PathTo(ids, j)
    BY <1>1, PathOfPath
<1>. QED  BY <1>1, <1>2 DEF PathsOf

\* Paths of different depths differ.
LEMMA PathsDiffer ==
    ASSUME NEW ids \in Seq(Nat), NEW j \in Depths(ids), NEW k \in Depths(ids),
           PathTo(ids, j) = PathTo(ids, k)
    PROVE  j = k
<1>1. Len(PathTo(ids, j)) \div PageSize = j /\ Len(PathTo(ids, k)) \div PageSize = k
    BY PathElements
<1>. QED  BY <1>1

\* There are k paths down to page k.
LEMMA PathCount ==
    ASSUME NEW ids \in Seq(Nat), NEW k \in Depths(ids)
    PROVE  /\ IsFiniteSet({ PathTo(ids, j) : j \in 1..k })
           /\ Cardinality({ PathTo(ids, j) : j \in 1..k }) = k
<1>. DEFINE S == { PathTo(ids, j) : j \in 1..k }
            f == [j \in 1..k |-> PathTo(ids, j)]
<1>1. k \in Nat /\ 1..k \subseteq Depths(ids)
  <2>1. Len(ids) \in Nat /\ Len(ids) \div PageSize \in Nat
      BY Division
  <2>. QED  BY <2>1 DEF Depths
<1>2. IsFiniteSet(1..k) /\ Cardinality(1..k) = k
    BY <1>1, FS_Interval
<1>3. f \in Surjection(1..k, S)
    BY DEF Surjection
<1>4. \A i, j \in 1..k : f[i] = f[j] => i = j
    BY <1>1, PathsDiffer
<1>5. f \in Injection(1..k, S)
    BY <1>3, <1>4 DEF Injection, IsInjective, Surjection
<1>. HIDE DEF S, f
<1>6. IsFiniteSet(S) /\ Cardinality(S) = k
    BY <1>2, <1>3, <1>5, FS_Surjection
<1>. QED  BY <1>6 DEF S

\* What is known of a path of a sequence.
LEMMA PathKnown ==
    ASSUME NEW ids \in Seq(Nat), NEW n \in PathsOf(ids)
    PROVE  /\ n \in Seq(Nat) /\ n \in PathsOf(n) /\ PathsOf(n) \subseteq PathsOf(ids)
           /\ Len(n) \div PageSize \in 1..(Len(ids) \div PageSize)
           /\ n = PathTo(ids, Len(n) \div PageSize)
<1>1. PICK k \in 1..(Len(ids) \div PageSize) : n = PathTo(ids, k)
    BY DEF PathsOf
<1>2. k \in Depths(ids) /\ Len(ids) \div PageSize \in Nat /\ 1..k \subseteq 1..(Len(ids) \div PageSize)
    BY <1>1, Division DEF Depths
<1>3. n \in Seq(Nat) /\ Len(n) \div PageSize = k
    BY <1>1, <1>2, PathElements
<1>4. PathsOf(n) = { PathTo(ids, j) : j \in 1..k }
    BY <1>1, <1>2, PathsOfPath
<1>5. PathsOf(n) \subseteq PathsOf(ids)
    BY <1>2, <1>4 DEF PathsOf
<1>6. n \in PathsOf(n)
    BY <1>1, <1>4
<1>. QED  BY <1>1, <1>3, <1>5, <1>6

\* A trie is closed under prefixes.
Closed(nodes) == \A n \in nodes : PathsOf(n) \subseteq nodes

\* So the paths of ids it holds are the first ones, down to the match.
LEMMA HeldPathsAreFirst ==
    ASSUME NEW held, Closed(DOMAIN held), NEW ids \in Seq(Nat),
           NEW k \in 1..(Len(ids) \div PageSize)
    PROVE  PathTo(ids, k) \in DOMAIN held <=> k <= MatchedPages(held, ids)
<1>. DEFINE H == PathsOf(ids) \cap DOMAIN held
            m == MatchedPages(held, ids)
<1>1. k \in Depths(ids) /\ k \in Nat /\ k - 1 \in Depths(ids)
    BY Division DEF Depths
<1>2. m \in Nat /\ m = Cardinality(H) /\ IsFiniteSet(H)
  <2>1. IsFiniteSet(H)
      BY FewPaths, FS_Intersection
  <2>. QED  BY <2>1, FS_CardinalityType DEF MatchedPages
<1>3. ASSUME PathTo(ids, k) \in DOMAIN held PROVE k <= m
  <2>. DEFINE S == { PathTo(ids, j) : j \in 1..k }
  <2>1. S = PathsOf(PathTo(ids, k))
      BY <1>1, PathsOfPath
  <2>2. PathTo(ids, k) \in PathsOf(ids)
      BY DEF PathsOf
  <2>3. S \subseteq H
      BY <1>3, <2>1, <2>2, PathKnown DEF Closed
  <2>4. Cardinality(S) = k
      BY <1>1, PathCount
  <2>. HIDE DEF S, H
  <2>. QED  BY <1>2, <2>3, <2>4, FS_Subset
<1>4. ASSUME PathTo(ids, k) \notin DOMAIN held PROVE ~(k <= m)
  <2>. DEFINE S == { PathTo(ids, j) : j \in 1..k - 1 }
  <2>1. ASSUME NEW n \in H PROVE n \in S
    <3>1. PICK j \in 1..(Len(ids) \div PageSize) : n = PathTo(ids, j)
        BY DEF PathsOf
    <3>2. j \in Depths(ids) /\ j \in Nat
        BY <3>1, Division DEF Depths
    <3>3. ASSUME k <= j PROVE FALSE
      <4>1. PathTo(ids, k) \in PathsOf(n)
          BY <1>1, <3>1, <3>2, <3>3, PathsOfPath
      <4>. QED  BY <1>4, <4>1 DEF Closed
    <3>4. j \in 1..k - 1
        BY <1>1, <3>2, <3>3
    <3>. QED  BY <3>1, <3>4
  <2>2. IsFiniteSet(S) /\ Cardinality(S) = k - 1
      BY <1>1, PathCount
  <2>. HIDE DEF S, H
  <2>3. H \subseteq S
      BY <2>1
  <2>4. m <= k - 1
      BY <1>2, <2>2, <2>3, FS_Subset
  <2>. QED  BY <1>1, <1>2, <2>4
<1>. QED  BY <1>3, <1>4

\* With the paths of a sequence a trie stays closed.
LEMMA InsertCloses ==
    ASSUME NEW nodes, Closed(nodes), NEW ids \in Seq(Nat)
    PROVE  Closed(nodes \cup PathsOf(ids))
    BY PathKnown DEF Closed

----------------------------------------------------------------------------
(* Sequences and arithmetic.                                               *)

LEMMA RemoveAtType ==
    ASSUME NEW S, NEW s \in Seq(S), NEW i \in 1..Len(s)
    PROVE  /\ RemoveAt(s, i) \in Seq(S)
           /\ Len(RemoveAt(s, i)) = Len(s) - 1
           /\ \A j \in 1..Len(s) - 1 :
                RemoveAt(s, i)[j] = s[IF j < i THEN j ELSE j + 1]
<1>. DEFINE a == SubSeq(s, 1, i - 1)
            b == SubSeq(s, i + 1, Len(s))
<1>1. a \in Seq(S) /\ Len(a) = i - 1 /\ \A j \in 1..i - 1 : a[j] = s[j]
    OBVIOUS
<1>2. b \in Seq(S) /\ Len(b) = Len(s) - i /\ \A j \in 1..Len(s) - i : b[j] = s[i + j]
    OBVIOUS
<1>3. RemoveAt(s, i) = a \o b
    BY DEF RemoveAt
<1>4. /\ a \o b \in Seq(S)
      /\ Len(a \o b) = Len(a) + Len(b)
      /\ \A j \in 1..Len(a) + Len(b) : (a \o b)[j] = IF j <= Len(a) THEN a[j] ELSE b[j - Len(a)]
    BY <1>1, <1>2, ConcatProperties
<1>. HIDE DEF a, b
<1>5. ASSUME NEW j \in 1..Len(s) - 1
      PROVE  (a \o b)[j] = s[IF j < i THEN j ELSE j + 1]
  <2>1. CASE j < i
      BY <1>1, <1>2, <1>4, <2>1
  <2>2. CASE ~(j < i)
    <3>1. (a \o b)[j] = b[j - (i - 1)] /\ j - (i - 1) \in 1..Len(s) - i
        BY <1>1, <1>2, <1>4, <2>2
    <3>. QED  BY <1>2, <2>2, <3>1
  <2>. QED  BY <2>1, <2>2
<1>6. Len(s) \in Nat /\ Len(a \o b) = Len(s) - 1
    BY <1>1, <1>2, <1>4
<1>. QED  BY <1>3, <1>4, <1>5, <1>6

Injective(s) == \A i, j \in DOMAIN s : s[i] = s[j] => i = j

LEMMA FrontLast ==
    ASSUME NEW S, NEW s \in Seq(S), s # << >>
    PROVE  /\ Front(s) \in Seq(S) /\ Last(s) \in S
           /\ ToSet(s) = ToSet(Front(s)) \cup {Last(s)}
           /\ Injective(s) => Injective(Front(s)) /\ Last(s) \notin ToSet(Front(s))
<1>1. PICK n \in Nat : Len(s) = n + 1
  <2>1. Len(s) \in Nat \ {0} /\ Len(s) - 1 \in Nat /\ Len(s) = (Len(s) - 1) + 1
      OBVIOUS
  <2>. QED  BY <2>1
<1>2. /\ Front(s) \in Seq(S) /\ DOMAIN Front(s) = 1..n
      /\ \A i \in 1..n : Front(s)[i] = s[i]
    BY <1>1 DEF Front
<1>3. Last(s) = s[n + 1] /\ Last(s) \in S
    BY <1>1 DEF Last
<1>4. DOMAIN s = 1..n \cup {n + 1} /\ n + 1 \notin 1..n
    BY <1>1
<1>5. ToSet(s) = ToSet(Front(s)) \cup {Last(s)}
    BY <1>2, <1>3, <1>4 DEF ToSet
<1>6. ASSUME Injective(s)
      PROVE  Injective(Front(s)) /\ Last(s) \notin ToSet(Front(s))
  <2>1. ASSUME NEW i \in DOMAIN Front(s), NEW j \in DOMAIN Front(s), Front(s)[i] = Front(s)[j]
        PROVE  i = j
      BY <1>2, <1>4, <1>6, <2>1 DEF Injective
  <2>2. ASSUME NEW i \in DOMAIN Front(s)
        PROVE  Front(s)[i] # Last(s)
      BY <1>2, <1>3, <1>4, <1>6 DEF Injective
  <2>. QED  BY <2>1, <2>2 DEF Injective, ToSet
<1>. QED  BY <1>2, <1>3, <1>5, <1>6

LEMMA FirstIdsType ==
    ASSUME NEW s \in Seq(Nat), NEW n \in Nat
    PROVE  FirstIds(s, n) \in Seq(Nat)
    BY DEF FirstIds

\* The next chunk fits the budget.
LEMMA ChunkFits ==
    ASSUME adder \in Adders, NEW inputLen \in Nat, NEW cachedLen \in Nat
    PROVE  /\ ChunkSize(inputLen, cachedLen) \in Int
           /\ ChunkSize(inputLen, cachedLen) <= adder.budget
<1>. DEFINE b == BudgetChunk(inputLen, cachedLen)
            end == cachedLen + b
<1>1. b \in Int /\ b <= adder.budget
    BY SchedulerAssumption DEF BudgetChunk, Adders
<1>2. end % ChunkGran \in Nat
    BY <1>1, SchedulerAssumption
<1>3. \/ ChunkSize(inputLen, cachedLen) = end - cachedLen
      \/ ChunkSize(inputLen, cachedLen) = 0
      \/ ChunkSize(inputLen, cachedLen) = (end - (end % ChunkGran)) - cachedLen
    BY DEF ChunkSize
<1>4. adder.budget \in Nat
    BY DEF Adders
<1>5. end - cachedLen = b /\ (end - (end % ChunkGran)) - cachedLen = b - (end % ChunkGran)
    BY <1>1, <1>2
<1>. QED
  <2>. HIDE DEF b, end
  <2>. QED  BY <1>1, <1>2, <1>3, <1>4, <1>5

LEMMA OutputType ==
    ASSUME NEW u \in Uids, Len(Prompt[u]) < MaxSeqLen
    PROVE  OutputLen(u) \in Nat \ {0}
    BY SchedulerAssumption, PoolAssumption, PageSizeAssumption DEF OutputLen

----------------------------------------------------------------------------
(* Rows.                                                                   *)

\* A step that neither moves nor frees anyone's row keeps the rows right.
LEMMA RowsKept ==
    ASSUME RowsOK, freeRows' = freeRows,
           \A u \in Uids : req'[u].row = req[u].row /\ req'[u].freed = req[u].freed
    PROVE  RowsOK'
    BY DEF RowsOK, HoldersHaveRows, EveryRowHasOneOwner, Holders, ToSet

\* Releasing a request, for the first time or again.
LEMMA FreeEffect ==
    ASSUME TypeOK, RowsOK, NEW u \in Uids, NEW r \in ReqObjects,
           r.row = req[u].row, r.freed = req[u].freed, FreeReqResources(u, r)
    PROVE  /\ req' \in [Uids -> ReqObjects]
           /\ req'[u].freed
           /\ \A v \in Uids \ {u} : req'[v] = req[v]
           /\ fault' \in {fault, "ref_count"}
           /\ RowsOK'
<1>1. CASE r.freed
  <2>1. req' = [req EXCEPT ![u] = r] /\ freeRows' = freeRows /\ fault' = fault
      BY <1>1 DEF FreeReqResources, cacheVars
  <2>2. RowsOK'
      BY <2>1, RowsKept DEF TypeOK
  <2>. QED  BY <1>1, <2>1, <2>2 DEF TypeOK
<1>2. CASE ~r.freed
  <2>1. /\ req' = [req EXCEPT ![u] = [r EXCEPT !.freed = TRUE]]
        /\ freeRows' = Append(freeRows, r.row)
        /\ fault' \in {fault, "ref_count"}
      BY <1>2 DEF FreeReqResources, ReleaseOnce, Release
  <2>2. req' \in [Uids -> ReqObjects] /\ req'[u].freed
      BY <2>1 DEF TypeOK, ReqObjects
  <2>3. \A v \in Uids \ {u} : req'[v] = req[v]
      BY <2>1 DEF TypeOK
  <2>4. u \in Holders /\ r.row \in Rows
      BY <1>2 DEF Holders, RowsOK, HoldersHaveRows
  <2>5. Holders' = Holders \ {u}
      BY <2>2, <2>3 DEF Holders
  <2>6. /\ freeRows' \in Seq(Rows)
        /\ DOMAIN freeRows' = 1..Len(freeRows) + 1
        /\ freeRows'[Len(freeRows) + 1] = r.row
        /\ \A i \in 1..Len(freeRows) : freeRows'[i] = freeRows[i]
      BY <2>1, <2>4 DEF RowsOK
  <2>7. ToSet(freeRows') = ToSet(freeRows) \cup {r.row}
      BY <2>6 DEF ToSet, RowsOK
  <2>8. HoldersHaveRows'
      BY <2>3, <2>5 DEF HoldersHaveRows, RowsOK, Holders
  <2>9. EveryRowHasOneOwner'
    <3>1. \A i, j \in DOMAIN freeRows' : freeRows'[i] = freeRows'[j] => i = j
        BY <2>4, <2>6 DEF RowsOK, EveryRowHasOneOwner, ToSet
    <3>2. \A v, w \in Holders' : req'[v].row = req'[w].row => v = w
        BY <2>3, <2>5 DEF RowsOK, EveryRowHasOneOwner, Holders
    <3>3. \A v \in Holders' : req'[v].row \notin ToSet(freeRows')
        BY <2>3, <2>4, <2>5, <2>7 DEF RowsOK, EveryRowHasOneOwner, Holders
    <3>4. Rows \subseteq ToSet(freeRows') \cup { req'[v].row : v \in Holders' }
        BY <2>3, <2>5, <2>7 DEF RowsOK, EveryRowHasOneOwner, Holders
    <3>. QED  BY <3>1, <3>2, <3>3, <3>4 DEF EveryRowHasOneOwner
  <2>. QED  BY <2>1, <2>2, <2>3, <2>6, <2>8, <2>9 DEF RowsOK
<1>. QED  BY <1>1, <1>2 DEF ReqObjects

----------------------------------------------------------------------------
(* Receiving.                                                              *)

LEMMA RecvUserStep ==
    ASSUME IInv, NEW u \in Uids, RecvUser(u)
    PROVE  IInv'
<1>. USE DEF IInv
<1>1. CASE outcome' = [outcome EXCEPT ![u] = "rejected"] /\ UNCHANGED pending
  <2>1. TypeOK'
      BY <1>1 DEF TypeOK, RecvUser, cacheVars
  <2>2. UnsentNowhere' /\ QueueDistinct' /\ QueueServable'
      BY <1>1 DEF TypeOK, RecvUser, Queues, UnsentNowhere, QueueDistinct, QueueServable
  <2>3. QueuedHoldNothing' /\ ChunkedHold' /\ PackState' /\ TodoInBatch'
      BY <1>1 DEF RecvUser, Queues, QueuedHoldNothing, ChunkedHold, PackState,
                  TodoInBatch, Committing
  <2>4. RowsOK'
      BY RowsKept DEF RecvUser, cacheVars
  <2>. QED  BY <2>1, <2>2, <2>3, <2>4 DEF Queues
<1>2. CASE /\ Len(Prompt[u]) < MaxSeqLen
           /\ outcome' = [outcome EXCEPT ![u] = "waiting"]
           /\ pending' = Append(pending, u)
  <2>1. /\ pending' \in Seq(Uids)
        /\ DOMAIN pending' = 1..Len(pending) + 1 /\ Len(pending') = Len(pending) + 1
        /\ pending'[Len(pending) + 1] = u
        /\ \A i \in 1..Len(pending) : pending'[i] = pending[i]
        /\ DOMAIN pending = 1..Len(pending)
      BY <1>2 DEF TypeOK
  <2>2. ToSet(pending') = ToSet(pending) \cup {u}
      BY <2>1 DEF ToSet
  <2>3. /\ u \notin ToSet(pending) /\ u \notin chunked /\ req[u].freed
        /\ u \notin running /\ u \notin batch.uids /\ u \notin last.uids
      BY DEF RecvUser, Queues, UnsentNowhere, TypeOK
  <2>4. TypeOK'
      BY <1>2, <2>1, <2>2 DEF TypeOK, RecvUser, cacheVars
  <2>5. UnsentNowhere'
      BY <1>2, <2>2 DEF RecvUser, Queues, UnsentNowhere, TypeOK
  <2>6. QueueDistinct'
      BY <2>1, <2>3 DEF Queues, QueueDistinct, ToSet
  <2>7. QueueServable'
      BY <1>2, <2>2 DEF Queues, QueueServable
  <2>8. QueuedHoldNothing'
      BY <2>1, <2>3 DEF RecvUser, Queues, QueuedHoldNothing
  <2>9. adder = NoAdder /\ adder' = NoAdder
      BY DEF RecvUser, Queues, PackState
  <2>10. ChunkedHold' /\ TodoInBatch' /\ PackState'
      BY <2>1, <2>9 DEF RecvUser, Queues, ChunkedHold, TodoInBatch, Committing, PackState, NoAdder
  <2>11. RowsOK'
      BY RowsKept DEF RecvUser, cacheVars
  <2>. QED  BY <2>4, <2>5, <2>6, <2>7, <2>8, <2>10, <2>11 DEF Queues
<1>. QED  BY <1>1, <1>2 DEF RecvUser

\* What an abort leaves of the pending list.
LEMMA AbortDequeues ==
    ASSUME IInv, NEW u \in Uids, RecvAbort(u)
    PROVE  /\ pending' \in Seq(Uids)
           /\ ToSet(pending') = ToSet(pending) \ {u}
           /\ QueueDistinct'
<1>. USE DEF IInv
<1>1. CASE u \notin ToSet(pending) /\ UNCHANGED pending
    BY <1>1 DEF TypeOK, Queues, QueueDistinct
<1>2. ASSUME NEW i \in DOMAIN pending, pending[i] = u, pending' = RemoveAt(pending, i)
      PROVE  /\ pending' \in Seq(Uids)
             /\ ToSet(pending') = ToSet(pending) \ {u}
             /\ QueueDistinct'
  <2>1. pending \in Seq(Uids) /\ i \in 1..Len(pending) /\ Len(pending) \in Nat
      BY DEF TypeOK
  <2>2. /\ pending' \in Seq(Uids) /\ Len(pending') = Len(pending) - 1
        /\ \A j \in 1..Len(pending) - 1 :
             pending'[j] = pending[IF j < i THEN j ELSE j + 1]
      BY <1>2, <2>1, RemoveAtType
  <2>3. QueueDistinct'
      BY <2>1, <2>2 DEF Queues, QueueDistinct
  <2>4. ASSUME NEW j \in DOMAIN pending'
        PROVE  pending'[j] \in ToSet(pending) \ {u}
    <3>. DEFINE k == IF j < i THEN j ELSE j + 1
    <3>1. j \in 1..Len(pending) - 1
        BY <2>2
    <3>2. k \in 1..Len(pending) /\ k # i
        BY <2>1, <3>1
    <3>3. pending'[j] = pending[k]
        BY <2>2, <3>1
    <3>. HIDE DEF k
    <3>4. pending[k] # pending[i]
        BY <2>1, <3>2 DEF Queues, QueueDistinct
    <3>. QED  BY <1>2, <2>1, <3>2, <3>3, <3>4 DEF ToSet
  <2>5. ASSUME NEW j \in DOMAIN pending, pending[j] # u
        PROVE  \E k \in DOMAIN pending' : pending'[k] = pending[j]
    <3>1. CASE j < i
      <4>1. j \in 1..Len(pending) - 1
          BY <2>1, <3>1
      <4>2. j \in DOMAIN pending' /\ pending'[j] = pending[j]
          BY <2>2, <3>1, <4>1
      <4>. QED  BY <4>2
    <3>2. CASE j > i
      <4>1. j - 1 \in 1..Len(pending) - 1 /\ ~(j - 1 < i) /\ (j - 1) + 1 = j
          BY <2>1, <3>2
      <4>2. j - 1 \in DOMAIN pending' /\ pending'[j - 1] = pending[j]
          BY <2>2, <4>1
      <4>. QED  BY <4>2
    <3>3. j # i /\ j \in Int /\ i \in Int
        BY <1>2, <2>1, <2>5
    <3>. QED  BY <3>1, <3>2, <3>3
  <2>. QED  BY <2>2, <2>3, <2>4, <2>5 DEF ToSet
<1>. QED  BY <1>1, <1>2 DEF RecvAbort

LEMMA RecvAbortStep ==
    ASSUME IInv, NEW u \in Uids, RecvAbort(u)
    PROVE  IInv'
<1>. USE DEF IInv
<1>1. /\ pending' \in Seq(Uids)
      /\ ToSet(pending') = ToSet(pending) \ {u}
      /\ QueueDistinct'
    BY AbortDequeues
<1>2. /\ req' \in [Uids -> ReqObjects]
      /\ u \in chunked \cup running => req'[u].freed
      /\ u \notin chunked \cup running => req'[u] = req[u]
      /\ \A v \in Uids \ {u} : req'[v] = req[v]
      /\ fault' \in {fault, "ref_count"}
      /\ RowsOK'
  <2>1. CASE FoundWithResources(u)
    <3>1. FreeReqResources(u, req[u]) /\ req[u] \in ReqObjects
        BY <2>1 DEF RecvAbort, TypeOK
    <3>. QED  BY <2>1, <3>1, FreeEffect DEF FoundWithResources
  <2>2. CASE ~FoundWithResources(u)
    <3>1. UNCHANGED <<cacheVars, req, fault>>
        BY <2>2 DEF RecvAbort
    <3>2. RowsOK'
        BY <3>1, RowsKept DEF cacheVars
    <3>. QED  BY <2>2, <3>1, <3>2 DEF FoundWithResources, TypeOK
  <2>. QED  BY <2>1, <2>2
<1>3. /\ chunked' = chunked \ {u} /\ running' = running \ {u}
      /\ outcome' = [outcome EXCEPT ![u] = "aborted"]
      /\ UNCHANGED <<loop, adder, batch, last, todo>>
      /\ pc = "recv" /\ pc' \in {"recv", "dead"}
    BY DEF RecvAbort
<1>4. TypeOK'
    BY <1>1, <1>2, <1>3 DEF TypeOK, RowsOK
<1>5. adder = NoAdder /\ adder' = NoAdder
    BY <1>3 DEF Queues, PackState
<1>6. UnsentNowhere'
    BY <1>1, <1>2, <1>3 DEF Queues, UnsentNowhere, TypeOK
<1>7. QueueServable'
    BY <1>1 DEF Queues, QueueServable
<1>8. QueuedHoldNothing'
  <2>1. ASSUME NEW i \in DOMAIN pending', pending'[i] \notin chunked'
        PROVE  \E j \in DOMAIN pending : pending[j] = pending'[i] /\ pending[j] # u
      BY <1>1 DEF ToSet
  <2>2. \A j \in DOMAIN pending : j > adder.taken
      BY <1>5 DEF NoAdder, TypeOK
  <2>. QED  BY <1>2, <1>3, <2>1, <2>2 DEF Queues, QueuedHoldNothing, TypeOK
<1>9. ChunkedHold'
    BY <1>2, <1>3 DEF Queues, ChunkedHold, TypeOK, ToSet
<1>10. PackState'
    BY <1>1, <1>3, <1>5 DEF PackState, NoAdder
<1>11. TodoInBatch'
    BY <1>3 DEF TodoInBatch
<1>. QED  BY <1>1, <1>2, <1>4, <1>6, <1>7, <1>8, <1>9, <1>10, <1>11 DEF Queues

\* Idling changes at most pc and fault.
LEMMA IdleStep ==
    ASSUME IInv, Idle
    PROVE  IInv'
<1>. USE DEF IInv
<1>1. TypeOK'
    BY DEF TypeOK, Idle, cacheVars
<1>2. /\ UnsentNowhere' /\ QueueDistinct' /\ QueueServable'
      /\ QueuedHoldNothing' /\ ChunkedHold' /\ PackState' /\ TodoInBatch'
    BY DEF Idle, Queues, UnsentNowhere, QueueDistinct, QueueServable,
           QueuedHoldNothing, ChunkedHold, PackState, TodoInBatch, Committing
<1>3. RowsOK'
    BY RowsKept DEF Idle, cacheVars
<1>. QED  BY <1>1, <1>2, <1>3 DEF Queues

----------------------------------------------------------------------------
(* Scheduling.                                                             *)

LEMMA BeginPackStep ==
    ASSUME IInv, BeginPack
    PROVE  IInv'
<1>. USE DEF IInv
<1>1. PICK budget \in Budgets :
        adder' = [budget |-> budget, taken |-> 0, chunks |-> << >>,
                  others |-> IF pending = << >> THEN 0 ELSE Len(pending) - 1]
    BY DEF BeginPack
<1>2. adder' \in Adders /\ adder'.taken = 0 /\ adder'.chunks = << >>
  <2>1. pending # << >> => Len(pending) - 1 \in Nat
      BY DEF TypeOK
  <2>2. budget \in Nat
      BY SchedulerAssumption
  <2>. QED  BY <1>1, <2>1, <2>2 DEF Adders
<1>3. adder = NoAdder
    BY DEF BeginPack, Queues, PackState
<1>4. TypeOK'
    BY <1>2 DEF TypeOK, BeginPack, cacheVars
<1>5. UnsentNowhere' /\ QueueDistinct' /\ QueueServable' /\ ChunkedHold' /\ TodoInBatch'
    BY DEF BeginPack, Queues, UnsentNowhere, QueueDistinct, QueueServable,
           ChunkedHold, TodoInBatch
<1>6. QueuedHoldNothing'
    BY <1>2, <1>3 DEF BeginPack, Queues, QueuedHoldNothing, NoAdder
<1>7. PackState'
    BY <1>2 DEF BeginPack, PackState, TypeOK
<1>8. RowsOK'
    BY RowsKept DEF BeginPack, cacheVars
<1>. QED  BY <1>4, <1>5, <1>6, <1>7, <1>8 DEF Queues

\* The matched part of a prompt is a path within it.
LEMMA MatchedType ==
    ASSUME NEW u \in Uids
    PROVE  Matched(u) \in Seq(Nat) /\ Len(Matched(u)) \in Nat
<1>1. Prompt[u] \in Seq(Nat) /\ Len(Prompt[u]) - 1 \in Nat
    BY SchedulerAssumption
<1>2. FirstIds(Prompt[u], Len(Prompt[u]) - 1) \in Seq(Nat)
    BY <1>1, FirstIdsType
<1>. QED  BY <1>2, MatchPrefixType DEF Matched

\* The Req object packing makes of a chunk.
LEMMA AddOneReqType ==
    ASSUME TypeOK, NEW u \in Uids, Len(Prompt[u]) < MaxSeqLen,
           NEW row \in Rows, NEW handle \in Seq(Nat), NEW cachedLen \in Nat,
           AddOneReq(u, row, handle, cachedLen)
    PROVE  /\ req' \in [Uids -> ReqObjects]
           /\ req'[u].row = row /\ ~req'[u].freed
           /\ \A v \in Uids \ {u} : req'[v] = req[v]
           /\ adder' \in Adders
           /\ adder'.taken = adder.taken + 1
           /\ \/ /\ chunked' = chunked \cup {u}
                 /\ batch'.chunks = batch.chunks \cup {u}
                 /\ adder'.chunks = Append(adder.chunks, u)
              \/ /\ chunked' = chunked \ {u}
                 /\ batch'.chunks = batch.chunks
                 /\ adder'.chunks = adder.chunks
           /\ batch' \in Batches /\ batch'.uids = batch.uids \cup {u}
<1>. DEFINE size == ChunkSize(Len(Prompt[u]), cachedLen)
            end  == cachedLen + size
<1>1. Prompt[u] \in Seq(Nat) /\ Len(Prompt[u]) \in Nat
    BY SchedulerAssumption
<1>2. size \in Nat \ {0} /\ size <= adder.budget /\ end \in Nat
  <2>1. size \in Int /\ size <= adder.budget
      BY <1>1, ChunkFits DEF TypeOK
  <2>2. size > 0
      BY DEF AddOneReq
  <2>. QED  BY <2>1, <2>2
<1>3. FirstIds(Prompt[u], end) \in Seq(Nat)
    BY <1>1, <1>2, FirstIdsType
<1>4. OutputLen(u) \in Nat
    BY OutputType
<1>5. req' = [req EXCEPT ![u] =
         [row |-> row, cached |-> cachedLen, device |-> end,
          maxDevice |-> end + OutputLen(u), handle |-> handle,
          ids |-> FirstIds(Prompt[u], end), freed |-> FALSE]]
    BY DEF AddOneReq
<1>6. /\ adder' = [adder EXCEPT !.budget = @ - size, !.taken = @ + 1,
                     !.chunks = IF end < Len(Prompt[u]) THEN Append(@, u) ELSE @]
      /\ chunked' = IF end < Len(Prompt[u]) THEN chunked \cup {u} ELSE chunked \ {u}
      /\ batch' = [phase |-> "prefill", uids |-> batch.uids \cup {u},
                   chunks |-> IF end < Len(Prompt[u]) THEN batch.chunks \cup {u}
                              ELSE batch.chunks]
    BY DEF AddOneReq
<1>. HIDE DEF size, end
<1>7. /\ req' \in [Uids -> ReqObjects]
      /\ req'[u].row = row /\ ~req'[u].freed
      /\ \A v \in Uids \ {u} : req'[v] = req[v]
    BY <1>2, <1>3, <1>4, <1>5 DEF TypeOK, ReqObjects
<1>8. /\ adder' \in Adders /\ adder'.taken = adder.taken + 1
      /\ adder'.chunks = IF end < Len(Prompt[u]) THEN Append(adder.chunks, u) ELSE adder.chunks
  <2>. DEFINE newChunks == IF end < Len(Prompt[u]) THEN Append(adder.chunks, u) ELSE adder.chunks
              newBudget == adder.budget - size
              newTaken  == adder.taken + 1
  <2>1. /\ adder \in Adders /\ adder.chunks \in Seq(Uids)
        /\ adder.taken \in Nat /\ adder.budget \in Nat
      BY DEF TypeOK, Adders
  <2>2. newChunks \in Seq(Uids) /\ newBudget \in Nat /\ newTaken \in Nat
      BY <1>2, <2>1
  <2>3. adder' = [adder EXCEPT !.budget = newBudget, !.taken = newTaken, !.chunks = newChunks]
      BY <1>6
  <2>. HIDE DEF newChunks, newBudget, newTaken
  <2>4. /\ adder' \in Adders
        /\ adder'.taken = newTaken /\ adder'.chunks = newChunks
      BY <2>1, <2>2, <2>3 DEF Adders
  <2>. QED  BY <2>4 DEF newChunks, newTaken
<1>9. batch' \in Batches
    BY <1>6 DEF TypeOK, Batches
<1>. QED  BY <1>6, <1>7, <1>8, <1>9

\* A request admitted from the queue takes the last free row; one that
\* continues keeps its own.
LEMMA PackRows ==
    ASSUME TypeOK, RowsOK, NEW u \in Uids, NEW row \in Rows,
           req' \in [Uids -> ReqObjects], req'[u].row = row, ~req'[u].freed,
           \A v \in Uids \ {u} : req'[v] = req[v],
           \/ ~req[u].freed /\ row = req[u].row /\ freeRows' = freeRows
           \/ /\ req[u].freed /\ freeRows # << >>
              /\ row = Last(freeRows) /\ freeRows' = Front(freeRows)
    PROVE  RowsOK'
<1>. USE DEF RowsOK
<1>1. CASE ~req[u].freed /\ row = req[u].row /\ freeRows' = freeRows
  <2>1. req[u].freed \in BOOLEAN /\ req'[u].freed \in BOOLEAN
      BY DEF TypeOK, ReqObjects
  <2>2. \A v \in Uids : req'[v].row = req[v].row /\ req'[v].freed = req[v].freed
      BY <1>1, <2>1
  <2>. QED  BY <1>1, <2>2, RowsKept
<1>2. CASE /\ req[u].freed /\ freeRows # << >>
           /\ row = Last(freeRows) /\ freeRows' = Front(freeRows)
  <2>1. /\ freeRows' \in Seq(Rows) /\ Injective(freeRows')
        /\ row \notin ToSet(freeRows') /\ ToSet(freeRows) = ToSet(freeRows') \cup {row}
      BY <1>2, FrontLast DEF Injective, EveryRowHasOneOwner
  <2>2. u \notin Holders /\ Holders' = Holders \cup {u}
      BY <1>2 DEF Holders
  <2>4. row \in ToSet(freeRows)
      BY <2>1
  <2>5. HoldersHaveRows'
      BY <2>2 DEF HoldersHaveRows, Holders
  <2>6. EveryRowHasOneOwner'
    <3>1. \A i, j \in DOMAIN freeRows' : freeRows'[i] = freeRows'[j] => i = j
        BY <2>1 DEF Injective
    <3>2. \A v, w \in Holders' : req'[v].row = req'[w].row => v = w
        BY <2>2, <2>4 DEF EveryRowHasOneOwner, Holders
    <3>3. \A v \in Holders' : req'[v].row \notin ToSet(freeRows')
        BY <2>1, <2>2 DEF EveryRowHasOneOwner, Holders
    <3>4. Rows \subseteq ToSet(freeRows') \cup { req'[v].row : v \in Holders' }
        BY <2>1, <2>2 DEF EveryRowHasOneOwner, Holders
    <3>. QED  BY <3>1, <3>2, <3>3, <3>4 DEF EveryRowHasOneOwner
  <2>. QED  BY <2>1, <2>5, <2>6
<1>. QED  BY <1>1, <1>2

LEMMA PackOneStep ==
    ASSUME IInv, PackOne
    PROVE  IInv'
<1>. USE DEF IInv
<1>. DEFINE t == adder.taken
            u == pending[t + 1]
<1>1. /\ t \in Nat /\ t + 1 \in DOMAIN pending /\ t + 1 <= Len(pending)
      /\ Len(pending) \in Nat /\ DOMAIN pending = 1..Len(pending)
      /\ u \in Uids /\ u \in ToSet(pending)
    BY DEF PackOne, TypeOK, Adders, ToSet
<1>2. Len(Prompt[u]) < MaxSeqLen
    BY <1>1 DEF Queues, QueueServable
<1>3. /\ pc = "pack"
      /\ UNCHANGED <<loop, pc, outcome, pending, running, last, todo, fault>>
      /\ PackChunk(u) \/ PackNew(u)
    BY DEF PackOne
<1>4. /\ u \notin running
      /\ u \in last.uids => u \in last.chunks
      /\ u \in batch.uids => u \in batch.chunks
  <2>1. u \notin chunked => u \notin running /\ u \notin last.uids /\ u \notin batch.uids
      BY <1>1 DEF Queues, QueuedHoldNothing
  <2>. QED  BY <2>1 DEF Queues, ChunkedHold
<1>5. /\ req' \in [Uids -> ReqObjects]
      /\ ~req'[u].freed
      /\ \A v \in Uids \ {u} : req'[v] = req[v]
      /\ adder' \in Adders /\ adder'.taken = t + 1
      /\ \/ /\ chunked' = chunked \cup {u}
            /\ batch'.chunks = batch.chunks \cup {u}
            /\ adder'.chunks = Append(adder.chunks, u)
         \/ /\ chunked' = chunked \ {u}
            /\ batch'.chunks = batch.chunks
            /\ adder'.chunks = adder.chunks
      /\ batch' \in Batches /\ batch'.uids = batch.uids \cup {u}
      /\ RowsOK'
  <2>1. CASE PackChunk(u)
    <3>1. /\ u \in chunked /\ UNCHANGED cacheVars
          /\ AddOneReq(u, req[u].row, req[u].handle, req[u].cached)
        BY <2>1 DEF PackChunk
    <3>2. req[u].handle \in Seq(Nat) /\ req[u].cached \in Nat
        BY <1>1 DEF TypeOK, ReqObjects
    <3>3. ~req[u].freed /\ req[u].row \in Rows
        BY <1>1, <3>1 DEF Queues, ChunkedHold, RowsOK, HoldersHaveRows, Holders
    <3>. HIDE DEF t, u
    <3>4. /\ req' \in [Uids -> ReqObjects]
          /\ req'[u].row = req[u].row /\ ~req'[u].freed
          /\ \A v \in Uids \ {u} : req'[v] = req[v]
          /\ adder' \in Adders /\ adder'.taken = adder.taken + 1
          /\ \/ /\ chunked' = chunked \cup {u}
                /\ batch'.chunks = batch.chunks \cup {u}
                /\ adder'.chunks = Append(adder.chunks, u)
             \/ /\ chunked' = chunked \ {u}
                /\ batch'.chunks = batch.chunks
                /\ adder'.chunks = adder.chunks
          /\ batch' \in Batches /\ batch'.uids = batch.uids \cup {u}
        BY <1>1, <1>2, <3>1, <3>2, <3>3, AddOneReqType
    <3>5. RowsOK'
        BY <1>1, <3>1, <3>3, <3>4, PackRows DEF cacheVars
    <3>. QED  BY <3>4, <3>5 DEF t
  <2>2. CASE PackNew(u)
    <3>1. /\ u \notin chunked /\ freeRows # << >>
          /\ freeRows' = Front(freeRows)
          /\ AddOneReq(u, Last(freeRows), Matched(u), Len(Matched(u)))
        BY <2>2 DEF PackNew, Admissible, TakeRow, NextRow
    <3>2. Matched(u) \in Seq(Nat) /\ Len(Matched(u)) \in Nat
        BY <1>1, MatchedType
    <3>3. req[u].freed
        BY <1>1, <3>1 DEF Queues, QueuedHoldNothing
    <3>4. Last(freeRows) \in Rows
        BY <3>1 DEF RowsOK, Last
    <3>. HIDE DEF t, u
    <3>5. /\ req' \in [Uids -> ReqObjects]
          /\ req'[u].row = Last(freeRows) /\ ~req'[u].freed
          /\ \A v \in Uids \ {u} : req'[v] = req[v]
          /\ adder' \in Adders /\ adder'.taken = adder.taken + 1
          /\ \/ /\ chunked' = chunked \cup {u}
                /\ batch'.chunks = batch.chunks \cup {u}
                /\ adder'.chunks = Append(adder.chunks, u)
             \/ /\ chunked' = chunked \ {u}
                /\ batch'.chunks = batch.chunks
                /\ adder'.chunks = adder.chunks
          /\ batch' \in Batches /\ batch'.uids = batch.uids \cup {u}
        BY <1>1, <1>2, <3>1, <3>2, <3>4, AddOneReqType
    <3>6. RowsOK'
        BY <1>1, <3>1, <3>3, <3>4, <3>5, PackRows
    <3>. QED  BY <3>5, <3>6 DEF t
  <2>. QED  BY <1>3, <2>1, <2>2
<1>6. \A i \in DOMAIN pending : pending[i] = u => i = t + 1
    BY <1>1 DEF Queues, QueueDistinct
<1>. HIDE DEF t, u
<1>7. TypeOK'
    BY <1>1, <1>3, <1>5 DEF TypeOK, RowsOK
<1>8. UnsentNowhere'
    BY <1>1, <1>3, <1>5 DEF Queues, UnsentNowhere
<1>9. QueueDistinct' /\ QueueServable'
    BY <1>3 DEF Queues, QueueDistinct, QueueServable
<1>10. QueuedHoldNothing'
  <2>1. ASSUME NEW i \in DOMAIN pending, i > t + 1, pending[i] \notin chunked'
        PROVE  i > t /\ pending[i] \notin chunked /\ pending[i] # u /\ pending[i] \in Uids
      BY <1>1, <1>5, <1>6, <2>1 DEF TypeOK
  <2>. QED  BY <1>3, <1>5, <2>1 DEF Queues, QueuedHoldNothing, t
<1>11. ChunkedHold'
    BY <1>3, <1>4, <1>5 DEF Queues, ChunkedHold, TypeOK, ToSet
<1>12. PackState'
  <2>1. adder.chunks \in Seq(Uids) /\ adder'.chunks \in Seq(Uids)
      BY <1>5 DEF TypeOK, Adders
  <2>2. \A j \in DOMAIN adder.chunks : adder.chunks[j] # u
      BY <1>1, <1>6 DEF Queues, PackState, t
  <2>3. ASSUME NEW i \in DOMAIN pending, i <= t + 1, pending[i] # u
        PROVE  i <= t
      BY <1>1, <2>3 DEF u
  <2>4. CASE /\ chunked' = chunked \cup {u}
             /\ adder'.chunks = Append(adder.chunks, u)
    <3>1. /\ DOMAIN adder'.chunks = 1..Len(adder.chunks) + 1
          /\ DOMAIN adder.chunks = 1..Len(adder.chunks) /\ Len(adder.chunks) \in Nat
          /\ adder'.chunks[Len(adder.chunks) + 1] = u
          /\ \A j \in DOMAIN adder.chunks : adder'.chunks[j] = adder.chunks[j]
        BY <2>1, <2>4
    <3>2. \A i \in DOMAIN pending : i <= t + 1 /\ pending[i] \in chunked' =>
              \E j \in DOMAIN adder'.chunks : adder'.chunks[j] = pending[i]
        BY <2>3, <2>4, <3>1 DEF Queues, PackState, t
    <3>3. \A j \in DOMAIN adder'.chunks :
              /\ adder'.chunks[j] \in chunked'
              /\ \E i \in DOMAIN pending : i <= t + 1 /\ pending[i] = adder'.chunks[j]
      <4>1. ASSUME NEW j \in DOMAIN adder.chunks
            PROVE  /\ adder.chunks[j] \in chunked'
                   /\ \E i \in DOMAIN pending : i <= t + 1 /\ pending[i] = adder.chunks[j]
          BY <1>1, <2>4 DEF Queues, PackState, t
      <4>2. \E i \in DOMAIN pending : i <= t + 1 /\ pending[i] = u
          BY <1>1 DEF u
      <4>. QED  BY <2>4, <3>1, <4>1, <4>2
    <3>4. \A i, j \in DOMAIN adder'.chunks : adder'.chunks[i] = adder'.chunks[j] => i = j
        BY <2>2, <3>1 DEF Queues, PackState
    <3>. QED  BY <1>1, <1>3, <1>5, <3>2, <3>3, <3>4 DEF PackState
  <2>5. CASE chunked' = chunked \ {u} /\ adder'.chunks = adder.chunks
    <3>1. \A i \in DOMAIN pending : i <= t + 1 /\ pending[i] \in chunked' =>
              \E j \in DOMAIN adder'.chunks : adder'.chunks[j] = pending[i]
        BY <2>3, <2>5 DEF Queues, PackState, t
    <3>2. \A j \in DOMAIN adder'.chunks :
              /\ adder'.chunks[j] \in chunked'
              /\ \E i \in DOMAIN pending : i <= t + 1 /\ pending[i] = adder'.chunks[j]
        BY <1>1, <2>2, <2>5 DEF Queues, PackState, t
    <3>. QED  BY <1>1, <1>3, <1>5, <2>5, <3>1, <3>2 DEF Queues, PackState
  <2>. QED  BY <1>5, <2>4, <2>5
<1>13. TodoInBatch'
    BY <1>3 DEF TodoInBatch
<1>. QED  BY <1>5, <1>7, <1>8, <1>9, <1>10, <1>11, <1>12, <1>13 DEF Queues

\* The pending list after packing: the chunked requests it reached, then
\* whoever it did not reach; nobody chunked is lost and nobody added.
LEMMA RequeuedElements ==
    ASSUME IInv, pc = "pack"
    PROVE  /\ Requeued \in Seq(Uids)
           /\ Injective(Requeued)
           /\ chunked \subseteq ToSet(Requeued)
           /\ \A k \in DOMAIN Requeued : Requeued[k] \notin chunked =>
                \E i \in DOMAIN pending : i > adder.taken /\ Requeued[k] = pending[i]
           /\ ToSet(Requeued) \subseteq ToSet(pending)
<1>. USE DEF IInv
<1>. DEFINE t == adder.taken
            A == adder.chunks
            R == NotReached
<1>1. /\ pending \in Seq(Uids) /\ A \in Seq(Uids) /\ t \in Nat /\ t <= Len(pending)
      /\ DOMAIN pending = 1..Len(pending) /\ Len(pending) \in Nat
      /\ DOMAIN A = 1..Len(A) /\ Len(A) \in Nat
    BY DEF TypeOK, Adders, Queues, PackState
<1>2. /\ R \in Seq(Uids) /\ Len(R) = Len(pending) - t
      /\ \A k \in 1..Len(pending) - t : R[k] = pending[t + k]
    BY <1>1 DEF NotReached
<1>3. /\ A \o R \in Seq(Uids) /\ Len(A \o R) = Len(A) + Len(R)
      /\ \A k \in 1..Len(A) + Len(R) : (A \o R)[k] = IF k <= Len(A) THEN A[k] ELSE R[k - Len(A)]
    BY <1>1, <1>2, ConcatProperties
<1>4. /\ \A j \in DOMAIN A : A[j] \in chunked /\ \E i \in DOMAIN pending : i <= t /\ pending[i] = A[j]
      /\ \A i, j \in DOMAIN A : A[i] = A[j] => i = j
      /\ \A i \in DOMAIN pending : i <= t /\ pending[i] \in chunked => \E j \in DOMAIN A : A[j] = pending[i]
    BY DEF Queues, PackState
<1>5. Requeued = A \o R
    BY DEF Requeued
<1>6. \A i, j \in DOMAIN pending : pending[i] = pending[j] => i = j
    BY DEF Queues, QueueDistinct
<1>7. chunked \subseteq ToSet(pending)
    BY DEF TypeOK
<1>. HIDE DEF t, A, R
\* Where an element of the new list comes from.
<1>8. ASSUME NEW k \in DOMAIN (A \o R)
      PROVE  \/ k \in DOMAIN A /\ (A \o R)[k] = A[k]
             \/ /\ k - Len(A) + t \in DOMAIN pending /\ k - Len(A) + t > t
                /\ (A \o R)[k] = pending[k - Len(A) + t]
  <2>1. k \in 1..Len(A) + Len(R)
      BY <1>3
  <2>2. CASE k <= Len(A)
      BY <1>1, <1>3, <2>1, <2>2
  <2>3. CASE ~(k <= Len(A))
    <3>1. k - Len(A) \in 1..Len(pending) - t
        BY <1>1, <1>2, <2>1, <2>3
    <3>2. (A \o R)[k] = R[k - Len(A)]
        BY <1>3, <2>1, <2>3
    <3>3. R[k - Len(A)] = pending[t + (k - Len(A))]
        BY <1>2, <3>1
    <3>4. t + (k - Len(A)) = k - Len(A) + t
        BY <1>1, <2>1
    <3>. QED  BY <1>1, <3>1, <3>2, <3>3, <3>4
  <2>. QED  BY <2>2, <2>3
<1>9. Injective(A \o R)
  <2>. SUFFICES ASSUME NEW k \in DOMAIN (A \o R), NEW m \in DOMAIN (A \o R),
                       (A \o R)[k] = (A \o R)[m]
                PROVE  k = m
      BY DEF Injective
  <2>1. k \in Int /\ m \in Int
      BY <1>1, <1>2, <1>3
  <2>2. CASE k \in DOMAIN A /\ (A \o R)[k] = A[k] /\ m \in DOMAIN A /\ (A \o R)[m] = A[m]
      BY <1>4, <2>2
  <2>3. CASE /\ k - Len(A) + t \in DOMAIN pending /\ (A \o R)[k] = pending[k - Len(A) + t]
             /\ m - Len(A) + t \in DOMAIN pending /\ (A \o R)[m] = pending[m - Len(A) + t]
    <3>1. k - Len(A) + t = m - Len(A) + t
        BY <1>6, <2>3
    <3>. QED  BY <1>1, <2>1, <3>1
  <2>4. \A j \in DOMAIN A, i \in DOMAIN pending : i > t => A[j] # pending[i]
      BY <1>1, <1>4, <1>6
  <2>. QED  BY <1>8, <2>2, <2>3, <2>4
<1>10. chunked \subseteq ToSet(A \o R)
  <2>. SUFFICES ASSUME NEW u \in chunked
                PROVE  \E k \in DOMAIN (A \o R) : (A \o R)[k] = u
      BY DEF ToSet
  <2>1. PICK i \in DOMAIN pending : pending[i] = u
      BY <1>7 DEF ToSet
  <2>2. CASE i <= t
    <3>1. PICK j \in DOMAIN A : A[j] = u
        BY <1>4, <2>1, <2>2
    <3>2. j \in DOMAIN (A \o R) /\ (A \o R)[j] = A[j]
        BY <1>1, <1>2, <1>3
    <3>. QED  BY <3>1, <3>2
  <2>3. CASE ~(i <= t)
    <3>1. i - t \in 1..Len(pending) - t
        BY <1>1, <2>3
    <3>2. PICK k \in 1..Len(A) + Len(R) : ~(k <= Len(A)) /\ k - Len(A) = i - t
      <4>1. /\ Len(A) + (i - t) \in 1..Len(A) + Len(R)
            /\ ~(Len(A) + (i - t) <= Len(A)) /\ (Len(A) + (i - t)) - Len(A) = i - t
          BY <1>1, <1>2, <3>1
      <4>. QED  BY <4>1
    <3>3. (A \o R)[k] = R[i - t]
        BY <1>3, <3>2
    <3>4. R[i - t] = pending[t + (i - t)] /\ t + (i - t) = i
        BY <1>1, <1>2, <3>1
    <3>. QED  BY <1>3, <2>1, <3>2, <3>3, <3>4
  <2>. QED  BY <2>2, <2>3
<1>11. \A k \in DOMAIN (A \o R) : (A \o R)[k] \notin chunked =>
         \E i \in DOMAIN pending : i > t /\ (A \o R)[k] = pending[i]
    BY <1>4, <1>8
<1>12. ToSet(A \o R) \subseteq ToSet(pending)
    BY <1>4, <1>8 DEF ToSet
<1>. QED  BY <1>3, <1>5, <1>9, <1>10, <1>11, <1>12 DEF t

LEMMA EndPackStep ==
    ASSUME IInv, EndPack
    PROVE  IInv'
<1>. USE DEF IInv
<1>1. /\ pc = "pack" /\ pending' = Requeued
      /\ UNCHANGED <<cacheVars, loop, outcome, chunked, running, req, last, finished, fault>>
      /\ adder' = NoAdder
    BY DEF EndPack
<1>2. /\ pending' \in Seq(Uids)
      /\ Injective(pending')
      /\ chunked \subseteq ToSet(pending')
      /\ \A k \in DOMAIN pending' : pending'[k] \notin chunked =>
            \E i \in DOMAIN pending : i > adder.taken /\ pending'[k] = pending[i]
      /\ ToSet(pending') \subseteq ToSet(pending)
    BY <1>1, RequeuedElements
<1>3. /\ batch' \in Batches
      /\ \/ batch' = batch
         \/ batch'.uids = running
         \/ batch'.uids = {}
    BY DEF EndPack, TypeOK, Batches, NoBatch
<1>4. /\ pc' \in {"commit", "evict"}
      /\ pc' = "commit" => todo' = (IF loop = "overlap" THEN last ELSE batch').uids
      /\ pc' = "evict" => todo' = batch'.uids
    BY DEF EndPack
<1>5. adder' \in Adders /\ adder'.taken = 0 /\ adder'.chunks = << >>
    BY <1>1 DEF NoAdder, Adders
<1>6. TypeOK'
  <2>1. todo' \subseteq Uids
      BY <1>3, <1>4 DEF TypeOK, Batches
  <2>. QED  BY <1>1, <1>2, <1>3, <1>4, <1>5, <2>1 DEF TypeOK, cacheVars
<1>7. UnsentNowhere'
    BY <1>1, <1>2, <1>3 DEF Queues, UnsentNowhere
<1>8. QueueDistinct' /\ QueueServable'
    BY <1>2 DEF Queues, QueueDistinct, QueueServable, Injective
<1>9. QueuedHoldNothing'
    BY <1>1, <1>2, <1>3 DEF Queues, QueuedHoldNothing
<1>10. ChunkedHold'
    BY <1>1, <1>3 DEF Queues, ChunkedHold
<1>11. PackState'
    BY <1>1, <1>2, <1>5 DEF PackState
<1>12. TodoInBatch'
    BY <1>1, <1>4 DEF TodoInBatch, Committing
<1>13. RowsOK'
    BY <1>1, RowsKept DEF cacheVars
<1>. QED  BY <1>6, <1>7, <1>8, <1>9, <1>10, <1>11, <1>12, <1>13 DEF Queues

----------------------------------------------------------------------------
(* Launching and committing.                                               *)

\* Allocation leaves requests, rows and queues alone.
LEMMA EnsurePagesStep ==
    ASSUME IInv, EnsurePages
    PROVE  IInv'
<1>. USE DEF IInv
<1>1. /\ pc = "evict" /\ pc' \in {"write", "dead"} /\ fault' \in {fault, "evict"}
      /\ freeRows' = freeRows
      /\ UNCHANGED <<loop, outcome, pending, chunked, running, req, adder, batch, last, todo>>
    BY DEF EnsurePages, EvictFor, cacheVars
<1>2. TypeOK'
    BY <1>1 DEF TypeOK
<1>3. UnsentNowhere' /\ QueueDistinct' /\ QueueServable' /\ QueuedHoldNothing' /\ ChunkedHold'
    BY <1>1 DEF Queues, UnsentNowhere, QueueDistinct, QueueServable, QueuedHoldNothing, ChunkedHold
<1>4. PackState' /\ TodoInBatch'
    BY <1>1 DEF Queues, PackState, TodoInBatch, NoAdder
<1>5. RowsOK'
    BY <1>1, RowsKept
<1>. QED  BY <1>2, <1>3, <1>4, <1>5 DEF Queues

LEMMA WriteOneStep ==
    ASSUME IInv, NEW u \in Uids, WriteOne(u)
    PROVE  IInv'
<1>. USE DEF IInv
<1>1. /\ pc = "write" /\ todo' = todo \ {u} /\ freeRows' = freeRows
      /\ UNCHANGED <<loop, pc, outcome, pending, chunked, running, req, adder, batch, last, fault>>
    BY DEF WriteOne, WriteRow
<1>2. TypeOK'
    BY <1>1 DEF TypeOK
<1>3. UnsentNowhere' /\ QueueDistinct' /\ QueueServable' /\ QueuedHoldNothing' /\ ChunkedHold'
    BY <1>1 DEF Queues, UnsentNowhere, QueueDistinct, QueueServable, QueuedHoldNothing, ChunkedHold
<1>4. PackState' /\ TodoInBatch'
    BY <1>1 DEF Queues, PackState, TodoInBatch
<1>5. RowsOK'
    BY <1>1, RowsKept
<1>. QED  BY <1>2, <1>3, <1>4, <1>5 DEF Queues

\* A forward advances lengths; it starts the decoding of requests whose
\* prompt is complete, never of a chunked one.
LEMMA ForwardStep ==
    ASSUME IInv, Forward
    PROVE  IInv'
<1>. USE DEF IInv
<1>1. /\ pc = "write" /\ pc' = "commit"
      /\ req' = [v \in Uids |-> IF v \in batch.uids THEN CompleteOne(req[v]) ELSE req[v]]
      /\ running' \subseteq running \cup (batch.uids \ batch.chunks)
      /\ todo' = (IF loop = "overlap" THEN last ELSE batch).uids
      /\ UNCHANGED <<cacheVars, loop, outcome, pending, chunked, adder, batch, last, fault>>
    BY DEF Forward
<1>2. \A v \in Uids : /\ req'[v] \in ReqObjects
                      /\ req'[v].row = req[v].row /\ req'[v].freed = req[v].freed
  <2>. SUFFICES ASSUME NEW v \in Uids
                PROVE  /\ req'[v] \in ReqObjects
                       /\ req'[v].row = req[v].row /\ req'[v].freed = req[v].freed
      OBVIOUS
  <2>1. req[v] \in ReqObjects /\ req[v].device + 1 \in Nat
      BY DEF TypeOK, ReqObjects
  <2>2. CompleteOne(req[v]) = [req[v] EXCEPT !.cached = req[v].device, !.device = req[v].device + 1]
      BY <2>1 DEF CompleteOne, ReqObjects
  <2>3. /\ CompleteOne(req[v]) \in ReqObjects
        /\ CompleteOne(req[v]).row = req[v].row /\ CompleteOne(req[v]).freed = req[v].freed
      BY <2>1, <2>2 DEF ReqObjects
  <2>. QED  BY <1>1, <2>1, <2>3
<1>3. req' \in [Uids -> ReqObjects]
    BY <1>1, <1>2
<1>4. batch.uids \subseteq Uids /\ last.uids \subseteq Uids
    BY DEF TypeOK, Batches
<1>5. TypeOK'
    BY <1>1, <1>3, <1>4 DEF TypeOK, cacheVars
<1>6. UnsentNowhere' /\ QueueDistinct' /\ QueueServable'
    BY <1>1, <1>2 DEF Queues, UnsentNowhere, QueueDistinct, QueueServable
<1>7. QueuedHoldNothing'
    BY <1>1, <1>2 DEF Queues, QueuedHoldNothing, TypeOK
<1>8. ChunkedHold'
    BY <1>1, <1>2 DEF Queues, ChunkedHold, TypeOK, ToSet
<1>9. PackState' /\ TodoInBatch'
    BY <1>1 DEF Queues, PackState, TodoInBatch, Committing, NoAdder
<1>10. RowsOK'
    BY <1>1, <1>2, RowsKept DEF cacheVars
<1>. QED  BY <1>5, <1>6, <1>7, <1>8, <1>9, <1>10 DEF Queues

LEMMA CommitChunkStep ==
    ASSUME IInv, NEW u \in Uids, CommitChunk(u)
    PROVE  IInv'
<1>. USE DEF IInv
<1>1. /\ pc = "commit" /\ todo' = todo \ {u}
      /\ UNCHANGED <<cacheVars, loop, pc, outcome, pending, chunked, running, req, adder, batch, last, fault>>
    BY DEF CommitChunk
<1>2. TypeOK'
    BY <1>1 DEF TypeOK, cacheVars
<1>3. UnsentNowhere' /\ QueueDistinct' /\ QueueServable' /\ QueuedHoldNothing' /\ ChunkedHold'
    BY <1>1 DEF Queues, UnsentNowhere, QueueDistinct, QueueServable, QueuedHoldNothing, ChunkedHold
<1>4. PackState' /\ TodoInBatch'
    BY <1>1 DEF Queues, PackState, TodoInBatch, Committing
<1>5. RowsOK'
    BY <1>1, RowsKept DEF cacheVars
<1>. QED  BY <1>2, <1>3, <1>4, <1>5 DEF Queues

LEMMA CommitTokenStep ==
    ASSUME IInv, NEW u \in Uids, NEW token \in Tokens, CommitToken(u, token)
    PROVE  IInv'
<1>. USE DEF IInv
<1>. DEFINE r == [req[u] EXCEPT !.ids = Append(@, token)]
<1>1. r \in ReqObjects /\ r.row = req[u].row /\ r.freed = req[u].freed
  <2>1. req[u] \in ReqObjects /\ Append(req[u].ids, token) \in Seq(Nat)
      BY SchedulerAssumption DEF TypeOK, ReqObjects
  <2>. QED  BY <2>1 DEF ReqObjects
<1>2. u \in Committing.uids /\ u \notin Committing.chunks /\ pc = "commit"
    BY DEF CommitToken, Queues, TodoInBatch
<1>3. u \notin chunked /\ outcome[u] # "new"
    BY <1>2 DEF Queues, ChunkedHold, UnsentNowhere, Committing
<1>4. /\ req' \in [Uids -> ReqObjects]
      /\ req[u].freed => req'[u].freed
      /\ \A v \in Uids \ {u} : req'[v] = req[v]
      /\ fault' \in {fault, "ref_count"}
      /\ running' \subseteq running
      /\ RowsOK'
  <2>1. CASE FinishReq(u, r)
    <3>1. FreeReqResources(u, r) /\ running' = running \ {u}
        BY <2>1 DEF FinishReq
    <3>. HIDE DEF r
    <3>. QED  BY <1>1, <3>1, FreeEffect
  <2>2. CASE CachePrompt(u, r)
    <3>. DEFINE ids == InsertIds(r)
                newHandle == PathTo(ids, Len(ids) \div PageSize)
    <3>1. /\ freeRows' = freeRows /\ running' = running /\ fault' \in {fault, "ref_count"}
          /\ \/ req' = [req EXCEPT ![u] = r]
             \/ req' = [req EXCEPT ![u] = [r EXCEPT !.handle = newHandle]]
        BY <2>2 DEF CachePrompt, CachePrefix, cacheVars
    <3>. HIDE DEF r
    <3>2. newHandle \in Seq(Nat)
      <4>1. ids \in Seq(Nat)
          BY <1>1, FirstIdsType DEF InsertIds, ReqObjects
      <4>2. Len(ids) \div PageSize \in 0..(Len(ids) \div PageSize)
          BY <4>1, PagesFit, PageSizeAssumption, SMT
      <4>. QED  BY <4>1, <4>2, PathToType
    <3>. HIDE DEF newHandle
    <3>3. [r EXCEPT !.handle = newHandle] \in ReqObjects
        BY <1>1, <3>2 DEF ReqObjects
    <3>4. /\ [r EXCEPT !.handle = newHandle].row = req[u].row
          /\ [r EXCEPT !.handle = newHandle].freed = req[u].freed
        BY <1>1 DEF ReqObjects
    <3>5. /\ req' \in [Uids -> ReqObjects]
          /\ \A v \in Uids : req'[v].row = req[v].row /\ req'[v].freed = req[v].freed
          /\ \A v \in Uids \ {u} : req'[v] = req[v]
        BY <1>1, <3>1, <3>3, <3>4 DEF TypeOK
    <3>. QED  BY <3>1, <3>5, RowsKept
  <2>3. CASE req' = [req EXCEPT ![u] = r] /\ UNCHANGED <<cacheVars, running, fault>>
    <3>. HIDE DEF r
    <3>1. /\ req' \in [Uids -> ReqObjects]
          /\ \A v \in Uids : req'[v].row = req[v].row /\ req'[v].freed = req[v].freed
          /\ \A v \in Uids \ {u} : req'[v] = req[v]
        BY <1>1, <2>3 DEF TypeOK
    <3>. QED  BY <2>3, <3>1, RowsKept DEF cacheVars
  <2>. QED  BY <2>1, <2>2, <2>3 DEF CommitToken
<1>5. /\ todo' = todo \ {u} /\ pc' \in {pc, "dead"}
      /\ outcome' \in [Uids -> {"new", "waiting", "finished", "rejected", "aborted"}]
      /\ \A v \in Uids : outcome'[v] = "new" => outcome[v] = "new"
      /\ UNCHANGED <<loop, pending, chunked, adder, batch, last>>
    BY <1>3 DEF CommitToken, TypeOK
<1>6. TypeOK'
    BY <1>4, <1>5 DEF TypeOK, RowsOK
<1>7. UnsentNowhere'
    BY <1>3, <1>4, <1>5 DEF Queues, UnsentNowhere
<1>8. QueueDistinct' /\ QueueServable'
    BY <1>5 DEF Queues, QueueDistinct, QueueServable
<1>9. QueuedHoldNothing'
    BY <1>4, <1>5 DEF Queues, QueuedHoldNothing, TypeOK
<1>10. ChunkedHold'
    BY <1>3, <1>4, <1>5 DEF Queues, ChunkedHold, TypeOK, ToSet
<1>11. PackState' /\ TodoInBatch'
    BY <1>2, <1>5 DEF Queues, PackState, TodoInBatch, Committing
<1>. QED  BY <1>4, <1>6, <1>7, <1>8, <1>9, <1>10, <1>11 DEF Queues

LEMMA EndCommitStep ==
    ASSUME IInv, EndCommit
    PROVE  IInv'
<1>. USE DEF IInv
<1>1. /\ pc = "commit" /\ pc' = "recv" /\ batch' = NoBatch
      /\ last' \in {batch, NoBatch}
      /\ UNCHANGED <<cacheVars, loop, outcome, pending, chunked, running, req, adder, todo, fault>>
    BY DEF EndCommit
<1>2. NoBatch \in Batches /\ NoBatch.uids = {} /\ NoBatch.chunks = {}
    BY DEF NoBatch, Batches
<1>3. TypeOK'
    BY <1>1, <1>2 DEF TypeOK, cacheVars
<1>4. UnsentNowhere' /\ QueueDistinct' /\ QueueServable' /\ QueuedHoldNothing' /\ ChunkedHold'
    BY <1>1, <1>2 DEF Queues, UnsentNowhere, QueueDistinct, QueueServable, QueuedHoldNothing, ChunkedHold
<1>5. PackState' /\ TodoInBatch'
    BY <1>1 DEF Queues, PackState, TodoInBatch
<1>6. RowsOK'
    BY <1>1, RowsKept DEF cacheVars
<1>. QED  BY <1>3, <1>4, <1>5, <1>6 DEF Queues

----------------------------------------------------------------------------
(* The theorems.                                                           *)

LEMMA InitIInv == Init => IInv
<1>. SUFFICES ASSUME Init PROVE IInv
    OBVIOUS
<1>1. /\ freeRows = [i \in 1..NumRows |-> i] /\ freeRows \in Seq(Rows) /\ DOMAIN freeRows = Rows
    BY PoolAssumption DEF Init, CacheInit, Rows
<1>2. NoReq \in ReqObjects /\ NoReq.freed /\ req = [u \in Uids |-> NoReq]
    BY DEF Init, NoReq, ReqObjects
<1>3. NoBatch \in Batches /\ NoBatch.uids = {} /\ NoBatch.chunks = {}
    BY DEF NoBatch, Batches
<1>4. NoAdder \in Adders /\ NoAdder.taken = 0 /\ NoAdder.chunks = << >>
    BY DEF NoAdder, Adders
<1>5. /\ pending = << >> /\ chunked = {} /\ running = {} /\ todo = {}
      /\ batch = NoBatch /\ last = NoBatch /\ adder = NoAdder
      /\ pc = "recv" /\ fault = "none" /\ loop \in Loops
      /\ outcome = [u \in Uids |-> "new"]
    BY DEF Init
<1>6. TypeOK
    BY <1>1, <1>2, <1>3, <1>4, <1>5 DEF TypeOK, ToSet
<1>7. Queues
    BY <1>2, <1>3, <1>4, <1>5 DEF Queues, UnsentNowhere, QueueDistinct, QueueServable,
        QueuedHoldNothing, ChunkedHold, PackState, TodoInBatch, ToSet
<1>8. RowsOK
    BY <1>1, <1>2 DEF RowsOK, HoldersHaveRows, EveryRowHasOneOwner, Holders, ToSet
<1>. QED  BY <1>6, <1>7, <1>8 DEF IInv

LEMMA NextIInv == IInv /\ [Next]_vars => IInv'
<1>. SUFFICES ASSUME IInv, [Next]_vars PROVE IInv'
    OBVIOUS
<1>1. ASSUME NEW u \in Uids, RecvUser(u) PROVE IInv'
    BY <1>1, RecvUserStep
<1>2. ASSUME NEW u \in Uids, RecvAbort(u) PROVE IInv'
    BY <1>2, RecvAbortStep
<1>3. CASE Idle
    BY <1>3, IdleStep
<1>4. CASE BeginPack
    BY <1>4, BeginPackStep
<1>5. CASE PackOne
    BY <1>5, PackOneStep
<1>6. CASE EndPack
    BY <1>6, EndPackStep
<1>7. CASE EnsurePages
    BY <1>7, EnsurePagesStep
<1>8. ASSUME NEW u \in Uids, WriteOne(u) PROVE IInv'
    BY <1>8, WriteOneStep
<1>9. CASE Forward
    BY <1>9, ForwardStep
<1>10. ASSUME NEW u \in Uids, CommitChunk(u) PROVE IInv'
    BY <1>10, CommitChunkStep
<1>11. ASSUME NEW u \in Uids, NEW token \in Tokens, CommitToken(u, token) PROVE IInv'
    BY <1>11, CommitTokenStep
<1>12. CASE EndCommit
    BY <1>12, EndCommitStep
<1>13. CASE UNCHANGED vars
  <2>1. TypeOK'
      BY <1>13 DEF IInv, TypeOK, vars, cacheVars, schedVars
  <2>2. UnsentNowhere' /\ QueueDistinct' /\ QueueServable' /\ QueuedHoldNothing' /\ ChunkedHold'
      BY <1>13 DEF IInv, Queues, UnsentNowhere, QueueDistinct, QueueServable,
                   QueuedHoldNothing, ChunkedHold, vars, schedVars
  <2>3. PackState' /\ TodoInBatch'
      BY <1>13 DEF IInv, Queues, PackState, TodoInBatch, Committing, vars, schedVars
  <2>4. RowsOK'
      BY <1>13, RowsKept DEF IInv, vars, cacheVars, schedVars
  <2>. QED  BY <2>1, <2>2, <2>3, <2>4 DEF IInv, Queues
<1>. QED
    BY <1>1, <1>2, <1>3, <1>4, <1>5, <1>6, <1>7, <1>8, <1>9, <1>10, <1>11, <1>12, <1>13
    DEF Next, Client, Step

\* The scheduler's variables keep their types.
THEOREM TypeCorrect == Spec => []TypeOK
<1>1. IInv => TypeOK
    BY DEF IInv
<1>. QED  BY <1>1, InitIInv, NextIInv, PTL DEF Spec

\* A row of the request table (table.py) is free once or held by exactly one
\* request: no finish, abort or batch in flight frees it twice or loses it.
THEOREM RowsHaveOneOwner == Spec => []EveryRowHasOneOwner
<1>1. IInv => EveryRowHasOneOwner
    BY DEF IInv, RowsOK
<1>. QED  BY <1>1, InitIInv, NextIInv, PTL DEF Spec

----------------------------------------------------------------------------
(* Pages that change hands.                                                *)

\* Each page is in one place of a list, a map and another map.
OneOwner(f, t, o) ==
    /\ f \in Seq(Pages)
    /\ IsInjective(f) /\ IsInjective(t) /\ IsInjective(o)
    /\ Range(f) \cap Range(t) = {} /\ Range(f) \cap Range(o) = {} /\ Range(t) \cap Range(o) = {}
    /\ Range(f) \cup Range(t) \cup Range(o) = Pages

\* The map without some of its arguments.
Less(g, D) == [x \in DOMAIN g \ D |-> g[x]]

LEMMA LessParts ==
    ASSUME NEW g, NEW D \in SUBSET DOMAIN g, IsInjective(g)
    PROVE  /\ IsInjective(Less(g, D))
           /\ Range(Less(g, D)) = Range(g) \ { g[x] : x \in D }
           /\ { g[x] : x \in D } \subseteq Range(g)
    BY DEF Less, IsInjective, Range

LEMMA ListJoined ==
    ASSUME NEW S, NEW f \in Seq(S), NEW s \in Seq(S)
    PROVE  /\ f \o s \in Seq(S)
           /\ Range(f \o s) = Range(f) \cup Range(s)
           /\ IsInjective(f) /\ IsInjective(s) /\ Range(f) \cap Range(s) = {} => IsInjective(f \o s)
<1>. DEFINE c == f \o s
<1>1. /\ c \in Seq(S) /\ DOMAIN c = 1..Len(f) + Len(s)
      /\ DOMAIN f = 1..Len(f) /\ DOMAIN s = 1..Len(s) /\ Len(f) \in Nat /\ Len(s) \in Nat
      /\ \A i \in 1..Len(f) + Len(s) : c[i] = IF i <= Len(f) THEN f[i] ELSE s[i - Len(f)]
    OBVIOUS
<1>. HIDE DEF c
<1>2. \A i \in DOMAIN f : i \in DOMAIN c /\ c[i] = f[i]
    BY <1>1
<1>3. \A i \in DOMAIN s : Len(f) + i \in DOMAIN c /\ c[Len(f) + i] = s[i]
    BY <1>1
<1>4. \A i \in DOMAIN c : \/ i \in DOMAIN f /\ c[i] = f[i]
                          \/ i - Len(f) \in DOMAIN s /\ c[i] = s[i - Len(f)]
    BY <1>1
<1>5. Range(c) = Range(f) \cup Range(s)
    BY <1>2, <1>3, <1>4 DEF Range
<1>6. ASSUME IsInjective(f), IsInjective(s), Range(f) \cap Range(s) = {}
      PROVE  IsInjective(c)
  <2>1. ASSUME NEW i \in DOMAIN c, NEW j \in DOMAIN c, c[i] = c[j]
        PROVE  i = j
    <3>1. i \in Int /\ j \in Int /\ Len(f) \in Int
        BY <1>1
    <3>2. CASE i \in DOMAIN f /\ c[i] = f[i] /\ j \in DOMAIN f /\ c[j] = f[j]
        BY <1>6, <2>1, <3>2 DEF IsInjective
    <3>3. CASE /\ i - Len(f) \in DOMAIN s /\ c[i] = s[i - Len(f)]
               /\ j - Len(f) \in DOMAIN s /\ c[j] = s[j - Len(f)]
      <4>1. i - Len(f) = j - Len(f)
          BY <1>6, <2>1, <3>3 DEF IsInjective
      <4>. QED  BY <3>1, <4>1
    <3>. QED  BY <1>4, <1>6, <2>1, <3>2, <3>3 DEF Range
  <2>. QED  BY <2>1 DEF IsInjective
<1>. QED  BY <1>1, <1>5, <1>6 DEF c

\* Pages of the last map join the list, ...
LEMMA OwnToFree ==
    ASSUME NEW f, NEW t, NEW o, OneOwner(f, t, o),
           NEW D \in SUBSET DOMAIN o, NEW s \in Seq(Pages), IsInjective(s),
           Range(s) = { o[x] : x \in D }
    PROVE  OneOwner(f \o s, t, Less(o, D))
<1>1. IsInjective(Less(o, D)) /\ Range(Less(o, D)) = Range(o) \ Range(s) /\ Range(s) \subseteq Range(o)
    BY LessParts DEF OneOwner
<1>2. /\ f \o s \in Seq(Pages) /\ Range(f \o s) = Range(f) \cup Range(s)
      /\ IsInjective(f \o s)
    BY <1>1, ListJoined DEF OneOwner
<1>. QED  BY <1>1, <1>2 DEF OneOwner

\* ... or the first map, where nothing else changes.
LEMMA OwnToTree ==
    ASSUME NEW f, NEW t, NEW o, OneOwner(f, t, o),
           NEW D \in SUBSET DOMAIN o, NEW t2, DOMAIN t \subseteq DOMAIN t2,
           \A n \in DOMAIN t : t2[n] = t[n],
           { t2[n] : n \in DOMAIN t2 \ DOMAIN t } = { o[x] : x \in D },
           \A m, n \in DOMAIN t2 \ DOMAIN t : t2[m] = t2[n] => m = n
    PROVE  OneOwner(f, t2, Less(o, D))
<1>. DEFINE new == { o[x] : x \in D }
<1>1. IsInjective(Less(o, D)) /\ Range(Less(o, D)) = Range(o) \ new /\ new \subseteq Range(o)
    BY LessParts DEF OneOwner
<1>2. Range(t2) = Range(t) \cup new
    BY DEF Range
<1>3. Range(t) \cap new = {}
    BY <1>1 DEF OneOwner
<1>4. ASSUME NEW m \in DOMAIN t2, NEW n \in DOMAIN t2, t2[m] = t2[n]
      PROVE  m = n
  <2>1. CASE m \in DOMAIN t /\ n \in DOMAIN t
      BY <1>4, <2>1 DEF OneOwner, IsInjective
  <2>2. CASE m \notin DOMAIN t /\ n \notin DOMAIN t
      BY <1>4, <2>2
  <2>3. ASSUME NEW a \in DOMAIN t, NEW b \in DOMAIN t2 \ DOMAIN t PROVE t2[a] # t2[b]
      BY <1>3, <2>3 DEF Range
  <2>. QED  BY <1>4, <2>1, <2>2, <2>3
<1>5. IsInjective(t2)
    BY <1>4 DEF IsInjective
<1>. HIDE DEF new
<1>. QED  BY <1>1, <1>2, <1>3, <1>5 DEF OneOwner

\* Pages of the first map join the list.
LEMMA TreeToFree ==
    ASSUME NEW f, NEW t, NEW o, OneOwner(f, t, o),
           NEW D \in SUBSET DOMAIN t, NEW s \in Seq(Pages), IsInjective(s),
           Range(s) = { t[x] : x \in D }
    PROVE  OneOwner(f \o s, Less(t, D), o)
<1>1. IsInjective(Less(t, D)) /\ Range(Less(t, D)) = Range(t) \ Range(s) /\ Range(s) \subseteq Range(t)
    BY LessParts DEF OneOwner
<1>2. /\ f \o s \in Seq(Pages) /\ Range(f \o s) = Range(f) \cup Range(s)
      /\ IsInjective(f \o s)
    BY <1>1, ListJoined DEF OneOwner
<1>. QED  BY <1>1, <1>2 DEF OneOwner

\* The first pages of the list join the last map.
LEMMA FreeToOwn ==
    ASSUME NEW f, NEW t, NEW o, OneOwner(f, t, o),
           NEW c \in 0..Len(f), NEW o2, DOMAIN o \subseteq DOMAIN o2,
           \A x \in DOMAIN o : o2[x] = o[x],
           { o2[x] : x \in DOMAIN o2 \ DOMAIN o } = { f[i] : i \in 1..c },
           \A x, y \in DOMAIN o2 \ DOMAIN o : o2[x] = o2[y] => x = y
    PROVE  OneOwner(SubSeq(f, c + 1, Len(f)), t, o2)
<1>. DEFINE new == { f[i] : i \in 1..c }
            g == SubSeq(f, c + 1, Len(f))
<1>1. f \in Seq(Pages) /\ IsInjective(f) /\ DOMAIN f = 1..Len(f) /\ Len(f) \in Nat
    BY DEF OneOwner
<1>2. /\ g \in Seq(Pages) /\ DOMAIN g = 1..Len(f) - c
      /\ \A i \in 1..Len(f) - c : g[i] = f[c + i] /\ c + i \in 1..Len(f) /\ c + i \notin 1..c
    BY <1>1
<1>. HIDE DEF g
<1>3. IsInjective(g)
  <2>1. ASSUME NEW i \in DOMAIN g, NEW j \in DOMAIN g, g[i] = g[j]
        PROVE  i = j
    <3>1. c + i = c + j
        BY <1>1, <1>2, <2>1 DEF IsInjective
    <3>. QED  BY <1>2, <3>1
  <2>. QED  BY <2>1 DEF IsInjective
<1>4. Range(g) = Range(f) \ new /\ new \subseteq Range(f)
  <2>1. ASSUME NEW p \in Range(g) PROVE p \in Range(f) \ new
    <3>1. PICK i \in 1..Len(f) - c : p = f[c + i]
        BY <1>2, <2>1 DEF Range
    <3>2. c + i \in DOMAIN f /\ c + i \notin 1..c
        BY <1>1, <1>2, <3>1
    <3>3. \A j \in 1..c : j \in DOMAIN f
        BY <1>1
    <3>4. p \notin new
        BY <1>1, <3>1, <3>2, <3>3 DEF IsInjective
    <3>. QED  BY <3>1, <3>2, <3>4 DEF Range
  <2>2. ASSUME NEW p \in Range(f) \ new PROVE p \in Range(g)
    <3>1. PICK i \in 1..Len(f) : p = f[i] /\ i \notin 1..c
        BY <1>1, <2>2 DEF Range
    <3>2. i - c \in DOMAIN g /\ g[i - c] = f[i]
        BY <1>2, <3>1
    <3>. QED  BY <3>1, <3>2 DEF Range
  <2>3. 1..c \subseteq DOMAIN f
      BY <1>1
  <2>4. new \subseteq Range(f)
      BY <2>3 DEF Range
  <2>. HIDE DEF new
  <2>. QED  BY <2>1, <2>2, <2>4
<1>5. Range(o2) = Range(o) \cup new
    BY DEF Range
<1>6. Range(o) \cap new = {}
    BY <1>4 DEF OneOwner
<1>7. ASSUME NEW m \in DOMAIN o2, NEW n \in DOMAIN o2, o2[m] = o2[n]
      PROVE  m = n
  <2>1. CASE m \in DOMAIN o /\ n \in DOMAIN o
      BY <1>7, <2>1 DEF OneOwner, IsInjective
  <2>2. CASE m \notin DOMAIN o /\ n \notin DOMAIN o
      BY <1>7, <2>2
  <2>3. ASSUME NEW a \in DOMAIN o, NEW b \in DOMAIN o2 \ DOMAIN o PROVE o2[a] # o2[b]
    <3>1. o2[a] \in Range(o)
        BY DEF Range
    <3>2. o2[b] \in new
        OBVIOUS
    <3>. HIDE DEF new
    <3>. QED  BY <1>6, <3>1, <3>2
  <2>. QED  BY <1>7, <2>1, <2>2, <2>3
<1>8. IsInjective(o2)
    BY <1>7 DEF IsInjective
<1>. HIDE DEF new
<1>9. OneOwner(g, t, o2)
    BY <1>2, <1>3, <1>4, <1>5, <1>6, <1>8 DEF OneOwner
<1>. QED  BY <1>9 DEF g

----------------------------------------------------------------------------
(* Where a request may be, and how far its tokens have come.               *)

\* The requests of a launched batch whose sampled token is not committed yet,
\* of the last batch and of this one.
Sampling(b) == b.uids \ b.chunks

AwaitLast ==
    IF loop = "normal" THEN {}
    ELSE IF pc = "commit" THEN Sampling(last) \cap todo ELSE Sampling(last)

AwaitBatch ==
    IF pc # "commit" THEN {}
    ELSE IF loop = "normal" THEN Sampling(batch) \cap todo ELSE Sampling(batch)

Building == pc \in {"pack", "evict", "write"}

Prefilling == IF Building /\ batch.phase = "prefill" THEN batch.uids ELSE {}

\* No loop runs behind another, and a batch says what it is.
BatchesAreWhole ==
    /\ loop = "normal" => last = NoBatch
    /\ pc = "recv" => batch = NoBatch
    /\ batch.phase = "none" => batch = NoBatch
    /\ last.phase = "none" => last = NoBatch
    /\ batch.phase = "decode" => batch.chunks = {}
    /\ pc = "pack" => batch.phase # "decode"
    /\ Building => batch.uids \subseteq Holders
    /\ pc \in {"evict", "write"} /\ batch.phase = "decode" => batch.uids = running
    /\ pc = "pack" => batch.uids \subseteq { pending[i] : i \in 1..adder.taken }
    /\ pc = "evict" => todo = batch.uids

\* The batch of a prefill whose token is still to come is of requests that
\* hold their resources and wait for nothing else.
PrefillsHold ==
    /\ batch.phase = "prefill" /\ pc = "commit" => AwaitBatch \subseteq Holders
    /\ last.phase = "prefill" => AwaitLast \subseteq Holders
    /\ batch.phase = "prefill" => batch.uids \cap AwaitLast = {}

\* Who holds resources is somewhere the scheduler will come back to.
HoldersAreKnown ==
    /\ running \subseteq Holders
    /\ \A u \in Holders :
        \/ u \in chunked \cup running
        \/ Building /\ u \in batch.uids
        \/ u \in AwaitLast \cup AwaitBatch /\ req[u].maxDevice = req[u].device

\* Who finished never comes back.
FinishedAreGone ==
    \A u \in finished.old \cup finished.new :
        u \in Uids /\ req[u].freed /\ outcome[u] # "new" /\ u \notin ToSet(pending)

Awaited(u) == (IF u \in AwaitLast THEN 1 ELSE 0) + (IF u \in AwaitBatch THEN 1 ELSE 0)

\* A handle is a page-aligned prefix of the tokens.
HandleIsPrefix(r) ==
    /\ r.handle = PathTo(r.ids, Len(r.handle) \div PageSize)
    /\ Len(r.handle) % PageSize = 0
    /\ Len(r.handle) <= r.cached /\ Len(r.handle) <= Len(r.ids)

\* A prompt or its next chunk is being prefilled.
PrefillLengths(u) ==
    /\ req[u].cached < req[u].device /\ req[u].device <= Len(Prompt[u])
    /\ req[u].ids = FirstIds(Prompt[u], req[u].device)
    /\ u \in chunked <=> req[u].device < Len(Prompt[u])
    /\ u \in chunked <=> u \in batch.chunks
    /\ req[u].device < req[u].maxDevice

\* Between two launches; every launch but that of a chunk owes a token.
SettledLengths(u) ==
    /\ req[u].device = req[u].cached + 1
    /\ IF u \in chunked
       THEN /\ req[u].cached < Len(Prompt[u])
            /\ req[u].ids = FirstIds(Prompt[u], req[u].cached)
       ELSE Len(req[u].ids) + Awaited(u) = req[u].device

LengthsOf(u) ==
    /\ req[u].device <= req[u].maxDevice /\ req[u].maxDevice <= MaxSeqLen
    /\ HandleIsPrefix(req[u])
    /\ IF u \in Prefilling THEN PrefillLengths(u) ELSE SettledLengths(u)

Lengths == \A u \in Holders : LengthsOf(u)

\* Running requests have a token to go when they are launched.
RunningHaveRoom ==
    \A u \in running : u \notin Prefilling => req[u].device < req[u].maxDevice

\* The process stops only when packing promised too much.
StopsOnlyToEvict ==
    /\ fault \in {"none", "evict"}
    /\ pc = "dead" <=> fault = "evict"

Whereabouts ==
    /\ BatchesAreWhole /\ PrefillsHold /\ HoldersAreKnown /\ FinishedAreGone
    /\ Lengths /\ RunningHaveRoom

TrieOK ==
    /\ IsFiniteSet(DOMAIN tree) /\ DOMAIN refs = DOMAIN tree
    /\ \A n \in DOMAIN tree :
        n \in Seq(Nat) /\ n \in PathsOf(n) /\ PathsOf(n) \subseteq DOMAIN tree

LocksOK ==
    /\ \A n \in DOMAIN refs :
         refs[n] = Cardinality({ u \in Holders : n \in PathsOf(req[u].handle) })
    /\ \A u \in Holders : PathsOf(req[u].handle) \subseteq DOMAIN tree

PagesOK ==
    /\ freePages \in Seq(Pages)
    /\ pageTable \in [Rows -> [Pages -> Pages \cup {NoPage}]]
    /\ EveryPageHasOneOwner

PInv ==
    /\ StopsOnlyToEvict
    /\ pc # "dead" => Whereabouts
    /\ TrieOK /\ LocksOK /\ PagesOK

----------------------------------------------------------------------------
(* What requests own.                                                      *)

LEMMA OwnedParts ==
    /\ \A u \in Holders : \A i \in OwnIndices(u) :
         <<u, i>> \in DOMAIN Owned /\ Owned[<<u, i>>] = pageTable[req[u].row][i]
    /\ \A x \in DOMAIN Owned : \E u \in Holders : \E i \in OwnIndices(u) : x = <<u, i>>
<1>. DEFINE D == UNION { {u} \X OwnIndices(u) : u \in Holders }
<1>1. DOMAIN Owned = D
    BY DEF Owned
<1>2. \A at \in D : Owned[at] = pageTable[req[at[1]].row][at[2]]
    BY DEF Owned
<1>3. \A u \in Holders : \A i \in OwnIndices(u) : <<u, i>> \in D
    OBVIOUS
<1>4. ASSUME NEW x \in D PROVE \E u \in Holders : \E i \in OwnIndices(u) : x = <<u, i>>
  <2>1. PICK u \in Holders : x \in {u} \X OwnIndices(u)
      OBVIOUS
  <2>2. PICK i \in OwnIndices(u) : x = <<u, i>>
      BY <2>1
  <2>. QED  BY <2>2
<1>. QED  BY <1>1, <1>2, <1>3, <1>4

\* A map of what requests own is the one with these values.
LEMMA OwnedIs ==
    ASSUME NEW o, o = [x \in DOMAIN o |-> o[x]],
           \A u \in Holders : \A i \in OwnIndices(u) :
               <<u, i>> \in DOMAIN o /\ o[<<u, i>>] = pageTable[req[u].row][i],
           \A x \in DOMAIN o : \E u \in Holders : \E i \in OwnIndices(u) : x = <<u, i>>
    PROVE  Owned = o
<1>1. Owned = [x \in DOMAIN Owned |-> Owned[x]]
    BY DEF Owned
<1>2. DOMAIN Owned = DOMAIN o
    BY OwnedParts
<1>3. \A x \in DOMAIN o : Owned[x] = o[x]
    BY OwnedParts
<1>. QED  BY <1>1, <1>2, <1>3

----------------------------------------------------------------------------
(* Slices of a row.                                                        *)

Slice(row, from, to) == [i \in 1..to - from |-> pageTable[row][from + i]]
Held(u, from, to) == {u} \X (from + 1..to)

LEMMA RowSliceIs ==
    ASSUME NEW row, NEW j \in Nat, NEW n \in Nat, j * PageSize <= n
    PROVE  /\ RowSlice(row, j * PageSize, n) = Slice(row, j, PagesFor(n))
           /\ j <= PagesFor(n)
<1>1. j * PageSize \in Nat /\ (j * PageSize) \div PageSize = j /\ (j * PageSize) % PageSize = 0
    BY WholePages
<1>2. PagesFor(j * PageSize) = j
    BY <1>1, PagesForRest
<1>3. PagesFor(n) \in Nat /\ j <= PagesFor(n)
    BY <1>1, <1>2, PagesForRest, PagesGrow
<1>4. n <= j * PageSize => PagesFor(n) = j
    BY <1>1, <1>2
<1>5. (IF n > j * PageSize THEN PagesFor(n) - (j * PageSize) \div PageSize ELSE 0) = PagesFor(n) - j
    BY <1>1, <1>3, <1>4
<1>. QED  BY <1>1, <1>3, <1>5 DEF RowSlice, Slice

\* A slice of what a request owns lists pages, each of them once.
LEMMA SliceOwned ==
    ASSUME PagesOK, NEW u \in Holders, NEW from \in Nat, NEW to \in Nat,
           from + 1..to \subseteq OwnIndices(u)
    PROVE  /\ Slice(req[u].row, from, to) \in Seq(Pages)
           /\ IsInjective(Slice(req[u].row, from, to))
           /\ Held(u, from, to) \subseteq DOMAIN Owned
           /\ Range(Slice(req[u].row, from, to)) = { Owned[x] : x \in Held(u, from, to) }
<1>. DEFINE s == Slice(req[u].row, from, to)
<1>1. \A i \in from + 1..to : /\ <<u, i>> \in DOMAIN Owned
                              /\ Owned[<<u, i>>] = pageTable[req[u].row][i]
    BY OwnedParts
<1>2. \A x \in DOMAIN Owned : Owned[x] \in Pages
    BY DEF PagesOK, EveryPageHasOneOwner, Range
<1>3. IsInjective(Owned)
    BY DEF PagesOK, EveryPageHasOneOwner
<1>4. /\ DOMAIN s = 1..to - from
      /\ \A i \in 1..to - from : from + i \in from + 1..to /\ s[i] = Owned[<<u, from + i>>]
    BY <1>1 DEF Slice
<1>5. s \in Seq(Pages)
  <2>1. \A i \in 1..to - from : s[i] \in Pages
      BY <1>1, <1>2, <1>4
  <2>2. PICK n \in Nat : 1..to - from = 1..n
    <3>1. CASE to - from \in Nat
        BY <3>1
    <3>2. CASE to - from \notin Nat
      <4>1. 1..to - from = 1..0
          BY <3>2
      <4>. QED  BY <4>1
    <3>. QED  BY <3>1, <3>2
  <2>. QED  BY <1>4, <2>1, <2>2 DEF Slice
<1>. HIDE DEF s
<1>6. IsInjective(s)
  <2>1. ASSUME NEW i \in DOMAIN s, NEW j \in DOMAIN s, s[i] = s[j] PROVE i = j
    <3>. DEFINE a == <<u, from + i>>
                b == <<u, from + j>>
    <3>0. a \in DOMAIN Owned /\ b \in DOMAIN Owned /\ Owned[a] = Owned[b]
        BY <1>1, <1>4, <2>1
    <3>1. a = b
      <4>. HIDE DEF a, b
      <4>. QED  BY <1>3, <3>0 DEF IsInjective
    <3>2. from + i = from + j /\ i \in Int /\ j \in Int
        BY <1>4, <3>1
    <3>. QED  BY <3>2
  <2>. QED  BY <2>1 DEF IsInjective
<1>7. Held(u, from, to) \subseteq DOMAIN Owned
    BY <1>1 DEF Held
<1>8. ASSUME NEW p \in Range(s) PROVE p \in { Owned[x] : x \in Held(u, from, to) }
  <2>1. PICK i \in DOMAIN s : p = s[i]
      BY DEF Range
  <2>2. <<u, from + i>> \in Held(u, from, to) /\ p = Owned[<<u, from + i>>]
      BY <1>4, <2>1 DEF Held
  <2>. QED  BY <2>2
<1>9. ASSUME NEW x \in Held(u, from, to) PROVE Owned[x] \in Range(s)
  <2>1. PICK j \in from + 1..to : x = <<u, j>>
      BY DEF Held
  <2>2. j - from \in 1..to - from /\ from + (j - from) = j
      OBVIOUS
  <2>3. s[j - from] = Owned[x] /\ j - from \in DOMAIN s
      BY <1>4, <2>1, <2>2
  <2>. QED  BY <2>3 DEF Range
<1>. QED  BY <1>5, <1>6, <1>7, <1>8, <1>9 DEF s

----------------------------------------------------------------------------
(* Pages of a request that is cached or released.                          *)

\* ids are the tokens of u whose pages it has, those of its handle first.
Settling(u, ids) ==
    /\ u \in Holders /\ ids \in Seq(Nat)
    /\ HandlePages(u) \in Depths(ids)
    /\ req[u].handle = PathTo(ids, HandlePages(u))
    /\ OwnIndices(u) = HandlePages(u) + 1..PagesFor(Len(ids))

LEMMA SettlingDepths ==
    ASSUME TrieOK, LocksOK, NEW u, NEW ids, Settling(u, ids)
    PROVE  /\ HandlePages(u) \in Nat /\ MatchedPages(tree, ids) \in Nat
           /\ Len(ids) \div PageSize \in Nat /\ PagesFor(Len(ids)) \in Nat
           /\ HandlePages(u) <= MatchedPages(tree, ids)
           /\ MatchedPages(tree, ids) <= Len(ids) \div PageSize
           /\ Len(ids) \div PageSize <= PagesFor(Len(ids))
           /\ Len(req[u].handle) = HandlePages(u) * PageSize
           /\ Len(MatchPrefix(tree, ids)) = MatchedPages(tree, ids) * PageSize
           /\ MatchedPages(tree, ids) * PageSize <= Len(ids)
<1>. DEFINE h == HandlePages(u)
            m == MatchedPages(tree, ids)
            k == Len(ids) \div PageSize
<1>1. ids \in Seq(Nat) /\ Len(ids) \in Nat /\ h \in Depths(ids) /\ req[u].handle = PathTo(ids, h)
    BY DEF Settling
<1>2. k \in Nat /\ PagesFor(Len(ids)) \in Nat /\ k <= PagesFor(Len(ids))
    BY <1>1, Division, PagesForRest, PagesGrow
<1>3. h \in Nat /\ h <= k /\ Len(req[u].handle) = h * PageSize
    BY <1>1, <1>2, PathElements DEF Depths
<1>4. m \in 0..k /\ Len(MatchPrefix(tree, ids)) = m * PageSize /\ Len(MatchPrefix(tree, ids)) \in 0..Len(ids)
    BY <1>1, MatchPrefixType
<1>5. h <= m
  <2>1. CASE h = 0
      BY <1>4, <2>1
  <2>2. CASE h # 0
    <3>1. h \in 1..k
        BY <1>2, <1>3, <2>2
    <3>2. PathTo(ids, h) \in PathsOf(PathTo(ids, h))
        BY <1>1, <1>3, <2>2, PathsOfPath
    <3>3. PathTo(ids, h) \in DOMAIN tree
        BY <1>1, <3>2 DEF LocksOK, Settling
    <3>4. Closed(DOMAIN tree)
        BY DEF TrieOK, Closed
    <3>. QED  BY <1>1, <3>1, <3>3, <3>4, HeldPathsAreFirst
  <2>. QED  BY <2>1, <2>2
<1>. QED  BY <1>1, <1>2, <1>3, <1>4, <1>5

\* The nodes an insertion adds get the pages between the match and the last
\* full page.
Inserts(t2, ids, row, m, k) ==
    /\ DOMAIN t2 = DOMAIN tree \cup PathsOf(ids)
    /\ \A n \in DOMAIN tree : t2[n] = tree[n]
    /\ \A i \in m + 1..k : PathTo(ids, i) \in DOMAIN t2 \ DOMAIN tree /\ t2[PathTo(ids, i)] = row[i]
    /\ \A n \in DOMAIN t2 \ DOMAIN tree : \E i \in m + 1..k : n = PathTo(ids, i) /\ t2[n] = row[i]

LEMMA InsertedPages ==
    ASSUME TrieOK, LocksOK, NEW u, NEW ids, Settling(u, ids), NEW row
    PROVE  Inserts(InsertPages(tree, ids, row), ids, row,
                   MatchedPages(tree, ids), Len(ids) \div PageSize)
<1>. DEFINE t2 == InsertPages(tree, ids, row)
            m == MatchedPages(tree, ids)
            k == Len(ids) \div PageSize
<1>1. ids \in Seq(Nat) /\ m \in Nat /\ k \in Nat /\ m <= k
    BY SettlingDepths DEF Settling
<1>2. Closed(DOMAIN tree)
    BY DEF TrieOK, Closed
<1>3. \A i \in 1..k : PathTo(ids, i) \in DOMAIN tree <=> i <= m
    BY <1>1, <1>2, HeldPathsAreFirst
<1>4. \A i \in 1..k : Len(PathTo(ids, i)) \div PageSize = i
    BY <1>1, PathElements DEF Depths
<1>5. /\ DOMAIN t2 = DOMAIN tree \cup PathsOf(ids)
      /\ \A n \in DOMAIN tree : t2[n] = tree[n]
      /\ \A n \in DOMAIN t2 \ DOMAIN tree : t2[n] = row[Len(n) \div PageSize]
    BY DEF InsertPages
<1>6. PathsOf(ids) = { PathTo(ids, i) : i \in 1..k }
    BY DEF PathsOf
<1>. HIDE DEF t2, m, k
<1>7. \A i \in m + 1..k : PathTo(ids, i) \in DOMAIN t2 \ DOMAIN tree /\ t2[PathTo(ids, i)] = row[i]
    BY <1>1, <1>3, <1>4, <1>5, <1>6
<1>8. ASSUME NEW n \in DOMAIN t2 \ DOMAIN tree
      PROVE  \E i \in m + 1..k : n = PathTo(ids, i) /\ t2[n] = row[i]
  <2>1. PICK i \in 1..k : n = PathTo(ids, i)
      BY <1>5, <1>6
  <2>2. i \in m + 1..k
      BY <1>1, <1>3, <2>1
  <2>. QED  BY <1>4, <1>5, <2>1, <2>2
<1>9. Inserts(t2, ids, row, m, k)
    BY <1>5, <1>7, <1>8 DEF Inserts
<1>. QED  BY <1>9 DEF t2, m, k

\* What cache_req does to the pages, whether the request goes on or not: the
\* pages somebody else inserted first become free, those of the rest of the
\* full pages become the cache's.
LEMMA CacheMoves ==
    ASSUME PagesOK, TrieOK, LocksOK, NEW u, NEW ids, Settling(u, ids)
    PROVE  /\ OneOwner(freePages \o RowSlice(req[u].row, Len(req[u].handle), Len(MatchPrefix(tree, ids))),
                       InsertPages(tree, ids, pageTable[req[u].row]),
                       Less(Owned, Held(u, HandlePages(u), Len(ids) \div PageSize)))
           /\ Held(u, HandlePages(u), Len(ids) \div PageSize) \subseteq DOMAIN Owned
           /\ freePages \o RowSlice(req[u].row, Len(req[u].handle), Len(MatchPrefix(tree, ids))) \in Seq(Pages)
           /\ Range(freePages) \subseteq Range(freePages \o RowSlice(req[u].row, Len(req[u].handle), Len(MatchPrefix(tree, ids))))
<1>. DEFINE row == req[u].row
            h == HandlePages(u)
            m == MatchedPages(tree, ids)
            k == Len(ids) \div PageSize
            a == PagesFor(Len(ids))
            s == RowSlice(row, Len(req[u].handle), Len(MatchPrefix(tree, ids)))
            t2 == InsertPages(tree, ids, pageTable[row])
            C == Held(u, h, m)
            D == Held(u, m, k)
<1>1. /\ h \in Nat /\ m \in Nat /\ k \in Nat /\ a \in Nat /\ h <= m /\ m <= k /\ k <= a
      /\ Len(req[u].handle) = h * PageSize /\ Len(MatchPrefix(tree, ids)) = m * PageSize
    BY SettlingDepths
<1>2. u \in Holders /\ OwnIndices(u) = h + 1..a
    BY DEF Settling
<1>3. s = Slice(row, h, m)
  <2>1. m * PageSize \in Nat /\ h * PageSize <= m * PageSize
      BY <1>1, FewerPages, WholePages
  <2>2. PagesFor(m * PageSize) = m
      BY <1>1, <2>1, WholePages, PagesForRest
  <2>. QED  BY <1>1, <2>1, <2>2, RowSliceIs
<1>4. h + 1..m \subseteq OwnIndices(u) /\ m + 1..k \subseteq OwnIndices(u) /\ h + 1..k \subseteq OwnIndices(u)
    BY <1>1, <1>2
<1>5. s \in Seq(Pages) /\ IsInjective(s) /\ C \subseteq DOMAIN Owned /\ Range(s) = { Owned[x] : x \in C }
    BY <1>1, <1>2, <1>3, <1>4, SliceOwned
<1>6. D \subseteq DOMAIN Owned /\ Held(u, h, k) \subseteq DOMAIN Owned
    BY <1>1, <1>2, <1>4, SliceOwned
<1>7. C \cap D = {} /\ Held(u, h, k) = C \cup D
    BY <1>1 DEF Held
<1>8. OneOwner(freePages, tree, Owned)
    BY DEF PagesOK, EveryPageHasOneOwner, OneOwner
<1>9. OneOwner(freePages \o s, tree, Less(Owned, C))
    BY <1>5, <1>8, OwnToFree
<1>9a. freePages \o s \in Seq(Pages) /\ Range(freePages) \subseteq Range(freePages \o s)
  <2>. HIDE DEF s
  <2>1. freePages \in Seq(Pages)
      BY <1>8 DEF OneOwner
  <2>. QED  BY <1>5, <2>1, ListJoined
<1>10. /\ DOMAIN tree \subseteq DOMAIN t2
       /\ \A n \in DOMAIN tree : t2[n] = tree[n]
       /\ \A i \in m + 1..k : /\ PathTo(ids, i) \in DOMAIN t2 \ DOMAIN tree
                              /\ t2[PathTo(ids, i)] = pageTable[row][i]
       /\ \A n \in DOMAIN t2 \ DOMAIN tree :
             \E i \in m + 1..k : n = PathTo(ids, i) /\ t2[n] = pageTable[row][i]
  <2>1. Inserts(t2, ids, pageTable[row], m, k)
      BY InsertedPages
  <2>. HIDE DEF t2, m, k
  <2>. QED  BY <2>1 DEF Inserts
<1>11. \A i \in m + 1..k : /\ <<u, i>> \in D /\ <<u, i>> \in DOMAIN Less(Owned, C)
                           /\ Less(Owned, C)[<<u, i>>] = pageTable[row][i]
  <2>1. ASSUME NEW i \in m + 1..k
        PROVE  /\ <<u, i>> \in D /\ <<u, i>> \in DOMAIN Less(Owned, C)
               /\ Less(Owned, C)[<<u, i>>] = pageTable[row][i]
    <3>1. <<u, i>> \in D
        BY DEF Held
    <3>2. <<u, i>> \in DOMAIN Owned /\ <<u, i>> \notin C /\ Owned[<<u, i>>] = pageTable[row][i]
      <4>1. i \in OwnIndices(u)
          BY <1>4
      <4>. QED  BY <1>2, <1>7, <3>1, <4>1, OwnedParts
    <3>. QED  BY <3>1, <3>2 DEF Less
  <2>. QED  BY <2>1
<1>12. D \subseteq DOMAIN Less(Owned, C) /\ \A x \in D : \E i \in m + 1..k : x = <<u, i>>
    BY <1>6, <1>7 DEF Less, Held
<1>. DEFINE o == Less(Owned, C)
<1>. HIDE DEF D, t2, m, k, o
<1>13. { t2[n] : n \in DOMAIN t2 \ DOMAIN tree } = { o[x] : x \in D }
  <2>1. \A n \in DOMAIN t2 \ DOMAIN tree : \E x \in D : t2[n] = o[x]
    <3>1. ASSUME NEW n \in DOMAIN t2 \ DOMAIN tree PROVE \E x \in D : t2[n] = o[x]
      <4>1. PICK i \in m + 1..k : n = PathTo(ids, i) /\ t2[n] = pageTable[row][i]
          BY <1>10
      <4>2. <<u, i>> \in D /\ o[<<u, i>>] = t2[n]
          BY <1>11, <4>1 DEF o
      <4>. QED  BY <4>2
    <3>. QED  BY <3>1
  <2>2. \A x \in D : \E n \in DOMAIN t2 \ DOMAIN tree : t2[n] = o[x]
    <3>1. ASSUME NEW x \in D PROVE \E n \in DOMAIN t2 \ DOMAIN tree : t2[n] = o[x]
      <4>1. PICK i \in m + 1..k : x = <<u, i>>
          BY <1>12
      <4>. QED  BY <1>10, <1>11, <4>1 DEF o
    <3>. QED  BY <3>1
  <2>. QED  BY <2>1, <2>2
<1>14. IsInjective(o)
    BY <1>9 DEF OneOwner, o
<1>15. ASSUME NEW p \in DOMAIN t2 \ DOMAIN tree, NEW q \in DOMAIN t2 \ DOMAIN tree, t2[p] = t2[q]
       PROVE  p = q
  <2>1. PICK i \in m + 1..k : p = PathTo(ids, i) /\ t2[p] = pageTable[row][i]
      BY <1>10
  <2>2. PICK j \in m + 1..k : q = PathTo(ids, j) /\ t2[q] = pageTable[row][j]
      BY <1>10
  <2>. DEFINE x == <<u, i>>
              y == <<u, j>>
  <2>3. x \in DOMAIN o /\ y \in DOMAIN o /\ o[x] = o[y]
      BY <1>11, <1>15, <2>1, <2>2 DEF o
  <2>4. x = y
    <3>. HIDE DEF x, y
    <3>. QED  BY <1>14, <2>3 DEF IsInjective
  <2>5. i = j
      BY <2>4
  <2>. QED  BY <2>1, <2>2, <2>5
<1>16. OneOwner(freePages \o s, t2, Less(o, D))
  <2>1. OneOwner(freePages \o s, tree, o) /\ D \subseteq DOMAIN o
      BY <1>9, <1>12 DEF o
  <2>. QED  BY <1>10, <1>13, <1>15, <2>1, OwnToTree
<1>. HIDE DEF C
<1>17. Less(o, D) = Less(Owned, C \cup D)
    BY DEF o, Less
<1>. QED  BY <1>6, <1>7, <1>16, <1>17, <1>9a DEF t2, m, k

\* With cache_output, a finished request gives the rest of its pages back.
LEMMA CachedReleaseMoves ==
    ASSUME PagesOK, TrieOK, LocksOK, NEW u, NEW ids, Settling(u, ids)
    PROVE  /\ OneOwner(freePages
                          \o RowSlice(req[u].row, Len(req[u].handle), Len(MatchPrefix(tree, ids)))
                          \o TailSlice(req[u].row, ids),
                       InsertPages(tree, ids, pageTable[req[u].row]),
                       Less(Owned, Held(u, HandlePages(u), PagesFor(Len(ids)))))
           /\ Range(freePages) \subseteq
                Range(freePages
                        \o RowSlice(req[u].row, Len(req[u].handle), Len(MatchPrefix(tree, ids)))
                        \o TailSlice(req[u].row, ids))
<1>. DEFINE row == req[u].row
            h == HandlePages(u)
            k == Len(ids) \div PageSize
            a == PagesFor(Len(ids))
            f == freePages \o RowSlice(row, Len(req[u].handle), Len(MatchPrefix(tree, ids)))
            s == TailSlice(row, ids)
            t2 == InsertPages(tree, ids, pageTable[row])
            C == Held(u, h, k)
            D == Held(u, k, a)
<1>1. h \in Nat /\ k \in Nat /\ a \in Nat /\ h <= k /\ k <= a
    BY SettlingDepths
<1>2. u \in Holders /\ OwnIndices(u) = h + 1..a /\ ids \in Seq(Nat) /\ Len(ids) \in Nat
    BY DEF Settling
<1>3. s = Slice(row, k, a)
  <2>. DEFINE n == Len(ids)
              r == n % PageSize
  <2>1. n \in Nat /\ n = k * PageSize + r /\ r \in Nat /\ k * PageSize \in Nat
      BY <1>1, <1>2, Division, WholePages
  <2>2. AlignDown(n) = n - r
      BY DEF AlignDown
  <2>3. AlignDown(n) = k * PageSize /\ k * PageSize <= n
    <3>. HIDE DEF n, r, k
    <3>. QED  BY <2>1, <2>2
  <2>. QED  BY <1>1, <1>2, <2>3, RowSliceIs DEF TailSlice
<1>4. k + 1..a \subseteq OwnIndices(u) /\ h + 1..a \subseteq OwnIndices(u)
    BY <1>1, <1>2
<1>5. s \in Seq(Pages) /\ IsInjective(s) /\ D \subseteq DOMAIN Owned /\ Range(s) = { Owned[x] : x \in D }
    BY <1>1, <1>2, <1>3, <1>4, SliceOwned
<1>6. C \cap D = {} /\ Held(u, h, a) = C \cup D
    BY <1>1 DEF Held
<1>7. /\ OneOwner(f, t2, Less(Owned, C)) /\ C \subseteq DOMAIN Owned
      /\ f \in Seq(Pages) /\ Range(freePages) \subseteq Range(f)
    BY CacheMoves
<1>. HIDE DEF C, D, f, s, t2
<1>8. D \subseteq DOMAIN Less(Owned, C) /\ Range(s) = { Less(Owned, C)[x] : x \in D }
    BY <1>5, <1>6 DEF Less
<1>9. OneOwner(f \o s, t2, Less(Less(Owned, C), D))
    BY <1>5, <1>7, <1>8, OwnToFree
<1>10. Less(Less(Owned, C), D) = Less(Owned, C \cup D)
    BY DEF Less
<1>11. Range(freePages) \subseteq Range(f \o s)
    BY <1>5, <1>7, ListJoined
<1>. QED  BY <1>6, <1>9, <1>10, <1>11 DEF f, s, t2

\* Without it, all of them.
LEMMA PlainReleaseMoves ==
    ASSUME PagesOK, TrieOK, LocksOK, NEW u, NEW ids, Settling(u, ids)
    PROVE  /\ OneOwner(freePages \o RowSlice(req[u].row, Len(req[u].handle), Len(ids)), tree,
                       Less(Owned, Held(u, HandlePages(u), PagesFor(Len(ids)))))
           /\ Range(freePages) \subseteq
                Range(freePages \o RowSlice(req[u].row, Len(req[u].handle), Len(ids)))
<1>. DEFINE row == req[u].row
            h == HandlePages(u)
            a == PagesFor(Len(ids))
            s == RowSlice(row, Len(req[u].handle), Len(ids))
            D == Held(u, h, a)
<1>1. h \in Nat /\ a \in Nat /\ h <= a /\ Len(req[u].handle) = h * PageSize
    BY SettlingDepths
<1>2. u \in Holders /\ OwnIndices(u) = h + 1..a /\ ids \in Seq(Nat) /\ Len(ids) \in Nat
    BY DEF Settling
<1>3. s = Slice(row, h, a)
  <2>1. h * PageSize <= Len(ids)
      BY PathElements DEF Settling
  <2>. QED  BY <1>1, <1>2, <2>1, RowSliceIs
<1>4. h + 1..a \subseteq OwnIndices(u)
    BY <1>2
<1>5. s \in Seq(Pages) /\ IsInjective(s) /\ D \subseteq DOMAIN Owned /\ Range(s) = { Owned[x] : x \in D }
    BY <1>1, <1>2, <1>3, <1>4, SliceOwned
<1>6. OneOwner(freePages, tree, Owned)
    BY DEF PagesOK, EveryPageHasOneOwner, OneOwner
<1>. HIDE DEF s, D
<1>7. OneOwner(freePages \o s, tree, Less(Owned, D))
    BY <1>5, <1>6, OwnToFree
<1>8. Range(freePages) \subseteq Range(freePages \o s)
    BY <1>5, <1>6, ListJoined DEF OneOwner
<1>. QED  BY <1>7, <1>8 DEF s, D

LEMMA NextOwnedIs ==
    ASSUME NEW o, o = [x \in DOMAIN o |-> o[x]],
           \A u \in Holders' : \A i \in OwnIndices(u)' :
               <<u, i>> \in DOMAIN o /\ o[<<u, i>>] = pageTable'[req'[u].row][i],
           \A x \in DOMAIN o : \E u \in Holders' : \E i \in OwnIndices(u)' : x = <<u, i>>
    PROVE  Owned' = o
<1>. DEFINE D == UNION { {u} \X OwnIndices(u)' : u \in Holders' }
<1>1. Owned' = [at \in D |-> pageTable'[req'[at[1]].row][at[2]]]
    BY DEF Owned
<1>2. ASSUME NEW x \in D
      PROVE  \E u \in Holders' : \E i \in OwnIndices(u)' : x = <<u, i>>
  <2>1. PICK u \in Holders' : x \in {u} \X OwnIndices(u)'
      OBVIOUS
  <2>2. PICK i \in OwnIndices(u)' : x = <<u, i>>
      BY <2>1
  <2>. QED  BY <2>2
<1>3. ASSUME NEW u \in Holders', NEW i \in OwnIndices(u)' PROVE <<u, i>> \in D
  <2>1. <<u, i>> \in {u} \X OwnIndices(u)'
      OBVIOUS
  <2>. QED  BY <2>1
<1>4. D = DOMAIN o
    BY <1>2, <1>3
<1>5. \A x \in D : pageTable'[req'[x[1]].row][x[2]] = o[x]
    BY <1>2
<1>. HIDE DEF D
<1>. QED  BY <1>1, <1>4, <1>5

\* Outside of allocation, a request has the pages of its cached tokens.
LEMMA AllocatedAtRest ==
    ASSUME NEW u \in Uids, pc # "write"
    PROVE  OwnIndices(u) = HandlePages(u) + 1..PagesFor(req[u].cached)
    BY DEF OwnIndices, Allocated

LEMMA NextAllocatedAtRest ==
    ASSUME NEW u \in Uids, pc' # "write"
    PROVE  OwnIndices(u)' = (HandlePages(u)') + 1..PagesFor(req'[u].cached)
    BY DEF OwnIndices, Allocated

----------------------------------------------------------------------------
(* Locks.                                                                  *)

Lockers(n) == { u \in Holders : n \in PathsOf(req[u].handle) }

\* The count of a node without the request u.
Others(n, u) == Cardinality(Lockers(n) \ {u})

LEMMA LockersCount ==
    ASSUME LocksOK, NEW u \in Holders, NEW n \in DOMAIN refs
    PROVE  /\ Others(n, u) \in Nat
           /\ refs[n] = IF n \in PathsOf(req[u].handle) THEN Others(n, u) + 1 ELSE Others(n, u)
<1>1. IsFiniteSet(Holders) /\ Lockers(n) \subseteq Holders
  <2>1. Holders \subseteq Uids /\ IsFiniteSet(Uids)
      BY SchedulerAssumption DEF Holders
  <2>. QED  BY <2>1, FS_Subset DEF Lockers
<1>2. IsFiniteSet(Lockers(n))
    BY <1>1, FS_Subset
<1>3. IsFiniteSet(Lockers(n) \ {u}) /\ Others(n, u) \in Nat
    BY <1>2, FS_RemoveElement, FS_CardinalityType DEF Others
<1>4. Cardinality(Lockers(n) \ {u}) = IF u \in Lockers(n) THEN Cardinality(Lockers(n)) - 1
                                      ELSE Cardinality(Lockers(n))
    BY <1>2, FS_RemoveElement
<1>5. refs[n] = Cardinality(Lockers(n)) /\ Cardinality(Lockers(n)) \in Nat
    BY <1>2, FS_CardinalityType DEF LocksOK, Lockers
<1>6. u \in Lockers(n) <=> n \in PathsOf(req[u].handle)
    BY DEF Lockers
<1>. QED  BY <1>3, <1>4, <1>5, <1>6 DEF Others

\* Whoever holds a handle has a reference on its nodes.
LEMMA NoUnderflow ==
    ASSUME LocksOK, TrieOK, NEW u \in Holders, NEW ids
    PROVE  ~UnlockUnderflows(InsertRefs(refs, ids), req[u].handle)
<1>1. ASSUME NEW n \in PathsOf(req[u].handle)
      PROVE  n \in DOMAIN InsertRefs(refs, ids) /\ InsertRefs(refs, ids)[n] # 0
  <2>1. n \in DOMAIN refs
      BY DEF LocksOK, TrieOK
  <2>2. refs[n] = Others(n, u) + 1 /\ Others(n, u) \in Nat
      BY <2>1, LockersCount
  <2>. QED  BY <2>1, <2>2 DEF InsertRefs
<1>. QED  BY <1>1 DEF UnlockUnderflows

\* An insertion adds nodes nobody locks.
LEMMA InsertedCount ==
    ASSUME LocksOK, TrieOK, NEW u \in Holders, NEW ids,
           NEW n \in DOMAIN InsertRefs(refs, ids)
    PROVE  /\ Others(n, u) \in Nat
           /\ InsertRefs(refs, ids)[n] =
                IF n \in PathsOf(req[u].handle) THEN Others(n, u) + 1 ELSE Others(n, u)
<1>1. CASE n \in DOMAIN refs
    BY <1>1, LockersCount DEF InsertRefs
<1>2. CASE n \notin DOMAIN refs
  <2>1. Lockers(n) = {}
      BY <1>2 DEF Lockers, LocksOK, TrieOK
  <2>2. Others(n, u) = 0
      BY <2>1, FS_EmptySet DEF Others
  <2>3. n \notin PathsOf(req[u].handle)
      BY <1>2 DEF LocksOK, TrieOK
  <2>. QED  BY <1>2, <2>2, <2>3 DEF InsertRefs
<1>. QED  BY <1>1, <1>2

\* When the locks of everybody but u stay, the counts are right with u's new
\* lock, or without one.
LEMMA NextLocks ==
    ASSUME NEW u \in Holders, DOMAIN refs' = DOMAIN tree',
           Holders' \in {Holders, Holders \ {u}},
           \A v \in Holders \ {u} : req'[v].handle = req[v].handle,
           \A v \in Holders \ {u} : PathsOf(req[v].handle) \subseteq DOMAIN tree',
           u \in Holders' => PathsOf(req'[u].handle) \subseteq DOMAIN tree',
           \A n \in DOMAIN refs' :
              /\ Others(n, u) \in Nat
              /\ refs'[n] = IF u \in Holders' /\ n \in PathsOf(req'[u].handle)
                            THEN Others(n, u) + 1 ELSE Others(n, u)
    PROVE  LocksOK'
<1>1. ASSUME NEW n \in DOMAIN refs'
      PROVE  refs'[n] = Cardinality({ v \in Holders' : n \in PathsOf(req'[v].handle) })
  <2>. DEFINE S == { v \in Holders' : n \in PathsOf(req'[v].handle) }
              T == Lockers(n) \ {u}
  <2>1. IsFiniteSet(T)
    <3>1. T \subseteq Uids /\ IsFiniteSet(Uids)
        BY SchedulerAssumption DEF Lockers, Holders
    <3>. QED  BY <3>1, FS_Subset
  <2>2. CASE u \in Holders' /\ n \in PathsOf(req'[u].handle)
    <3>1. S = T \cup {u} /\ u \notin T
        BY <2>2 DEF Lockers
    <3>2. Cardinality(T \cup {u}) = Cardinality(T) + 1
        BY <2>1, <3>1, FS_AddElement
    <3>. QED  BY <2>2, <3>1, <3>2 DEF Others
  <2>3. CASE ~(u \in Holders' /\ n \in PathsOf(req'[u].handle))
    <3>1. S = T
        BY <2>3 DEF Lockers
    <3>. QED  BY <2>3, <3>1 DEF Others
  <2>. QED  BY <2>2, <2>3
<1>2. \A v \in Holders' : PathsOf(req'[v].handle) \subseteq DOMAIN tree'
    OBVIOUS
<1>. QED  BY <1>1, <1>2 DEF LocksOK

LEMMA NextPages ==
    ASSUME OneOwner(freePages', tree', Owned'),
           pageTable' \in [Rows -> [Pages -> Pages \cup {NoPage}]]
    PROVE  PagesOK'
    BY DEF OneOwner, PagesOK, EveryPageHasOneOwner

\* An insertion keeps the trie closed.
LEMMA InsertKeepsTrie ==
    ASSUME TrieOK, NEW ids \in Seq(Nat), NEW row,
           tree' = InsertPages(tree, ids, row), DOMAIN refs' = DOMAIN tree'
    PROVE  TrieOK'
<1>1. DOMAIN tree' = DOMAIN tree \cup PathsOf(ids)
    BY DEF InsertPages
<1>2. IsFiniteSet(DOMAIN tree')
  <2>1. IsFiniteSet(PathsOf(ids)) /\ IsFiniteSet(DOMAIN tree)
      BY FewPaths DEF TrieOK
  <2>2. IsFiniteSet(DOMAIN tree \cup PathsOf(ids))
      BY <2>1, FS_Union
  <2>. QED  BY <1>1, <2>2
<1>3. \A n \in PathsOf(ids) : n \in Seq(Nat) /\ n \in PathsOf(n) /\ PathsOf(n) \subseteq PathsOf(ids)
    BY PathKnown
<1>. QED  BY <1>1, <1>2, <1>3 DEF TrieOK

\* The free list and the cache keep what they have, and no row is written.
Gives ==
    /\ pageTable' = pageTable
    /\ Range(freePages) \subseteq Range(freePages')
    /\ Range(tree) \subseteq Range(tree')

LEMMA InsertKeepsPages ==
    ASSUME NEW ids, NEW row, tree' = InsertPages(tree, ids, row)
    PROVE  Range(tree) \subseteq Range(tree')
<1>1. DOMAIN tree \subseteq DOMAIN tree' /\ \A n \in DOMAIN tree : tree'[n] = tree[n]
    BY DEF InsertPages
<1>. QED  BY <1>1 DEF Range

\* Releasing a request that holds its resources trips no assertion, and its
\* pages become free or the cache's.
LEMMA ReleaseEffect ==
    ASSUME TypeOK, TrieOK, LocksOK, PagesOK, NEW u \in Holders, NEW r \in ReqObjects,
           r.row = req[u].row, r.handle = req[u].handle, ~r.freed,
           Settling(u, InsertIds(r)), pc # "write", pc' # "write",
           FreeReqResources(u, r)
    PROVE  /\ fault' = fault /\ Holders' = Holders \ {u}
           /\ \A v \in Uids \ {u} : req'[v] = req[v]
           /\ TrieOK' /\ LocksOK' /\ PagesOK' /\ Gives
<1>. DEFINE ids == InsertIds(r)
            D == Held(u, HandlePages(u), PagesFor(Len(ids)))
<1>1. u \in Uids /\ ids \in Seq(Nat)
    BY DEF Holders, Settling
<1>2. /\ req' = [req EXCEPT ![u] = [r EXCEPT !.freed = TRUE]]
      /\ fault' = fault
      /\ Release(r.row, r.handle, ids, u \in CacheOutput)
    BY NoUnderflow DEF FreeReqResources, ReleaseOnce
<1>3. \A v \in Uids \ {u} : req'[v] = req[v]
    BY <1>2 DEF TypeOK
<1>4. req'[u].freed
    BY <1>1, <1>2 DEF TypeOK, ReqObjects
<1>5. Holders' = Holders \ {u}
    BY <1>3, <1>4 DEF Holders
<1>6. pageTable' = pageTable
    BY <1>2 DEF Release
<1>. HIDE DEF ids
<1>7. Owned' = Less(Owned, D)
  <2>1. OwnIndices(u) = HandlePages(u) + 1..PagesFor(Len(ids))
      BY DEF Settling, ids
  <2>2. \A v \in Holders \ {u} : OwnIndices(v)' = OwnIndices(v)
      BY <1>3, AllocatedAtRest, NextAllocatedAtRest DEF Holders, HandlePages
  <2>. DEFINE o == Less(Owned, D)
  <2>3. o = [x \in DOMAIN o |-> o[x]] /\ DOMAIN o = DOMAIN Owned \ D
      BY DEF Less
  <2>4. \A v \in Holders' : \A i \in OwnIndices(v)' :
          <<v, i>> \in DOMAIN o /\ o[<<v, i>>] = pageTable'[req'[v].row][i]
    <3>1. ASSUME NEW v \in Holders', NEW i \in OwnIndices(v)'
          PROVE  <<v, i>> \in DOMAIN o /\ o[<<v, i>>] = pageTable'[req'[v].row][i]
      <4>1. v \in Holders /\ v # u /\ i \in OwnIndices(v) /\ req'[v] = req[v]
          BY <1>3, <1>5, <2>2 DEF Holders
      <4>2. <<v, i>> \in DOMAIN Owned /\ Owned[<<v, i>>] = pageTable[req[v].row][i] /\ <<v, i>> \notin D
          BY <4>1, OwnedParts DEF Held
      <4>. QED  BY <1>6, <2>3, <4>1, <4>2 DEF Less
    <3>. QED  BY <3>1
  <2>5. \A x \in DOMAIN o : \E v \in Holders' : \E i \in OwnIndices(v)' : x = <<v, i>>
    <3>1. ASSUME NEW x \in DOMAIN o
          PROVE  \E v \in Holders' : \E i \in OwnIndices(v)' : x = <<v, i>>
      <4>1. PICK v \in Holders : \E i \in OwnIndices(v) : x = <<v, i>>
          BY <2>3, OwnedParts
      <4>2. PICK i \in OwnIndices(v) : x = <<v, i>>
          BY <4>1
      <4>3. v # u
          BY <2>1, <2>3, <4>2 DEF Held
      <4>. QED  BY <1>5, <2>2, <4>2, <4>3
    <3>. QED  BY <3>1
  <2>. HIDE DEF o
  <2>6. Owned' = o
      BY <2>3, <2>4, <2>5, NextOwnedIs
  <2>. QED  BY <2>6 DEF o
<1>8. CASE u \notin CacheOutput
  <2>1. /\ refs' = Unlock(refs, req[u].handle) /\ tree' = tree
        /\ freePages' = freePages \o RowSlice(req[u].row, Len(req[u].handle), Len(ids))
      BY <1>2, <1>8 DEF Release
  <2>2. PagesOK'
    <3>1. OneOwner(freePages', tree', Less(Owned, D))
        BY <2>1, PlainReleaseMoves DEF ids
    <3>. QED  BY <1>6, <1>7, <3>1, NextPages DEF PagesOK
  <2>3. TrieOK'
      BY <2>1 DEF TrieOK, Unlock
  <2>4. LocksOK'
    <3>1. DOMAIN refs' = DOMAIN tree' /\ DOMAIN refs' = DOMAIN refs
        BY <2>1 DEF TrieOK, Unlock
    <3>2. \A n \in DOMAIN refs' : Others(n, u) \in Nat /\ refs'[n] = Others(n, u)
        BY <2>1, <3>1, LockersCount DEF Unlock
    <3>. QED  BY <1>3, <1>5, <2>1, <3>1, <3>2, NextLocks DEF LocksOK, Holders
  <2>5. Gives
      BY <1>6, <2>1, PlainReleaseMoves DEF Gives, ids
  <2>. QED  BY <1>2, <1>3, <1>5, <2>2, <2>3, <2>4, <2>5
<1>9. CASE u \in CacheOutput
  <2>1. /\ refs' = Unlock(InsertRefs(refs, ids), req[u].handle)
        /\ tree' = InsertPages(tree, ids, pageTable[req[u].row])
        /\ freePages' = freePages
             \o RowSlice(req[u].row, Len(req[u].handle), Len(MatchPrefix(tree, ids)))
             \o TailSlice(req[u].row, ids)
      BY <1>2, <1>9 DEF Release
  <2>2. PagesOK'
    <3>1. OneOwner(freePages', tree', Less(Owned, D))
        BY <2>1, CachedReleaseMoves DEF ids
    <3>. QED  BY <1>6, <1>7, <3>1, NextPages DEF PagesOK
  <2>3. DOMAIN refs' = DOMAIN tree' /\ DOMAIN refs' = DOMAIN InsertRefs(refs, ids)
        /\ DOMAIN tree \subseteq DOMAIN tree'
      BY <2>1 DEF TrieOK, Unlock, InsertRefs, InsertPages
  <2>4. TrieOK'
      BY <1>1, <2>1, <2>3, InsertKeepsTrie DEF ids
  <2>5. LocksOK'
    <3>1. \A n \in DOMAIN refs' : Others(n, u) \in Nat /\ refs'[n] = Others(n, u)
        BY <2>1, <2>3, InsertedCount DEF Unlock
    <3>. QED  BY <1>3, <1>5, <2>3, <3>1, NextLocks DEF LocksOK, Holders
  <2>6. Gives
      BY <1>6, <2>1, CachedReleaseMoves, InsertKeepsPages DEF Gives, ids
  <2>. QED  BY <1>2, <1>3, <1>5, <2>2, <2>4, <2>5, <2>6
<1>. QED  BY <1>8, <1>9

\* Caching the prompt of a request that goes on.
LEMMA CacheEffect ==
    ASSUME TypeOK, TrieOK, LocksOK, PagesOK, NEW u \in Holders, NEW r \in ReqObjects,
           r.row = req[u].row, r.handle = req[u].handle, ~r.freed,
           r.cached = req[u].cached, Len(InsertIds(r)) = r.cached,
           Settling(u, InsertIds(r)), pc # "write", pc' # "write",
           CachePrompt(u, r)
    PROVE  /\ fault' = fault /\ Holders' = Holders
           /\ \A v \in Uids \ {u} : req'[v] = req[v]
           /\ req'[u] = [r EXCEPT !.handle =
                            PathTo(InsertIds(r), Len(InsertIds(r)) \div PageSize)]
           /\ TrieOK' /\ LocksOK' /\ PagesOK' /\ Gives
<1>. DEFINE ids == InsertIds(r)
            k == Len(ids) \div PageSize
            new == PathTo(ids, k)
            D == Held(u, HandlePages(u), k)
<1>1. u \in Uids /\ ids \in Seq(Nat) /\ k \in Depths(ids) /\ k \in Nat
  <2>1. u \in Uids /\ ids \in Seq(Nat)
      BY DEF Holders, Settling
  <2>. HIDE DEF ids
  <2>2. k \in Nat
      BY <2>1, Division
  <2>. QED  BY <2>1, <2>2 DEF Depths
<1>2. /\ req' = [req EXCEPT ![u] = [r EXCEPT !.handle = new]]
      /\ fault' = fault
      /\ CachePrefix(r.row, r.handle, ids)
    BY NoUnderflow DEF CachePrompt
<1>3. \A v \in Uids \ {u} : req'[v] = req[v]
    BY <1>2 DEF TypeOK
<1>4. req'[u] = [r EXCEPT !.handle = new]
    BY <1>1, <1>2 DEF TypeOK
<1>5. /\ ~req'[u].freed /\ req'[u].handle = new /\ req'[u].row = req[u].row
      /\ req'[u].cached = Len(ids)
    BY <1>4 DEF ReqObjects, ids
<1>6. Holders' = Holders
    BY <1>3, <1>5 DEF Holders
<1>. HIDE DEF ids
<1>7. /\ pageTable' = pageTable
      /\ tree' = InsertPages(tree, ids, pageTable[req[u].row])
      /\ refs' = Lock(Unlock(InsertRefs(refs, ids), req[u].handle), new)
      /\ freePages' = freePages
           \o RowSlice(req[u].row, Len(req[u].handle), Len(MatchPrefix(tree, ids)))
    BY <1>2 DEF CachePrefix
<1>8. OneOwner(freePages', tree', Less(Owned, D))
    BY <1>7, CacheMoves DEF ids
<1>9. ASSUME NEW v \in Holders, v = u
      PROVE  OwnIndices(v)' = k + 1..PagesFor(Len(ids))
  <2>1. HandlePages(v)' = k
      BY <1>1, <1>5, <1>9, PathElements DEF HandlePages
  <2>. QED  BY <1>1, <1>5, <1>9, <2>1, NextAllocatedAtRest
<1>10. ASSUME NEW v \in Holders, v = u
       PROVE  OwnIndices(v) = HandlePages(u) + 1..PagesFor(Len(ids))
    BY <1>10 DEF Settling, ids
<1>11. HandlePages(u) \in Nat /\ HandlePages(u) <= k /\ PagesFor(Len(ids)) \in Nat /\ k <= PagesFor(Len(ids)) /\ k \in Nat
  <2>1. HandlePages(u) <= k
      BY SettlingDepths DEF ids
  <2>. QED  BY <1>1, <2>1, SettlingDepths DEF ids
<1>12. Owned' = Less(Owned, D)
  <2>2. \A v \in Holders \ {u} : OwnIndices(v)' = OwnIndices(v)
      BY <1>3, AllocatedAtRest, NextAllocatedAtRest DEF Holders, HandlePages
  <2>. DEFINE o == Less(Owned, D)
  <2>3. o = [x \in DOMAIN o |-> o[x]] /\ DOMAIN o = DOMAIN Owned \ D
      BY DEF Less
  <2>4. \A v \in Holders' : \A i \in OwnIndices(v)' :
          <<v, i>> \in DOMAIN o /\ o[<<v, i>>] = pageTable'[req'[v].row][i]
    <3>1. ASSUME NEW v \in Holders', NEW i \in OwnIndices(v)'
          PROVE  <<v, i>> \in DOMAIN o /\ o[<<v, i>>] = pageTable'[req'[v].row][i]
      <4>1. v \in Holders /\ i \in OwnIndices(v) /\ req'[v].row = req[v].row /\ <<v, i>> \notin D
        <5>1. CASE v = u
          <6>1. v \in Holders /\ req'[v].row = req[v].row
              BY <1>5, <1>6, <5>1
          <6>2. OwnIndices(v)' = k + 1..PagesFor(Len(ids))
              BY <1>9, <5>1, <6>1
          <6>3. OwnIndices(v) = HandlePages(u) + 1..PagesFor(Len(ids))
              BY <1>10, <5>1, <6>1
          <6>4. i \in k + 1..PagesFor(Len(ids))
              BY <6>2
          <6>. HIDE DEF k
          <6>5. i \in OwnIndices(v) /\ i \notin HandlePages(u) + 1..k
              BY <1>11, <6>3, <6>4
          <6>. QED  BY <6>1, <6>5 DEF Held
        <5>2. CASE v # u
            BY <1>3, <1>6, <2>2, <5>2 DEF Holders, Held
        <5>. QED  BY <5>1, <5>2
      <4>2. <<v, i>> \in DOMAIN Owned /\ Owned[<<v, i>>] = pageTable[req[v].row][i]
          BY <4>1, OwnedParts
      <4>. QED  BY <1>7, <2>3, <4>1, <4>2 DEF Less
    <3>. QED  BY <3>1
  <2>5. \A x \in DOMAIN o : \E v \in Holders' : \E i \in OwnIndices(v)' : x = <<v, i>>
    <3>1. ASSUME NEW x \in DOMAIN o
          PROVE  \E v \in Holders' : \E i \in OwnIndices(v)' : x = <<v, i>>
      <4>1. PICK v \in Holders : \E i \in OwnIndices(v) : x = <<v, i>>
          BY <2>3, OwnedParts
      <4>2. PICK i \in OwnIndices(v) : x = <<v, i>>
          BY <4>1
      <4>3. i \in OwnIndices(v)'
        <5>1. CASE v = u
          <6>1. OwnIndices(v)' = k + 1..PagesFor(Len(ids))
              BY <1>9, <5>1
          <6>2. OwnIndices(v) = HandlePages(u) + 1..PagesFor(Len(ids))
              BY <1>10, <5>1
          <6>3. <<v, i>> \notin D /\ i \in HandlePages(u) + 1..PagesFor(Len(ids))
              BY <2>3, <4>2, <6>2
          <6>4. i \notin HandlePages(u) + 1..k
              BY <5>1, <6>3 DEF Held
          <6>. HIDE DEF k
          <6>5. i \in k + 1..PagesFor(Len(ids))
              BY <1>11, <6>3, <6>4
          <6>. QED  BY <6>1, <6>5
        <5>2. CASE v # u
            BY <2>2, <5>2
        <5>. QED  BY <5>1, <5>2
      <4>. QED  BY <1>6, <4>2, <4>3
    <3>. QED  BY <3>1
  <2>. HIDE DEF o
  <2>6. Owned' = o
      BY <2>3, <2>4, <2>5, NextOwnedIs
  <2>. QED  BY <2>6 DEF o
<1>13. PagesOK'
    BY <1>7, <1>8, <1>12, NextPages DEF PagesOK
<1>14. /\ DOMAIN refs' = DOMAIN tree' /\ DOMAIN refs' = DOMAIN InsertRefs(refs, ids)
       /\ DOMAIN tree' = DOMAIN tree \cup PathsOf(ids)
    BY <1>7 DEF TrieOK, Unlock, Lock, InsertRefs, InsertPages
<1>15. TrieOK'
    BY <1>1, <1>7, <1>14, InsertKeepsTrie
<1>16. LocksOK'
  <2>1. PathsOf(new) \subseteq DOMAIN tree'
    <3>1. PathsOf(new) = { PathTo(ids, j) : j \in 1..k }
        BY <1>1, PathsOfPath
    <3>. QED  BY <1>14, <3>1 DEF PathsOf
  <2>2. \A n \in DOMAIN refs' :
          /\ Others(n, u) \in Nat
          /\ refs'[n] = IF n \in PathsOf(new) THEN Others(n, u) + 1 ELSE Others(n, u)
    <3>. HIDE DEF new
    <3>. QED  BY <1>7, <1>14, InsertedCount DEF Unlock, Lock
  <2>. HIDE DEF new
  <2>3. \A v \in Holders \ {u} : PathsOf(req[v].handle) \subseteq DOMAIN tree' /\ req'[v].handle = req[v].handle
      BY <1>3, <1>14 DEF LocksOK, Holders
  <2>. QED  BY <1>5, <1>6, <1>14, <2>1, <2>2, <2>3, NextLocks
<1>17. Gives
    BY <1>7, CacheMoves, InsertKeepsPages DEF Gives, ids
<1>. QED  BY <1>2, <1>3, <1>4, <1>6, <1>13, <1>15, <1>16, <1>17 DEF ids

\* Where rows of holders and what they own are as before, so is the map.
LEMMA OwnedKept ==
    ASSUME Holders' = Holders,
           \A v \in Holders : req'[v].row = req[v].row /\ OwnIndices(v)' = OwnIndices(v),
           \A v \in Holders : pageTable'[req[v].row] = pageTable[req[v].row]
    PROVE  Owned' = Owned
<1>1. Owned = [x \in DOMAIN Owned |-> Owned[x]]
    BY DEF Owned
<1>2. \A v \in Holders' : \A i \in OwnIndices(v)' :
        <<v, i>> \in DOMAIN Owned /\ Owned[<<v, i>>] = pageTable'[req'[v].row][i]
  <2>1. ASSUME NEW v \in Holders', NEW i \in OwnIndices(v)'
        PROVE  <<v, i>> \in DOMAIN Owned /\ Owned[<<v, i>>] = pageTable'[req'[v].row][i]
    <3>1. v \in Holders /\ i \in OwnIndices(v)
        OBVIOUS
    <3>. QED  BY <3>1, OwnedParts
  <2>. QED  BY <2>1
<1>3. \A x \in DOMAIN Owned : \E v \in Holders' : \E i \in OwnIndices(v)' : x = <<v, i>>
  <2>1. ASSUME NEW x \in DOMAIN Owned
        PROVE  \E v \in Holders' : \E i \in OwnIndices(v)' : x = <<v, i>>
    <3>1. PICK v \in Holders : \E i \in OwnIndices(v) : x = <<v, i>>
        BY OwnedParts
    <3>. QED  BY <3>1
  <2>. QED  BY <2>1
<1>. QED  BY <1>1, <1>2, <1>3, NextOwnedIs

\* The pages the requests of S own stay theirs.
RowsStay(S) ==
    /\ S \subseteq Holders'
    /\ \A v \in S : /\ OwnIndices(v)' = OwnIndices(v) /\ req'[v].row = req[v].row
                    /\ pageTable'[req[v].row] = pageTable[req[v].row]

Stays == Holders' = Holders /\ RowsStay(Holders) /\ UNCHANGED <<freePages, tree, refs>>

\* A step that leaves the cache, the handles and what requests own alone.
LEMMA CacheKept ==
    ASSUME TrieOK, LocksOK, PagesOK, UNCHANGED cacheVars,
           \A v \in Uids : /\ req'[v].row = req[v].row /\ req'[v].freed = req[v].freed
                           /\ req'[v].handle = req[v].handle,
           \A v \in Holders : OwnIndices(v)' = OwnIndices(v)
    PROVE  Holders' = Holders /\ TrieOK' /\ LocksOK' /\ PagesOK' /\ Stays
<1>1. /\ tree' = tree /\ refs' = refs /\ freePages' = freePages /\ pageTable' = pageTable
    BY DEF cacheVars
<1>2. Holders' = Holders
    BY DEF Holders
<1>3. Owned' = Owned
    BY <1>1, <1>2, OwnedKept DEF Holders
<1>4. PagesOK'
    BY <1>1, <1>3 DEF PagesOK, EveryPageHasOneOwner
<1>5. TrieOK'
    BY <1>1 DEF TrieOK
<1>6. LocksOK'
  <2>1. ASSUME NEW n \in DOMAIN refs
        PROVE  { u \in Holders' : n \in PathsOf(req'[u].handle) }
                 = { u \in Holders : n \in PathsOf(req[u].handle) }
      BY <1>2 DEF Holders
  <2>2. \A u \in Holders' : PathsOf(req'[u].handle) \subseteq DOMAIN tree'
      BY <1>1, <1>2 DEF LocksOK, Holders
  <2>. QED  BY <1>1, <2>1, <2>2 DEF LocksOK
<1>7. Stays
    BY <1>1, <1>2 DEF Stays, RowsStay, Holders
<1>. QED  BY <1>2, <1>4, <1>5, <1>6, <1>7

\* The same, for a step outside of allocation that moves no cached length.
LEMMA CacheAtRest ==
    ASSUME TrieOK, LocksOK, PagesOK, UNCHANGED cacheVars, pc # "write", pc' # "write",
           \A v \in Uids : /\ req'[v].row = req[v].row /\ req'[v].freed = req[v].freed
                           /\ req'[v].handle = req[v].handle /\ req'[v].cached = req[v].cached
    PROVE  Holders' = Holders /\ TrieOK' /\ LocksOK' /\ PagesOK' /\ Stays
<1>1. \A v \in Holders : OwnIndices(v)' = OwnIndices(v)
    BY AllocatedAtRest, NextAllocatedAtRest DEF Holders, HandlePages
<1>. QED  BY <1>1, CacheKept

\* The pages of the tokens of a holder, the handle's first, fit into a row.
LEMMA HolderPages ==
    ASSUME TypeOK, Lengths, NEW u \in Holders,
           req[u].cached <= req[u].device
    PROVE  /\ HandlePages(u) \in Nat
           /\ HandlePages(u) <= PagesFor(req[u].cached)
           /\ PagesFor(req[u].cached) \in Nat /\ PagesFor(req[u].device) \in Nat
           /\ PagesFor(req[u].cached) <= PagesFor(req[u].device)
           /\ PagesFor(req[u].device) <= NumPages
<1>1. /\ req[u].handle \in Seq(Nat) /\ req[u].cached \in Nat /\ req[u].device \in Nat
      /\ req[u].maxDevice \in Nat
    BY DEF Holders, TypeOK, ReqObjects
<1>2. Len(req[u].handle) \in Nat /\ Len(req[u].handle) <= req[u].cached
    BY <1>1 DEF Lengths, LengthsOf, HandleIsPrefix
<1>3. HandlePages(u) \in Nat /\ HandlePages(u) <= PagesFor(req[u].cached)
  <2>1. HandlePages(u) \in Nat
      BY <1>2, Division DEF HandlePages
  <2>2. HandlePages(u) <= PagesFor(Len(req[u].handle))
      BY <1>2, PagesGrow DEF HandlePages
  <2>3. PagesFor(Len(req[u].handle)) <= PagesFor(req[u].cached)
      BY <1>1, <1>2, PagesGrow
  <2>4. PagesFor(Len(req[u].handle)) \in Nat /\ PagesFor(req[u].cached) \in Nat
      BY <1>1, <1>2, PagesForRest
  <2>. QED  BY <2>1, <2>2, <2>3, <2>4
<1>4. /\ PagesFor(req[u].cached) \in Nat /\ PagesFor(req[u].device) \in Nat
      /\ PagesFor(req[u].cached) <= PagesFor(req[u].device)
    BY <1>1, PagesForRest, PagesGrow
<1>5. PagesFor(req[u].device) <= NumPages
  <2>1. NumPages \in Nat /\ NumPages * PageSize \in Nat
      BY PoolAssumption, WholePages
  <2>2. req[u].device <= NumPages * PageSize
      BY <1>1, <2>1, SchedulerAssumption DEF Lengths, LengthsOf
  <2>3. PagesFor(NumPages * PageSize) = NumPages
      BY <2>1, WholePages, PagesForRest
  <2>. QED  BY <1>1, <2>1, <2>2, <2>3, PagesGrow
<1>. QED  BY <1>3, <1>4, <1>5

\* The step of a request that is allocated pages of the free list.
Takes(u) ==
    /\ Holders' = Holders /\ RowsStay(Holders \ {u})
    /\ Range(freePages') \subseteq Range(freePages) /\ UNCHANGED <<tree, refs>>

\* Allocation moves the first free pages to the request they are written for.
LEMMA WriteEffect ==
    ASSUME IInv, TrieOK, LocksOK, PagesOK, Whereabouts, NEW u \in Uids, WriteOne(u)
    PROVE  Holders' = Holders /\ TrieOK' /\ LocksOK' /\ PagesOK' /\ Takes(u)
<1>. DEFINE row == req[u].row
            from == PagesFor(req[u].cached)
            to == PagesFor(req[u].device)
            count == PagesNeeded(req[u].cached, req[u].device)
            o == [x \in DOMAIN Owned \cup Held(u, from, to) |->
                    IF x \in DOMAIN Owned THEN Owned[x] ELSE freePages[x[2] - from]]
<1>1. /\ pc = "write" /\ pc' = "write" /\ u \in todo /\ todo' = todo \ {u}
      /\ UNCHANGED <<batch, req, tree, refs>>
      /\ Len(freePages) >= count
      /\ freePages' = SubSeq(freePages, count + 1, Len(freePages))
      /\ pageTable' = [pageTable EXCEPT ![row] =
             [i \in Pages |-> IF i \in from+1..from+count
                              THEN freePages[i - from] ELSE @[i]]]
    BY DEF WriteOne, WriteRow
<1>2. u \in batch.uids /\ u \in Holders /\ row \in Rows
    BY <1>1 DEF IInv, Queues, TodoInBatch, Whereabouts, BatchesAreWhole, Building,
                RowsOK, HoldersHaveRows
<1>3. req[u].cached \in Nat /\ req[u].device \in Nat /\ req[u].cached <= req[u].device
  <2>1. req[u].cached \in Nat /\ req[u].device \in Nat
      BY DEF IInv, TypeOK, ReqObjects
  <2>2. \/ req[u].cached < req[u].device
        \/ req[u].device = req[u].cached + 1
      BY <1>2 DEF Whereabouts, Lengths, LengthsOf, PrefillLengths, SettledLengths
  <2>. QED  BY <2>1, <2>2
<1>4. /\ HandlePages(u) \in Nat /\ HandlePages(u) <= from
      /\ from \in Nat /\ to \in Nat /\ from <= to /\ to <= NumPages
    BY <1>2, <1>3, HolderPages DEF IInv, Whereabouts
<1>5. count = to - from /\ count \in 0..Len(freePages) /\ from + count = to
  <2>1. count = to - from
      BY <1>4 DEF PagesNeeded
  <2>2. Len(freePages) \in Nat
      BY DEF PagesOK
  <2>. HIDE DEF count
  <2>. QED  BY <1>1, <1>4, <2>1, <2>2
<1>6. \A v \in Holders : v # u => req[v].row # row
    BY <1>2 DEF IInv, RowsOK, EveryRowHasOneOwner
<1>7. NumPages \in Nat
    BY PoolAssumption
<1>. HIDE DEF from, to, count, row
<1>8. /\ pageTable' \in [Rows -> [Pages -> Pages \cup {NoPage}]]
      /\ \A r \in Rows \ {row} : pageTable'[r] = pageTable[r]
      /\ \A i \in Pages : pageTable'[row][i] = IF i \in from+1..to THEN freePages[i - from]
                                               ELSE pageTable[row][i]
  <2>1. ASSUME NEW i \in from+1..to PROVE freePages[i - from] \in Pages
      BY <1>4, <1>5 DEF PagesOK
  <2>. DEFINE new == [i \in Pages |-> IF i \in from+1..to THEN freePages[i - from]
                                      ELSE pageTable[row][i]]
  <2>2. new \in [Pages -> Pages \cup {NoPage}]
      BY <1>2, <2>1 DEF PagesOK
  <2>3. pageTable' = [pageTable EXCEPT ![row] = new]
      BY <1>1, <1>2, <1>5 DEF PagesOK
  <2>4. \A i \in Pages : new[i] = IF i \in from+1..to THEN freePages[i - from] ELSE pageTable[row][i]
      OBVIOUS
  <2>. HIDE DEF new
  <2>. QED  BY <1>2, <2>2, <2>3, <2>4 DEF PagesOK
<1>9. Holders' = Holders
    BY <1>1 DEF Holders
<1>10. \A v \in Holders : v # u => OwnIndices(v)' = OwnIndices(v)
    BY <1>1 DEF OwnIndices, Allocated, HandlePages
<1>11. ASSUME NEW v \in Holders, v = u
       PROVE  OwnIndices(v) = HandlePages(u) + 1..from /\ OwnIndices(v)' = HandlePages(u) + 1..to
    BY <1>1, <1>2, <1>11 DEF OwnIndices, Allocated, HandlePages, from, to
<1>12. \A i \in from + 1..to : i \in Pages /\ <<u, i>> \notin DOMAIN Owned
  <2>1. ASSUME NEW i \in from + 1..to, <<u, i>> \in DOMAIN Owned PROVE FALSE
    <3>1. PICK v \in Holders : \E j \in OwnIndices(v) : <<u, i>> = <<v, j>>
        BY <2>1, OwnedParts
    <3>2. v = u /\ i \in OwnIndices(v)
        BY <3>1
    <3>. QED  BY <1>4, <1>11, <3>2
  <2>. QED  BY <1>4, <1>7, <2>1 DEF Pages
<1>13. /\ o = [x \in DOMAIN o |-> o[x]] /\ DOMAIN o = DOMAIN Owned \cup Held(u, from, to)
       /\ \A x \in DOMAIN Owned : o[x] = Owned[x]
       /\ \A i \in from + 1..to : <<u, i>> \in DOMAIN o /\ o[<<u, i>>] = freePages[i - from]
    BY <1>12 DEF Held
<1>14. Owned' = o
  <2>. HIDE DEF o
  <2>1. ASSUME NEW v \in Holders', NEW i \in OwnIndices(v)'
        PROVE  <<v, i>> \in DOMAIN o /\ o[<<v, i>>] = pageTable'[req'[v].row][i]
    <3>1. v \in Holders /\ req'[v] = req[v] /\ req[v].row \in Rows
        BY <1>1, <1>9 DEF IInv, RowsOK, HoldersHaveRows
    <3>2. CASE v # u
      <4>1. i \in OwnIndices(v)
          BY <1>10, <3>1, <3>2
      <4>. QED  BY <1>6, <1>8, <1>13, <3>1, <3>2, <4>1, OwnedParts
    <3>3. CASE v = u
      <4>1. i \in HandlePages(u) + 1..to
          BY <1>11, <3>1, <3>3
      <4>2. \/ i \in from + 1..to
            \/ i \in HandlePages(u) + 1..from /\ i \notin from + 1..to
          BY <1>4, <4>1
      <4>3. i \in Pages
          BY <1>4, <1>7, <4>1 DEF Pages
      <4>4. CASE i \in from + 1..to
          BY <1>8, <1>13, <3>1, <3>3, <4>3, <4>4 DEF row
      <4>5. CASE i \in HandlePages(u) + 1..from /\ i \notin from + 1..to
        <5>1. <<v, i>> \in DOMAIN Owned /\ Owned[<<v, i>>] = pageTable[row][i]
            BY <1>11, <3>1, <3>3, <4>5, OwnedParts DEF row
        <5>. QED  BY <1>8, <1>13, <3>1, <3>3, <4>3, <4>5, <5>1 DEF row
      <4>. QED  BY <4>2, <4>4, <4>5
    <3>. QED  BY <3>2, <3>3
  <2>2. ASSUME NEW x \in DOMAIN o
        PROVE  \E v \in Holders' : \E i \in OwnIndices(v)' : x = <<v, i>>
    <3>1. CASE x \in DOMAIN Owned
      <4>1. PICK v \in Holders : \E i \in OwnIndices(v) : x = <<v, i>>
          BY <3>1, OwnedParts
      <4>2. PICK i \in OwnIndices(v) : x = <<v, i>>
          BY <4>1
      <4>3. i \in OwnIndices(v)'
        <5>1. CASE v = u
          <6>1. i \in HandlePages(u) + 1..from /\ OwnIndices(v)' = HandlePages(u) + 1..to
              BY <1>11, <4>2, <5>1
          <6>2. i \in HandlePages(u) + 1..to
              BY <1>4, <6>1
          <6>. QED  BY <6>1, <6>2
        <5>2. CASE v # u
            BY <1>10, <4>2, <5>2
        <5>. QED  BY <5>1, <5>2
      <4>. QED  BY <1>9, <4>2, <4>3
    <3>2. CASE x \in Held(u, from, to)
      <4>1. PICK i \in from + 1..to : x = <<u, i>>
          BY <3>2 DEF Held
      <4>2. PICK v \in Holders : v = u
          BY <1>2
      <4>3. i \in OwnIndices(v)'
        <5>1. i \in HandlePages(u) + 1..to
            BY <1>4
        <5>. QED  BY <1>11, <4>2, <5>1
      <4>. QED  BY <1>9, <4>1, <4>2, <4>3
    <3>. QED  BY <1>13, <3>1, <3>2
  <2>. QED  BY <1>13, <2>1, <2>2, NextOwnedIs
<1>15. OneOwner(freePages, tree, Owned)
    BY DEF OneOwner, PagesOK, EveryPageHasOneOwner
<1>16. DOMAIN o \ DOMAIN Owned = Held(u, from, to)
    BY <1>12, <1>13 DEF Held
<1>17. { o[x] : x \in DOMAIN o \ DOMAIN Owned } = { freePages[i] : i \in 1..count }
  <2>. HIDE DEF o
  <2>1. ASSUME NEW x \in Held(u, from, to) PROVE o[x] \in { freePages[i] : i \in 1..count }
    <3>1. PICK i \in from + 1..to : x = <<u, i>>
        BY DEF Held
    <3>2. i - from \in 1..count /\ o[x] = freePages[i - from]
        BY <1>4, <1>5, <1>13, <3>1
    <3>. QED  BY <3>2
  <2>2. ASSUME NEW i \in 1..count PROVE freePages[i] \in { o[x] : x \in Held(u, from, to) }
    <3>1. from + i \in from + 1..to /\ (from + i) - from = i
        BY <1>4, <1>5
    <3>2. <<u, from + i>> \in Held(u, from, to) /\ o[<<u, from + i>>] = freePages[i]
        BY <1>13, <3>1 DEF Held
    <3>. QED  BY <3>2
  <2>. QED  BY <1>16, <2>1, <2>2
<1>18. \A x, y \in DOMAIN o \ DOMAIN Owned : o[x] = o[y] => x = y
  <2>. HIDE DEF o
  <2>1. ASSUME NEW x \in Held(u, from, to), NEW y \in Held(u, from, to), o[x] = o[y]
        PROVE  x = y
    <3>1. PICK i \in from + 1..to : x = <<u, i>>
        BY DEF Held
    <3>2. PICK j \in from + 1..to : y = <<u, j>>
        BY DEF Held
    <3>3. /\ i - from \in DOMAIN freePages /\ j - from \in DOMAIN freePages
          /\ freePages[i - from] = freePages[j - from]
      <4>1. DOMAIN freePages = 1..Len(freePages) /\ Len(freePages) \in Nat
          BY DEF PagesOK
      <4>2. i - from \in 1..count /\ j - from \in 1..count
          BY <1>4, <1>5
      <4>. QED  BY <1>5, <1>13, <2>1, <3>1, <3>2, <4>1, <4>2
    <3>4. i - from = j - from
        BY <3>3 DEF PagesOK, EveryPageHasOneOwner, IsInjective
    <3>. QED  BY <1>4, <3>1, <3>2, <3>4
  <2>. QED  BY <1>16, <2>1
<1>19. OneOwner(freePages', tree', Owned')
  <2>. HIDE DEF o
  <2>1. DOMAIN Owned \subseteq DOMAIN o
      BY <1>13
  <2>2. OneOwner(SubSeq(freePages, count + 1, Len(freePages)), tree, o)
      BY <1>5, <1>13, <1>15, <1>17, <1>18, <2>1, FreeToOwn
  <2>. QED  BY <1>1, <1>14, <2>2
<1>20. TrieOK' /\ LocksOK'
    BY <1>1, <1>9 DEF TrieOK, LocksOK
<1>21. Takes(u)
  <2>1. Range(freePages') \subseteq Range(freePages)
    <3>1. freePages \in Seq(Pages) /\ count + 1 \in Nat
        BY <1>5 DEF PagesOK
    <3>2. ASSUME NEW S, NEW f \in Seq(S), NEW n \in Nat \ {0}
          PROVE  Range(SubSeq(f, n, Len(f))) \subseteq Range(f)
      <4>. DEFINE g == SubSeq(f, n, Len(f))
      <4>1. \A i \in DOMAIN g : i + n - 1 \in DOMAIN f /\ g[i] = f[i + n - 1]
          OBVIOUS
      <4>. HIDE DEF g
      <4>. QED  BY <4>1 DEF Range
    <3>3. count + 1 \in Nat \ {0}
        BY <1>5
    <3>. QED  BY <1>1, <3>1, <3>2, <3>3
  <2>2. \A v \in Holders \ {u} : req'[v] = req[v] /\ pageTable'[req[v].row] = pageTable[req[v].row]
      BY <1>1, <1>6, <1>8 DEF IInv, RowsOK, HoldersHaveRows
  <2>. QED  BY <1>1, <1>9, <1>10, <2>1, <2>2 DEF Takes, RowsStay
<1>. QED  BY <1>8, <1>9, <1>19, <1>20, <1>21, NextPages

\* A finite set as a sequence: each element, once.
LEMMA Listed ==
    ASSUME NEW S, IsFiniteSet(S)
    PROVE  SetToSeq(S) \in Seq(S) /\ Range(SetToSeq(S)) = S /\ IsInjective(SetToSeq(S))
<1>. DEFINE n == Cardinality(S)
            f == SetToSeq(S)
<1>1. n \in Nat /\ ExistsBijection(1..n, S)
    BY FS_CardinalityType
<1>2. \E g \in [1..n -> S] : IsInjective(g)
    BY <1>1 DEF ExistsBijection, Bijection, Injection
<1>3. f \in [1..n -> S] /\ IsInjective(f)
    BY <1>2 DEF SetToSeq
<1>4. IsFiniteSet(1..n) /\ Cardinality(1..n) = n
    BY <1>1, FS_Interval
<1>. HIDE DEF f
<1>5. f \in Surjection(1..n, S)
    BY <1>3, <1>4, FS_Injection DEF Injection
<1>6. Range(f) = S
    BY <1>3, <1>5 DEF Surjection, Range
<1>7. f \in Seq(S)
    BY <1>1, <1>3
<1>. QED  BY <1>3, <1>6, <1>7 DEF f

\* No one locks what is evicted, and nothing is left without its prefix.
LEMMA EvictEffect ==
    ASSUME TrieOK, LocksOK, PagesOK, NEW gone \in SUBSET Unreferenced(refs),
           \A n \in gone, m \in DOMAIN refs : n \in PathsOf(m) => m \in gone,
           freePages' = freePages \o SetToSeq({ tree[n] : n \in gone }),
           tree' = Without(tree, gone), refs' = Without(refs, gone),
           pageTable' = pageTable, Holders' = Holders,
           \A v \in Holders : /\ req'[v].row = req[v].row /\ req'[v].handle = req[v].handle
                              /\ OwnIndices(v)' = OwnIndices(v)
    PROVE  TrieOK' /\ LocksOK' /\ PagesOK' /\ Range(freePages) \subseteq Range(freePages')
<1>. DEFINE S == { tree[n] : n \in gone }
            s == SetToSeq(S)
<1>1. gone \subseteq DOMAIN tree /\ \A n \in gone : refs[n] = 0
    BY DEF TrieOK, Unreferenced
<1>2. /\ DOMAIN tree' = DOMAIN tree \ gone /\ DOMAIN refs' = DOMAIN refs \ gone
      /\ \A n \in DOMAIN refs' : refs'[n] = refs[n]
      /\ tree' = Less(tree, gone)
    BY DEF Without, Less
<1>3. Owned' = Owned
    BY OwnedKept
<1>4. OneOwner(freePages, tree, Owned)
    BY DEF OneOwner, PagesOK, EveryPageHasOneOwner
<1>5. S \subseteq Pages /\ IsFiniteSet(S)
  <2>1. S \subseteq Range(tree)
      BY <1>1 DEF Range
  <2>2. Range(tree) \subseteq Pages
      BY <1>4 DEF OneOwner
  <2>3. IsFiniteSet(Pages)
      BY PoolAssumption, FS_Interval DEF Pages
  <2>. HIDE DEF S
  <2>4. S \subseteq Pages
      BY <2>1, <2>2
  <2>. QED  BY <2>3, <2>4, FS_Subset
<1>6. s \in Seq(Pages) /\ Range(s) = S /\ IsInjective(s)
  <2>. HIDE DEF S
  <2>1. s \in Seq(S) /\ Range(s) = S /\ IsInjective(s)
      BY <1>5, Listed
  <2>. HIDE DEF s
  <2>. QED  BY <1>5, <2>1
<1>7. OneOwner(freePages', tree', Owned')
  <2>. HIDE DEF s
  <2>1. OneOwner(freePages \o s, Less(tree, gone), Owned)
      BY <1>1, <1>4, <1>6, TreeToFree
  <2>. QED  BY <1>2, <1>3, <2>1 DEF s
<1>8. PagesOK'
    BY <1>7, NextPages DEF PagesOK
<1>9. TrieOK'
  <2>1. IsFiniteSet(DOMAIN tree')
      BY <1>2, FS_Subset DEF TrieOK
  <2>2. ASSUME NEW n \in DOMAIN tree' PROVE PathsOf(n) \subseteq DOMAIN tree'
      BY <1>2 DEF TrieOK
  <2>. QED  BY <1>2, <2>1, <2>2 DEF TrieOK
<1>10. ASSUME NEW u \in Holders PROVE PathsOf(req[u].handle) \subseteq DOMAIN tree'
  <2>1. ASSUME NEW n \in PathsOf(req[u].handle), n \in gone PROVE FALSE
    <3>1. n \in DOMAIN refs
        BY <1>1, <2>1 DEF TrieOK
    <3>2. Others(n, u) \in Nat /\ refs[n] = Others(n, u) + 1
        BY <3>1, LockersCount
    <3>. QED  BY <1>1, <2>1, <3>2
  <2>. QED  BY <1>2, <2>1 DEF LocksOK
<1>11. LocksOK'
  <2>1. ASSUME NEW n \in DOMAIN refs
        PROVE  { u \in Holders' : n \in PathsOf(req'[u].handle) }
                 = { u \in Holders : n \in PathsOf(req[u].handle) }
      OBVIOUS
  <2>. QED  BY <1>2, <1>10, <2>1 DEF LocksOK
<1>12. Range(freePages) \subseteq Range(freePages')
  <2>. HIDE DEF s
  <2>1. freePages \in Seq(Pages) /\ freePages' = freePages \o s
      BY DEF PagesOK, s
  <2>2. s \in Seq(Pages)
      BY <1>6 DEF s
  <2>3. ASSUME NEW f \in Seq(Pages), NEW g \in Seq(Pages)
        PROVE  Range(f) \subseteq Range(f \o g)
    <3>1. Range(f \o g) = Range(f) \cup Range(g)
        BY ListJoined
    <3>. QED  BY <3>1
  <2>. QED  BY <2>1, <2>2, <2>3
<1>. QED  BY <1>8, <1>9, <1>11, <1>12

\* A new request locks its match, and the row it takes is nobody's.
LEMMA TakeEffect ==
    ASSUME TypeOK, RowsOK, TrieOK, LocksOK, PagesOK, NEW u \in Uids, req[u].freed,
           freeRows # << >>, NEW ids \in Seq(Nat), TakeRow(MatchPrefix(tree, ids)),
           pc # "write", pc' # "write",
           ~req'[u].freed, req'[u].row = NextRow, req'[u].handle = MatchPrefix(tree, ids),
           req'[u].cached = Len(MatchPrefix(tree, ids)),
           \A v \in Uids \ {u} : req'[v] = req[v]
    PROVE  Holders' = Holders \cup {u} /\ TrieOK' /\ LocksOK' /\ PagesOK' /\ RowsStay(Holders)
<1>. DEFINE h == MatchPrefix(tree, ids)
            m == MatchedPages(tree, ids)
<1>1. /\ refs' = Lock(refs, h) /\ tree' = tree /\ freePages' = freePages
      /\ pageTable' = [pageTable EXCEPT ![NextRow] = MatchedRow(h)]
    BY DEF TakeRow
<1>2. u \notin Holders /\ Holders' = Holders \cup {u}
    BY DEF Holders
<1>3. Closed(DOMAIN tree)
    BY DEF TrieOK, Closed
<1>4. /\ m \in Depths(ids) /\ m \in Nat /\ h = PathTo(ids, m)
      /\ Len(h) = m * PageSize /\ Len(h) \in Nat /\ Len(h) \div PageSize = m
  <2>1. m \in 0..(Len(ids) \div PageSize)
      BY MatchPrefixType
  <2>2. h = PathTo(ids, m)
      BY DEF MatchPrefix
  <2>. HIDE DEF m, h
  <2>. QED  BY <2>1, <2>2, PathElements DEF Depths
<1>5. PathsOf(h) \subseteq DOMAIN tree
  <2>1. PathsOf(h) = { PathTo(ids, j) : j \in 1..m }
      BY <1>4, PathsOfPath
  <2>2. ASSUME NEW j \in 1..m PROVE PathTo(ids, j) \in DOMAIN tree
    <3>1. m \in 0..(Len(ids) \div PageSize) /\ Len(ids) \div PageSize \in Nat
        BY <1>4, Division DEF Depths
    <3>2. j \in 1..(Len(ids) \div PageSize) /\ j <= m
        BY <3>1
    <3>. QED  BY <1>3, <3>2, HeldPathsAreFirst
  <2>. QED  BY <2>1, <2>2
<1>6. NextRow \in Rows /\ \A v \in Holders : req[v].row # NextRow
  <2>0. freeRows \in Seq(Rows)
      BY DEF RowsOK
  <2>1. Last(freeRows) \in ToSet(freeRows) /\ Last(freeRows) \in Rows
    <3>1. ASSUME NEW s \in Seq(Rows), s # << >> PROVE Last(s) \in ToSet(s) /\ Last(s) \in Rows
      <4>1. Last(s) \in Rows /\ ToSet(s) = ToSet(Front(s)) \cup {Last(s)}
          BY <3>1, FrontLast
      <4>. QED  BY <4>1
    <3>. QED  BY <2>0, <3>1
  <2>. QED  BY <2>1 DEF RowsOK, EveryRowHasOneOwner, NextRow
<1>7. pageTable' \in [Rows -> [Pages -> Pages \cup {NoPage}]]
  <2>1. MatchedRow(h) \in [Pages -> Pages \cup {NoPage}]
    <3>1. ASSUME NEW i \in Pages, i <= m PROVE tree[PathTo(h, i)] \in Pages
      <4>1. i \in 0..m /\ i \in 1..m
          BY <1>4, <3>1, PoolAssumption DEF Pages
      <4>2. PathTo(h, i) = PathTo(ids, i)
          BY <1>4, <4>1, PathOfPath
      <4>3. PathTo(h, i) \in DOMAIN tree
        <5>1. PathsOf(h) = { PathTo(ids, j) : j \in 1..m }
            BY <1>4, PathsOfPath
        <5>. QED  BY <1>5, <4>1, <4>2, <5>1
      <4>. QED  BY <4>3 DEF PagesOK, EveryPageHasOneOwner, Range
    <3>. HIDE DEF h, m
    <3>. QED  BY <1>4, <3>1 DEF MatchedRow
  <2>. HIDE DEF h
  <2>. QED  BY <1>1, <1>6, <2>1 DEF PagesOK
<1>8. ASSUME NEW v \in Holders', v = u PROVE OwnIndices(v)' = {}
  <2>1. PagesFor(req'[v].cached) = m /\ HandlePages(v)' = m
    <3>1. PagesFor(m * PageSize) = m
        BY <1>4, WholePages, PagesForRest
    <3>. QED  BY <1>4, <1>8, <3>1 DEF HandlePages
  <2>2. m + 1..m = {}
      BY <1>4
  <2>3. OwnIndices(v)' = m + 1..m
      BY <1>8, <2>1, NextAllocatedAtRest
  <2>. QED  BY <2>2, <2>3
<1>9. \A v \in Holders : OwnIndices(v)' = OwnIndices(v) /\ req'[v] = req[v]
    BY <1>2, AllocatedAtRest, NextAllocatedAtRest DEF Holders, HandlePages
<1>10. \A v \in Holders : pageTable'[req[v].row] = pageTable[req[v].row]
    BY <1>1, <1>6 DEF PagesOK, RowsOK, HoldersHaveRows
<1>11. Owned' = Owned
  <2>1. Owned = [x \in DOMAIN Owned |-> Owned[x]]
      BY DEF Owned
  <2>2. \A v \in Holders' : \A i \in OwnIndices(v)' :
          <<v, i>> \in DOMAIN Owned /\ Owned[<<v, i>>] = pageTable'[req'[v].row][i]
    <3>1. ASSUME NEW v \in Holders', NEW i \in OwnIndices(v)'
          PROVE  <<v, i>> \in DOMAIN Owned /\ Owned[<<v, i>>] = pageTable'[req'[v].row][i]
      <4>1. v \in Holders /\ i \in OwnIndices(v)
          BY <1>2, <1>8, <1>9
      <4>. QED  BY <1>9, <1>10, <4>1, OwnedParts
    <3>. QED  BY <3>1
  <2>3. \A x \in DOMAIN Owned : \E v \in Holders' : \E i \in OwnIndices(v)' : x = <<v, i>>
    <3>1. ASSUME NEW x \in DOMAIN Owned
          PROVE  \E v \in Holders' : \E i \in OwnIndices(v)' : x = <<v, i>>
      <4>1. PICK v \in Holders : \E i \in OwnIndices(v) : x = <<v, i>>
          BY OwnedParts
      <4>. QED  BY <1>2, <1>9, <4>1
    <3>. QED  BY <3>1
  <2>. QED  BY <2>1, <2>2, <2>3, NextOwnedIs
<1>12. PagesOK'
    BY <1>1, <1>7, <1>11 DEF PagesOK, EveryPageHasOneOwner
<1>13. TrieOK'
    BY <1>1 DEF TrieOK, Lock
<1>14. LocksOK'
  <2>1. ASSUME NEW n \in DOMAIN refs
        PROVE  refs'[n] = Cardinality({ v \in Holders' : n \in PathsOf(req'[v].handle) })
    <3>. DEFINE L == Lockers(n)
    <3>1. IsFiniteSet(L) /\ u \notin L
      <4>1. L \subseteq Uids /\ IsFiniteSet(Uids)
          BY SchedulerAssumption DEF Lockers, Holders
      <4>2. u \notin L
          BY <1>2 DEF Lockers
      <4>. HIDE DEF L
      <4>. QED  BY <4>1, <4>2, FS_Subset
    <3>2. refs[n] = Cardinality(L)
        BY DEF LocksOK, Lockers
    <3>3. \A v \in Holders : req'[v].handle = req[v].handle
        BY <1>9
    <3>4. { v \in Holders' : n \in PathsOf(req'[v].handle) }
            = IF n \in PathsOf(h) THEN L \cup {u} ELSE L
        BY <1>2, <3>3 DEF Lockers
    <3>5. refs'[n] = IF n \in PathsOf(h) THEN refs[n] + 1 ELSE refs[n]
        BY <1>1 DEF Lock
    <3>. HIDE DEF L, h
    <3>6. Cardinality(L \cup {u}) = Cardinality(L) + 1
        BY <3>1, FS_AddElement
    <3>. QED  BY <3>2, <3>4, <3>5, <3>6
  <2>2. DOMAIN refs' = DOMAIN refs
      BY <1>1 DEF Lock
  <2>3. \A v \in Holders' : PathsOf(req'[v].handle) \subseteq DOMAIN tree'
      BY <1>1, <1>2, <1>5, <1>9 DEF LocksOK
  <2>. QED  BY <2>1, <2>2, <2>3 DEF LocksOK
<1>15. RowsStay(Holders)
    BY <1>2, <1>9, <1>10 DEF RowsStay
<1>. QED  BY <1>2, <1>12, <1>13, <1>14, <1>15

KInv == IInv /\ PInv

\* The lengths of a request whose Req object and place are as before.
LEMMA SameLengths ==
    ASSUME NEW v \in Uids, LengthsOf(v), req'[v] = req[v],
           v \in chunked' <=> v \in chunked,
           Awaited(v)' = Awaited(v),
           (v \in Prefilling)' <=> v \in Prefilling,
           v \in Prefilling => (v \in batch'.chunks <=> v \in batch.chunks)
    PROVE  LengthsOf(v)'
<1>1. CASE v \in Prefilling
    BY <1>1 DEF LengthsOf, PrefillLengths
<1>2. CASE v \notin Prefilling
    BY <1>2 DEF LengthsOf, SettledLengths
<1>. QED  BY <1>1, <1>2

\* Whoever still waits for a token waits for it where he did.
LEMMA SameAwaited ==
    ASSUME NEW v \in Uids, AwaitLast' = AwaitLast, AwaitBatch' = AwaitBatch
    PROVE  Awaited(v)' = Awaited(v)
    BY DEF Awaited

LEMMA RecvUserPages ==
    ASSUME KInv, NEW u \in Uids, RecvUser(u)
    PROVE  PInv' /\ Stays
<1>1. /\ pc = "recv" /\ outcome[u] = "new"
      /\ UNCHANGED <<cacheVars, loop, pc, chunked, running, req, adder, reserved, batch,
                     last, todo, finished, fault>>
    BY DEF RecvUser
<1>2. Whereabouts
    BY <1>1 DEF KInv, PInv
<1>3. Holders' = Holders /\ TrieOK' /\ LocksOK' /\ PagesOK' /\ Stays
    BY <1>1, CacheAtRest DEF KInv, PInv
<1>4. AwaitLast' = AwaitLast /\ AwaitBatch' = AwaitBatch /\ Prefilling' = Prefilling
      /\ Building' = Building
    BY <1>1 DEF AwaitLast, AwaitBatch, Prefilling, Building, Sampling
<1>5. BatchesAreWhole' /\ PrefillsHold' /\ HoldersAreKnown'
    BY <1>1, <1>2, <1>3, <1>4 DEF Whereabouts, BatchesAreWhole, PrefillsHold, HoldersAreKnown, Building
<1>6. FinishedAreGone'
  <2>1. \A v \in finished.old \cup finished.new : v \in Uids /\ v # u
      BY <1>1, <1>2 DEF Whereabouts, FinishedAreGone
  <2>2. outcome \in [Uids -> {"new", "waiting", "finished", "rejected", "aborted"}] /\ pending \in Seq(Uids)
      BY DEF KInv, IInv, TypeOK
  <2>3. \A v \in Uids \ {u} : outcome'[v] = outcome[v] /\ (v \in ToSet(pending') => v \in ToSet(pending))
    <3>1. CASE UNCHANGED pending /\ outcome' = [outcome EXCEPT ![u] = "rejected"]
        BY <2>2, <3>1
    <3>2. CASE pending' = Append(pending, u) /\ outcome' = [outcome EXCEPT ![u] = "waiting"]
      <4>1. ToSet(pending') \subseteq ToSet(pending) \cup {u}
          BY <2>2, <3>2 DEF ToSet
      <4>. QED  BY <2>2, <3>2, <4>1
    <3>. QED  BY <3>1, <3>2 DEF RecvUser
  <2>. QED  BY <1>1, <1>2, <2>1, <2>3 DEF Whereabouts, FinishedAreGone
<1>7. Lengths'
  <2>1. ASSUME NEW v \in Holders PROVE LengthsOf(v)'
    <3>1. v \in Uids /\ LengthsOf(v)
        BY <1>2 DEF Holders, Whereabouts, Lengths
    <3>. QED  BY <1>1, <1>4, <3>1, SameAwaited, SameLengths
  <2>. QED  BY <1>3, <2>1 DEF Lengths
<1>8. RunningHaveRoom'
    BY <1>1, <1>2, <1>4 DEF Whereabouts, RunningHaveRoom
<1>9. StopsOnlyToEvict'
    BY <1>1 DEF KInv, PInv, StopsOnlyToEvict
<1>. QED  BY <1>3, <1>5, <1>6, <1>7, <1>8, <1>9 DEF PInv, Whereabouts

\* With nothing to do, nothing is held, and the integrity check passes.
LEMMA IdleHolds ==
    ASSUME KInv, pc = "recv", Blocking
    PROVE  IntegrityHolds
<1>1. Whereabouts
    BY DEF KInv, PInv
<1>2. Holders = {}
  <2>1. chunked = {}
      BY DEF KInv, IInv, TypeOK, Blocking, ToSet
  <2>2. AwaitLast = {} /\ AwaitBatch = {} /\ ~Building
      BY DEF AwaitLast, AwaitBatch, Building, Blocking, Sampling, NoBatch
  <2>. QED  BY <1>1, <2>1, <2>2 DEF Whereabouts, HoldersAreKnown, Blocking
<1>3. Range(Owned) = {}
    BY <1>2, OwnedParts DEF Range
<1>4. /\ freePages \in Seq(Pages) /\ IsInjective(freePages) /\ IsInjective(tree)
      /\ Range(freePages) \cap Range(tree) = {} /\ Range(freePages) \cup Range(tree) = Pages
    BY <1>3 DEF KInv, PInv, PagesOK, EveryPageHasOneOwner
<1>5. NumPages \in Nat /\ IsFiniteSet(Pages) /\ Cardinality(Pages) = NumPages
    BY PoolAssumption, FS_Interval DEF Pages
<1>6. ASSUME NEW f, IsInjective(f), IsFiniteSet(DOMAIN f)
      PROVE  IsFiniteSet(Range(f)) /\ Cardinality(Range(f)) = Cardinality(DOMAIN f)
  <2>. DEFINE D == DOMAIN f
              R == Range(f)
              g == [x \in D |-> f[x]]
  <2>1. g \in Bijection(D, R)
      BY <1>6 DEF Bijection, Injection, Surjection, IsInjective, Range
  <2>2. IsFiniteSet(D)
      BY <1>6
  <2>. HIDE DEF D, R, g
  <2>3. ExistsBijection(D, R)
      BY <2>1 DEF ExistsBijection
  <2>4. IsFiniteSet(R) /\ Cardinality(D) = Cardinality(R)
      BY <2>2, <2>3, FS_Bijection
  <2>. QED  BY <2>4 DEF D, R
<1>7. IsFiniteSet(Range(freePages)) /\ Cardinality(Range(freePages)) = Len(freePages)
  <2>1. DOMAIN freePages = 1..Len(freePages) /\ Len(freePages) \in Nat
      BY <1>4
  <2>2. \A n \in Nat : IsFiniteSet(1..n) /\ Cardinality(1..n) = n
      BY FS_Interval
  <2>3. IsFiniteSet(DOMAIN freePages) /\ Cardinality(DOMAIN freePages) = Len(freePages)
      BY <2>1, <2>2
  <2>. QED  BY <1>4, <1>6, <2>3
<1>8. IsFiniteSet(Range(tree)) /\ Cardinality(Range(tree)) = Cardinality(DOMAIN tree)
  <2>1. IsFiniteSet(DOMAIN tree)
      BY DEF KInv, PInv, TrieOK
  <2>. QED  BY <1>4, <1>6, <2>1
<1>9. Cardinality(Range(freePages) \cup Range(tree))
        = Cardinality(Range(freePages)) + Cardinality(Range(tree)) - Cardinality(Range(freePages) \cap Range(tree))
    BY <1>7, <1>8, FS_Union
<1>10. Cardinality(Range(freePages) \cap Range(tree)) = 0
    BY <1>4, FS_EmptySet
<1>11. Cardinality(Range(freePages)) \in Nat /\ Cardinality(Range(tree)) \in Nat
    BY <1>7, <1>8, FS_CardinalityType
<1>12. Cardinality(Pages) = Len(freePages) + Cardinality(DOMAIN tree)
  <2>. DEFINE F == Range(freePages)
              T == Range(tree)
  <2>1. Cardinality(F \cup T) = Cardinality(F) + Cardinality(T) - Cardinality(F \cap T) /\ Cardinality(F \cap T) = 0
      BY <1>9, <1>10
  <2>2. F \cup T = Pages /\ Cardinality(F) \in Nat /\ Cardinality(T) \in Nat
      BY <1>4, <1>11
  <2>. HIDE DEF F, T
  <2>3. Cardinality(Pages) = Cardinality(F) + Cardinality(T)
      BY <2>1, <2>2
  <2>. QED  BY <1>7, <1>8, <2>3 DEF F, T
<1>. QED  BY <1>5, <1>12 DEF IntegrityHolds

LEMMA IdlePages ==
    ASSUME KInv, Idle
    PROVE  PInv'
<1>1. UNCHANGED vars
    BY IdleHolds DEF Idle, vars, schedVars
<1>2. PInv' <=> PInv
    BY <1>1 DEF vars, schedVars, cacheVars, PInv, StopsOnlyToEvict, Whereabouts, BatchesAreWhole,
         PrefillsHold, HoldersAreKnown, FinishedAreGone, Lengths, LengthsOf, PrefillLengths, SettledLengths,
         RunningHaveRoom, Awaited, AwaitLast, AwaitBatch, Building, Prefilling, Holders, TrieOK, LocksOK,
         PagesOK, EveryPageHasOneOwner, Owned, OwnIndices, HandlePages, Allocated, Sampling
<1>. QED  BY <1>2 DEF KInv

\* What is inserted of a request starts with its handle, and it has the pages.
LEMMA TokensInHand ==
    ASSUME TypeOK, NEW u \in Holders, LengthsOf(u), pc # "write", NEW r \in ReqObjects,
           r.cached = req[u].cached, r.handle = req[u].handle,
           Len(req[u].ids) <= Len(r.ids), r.cached <= Len(r.ids),
           \A i \in 1..Len(req[u].ids) : r.ids[i] = req[u].ids[i]
    PROVE  /\ Settling(u, InsertIds(r)) /\ InsertIds(r) \in Seq(Nat)
           /\ Len(InsertIds(r)) = r.cached
           /\ \A i \in 1..r.cached : InsertIds(r)[i] = r.ids[i]
<1>. DEFINE ids == InsertIds(r)
            old == req[u].ids
            h == req[u].handle
            hp == HandlePages(u)
<1>1. /\ u \in Uids /\ old \in Seq(Nat) /\ h \in Seq(Nat) /\ r.ids \in Seq(Nat) /\ r.cached \in Nat
      /\ Len(old) \in Nat /\ Len(h) \in Nat /\ Len(r.ids) \in Nat
    BY DEF Holders, TypeOK, ReqObjects
<1>2. ids \in Seq(Nat) /\ Len(ids) = r.cached /\ \A i \in 1..r.cached : ids[i] = r.ids[i]
  <2>1. ids = SubSeq(r.ids, 1, r.cached)
      BY <1>1 DEF InsertIds, FirstIds
  <2>. HIDE DEF ids
  <2>. QED  BY <1>1, <2>1
<1>3. h = PathTo(old, hp) /\ Len(h) % PageSize = 0 /\ Len(h) <= r.cached /\ Len(h) <= Len(old)
    BY DEF LengthsOf, HandleIsPrefix, HandlePages
<1>4. hp \in Nat /\ Len(h) = hp * PageSize
  <2>1. Len(h) \div PageSize \in Nat /\ Len(h) = (Len(h) \div PageSize) * PageSize + (Len(h) % PageSize)
      BY <1>1, Division
  <2>2. (Len(h) \div PageSize) * PageSize \in Nat
      BY <2>1, WholePages
  <2>. QED  BY <1>3, <2>1, <2>2 DEF HandlePages
<1>5. hp \in Depths(ids) /\ hp \in Depths(old)
  <2>1. hp <= Len(old) \div PageSize /\ Len(old) \div PageSize \in Nat
      BY <1>1, <1>3, PagesGrow, Division DEF HandlePages
  <2>2. hp <= r.cached \div PageSize /\ r.cached \div PageSize \in Nat
      BY <1>1, <1>3, PagesGrow, Division DEF HandlePages
  <2>. HIDE DEF ids, hp, old
  <2>. QED  BY <1>2, <1>4, <2>1, <2>2 DEF Depths
<1>6. h = PathTo(ids, hp)
  <2>1. \A i \in 1..hp * PageSize : old[i] = ids[i]
    <3>1. \A i \in 1..Len(h) : i \in 1..Len(old) /\ i \in 1..r.cached
        BY <1>1, <1>3
    <3>2. \A i \in 1..Len(h) : old[i] = ids[i]
      <4>. HIDE DEF ids, h
      <4>. QED  BY <1>2, <3>1
    <3>. HIDE DEF ids, hp, h, old
    <3>. QED  BY <1>4, <3>2
  <2>. HIDE DEF ids, hp, old
  <2>. QED  BY <1>1, <1>2, <1>3, <1>5, <2>1, SamePath
<1>7. OwnIndices(u) = hp + 1..PagesFor(Len(ids))
    BY <1>1, <1>2, AllocatedAtRest
<1>. HIDE DEF ids
<1>8. Settling(u, ids)
    BY <1>2, <1>5, <1>6, <1>7 DEF Settling
<1>. QED  BY <1>2, <1>8 DEF ids

\* Aborting at the top of the loop: the request is in no batch being built,
\* and, under the hypothesis, in no prefill whose token is to come.
\* The step of a request that gives its pages to the cache or the free list.
PagesSettle(u) ==
    /\ Gives /\ Holders' \subseteq Holders /\ Holders \ {u} \subseteq Holders'
    /\ \A v \in Uids \ {u} : req'[v] = req[v]
    /\ pc # "write" /\ pc' # "write"

LEMMA RecvAbortPages ==
    ASSUME KInv, NEW u \in Uids, RecvAbort(u), AbortsInFlightPrefill = FALSE
    PROVE  PInv' /\ PagesSettle(u)
<1>1. /\ pc = "recv" /\ outcome[u] = "waiting" /\ MayAbort(u)
      /\ outcome' = [outcome EXCEPT ![u] = "aborted"]
      /\ chunked' = chunked \ {u} /\ running' = running \ {u}
      /\ pc' = IF fault' = "none" THEN pc ELSE "dead"
      /\ UNCHANGED <<loop, adder, reserved, batch, last, todo, finished>>
    BY DEF RecvAbort
<1>2. Whereabouts /\ fault = "none" /\ batch = NoBatch /\ pc' # "write"
  <2>1. Whereabouts
      BY <1>1 DEF KInv, PInv
  <2>. QED  BY <1>1, <2>1 DEF KInv, PInv, Whereabouts, BatchesAreWhole, StopsOnlyToEvict
<1>3. ~Building /\ Prefilling = {} /\ AwaitBatch = {}
    BY <1>1 DEF Building, Prefilling, AwaitBatch
<1>4. /\ fault' = fault
      /\ Holders' = IF u \in chunked \cup running THEN Holders \ {u} ELSE Holders
      /\ \A v \in Uids : v # u \/ u \notin chunked \cup running => req'[v] = req[v]
      /\ TrieOK' /\ LocksOK' /\ PagesOK' /\ Gives
  <2>1. CASE u \notin chunked \cup running
    <3>1. UNCHANGED <<cacheVars, req, fault>>
        BY <2>1 DEF RecvAbort, FoundWithResources
    <3>2. TrieOK' /\ LocksOK' /\ PagesOK'
        BY <1>1, <1>2, <3>1, CacheAtRest DEF KInv, PInv
    <3>3. Holders' = Holders
        BY <3>1 DEF Holders
    <3>4. Gives
        BY <3>1 DEF Gives, cacheVars
    <3>. QED  BY <2>1, <3>1, <3>2, <3>3, <3>4
  <2>2. CASE u \in chunked \cup running
    <3>1. u \in Holders
        BY <1>2, <2>2 DEF Whereabouts, HoldersAreKnown, KInv, IInv, Queues, ChunkedHold, Holders
    <3>2. FreeReqResources(u, req[u])
        BY <2>2 DEF RecvAbort, FoundWithResources
    <3>3. LengthsOf(u) /\ SettledLengths(u)
        BY <1>2, <1>3, <3>1 DEF Whereabouts, Lengths, LengthsOf
    <3>4. /\ TypeOK /\ req[u] \in ReqObjects /\ ~req[u].freed /\ req[u].cached \in Nat
          /\ req[u].ids \in Seq(Nat) /\ Len(req[u].ids) \in Nat
        BY <3>1 DEF KInv, IInv, TypeOK, Holders, ReqObjects
    <3>5. req[u].cached <= Len(req[u].ids)
      <4>1. CASE u \in chunked
        <5>1. req[u].ids = SubSeq(Prompt[u], 1, req[u].cached) /\ req[u].cached < Len(Prompt[u])
          <6>1. Len(Prompt[u]) \in Nat
              BY SchedulerAssumption
          <6>. QED  BY <3>3, <3>4, <4>1, <6>1 DEF SettledLengths, FirstIds
        <5>2. Prompt[u] \in Seq(Nat)
            BY SchedulerAssumption
        <5>. QED  BY <3>4, <5>1, <5>2
      <4>2. CASE u \notin chunked
        <5>1. Len(req[u].ids) + Awaited(u) = req[u].cached + 1
            BY <3>3, <4>2 DEF SettledLengths
        <5>2. Awaited(u) \in 0..1
            BY <1>3 DEF Awaited
        <5>. QED  BY <3>4, <5>1, <5>2
      <4>. QED  BY <4>1, <4>2
    <3>6. Settling(u, InsertIds(req[u]))
        BY <1>1, <3>1, <3>3, <3>4, <3>5, TokensInHand
    <3>7. /\ fault' = fault /\ Holders' = Holders \ {u}
          /\ \A v \in Uids \ {u} : req'[v] = req[v]
          /\ TrieOK' /\ LocksOK' /\ PagesOK' /\ Gives
        BY <1>1, <1>2, <3>1, <3>2, <3>4, <3>6, ReleaseEffect DEF KInv, PInv
    <3>. QED  BY <2>2, <3>7
  <2>. QED  BY <2>1, <2>2
<1>5. pc' = pc
    BY <1>1, <1>2, <1>4
<1>6. AwaitLast' = AwaitLast /\ AwaitBatch' = AwaitBatch /\ Prefilling' = Prefilling /\ ~Building'
    BY <1>1, <1>3, <1>5 DEF AwaitLast, AwaitBatch, Prefilling, Building, Sampling
<1>7. BatchesAreWhole'
    BY <1>1, <1>2, <1>5, <1>6 DEF Whereabouts, BatchesAreWhole, Building
<1>8. PrefillsHold'
  <2>1. last.phase = "prefill" => u \notin Sampling(last)
      BY <1>1 DEF MayAbort, Sampling
  <2>2. AwaitLast \subseteq Sampling(last)
      BY DEF AwaitLast
  <2>. QED  BY <1>1, <1>2, <1>4, <1>5, <1>6, <2>1, <2>2 DEF Whereabouts, PrefillsHold, NoBatch
<1>9. HoldersAreKnown'
  <2>1. running' \subseteq Holders'
      BY <1>1, <1>2, <1>4 DEF Whereabouts, HoldersAreKnown
  <2>2. ASSUME NEW v \in Holders'
        PROVE  \/ v \in chunked' \cup running'
               \/ v \in AwaitLast' \cup AwaitBatch' /\ req'[v].maxDevice = req'[v].device
    <3>1. /\ v \in Holders /\ v \in Uids /\ req'[v] = req[v]
          /\ v \in chunked \cup running => v \in chunked' \cup running'
        BY <1>1, <1>4 DEF Holders
    <3>. QED  BY <1>2, <1>3, <1>6, <3>1 DEF Whereabouts, HoldersAreKnown
  <2>. QED  BY <2>1, <2>2 DEF HoldersAreKnown
<1>10. FinishedAreGone'
  <2>1. ToSet(pending') \subseteq ToSet(pending)
      BY AbortDequeues DEF KInv
  <2>2. ASSUME NEW v \in finished.old \cup finished.new
        PROVE  v \in Uids /\ req'[v].freed /\ outcome'[v] # "new" /\ v \notin ToSet(pending')
    <3>1. v \in Uids /\ req[v].freed /\ outcome[v] # "new" /\ v \notin ToSet(pending)
        BY <1>2 DEF Whereabouts, FinishedAreGone
    <3>2. req'[v].freed
        BY <1>2, <1>4, <3>1 DEF Holders, Whereabouts, HoldersAreKnown, KInv, IInv, Queues, ChunkedHold
    <3>3. outcome'[v] # "new"
        BY <1>1, <3>1 DEF KInv, IInv, TypeOK
    <3>. QED  BY <2>1, <3>1, <3>2, <3>3
  <2>. QED  BY <1>1, <2>2 DEF FinishedAreGone
<1>11. Lengths'
  <2>1. ASSUME NEW v \in Holders' PROVE LengthsOf(v)'
    <3>1. /\ v \in Holders /\ v \in Uids /\ req'[v] = req[v]
          /\ v \in chunked' <=> v \in chunked
        BY <1>1, <1>4 DEF Holders
    <3>2. LengthsOf(v)
        BY <1>2, <3>1 DEF Whereabouts, Lengths
    <3>. QED  BY <1>1, <1>6, <3>1, <3>2, SameAwaited, SameLengths
  <2>. QED  BY <2>1 DEF Lengths
<1>12. RunningHaveRoom'
    BY <1>1, <1>2, <1>4, <1>6 DEF Whereabouts, RunningHaveRoom, KInv, IInv, TypeOK
<1>13. StopsOnlyToEvict'
    BY <1>4, <1>5 DEF KInv, PInv, StopsOnlyToEvict
<1>14. PagesSettle(u)
    BY <1>1, <1>2, <1>4 DEF PagesSettle
<1>. QED  BY <1>4, <1>7, <1>8, <1>9, <1>10, <1>11, <1>12, <1>13, <1>14 DEF PInv, Whereabouts

LEMMA BeginPackPages ==
    ASSUME KInv, BeginPack
    PROVE  PInv' /\ Stays
<1>1. /\ pc = "recv" /\ pc' = "pack" /\ adder'.taken = 0
      /\ UNCHANGED <<cacheVars, loop, outcome, pending, chunked, running, req,
                     batch, last, todo, finished, fault>>
    BY DEF BeginPack
<1>2. Whereabouts /\ batch = NoBatch
    BY <1>1 DEF KInv, PInv, Whereabouts, BatchesAreWhole
<1>3. Holders' = Holders /\ TrieOK' /\ LocksOK' /\ PagesOK' /\ Stays
    BY <1>1, CacheAtRest DEF KInv, PInv
<1>4. AwaitLast' = AwaitLast /\ AwaitBatch' = AwaitBatch /\ Prefilling = {} /\ Prefilling' = {}
      /\ ~Building
    BY <1>1, <1>2 DEF AwaitLast, AwaitBatch, Prefilling, Building, Sampling, NoBatch
<1>5. BatchesAreWhole' /\ PrefillsHold' /\ HoldersAreKnown' /\ FinishedAreGone'
    BY <1>1, <1>2, <1>3, <1>4 DEF Whereabouts, BatchesAreWhole, PrefillsHold, HoldersAreKnown,
         FinishedAreGone, Building, NoBatch
<1>6. Lengths'
  <2>1. ASSUME NEW v \in Holders PROVE LengthsOf(v)'
    <3>1. v \in Uids /\ LengthsOf(v)
        BY <1>2 DEF Holders, Whereabouts, Lengths
    <3>. QED  BY <1>1, <1>4, <3>1, SameAwaited, SameLengths
  <2>. QED  BY <1>3, <2>1 DEF Lengths
<1>7. RunningHaveRoom'
    BY <1>1, <1>2, <1>4 DEF Whereabouts, RunningHaveRoom
<1>8. StopsOnlyToEvict'
    BY <1>1 DEF KInv, PInv, StopsOnlyToEvict
<1>. QED  BY <1>3, <1>5, <1>6, <1>7, <1>8 DEF PInv, Whereabouts

\* The paths of the first tokens of a sequence are paths of it.
LEMMA FirstIdsPaths ==
    ASSUME NEW s \in Seq(Nat), NEW n \in 0..Len(s)
    PROVE  /\ FirstIds(s, n) \in Seq(Nat) /\ Len(FirstIds(s, n)) = n
           /\ \A k \in Depths(FirstIds(s, n)) :
                k \in Depths(s) /\ k * PageSize <= n /\ PathTo(FirstIds(s, n), k) = PathTo(s, k)
           /\ \A k \in Depths(s) : k * PageSize <= n => k \in Depths(FirstIds(s, n))
<1>. DEFINE f == FirstIds(s, n)
<1>1. n \in Nat /\ Len(s) \in Nat /\ n <= Len(s)
    OBVIOUS
<1>2. f = SubSeq(s, 1, n)
    BY <1>1 DEF FirstIds
<1>. HIDE DEF f
<1>3. f \in Seq(Nat) /\ Len(f) = n /\ \A i \in 1..n : f[i] = s[i]
    BY <1>1, <1>2
<1>4. /\ n \div PageSize \in Nat /\ Len(s) \div PageSize \in Nat
      /\ n \div PageSize <= Len(s) \div PageSize
    BY <1>1, Division, PagesGrow
<1>5. ASSUME NEW k \in Depths(f)
      PROVE  k \in Depths(s) /\ k * PageSize <= n /\ PathTo(f, k) = PathTo(s, k)
  <2>1. k \in Depths(s)
    <3>1. k \in 0..(n \div PageSize)
        BY <1>3 DEF Depths
    <3>. QED  BY <1>4, <3>1 DEF Depths
  <2>2. k \in Nat /\ k * PageSize \in 0..n
      BY <1>3, PathElements
  <2>3. \A i \in 1..k * PageSize : f[i] = s[i]
      BY <1>1, <1>3, <2>2
  <2>. QED  BY <1>1, <1>3, <2>1, <2>2, <2>3, SamePath
<1>6. ASSUME NEW k \in Depths(s), k * PageSize <= n PROVE k \in Depths(f)
  <2>1. k \in Nat /\ k * PageSize \in Nat /\ (k * PageSize) \div PageSize = k
      BY PathElements, WholePages
  <2>2. k <= n \div PageSize
      BY <1>1, <1>6, <2>1, PagesGrow
  <2>. QED  BY <1>3, <1>4, <2>1, <2>2 DEF Depths
<1>. QED  BY <1>3, <1>5, <1>6 DEF f

\* A chunk ends within the prompt.
LEMMA ChunkWithin ==
    ASSUME adder \in Adders, NEW inputLen \in Nat, NEW cachedLen \in Nat, cachedLen <= inputLen
    PROVE  /\ ChunkSize(inputLen, cachedLen) \in Int
           /\ cachedLen + ChunkSize(inputLen, cachedLen) <= inputLen
<1>. DEFINE b == BudgetChunk(inputLen, cachedLen)
            end == cachedLen + b
<1>1. b \in Int /\ b <= inputLen - cachedLen
    BY SchedulerAssumption DEF BudgetChunk, Adders
<1>2. end % ChunkGran \in Nat
    BY <1>1, SchedulerAssumption
<1>3. \/ ChunkSize(inputLen, cachedLen) = end - cachedLen
      \/ ChunkSize(inputLen, cachedLen) = 0
      \/ ChunkSize(inputLen, cachedLen) = (end - (end % ChunkGran)) - cachedLen
    BY DEF ChunkSize
<1>4. end - cachedLen = b /\ (end - (end % ChunkGran)) - cachedLen = b - (end % ChunkGran)
    BY <1>1, <1>2
<1>. QED
  <2>. HIDE DEF b, end
  <2>. QED  BY <1>1, <1>2, <1>3, <1>4

\* Prompt and output fit the servable maximum.
LEMMA OutputFits ==
    ASSUME NEW u \in Uids, Len(Prompt[u]) < MaxSeqLen
    PROVE  /\ OutputLen(u) \in Nat \ {0} /\ MaxSeqLen \in Nat
           /\ Len(Prompt[u]) + OutputLen(u) <= MaxSeqLen
    BY SchedulerAssumption, PoolAssumption, PageSizeAssumption DEF OutputLen

\* The chunk packing adds has the tokens it is to compute, and no more.
LEMMA AddedLengths ==
    ASSUME TypeOK, NEW u \in Uids, Len(Prompt[u]) < MaxSeqLen,
           NEW row \in Rows, NEW handle \in Seq(Nat), NEW cachedLen \in Nat,
           cachedLen < Len(Prompt[u]), NEW k \in Depths(Prompt[u]),
           handle = PathTo(Prompt[u], k), k * PageSize <= cachedLen,
           u \notin batch.uids, pc' = "pack", AddOneReq(u, row, handle, cachedLen)
    PROVE  /\ LengthsOf(u)'
           /\ req'[u].row = row /\ ~req'[u].freed /\ req'[u].handle = handle
           /\ req'[u].cached = cachedLen
           /\ \A v \in Uids \ {u} : /\ req'[v] = req[v] /\ (v \in chunked' <=> v \in chunked)
                                    /\ v \in batch'.chunks <=> v \in batch.chunks
           /\ batch'.phase = "prefill" /\ batch'.uids = batch.uids \cup {u}
           /\ adder'.taken = adder.taken + 1
<1>. DEFINE size == ChunkSize(Len(Prompt[u]), cachedLen)
            end  == cachedLen + size
<1>1. Prompt[u] \in Seq(Nat) /\ Len(Prompt[u]) \in Nat
    BY SchedulerAssumption
<1>2. size \in Nat \ {0} /\ end \in Nat /\ end <= Len(Prompt[u]) /\ cachedLen < end
  <2>1. size \in Int /\ end <= Len(Prompt[u])
    <3>1. adder \in Adders /\ cachedLen <= Len(Prompt[u])
        BY <1>1 DEF TypeOK
    <3>. QED  BY <1>1, <3>1, ChunkWithin
  <2>2. size > 0
      BY DEF AddOneReq
  <2>. HIDE DEF size
  <2>. QED  BY <2>1, <2>2
<1>3. req' = [req EXCEPT ![u] =
         [row |-> row, cached |-> cachedLen, device |-> end,
          maxDevice |-> end + OutputLen(u), handle |-> handle,
          ids |-> FirstIds(Prompt[u], end), freed |-> FALSE]]
    BY DEF AddOneReq
<1>4. /\ adder'.taken = adder.taken + 1
      /\ chunked' = IF end < Len(Prompt[u]) THEN chunked \cup {u} ELSE chunked \ {u}
      /\ batch' = [phase |-> "prefill", uids |-> batch.uids \cup {u},
                   chunks |-> IF end < Len(Prompt[u]) THEN batch.chunks \cup {u}
                              ELSE batch.chunks]
  <2>1. adder' = [adder EXCEPT !.budget = @ - size, !.taken = @ + 1,
                     !.chunks = IF end < Len(Prompt[u]) THEN Append(@, u) ELSE @]
      BY DEF AddOneReq
  <2>2. adder'.taken = adder.taken + 1
      BY <2>1 DEF TypeOK, Adders
  <2>. QED  BY <2>2 DEF AddOneReq
<1>. HIDE DEF size, end
<1>5. req'[u] = [row |-> row, cached |-> cachedLen, device |-> end,
                 maxDevice |-> end + OutputLen(u), handle |-> handle,
                 ids |-> FirstIds(Prompt[u], end), freed |-> FALSE]
    BY <1>3 DEF TypeOK
<1>6. \A v \in Uids \ {u} : /\ req'[v] = req[v] /\ (v \in chunked' <=> v \in chunked)
                            /\ v \in batch'.chunks <=> v \in batch.chunks
    BY <1>3, <1>4 DEF TypeOK
<1>7. u \notin batch.chunks
    BY DEF TypeOK, Batches
<1>8. /\ u \in chunked' <=> end < Len(Prompt[u])
      /\ u \in chunked' <=> u \in batch'.chunks
    BY <1>4, <1>7
<1>9. HandleIsPrefix(req'[u])
  <2>1. /\ k \in Nat /\ k * PageSize \in Nat /\ Len(handle) = k * PageSize
        /\ Len(handle) \div PageSize = k /\ Len(handle) % PageSize = 0
      BY <1>1, PathElements
  <2>2. /\ k \in Depths(FirstIds(Prompt[u], end)) /\ Len(FirstIds(Prompt[u], end)) = end
    <3>1. k * PageSize <= end /\ end \in 0..Len(Prompt[u])
        BY <1>1, <1>2, <2>1
    <3>. QED  BY <1>1, <3>1, FirstIdsPaths
  <2>3. PathTo(FirstIds(Prompt[u], end), k) = handle
    <3>1. end \in 0..Len(Prompt[u])
        BY <1>1, <1>2
    <3>. QED  BY <1>1, <2>2, <3>1, FirstIdsPaths
  <2>. QED  BY <1>2, <1>5, <2>1, <2>2, <2>3 DEF HandleIsPrefix
<1>10. ASSUME NEW v \in Uids, v = u PROVE LengthsOf(v)'
  <2>1. (v \in Prefilling)'
      BY <1>4, <1>10 DEF Prefilling, Building
  <2>2. /\ OutputLen(u) \in Nat \ {0} /\ MaxSeqLen \in Nat
        /\ Len(Prompt[u]) + OutputLen(u) <= MaxSeqLen
      BY OutputFits
  <2>3. /\ end < end + OutputLen(u) /\ end <= end + OutputLen(u)
        /\ end + OutputLen(u) <= MaxSeqLen
      BY <1>1, <1>2, <2>2
  <2>4. PrefillLengths(v)'
      BY <1>2, <1>5, <1>8, <1>10, <2>3 DEF PrefillLengths
  <2>. QED  BY <1>5, <1>9, <1>10, <2>1, <2>3, <2>4 DEF LengthsOf
<1>. QED  BY <1>4, <1>5, <1>6, <1>10

\* Packing takes a chunk of the next pending request, which is not in the
\* batch yet and waits for no token.
LEMMA PackOnePages ==
    ASSUME KInv, PackOne, NEW u \in Uids, u = pending[adder.taken + 1]
    PROVE  PInv' /\ RowsStay(Holders) /\ UNCHANGED <<freePages, tree>>
<1>1. /\ pc = "pack" /\ pc' = "pack" /\ adder.taken < Len(pending)
      /\ UNCHANGED <<loop, pc, outcome, pending, running, last, todo, finished, fault>>
      /\ PackChunk(u) \/ PackNew(u)
    BY DEF PackOne
<1>2. Whereabouts /\ TypeOK /\ RowsOK /\ fault = "none"
    BY <1>1 DEF KInv, IInv, PInv, StopsOnlyToEvict
<1>3. /\ adder.taken \in Nat /\ Len(pending) \in Nat /\ adder.taken + 1 \in DOMAIN pending
      /\ DOMAIN pending = 1..Len(pending)
    BY <1>1 DEF KInv, IInv, TypeOK, Adders
<1>4. u \in ToSet(pending) /\ Len(Prompt[u]) < MaxSeqLen
  <2>1. u \in ToSet(pending)
      BY <1>3 DEF ToSet
  <2>. QED  BY <2>1 DEF KInv, IInv, Queues, QueueServable
<1>5. /\ batch.uids \subseteq { pending[i] : i \in 1..adder.taken }
      /\ batch.phase \in {"none", "prefill"}
      /\ batch.phase = "none" => batch = NoBatch
    BY <1>1, <1>2 DEF Whereabouts, BatchesAreWhole, TypeOK, Batches
<1>6. u \notin batch.uids
  <2>1. ASSUME NEW i \in 1..adder.taken PROVE pending[i] # u
    <3>1. i \in DOMAIN pending /\ i # adder.taken + 1
        BY <1>1, <1>3
    <3>. QED  BY <1>3, <3>1 DEF KInv, IInv, Queues, QueueDistinct
  <2>. QED  BY <1>5, <2>1
<1>7. u \notin running /\ u \notin Sampling(last) /\ u \notin AwaitLast
  <2>1. u \notin chunked => u \notin running /\ u \notin last.uids /\ req[u].freed
    <3>1. adder.taken + 1 > adder.taken
        BY <1>3
    <3>. QED  BY <1>3, <3>1 DEF KInv, IInv, Queues, QueuedHoldNothing
  <2>2. u \notin running /\ u \notin Sampling(last)
      BY <2>1 DEF KInv, IInv, Queues, ChunkedHold, Sampling
  <2>. QED  BY <2>2 DEF AwaitLast
<1>8. Prompt[u] \in Seq(Nat) /\ Len(Prompt[u]) \in Nat \ {0}
    BY SchedulerAssumption
<1>9. /\ LengthsOf(u)'
      /\ \A v \in Uids \ {u} : /\ req'[v] = req[v] /\ (v \in chunked' <=> v \in chunked)
                               /\ v \in batch'.chunks <=> v \in batch.chunks
      /\ batch'.phase = "prefill" /\ batch'.uids = batch.uids \cup {u}
      /\ adder'.taken = adder.taken + 1
      /\ Holders' = Holders \cup {u}
      /\ TrieOK' /\ LocksOK' /\ PagesOK'
      /\ RowsStay(Holders) /\ UNCHANGED <<freePages, tree>>
  <2>1. CASE PackChunk(u)
    <3>. DEFINE c == req[u].cached
                h == req[u].handle
                k == HandlePages(u)
    <3>1. /\ u \in chunked /\ UNCHANGED cacheVars /\ AddOneReq(u, req[u].row, h, c)
        BY <2>1 DEF PackChunk
    <3>2. u \in Holders /\ u \notin Prefilling /\ req[u].row \in Rows
        BY <1>6, <3>1 DEF KInv, IInv, RowsOK, HoldersHaveRows, Queues, ChunkedHold, Holders, Prefilling
    <3>3. h \in Seq(Nat) /\ c \in Nat /\ Len(h) \in Nat
      <4>1. req[u] \in ReqObjects
          BY <1>2 DEF TypeOK
      <4>2. h \in Seq(Nat) /\ c \in Nat
          BY <4>1 DEF ReqObjects
      <4>. QED  BY <4>2
    <3>4. /\ c < Len(Prompt[u]) /\ req[u].ids = FirstIds(Prompt[u], c)
          /\ h = PathTo(req[u].ids, k) /\ Len(h) <= c /\ Len(h) % PageSize = 0
        BY <1>2, <3>1, <3>2 DEF Whereabouts, Lengths, LengthsOf, SettledLengths, HandleIsPrefix, HandlePages
    <3>5. k \in Nat /\ k * PageSize = Len(h) /\ k \in Depths(req[u].ids)
      <4>1. Len(h) \div PageSize \in Nat /\ Len(h) = (Len(h) \div PageSize) * PageSize + (Len(h) % PageSize)
          BY <3>3, Division
      <4>2. (Len(h) \div PageSize) * PageSize \in Nat
          BY <4>1, WholePages
      <4>3. c \in 0..Len(Prompt[u])
          BY <1>8, <3>3, <3>4
      <4>4. Len(req[u].ids) = c
          BY <1>8, <3>4, <4>3, FirstIdsPaths
      <4>5. Len(h) \div PageSize <= c \div PageSize /\ c \div PageSize \in Nat
          BY <3>3, <3>4, PagesGrow, Division
      <4>. HIDE DEF c, h
      <4>. QED  BY <3>4, <4>1, <4>2, <4>4, <4>5 DEF Depths, HandlePages, h
    <3>6. k \in Depths(Prompt[u]) /\ h = PathTo(Prompt[u], k)
      <4>1. c \in 0..Len(Prompt[u])
          BY <1>8, <3>3, <3>4
      <4>. HIDE DEF k, h, c
      <4>2. \A j \in Depths(FirstIds(Prompt[u], c)) :
              j \in Depths(Prompt[u]) /\ PathTo(FirstIds(Prompt[u], c), j) = PathTo(Prompt[u], j)
          BY <1>8, <4>1, FirstIdsPaths
      <4>. QED  BY <3>4, <3>5, <4>2
    <3>. HIDE DEF k, h, c
    <3>7. k * PageSize <= c
        BY <3>4, <3>5
    <3>8. /\ LengthsOf(u)'
          /\ req'[u].row = req[u].row /\ ~req'[u].freed /\ req'[u].handle = h
          /\ req'[u].cached = c
          /\ \A v \in Uids \ {u} : /\ req'[v] = req[v] /\ (v \in chunked' <=> v \in chunked)
                                   /\ v \in batch'.chunks <=> v \in batch.chunks
          /\ batch'.phase = "prefill" /\ batch'.uids = batch.uids \cup {u}
          /\ adder'.taken = adder.taken + 1
        BY <1>1, <1>2, <1>4, <1>6, <3>1, <3>2, <3>3, <3>4, <3>6, <3>7, AddedLengths
    <3>9. \A v \in Uids : /\ req'[v].row = req[v].row /\ req'[v].freed = req[v].freed
                          /\ req'[v].handle = req[v].handle /\ req'[v].cached = req[v].cached
      <4>1. req'[u].freed = req[u].freed
        <5>1. ~req[u].freed /\ req[u].freed \in BOOLEAN /\ req'[u].freed \in BOOLEAN
          <6>1. TypeOK'
              BY <1>1, NextIInv DEF KInv, IInv, Next, Step
          <6>. QED  BY <1>2, <3>2, <6>1 DEF TypeOK, ReqObjects, Holders
        <5>. QED  BY <3>8, <5>1
      <4>2. req'[u].handle = req[u].handle /\ req'[u].cached = req[u].cached
          BY <3>8 DEF h, c
      <4>. QED  BY <3>8, <4>1, <4>2
    <3>10. Holders' = Holders /\ TrieOK' /\ LocksOK' /\ PagesOK' /\ Stays
        BY <1>1, <3>1, <3>9, CacheAtRest DEF KInv, PInv
    <3>. QED  BY <3>2, <3>8, <3>10 DEF Stays
  <2>2. CASE PackNew(u)
    <3>. DEFINE p == FirstIds(Prompt[u], Len(Prompt[u]) - 1)
                m == MatchedPages(tree, p)
                h == Matched(u)
                c == Len(h)
    <3>1. /\ u \notin chunked /\ freeRows # << >> /\ TakeRow(h) /\ AddOneReq(u, NextRow, h, c)
        BY <2>2 DEF PackNew, Admissible
    <3>2. req[u].freed
      <4>1. adder.taken + 1 > adder.taken
          BY <1>3
      <4>. QED  BY <1>3, <3>1, <4>1 DEF KInv, IInv, Queues, QueuedHoldNothing
    <3>3. NextRow \in Rows
      <4>1. ASSUME NEW s \in Seq(Rows), s # << >> PROVE Last(s) \in Rows
          BY <4>1, FrontLast
      <4>. QED  BY <1>2, <3>1, <4>1 DEF RowsOK, NextRow
    <3>4. p \in Seq(Nat) /\ Len(p) = Len(Prompt[u]) - 1
      <4>1. Len(Prompt[u]) - 1 \in 0..Len(Prompt[u])
          BY <1>8
      <4>. QED  BY <1>8, <4>1, FirstIdsPaths
    <3>5. h = MatchPrefix(tree, p) /\ h = PathTo(p, m) /\ m \in Depths(p)
      <4>1. m \in 0..(Len(p) \div PageSize)
          BY <3>4, MatchPrefixType
      <4>. HIDE DEF p
      <4>2. m \in Depths(p)
          BY <4>1 DEF Depths
      <4>. QED  BY <4>2 DEF Matched, MatchPrefix, p
    <3>6. h \in Seq(Nat) /\ c = m * PageSize /\ c \in Nat /\ c < Len(Prompt[u])
      <4>. HIDE DEF p, m, h
      <4>1. PathTo(p, m) \in Seq(Nat) /\ Len(PathTo(p, m)) = m * PageSize /\ m * PageSize \in 0..Len(p)
          BY <3>4, <3>5, PathElements
      <4>. QED  BY <1>8, <3>4, <3>5, <4>1
    <3>7. m \in Depths(Prompt[u]) /\ h = PathTo(Prompt[u], m)
      <4>1. Len(Prompt[u]) - 1 \in 0..Len(Prompt[u])
          BY <1>8
      <4>2. ASSUME NEW n \in 0..Len(Prompt[u])
            PROVE  \A j \in Depths(FirstIds(Prompt[u], n)) :
                     j \in Depths(Prompt[u]) /\ PathTo(FirstIds(Prompt[u], n), j) = PathTo(Prompt[u], j)
          BY <1>8, FirstIdsPaths
      <4>3. \A j \in Depths(p) : j \in Depths(Prompt[u]) /\ PathTo(p, j) = PathTo(Prompt[u], j)
          BY <4>1, <4>2
      <4>. HIDE DEF p, m, h
      <4>. QED  BY <3>5, <4>3
    <3>. HIDE DEF p, m, h
    <3>8. m * PageSize <= c
        BY <3>6
    <3>9. /\ LengthsOf(u)'
          /\ req'[u].row = NextRow /\ ~req'[u].freed /\ req'[u].handle = h
          /\ req'[u].cached = c
          /\ \A v \in Uids \ {u} : /\ req'[v] = req[v] /\ (v \in chunked' <=> v \in chunked)
                                   /\ v \in batch'.chunks <=> v \in batch.chunks
          /\ batch'.phase = "prefill" /\ batch'.uids = batch.uids \cup {u}
          /\ adder'.taken = adder.taken + 1
        BY <1>1, <1>2, <1>4, <1>6, <3>1, <3>3, <3>6, <3>7, <3>8, AddedLengths
    <3>10. Holders' = Holders \cup {u} /\ TrieOK' /\ LocksOK' /\ PagesOK' /\ RowsStay(Holders)
      <4>1. /\ freeRows # << >> /\ TakeRow(MatchPrefix(tree, p))
            /\ pc # "write" /\ pc' # "write"
            /\ ~req'[u].freed /\ req'[u].row = NextRow /\ req'[u].handle = MatchPrefix(tree, p)
            /\ req'[u].cached = Len(MatchPrefix(tree, p))
            /\ \A v \in Uids \ {u} : req'[v] = req[v]
          BY <1>1, <3>1, <3>5, <3>9
      <4>2. TrieOK /\ LocksOK /\ PagesOK
          BY DEF KInv, PInv
      <4>. QED  BY <1>2, <3>2, <3>4, <4>1, <4>2, TakeEffect
    <3>. QED  BY <3>1, <3>9, <3>10 DEF TakeRow
  <2>. QED  BY <1>1, <2>1, <2>2
<1>10. /\ AwaitLast' = AwaitLast /\ AwaitBatch' = AwaitBatch
       /\ Prefilling = batch.uids /\ Prefilling' = Prefilling \cup {u}
       /\ Building /\ Building'
  <2>1. Prefilling = batch.uids
    <3>1. CASE batch.phase = "prefill"
        BY <1>1, <3>1 DEF Prefilling, Building
    <3>2. CASE batch.phase = "none"
        BY <1>5, <3>2 DEF Prefilling, NoBatch
    <3>. QED  BY <1>5, <3>1, <3>2
  <2>2. Prefilling' = batch'.uids
      BY <1>1, <1>9 DEF Prefilling, Building
  <2>. QED  BY <1>1, <1>9, <2>1, <2>2 DEF AwaitLast, AwaitBatch, Building, Sampling
<1>11. BatchesAreWhole'
  <2>1. batch'.uids \subseteq { pending'[i] : i \in 1..adder'.taken }
    <3>1. adder.taken + 1 \in 1..adder'.taken /\ 1..adder.taken \subseteq 1..adder'.taken
        BY <1>3, <1>9
    <3>. QED  BY <1>1, <1>5, <1>9, <3>1
  <2>2. batch'.uids \subseteq Holders'
      BY <1>1, <1>2, <1>9, <1>10 DEF Whereabouts, BatchesAreWhole
  <2>. QED  BY <1>1, <1>2, <1>9, <2>1, <2>2 DEF Whereabouts, BatchesAreWhole
<1>12. PrefillsHold'
  <2>1. batch.uids \cap AwaitLast = {}
    <3>1. CASE batch.phase = "prefill"
        BY <1>2, <3>1 DEF Whereabouts, PrefillsHold
    <3>2. CASE batch.phase = "none"
        BY <1>5, <3>2 DEF NoBatch
    <3>. QED  BY <1>5, <3>1, <3>2
  <2>. QED  BY <1>1, <1>2, <1>7, <1>9, <1>10, <2>1 DEF Whereabouts, PrefillsHold
<1>13. HoldersAreKnown'
    BY <1>1, <1>2, <1>9, <1>10 DEF Whereabouts, HoldersAreKnown, Holders
<1>14. FinishedAreGone'
  <2>1. \A v \in finished.old \cup finished.new : v \in Uids \ {u}
      BY <1>2, <1>4 DEF Whereabouts, FinishedAreGone
  <2>. QED  BY <1>1, <1>2, <1>9, <2>1 DEF Whereabouts, FinishedAreGone
<1>15. Lengths'
  <2>1. ASSUME NEW v \in Holders' PROVE LengthsOf(v)'
    <3>1. CASE v = u
        BY <1>9, <3>1
    <3>2. CASE v # u
      <4>1. v \in Holders /\ v \in Uids /\ LengthsOf(v)
          BY <1>2, <1>9, <3>2 DEF Whereabouts, Lengths, Holders
      <4>2. Awaited(v)' = Awaited(v)
          BY <1>10, <4>1, SameAwaited
      <4>3. (v \in Prefilling)' <=> v \in Prefilling
          BY <1>10, <3>2
      <4>. QED  BY <1>9, <3>2, <4>1, <4>2, <4>3, SameLengths
    <3>. QED  BY <3>1, <3>2
  <2>. QED  BY <2>1 DEF Lengths
<1>16. RunningHaveRoom'
  <2>1. \A v \in running : v \in Uids \ {u}
      BY <1>7 DEF KInv, IInv, TypeOK
  <2>. QED  BY <1>1, <1>2, <1>9, <1>10, <2>1 DEF Whereabouts, RunningHaveRoom
<1>17. StopsOnlyToEvict'
    BY <1>1 DEF KInv, PInv, StopsOnlyToEvict
<1>. QED  BY <1>9, <1>11, <1>12, <1>13, <1>14, <1>15, <1>16, <1>17 DEF PInv, Whereabouts

\* The lengths of everyone are as before where nobody's place changes.
LEMMA LengthsKept ==
    ASSUME Lengths, Holders' = Holders, req' = req, chunked' = chunked,
           \A v \in Holders : Awaited(v)' = Awaited(v), Prefilling' = Prefilling,
           Prefilling # {} => batch'.chunks = batch.chunks
    PROVE  Lengths'
<1>1. ASSUME NEW v \in Holders PROVE LengthsOf(v)'
  <2>1. v \in Uids /\ LengthsOf(v) /\ Awaited(v)' = Awaited(v)
      BY DEF Holders, Lengths
  <2>2. v \in Prefilling => (v \in batch'.chunks <=> v \in batch.chunks)
      OBVIOUS
  <2>. QED  BY <2>1, <2>2, SameLengths
<1>. QED  BY <1>1 DEF Lengths

\* Packing ends: a prefill batch, a decode batch of all that run, or none.
LEMMA EndPackPages ==
    ASSUME KInv, EndPack
    PROVE  PInv' /\ Stays
<1>1. /\ pc = "pack" /\ adder' = NoAdder /\ pending' = Requeued
      /\ batch' = IF batch # NoBatch THEN batch
                  ELSE IF running = {} THEN NoBatch
                  ELSE [phase |-> "decode", uids |-> running, chunks |-> {}]
      /\ \/ /\ batch' = NoBatch /\ pc' = "commit"
            /\ todo' = (IF loop = "overlap" THEN last ELSE batch').uids
         \/ batch' # NoBatch /\ pc' = "evict" /\ todo' = batch'.uids
      /\ UNCHANGED <<cacheVars, loop, outcome, chunked, running, req, last, finished, fault>>
    BY DEF EndPack
<1>2. Whereabouts /\ TypeOK
    BY <1>1 DEF KInv, IInv, PInv
<1>3. Holders' = Holders /\ TrieOK' /\ LocksOK' /\ PagesOK' /\ Stays
    BY <1>1, CacheAtRest DEF KInv, PInv
<1>4. ToSet(pending') \subseteq ToSet(pending)
    BY <1>1, RequeuedElements DEF KInv
<1>5. /\ batch.phase \in {"none", "prefill"}
      /\ batch.phase = "none" => batch = NoBatch
  <2>1. batch.phase \in {"none", "prefill", "decode"}
      BY <1>2 DEF TypeOK, Batches
  <2>. QED  BY <1>1, <1>2, <2>1 DEF Whereabouts, BatchesAreWhole
<1>6. \/ batch.phase = "prefill" /\ batch' = batch /\ pc' = "evict" /\ todo' = batch'.uids
      \/ /\ batch = NoBatch /\ running # {} /\ pc' = "evict" /\ todo' = batch'.uids
         /\ batch' = [phase |-> "decode", uids |-> running, chunks |-> {}]
      \/ batch = NoBatch /\ running = {} /\ batch' = NoBatch /\ pc' = "commit"
         /\ todo' = (IF loop = "overlap" THEN last ELSE NoBatch).uids
    BY <1>1, <1>5 DEF NoBatch
<1>7. /\ AwaitLast' = AwaitLast /\ AwaitBatch' = AwaitBatch /\ Prefilling' = Prefilling
      /\ Prefilling # {} => batch' = batch
  <2>1. CASE batch.phase = "prefill" /\ batch' = batch /\ pc' = "evict"
      BY <1>1, <2>1 DEF AwaitLast, AwaitBatch, Prefilling, Building, Sampling
  <2>2. CASE batch = NoBatch /\ pc' = "evict" /\ batch'.phase = "decode"
      BY <1>1, <2>2 DEF AwaitLast, AwaitBatch, Prefilling, Building, Sampling, NoBatch
  <2>3. CASE /\ batch = NoBatch /\ batch' = NoBatch /\ pc' = "commit"
             /\ todo' = (IF loop = "overlap" THEN last ELSE NoBatch).uids
    <3>1. loop \in {"normal", "overlap"}
        BY <1>2, SchedulerAssumption DEF TypeOK
    <3>. QED  BY <1>1, <2>3, <3>1 DEF AwaitLast, AwaitBatch, Prefilling, Building, Sampling, NoBatch
  <2>. QED  BY <1>6, <2>1, <2>2, <2>3
<1>8. BatchesAreWhole'
    BY <1>1, <1>2, <1>3, <1>6 DEF Whereabouts, BatchesAreWhole, Building, HoldersAreKnown, NoBatch
<1>9. PrefillsHold'
    BY <1>1, <1>2, <1>3, <1>6, <1>7 DEF Whereabouts, PrefillsHold, NoBatch
<1>10. HoldersAreKnown'
  <2>1. \A v \in Uids : Building /\ v \in batch.uids => Building' /\ v \in batch'.uids
    <3>1. CASE batch = NoBatch
        BY <3>1 DEF NoBatch
    <3>2. CASE batch' = batch /\ pc' = "evict"
        BY <3>2 DEF Building
    <3>. QED  BY <1>6, <3>1, <3>2
  <2>. QED  BY <1>1, <1>2, <1>3, <1>7, <2>1 DEF Whereabouts, HoldersAreKnown, Holders
<1>11. FinishedAreGone'
    BY <1>1, <1>2, <1>4 DEF Whereabouts, FinishedAreGone
<1>12. Lengths'
  <2>1. \A v \in Holders : Awaited(v)' = Awaited(v)
      BY <1>7, SameAwaited DEF Holders
  <2>. QED  BY <1>1, <1>2, <1>3, <1>7, <2>1, LengthsKept DEF Whereabouts
<1>13. RunningHaveRoom'
    BY <1>1, <1>2, <1>7 DEF Whereabouts, RunningHaveRoom
<1>14. StopsOnlyToEvict'
    BY <1>1 DEF KInv, PInv, StopsOnlyToEvict
<1>. QED  BY <1>3, <1>8, <1>9, <1>10, <1>11, <1>12, <1>13, <1>14 DEF PInv, Whereabouts

\* Eviction frees what nobody locks.
Evicts ==
    /\ Holders' = Holders /\ RowsStay(Holders)
    /\ Range(freePages) \subseteq Range(freePages')
    /\ \E gone \in SUBSET Unreferenced(refs) :
         tree' = Without(tree, gone) /\ refs' = Without(refs, gone)

\* An eviction, unless the process stops.
LEMMA EnsurePagesPages ==
    ASSUME KInv, EnsurePages
    PROVE  PInv' /\ (Stays \/ Evicts)
<1>1. /\ pc = "evict"
      /\ UNCHANGED <<loop, outcome, pending, chunked, running, req, adder, reserved, batch,
                     last, todo, finished>>
      /\ \/ pc' = "write" /\ UNCHANGED <<cacheVars, fault>>
         \/ EvictFor(BatchPages) /\ pc' = "write" /\ UNCHANGED fault
         \/ pc' = "dead" /\ fault' = "evict" /\ UNCHANGED cacheVars
    BY DEF EnsurePages
<1>2. Whereabouts /\ TypeOK /\ TrieOK /\ LocksOK /\ PagesOK
    BY <1>1 DEF KInv, IInv, PInv
<1>3. Holders' = Holders
    BY <1>1 DEF Holders
<1>4. \A v \in Holders : OwnIndices(v)' = OwnIndices(v)
  <2>1. todo = batch.uids
      BY <1>1, <1>2 DEF Whereabouts, BatchesAreWhole
  <2>. QED  BY <1>1, <2>1 DEF OwnIndices, Allocated, HandlePages
<1>5. TrieOK' /\ LocksOK' /\ PagesOK' /\ (Stays \/ Evicts)
  <2>1. CASE UNCHANGED cacheVars
      BY <1>1, <1>2, <1>4, <2>1, CacheKept
  <2>2. CASE EvictFor(BatchPages)
    <3>1. PICK gone \in EvictionSets(refs, BatchPages - Len(freePages)) :
            /\ freePages' = freePages \o SetToSeq({ tree[n] : n \in gone })
            /\ tree' = Without(tree, gone)
            /\ refs' = Without(refs, gone)
            /\ UNCHANGED <<freeRows, pageTable>>
        BY <2>2 DEF EvictFor
    <3>2. /\ gone \in SUBSET Unreferenced(refs)
          /\ \A n \in gone, m \in DOMAIN refs : n \in PathsOf(m) => m \in gone
        BY DEF EvictionSets
    <3>3. /\ TrieOK' /\ LocksOK' /\ PagesOK'
          /\ Range(freePages) \subseteq Range(freePages')
        BY <1>1, <1>2, <1>3, <1>4, <3>1, <3>2, EvictEffect
    <3>4. RowsStay(Holders)
        BY <1>1, <1>3, <1>4, <3>1 DEF RowsStay
    <3>5. Evicts
        BY <1>3, <3>1, <3>2, <3>3, <3>4 DEF Evicts
    <3>. QED  BY <3>3, <3>5
  <2>. QED  BY <1>1, <2>1, <2>2
<1>6. CASE pc' = "dead" /\ fault' = "evict"
    BY <1>5, <1>6 DEF PInv, StopsOnlyToEvict
<1>7. CASE pc' = "write" /\ fault' = fault
  <2>1. /\ AwaitLast' = AwaitLast /\ AwaitBatch' = AwaitBatch /\ Prefilling' = Prefilling
        /\ Building /\ Building'
      BY <1>1, <1>7 DEF AwaitLast, AwaitBatch, Prefilling, Building, Sampling
  <2>2. BatchesAreWhole' /\ PrefillsHold' /\ HoldersAreKnown' /\ FinishedAreGone'
      BY <1>1, <1>2, <1>3, <1>7, <2>1 DEF Whereabouts, BatchesAreWhole, PrefillsHold,
           HoldersAreKnown, FinishedAreGone
  <2>3. Lengths'
    <3>1. \A v \in Holders : Awaited(v)' = Awaited(v)
        BY <2>1, SameAwaited DEF Holders
    <3>. QED  BY <1>1, <1>2, <1>3, <2>1, <3>1, LengthsKept DEF Whereabouts
  <2>4. RunningHaveRoom'
      BY <1>1, <1>2, <2>1 DEF Whereabouts, RunningHaveRoom
  <2>5. StopsOnlyToEvict'
      BY <1>1, <1>7 DEF KInv, PInv, StopsOnlyToEvict
  <2>. QED  BY <1>5, <2>2, <2>3, <2>4, <2>5 DEF PInv, Whereabouts
<1>. QED  BY <1>1, <1>6, <1>7

LEMMA WriteOnePages ==
    ASSUME KInv, NEW u \in Uids, WriteOne(u)
    PROVE  PInv' /\ Takes(u)
<1>1. /\ pc = "write" /\ pc' = "write"
      /\ UNCHANGED <<loop, pc, outcome, pending, chunked, running, req, adder, reserved,
                     batch, last, finished, fault>>
    BY DEF WriteOne
<1>2. Whereabouts
    BY <1>1 DEF KInv, PInv
<1>3. Holders' = Holders /\ TrieOK' /\ LocksOK' /\ PagesOK' /\ Takes(u)
    BY <1>2, WriteEffect DEF KInv, PInv
<1>4. /\ AwaitLast' = AwaitLast /\ AwaitBatch' = AwaitBatch /\ Prefilling' = Prefilling
      /\ Building /\ Building'
    BY <1>1 DEF AwaitLast, AwaitBatch, Prefilling, Building, Sampling
<1>5. BatchesAreWhole' /\ PrefillsHold' /\ HoldersAreKnown' /\ FinishedAreGone'
    BY <1>1, <1>2, <1>3, <1>4 DEF Whereabouts, BatchesAreWhole, PrefillsHold,
         HoldersAreKnown, FinishedAreGone
<1>6. Lengths'
  <2>1. \A v \in Holders : Awaited(v)' = Awaited(v)
      BY <1>4, SameAwaited DEF Holders
  <2>. QED  BY <1>1, <1>2, <1>3, <1>4, <2>1, LengthsKept DEF Whereabouts
<1>7. RunningHaveRoom'
    BY <1>1, <1>2, <1>4 DEF Whereabouts, RunningHaveRoom
<1>8. StopsOnlyToEvict'
    BY <1>1 DEF KInv, PInv, StopsOnlyToEvict
<1>. QED  BY <1>3, <1>5, <1>6, <1>7, <1>8 DEF PInv, Whereabouts

LEMMA CommitChunkPages ==
    ASSUME KInv, NEW u \in Uids, CommitChunk(u)
    PROVE  PInv' /\ Stays
<1>1. /\ pc = "commit" /\ pc' = "commit" /\ u \in Committing.chunks /\ todo' = todo \ {u}
      /\ UNCHANGED <<cacheVars, loop, pc, outcome, pending, chunked, running, req,
                     adder, reserved, batch, last, finished, fault>>
    BY DEF CommitChunk
<1>2. Whereabouts /\ loop \in {"normal", "overlap"}
    BY <1>1, SchedulerAssumption DEF KInv, PInv, IInv, TypeOK
<1>3. Holders' = Holders /\ TrieOK' /\ LocksOK' /\ PagesOK' /\ Stays
    BY <1>1, CacheAtRest DEF KInv, PInv
<1>4. /\ AwaitLast' = AwaitLast /\ AwaitBatch' = AwaitBatch /\ Prefilling' = Prefilling
      /\ ~Building /\ ~Building'
    BY <1>1, <1>2 DEF AwaitLast, AwaitBatch, Prefilling, Building, Sampling, Committing
<1>5. BatchesAreWhole' /\ PrefillsHold' /\ HoldersAreKnown' /\ FinishedAreGone'
    BY <1>1, <1>2, <1>3, <1>4 DEF Whereabouts, BatchesAreWhole, PrefillsHold,
         HoldersAreKnown, FinishedAreGone
<1>6. Lengths'
  <2>1. \A v \in Holders : Awaited(v)' = Awaited(v)
      BY <1>4, SameAwaited DEF Holders
  <2>. QED  BY <1>1, <1>2, <1>3, <1>4, <2>1, LengthsKept DEF Whereabouts
<1>7. RunningHaveRoom'
    BY <1>1, <1>2, <1>4 DEF Whereabouts, RunningHaveRoom
<1>8. StopsOnlyToEvict'
    BY <1>1 DEF KInv, PInv, StopsOnlyToEvict
<1>. QED  BY <1>3, <1>5, <1>6, <1>7, <1>8 DEF PInv, Whereabouts

\* The batch whose tokens are to come becomes the last one.
LEMMA EndCommitPages ==
    ASSUME KInv, EndCommit
    PROVE  PInv' /\ Stays
<1>1. /\ pc = "commit" /\ pc' = "recv" /\ todo = {}
      /\ finished' \in {finished, [old |-> finished.new, new |-> {}]}
      /\ last' = IF loop = "overlap" THEN batch ELSE NoBatch
      /\ batch' = NoBatch
      /\ UNCHANGED <<cacheVars, loop, outcome, pending, chunked, running, req,
                     adder, reserved, todo, fault>>
    BY DEF EndCommit
<1>2. Whereabouts /\ loop \in {"normal", "overlap"}
    BY <1>1, SchedulerAssumption DEF KInv, PInv, IInv, TypeOK
<1>3. Holders' = Holders /\ TrieOK' /\ LocksOK' /\ PagesOK' /\ Stays
    BY <1>1, CacheAtRest DEF KInv, PInv
<1>4. /\ AwaitLast' = AwaitBatch /\ AwaitBatch' = AwaitLast /\ AwaitBatch' = {}
      /\ Prefilling = {} /\ Prefilling' = {} /\ ~Building /\ ~Building'
    BY <1>1, <1>2 DEF AwaitLast, AwaitBatch, Prefilling, Building, Sampling, NoBatch
<1>5. BatchesAreWhole'
    BY <1>1, <1>2, <1>4 DEF Whereabouts, BatchesAreWhole, Building, NoBatch
<1>6. PrefillsHold'
    BY <1>1, <1>2, <1>3, <1>4 DEF Whereabouts, PrefillsHold, NoBatch
<1>7. HoldersAreKnown'
    BY <1>1, <1>2, <1>3, <1>4 DEF Whereabouts, HoldersAreKnown, Holders
<1>8. FinishedAreGone'
  <2>1. finished'.old \cup finished'.new \subseteq finished.old \cup finished.new
      BY <1>1
  <2>. QED  BY <1>1, <1>2, <2>1 DEF Whereabouts, FinishedAreGone
<1>9. Lengths'
  <2>1. ASSUME NEW v \in Holders PROVE Awaited(v)' = Awaited(v)
      BY <1>4 DEF Awaited
  <2>. QED  BY <1>1, <1>2, <1>3, <1>4, <2>1, LengthsKept DEF Whereabouts
<1>10. RunningHaveRoom'
    BY <1>1, <1>2, <1>4 DEF Whereabouts, RunningHaveRoom
<1>11. StopsOnlyToEvict'
    BY <1>1 DEF KInv, PInv, StopsOnlyToEvict
<1>. QED  BY <1>3, <1>5, <1>6, <1>7, <1>8, <1>9, <1>10, <1>11 DEF PInv, Whereabouts

\* A launch advances every request of the batch; what it samples is owed.
LEMMA ForwardPages ==
    ASSUME KInv, Forward
    PROVE  PInv' /\ Stays
<1>. DEFINE fits(v) == req'[v].maxDevice > req'[v].device
<1>1. /\ pc = "write" /\ pc' = "commit" /\ todo = {}
      /\ req' = [v \in Uids |-> IF v \in batch.uids THEN CompleteOne(req[v]) ELSE req[v]]
      /\ running' = (running \ batch.uids) \cup { v \in batch.uids \ batch.chunks : fits(v) }
      /\ todo' = (IF loop = "overlap" THEN last ELSE batch).uids
      /\ UNCHANGED <<cacheVars, loop, outcome, pending, chunked, adder, reserved, batch,
                     last, finished, fault>>
    BY DEF Forward
<1>2. Whereabouts /\ TypeOK /\ loop \in {"normal", "overlap"}
    BY <1>1, SchedulerAssumption DEF KInv, PInv, IInv, TypeOK
<1>3. batch.uids \subseteq Holders /\ batch.chunks \subseteq batch.uids
    BY <1>1, <1>2 DEF Whereabouts, BatchesAreWhole, Building, TypeOK, Batches
<1>4. \A v \in Uids \ batch.uids : req'[v] = req[v]
    BY <1>1
<1>5. ASSUME NEW v \in batch.uids
      PROVE  /\ v \in Uids /\ req'[v].row = req[v].row /\ req'[v].freed = req[v].freed
             /\ req'[v].handle = req[v].handle /\ req'[v].ids = req[v].ids
             /\ req'[v].cached = req[v].device /\ req'[v].device = req[v].device + 1
             /\ req'[v].maxDevice = req[v].maxDevice
  <2>1. v \in Uids /\ req[v] \in ReqObjects
      BY <1>2, <1>3 DEF Holders, TypeOK
  <2>2. req'[v] = [req[v] EXCEPT !.cached = req[v].device, !.device = @ + 1]
      BY <1>1, <2>1 DEF CompleteOne
  <2>. QED  BY <2>1, <2>2 DEF ReqObjects
<1>6. \A v \in Uids : /\ req'[v].row = req[v].row /\ req'[v].freed = req[v].freed
                      /\ req'[v].handle = req[v].handle
    BY <1>4, <1>5
<1>7. \A v \in Holders : OwnIndices(v)' = OwnIndices(v)
  <2>1. ASSUME NEW v \in Holders PROVE OwnIndices(v)' = OwnIndices(v)
    <3>1. v \in Uids /\ HandlePages(v)' = HandlePages(v)
        BY <1>6 DEF Holders, HandlePages
    <3>2. CASE v \in batch.uids
        BY <1>1, <1>5, <3>1, <3>2 DEF OwnIndices, Allocated
    <3>3. CASE v \notin batch.uids
        BY <1>1, <1>4, <3>1, <3>3 DEF OwnIndices, Allocated
    <3>. QED  BY <3>2, <3>3
  <2>. QED  BY <2>1
<1>8. Holders' = Holders /\ TrieOK' /\ LocksOK' /\ PagesOK' /\ Stays
    BY <1>1, <1>6, <1>7, CacheKept DEF KInv, PInv
<1>9. /\ AwaitLast' = AwaitLast /\ AwaitBatch = {} /\ AwaitBatch' = Sampling(batch)
      /\ Prefilling' = {} /\ Building /\ ~Building'
  <2>1. CASE loop = "normal"
      BY <1>1, <2>1 DEF AwaitLast, AwaitBatch, Prefilling, Building, Sampling
  <2>2. CASE loop = "overlap"
      BY <1>1, <2>2 DEF AwaitLast, AwaitBatch, Prefilling, Building, Sampling
  <2>. QED  BY <1>2, <2>1, <2>2
<1>10. \/ batch.phase = "prefill" /\ Prefilling = batch.uids
       \/ batch.phase = "decode" /\ Prefilling = {} /\ batch.uids = running /\ batch.chunks = {}
       \/ batch.uids = {} /\ Prefilling = {}
  <2>1. batch.phase \in {"none", "prefill", "decode"}
      BY <1>2 DEF TypeOK, Batches
  <2>2. CASE batch.phase = "prefill"
      BY <1>9, <2>2 DEF Prefilling
  <2>3. CASE batch.phase = "decode"
      BY <1>1, <1>2, <2>3 DEF Prefilling, Whereabouts, BatchesAreWhole
  <2>4. CASE batch.phase = "none"
      BY <1>2, <2>4 DEF Prefilling, Whereabouts, BatchesAreWhole, NoBatch
  <2>. QED  BY <2>1, <2>2, <2>3, <2>4
<1>11. ASSUME NEW v \in batch.uids
       PROVE  /\ LengthsOf(v) /\ req[v].device < req[v].maxDevice
              /\ batch.phase = "prefill" => PrefillLengths(v)
              /\ batch.phase # "prefill" => SettledLengths(v) /\ v \notin chunked
  <2>1. LengthsOf(v)
      BY <1>2, <1>3 DEF Whereabouts, Lengths
  <2>2. CASE batch.phase = "prefill"
      BY <1>10, <2>1, <2>2 DEF LengthsOf, PrefillLengths
  <2>3. CASE batch.phase = "decode" /\ Prefilling = {} /\ batch.uids = running
    <3>1. v \notin chunked
        BY <2>3 DEF KInv, IInv, Queues, ChunkedHold
    <3>. QED  BY <1>2, <2>1, <2>3, <3>1 DEF LengthsOf, Whereabouts, RunningHaveRoom
  <2>. QED  BY <1>10, <2>2, <2>3
<1>12. ASSUME NEW v \in batch.uids PROVE LengthsOf(v)'
  <2>1. /\ v \in Uids /\ LengthsOf(v) /\ req[v] \in ReqObjects
        /\ req[v].device \in Nat /\ req[v].cached \in Nat /\ req[v].maxDevice \in Nat
        /\ Len(req[v].handle) \in Nat /\ Len(req[v].ids) \in Nat
    <3>1. req[v] \in ReqObjects
        BY <1>2, <1>5 DEF TypeOK
    <3>2. req[v].handle \in Seq(Nat) /\ req[v].ids \in Seq(Nat)
        BY <3>1 DEF ReqObjects
    <3>. QED  BY <1>5, <1>11, <3>1, <3>2 DEF ReqObjects
  <2>2. req[v].cached <= req[v].device
    <3>1. CASE batch.phase = "prefill"
        BY <1>11, <2>1, <3>1 DEF PrefillLengths
    <3>2. CASE batch.phase # "prefill"
        BY <1>11, <2>1, <3>2 DEF SettledLengths
    <3>. QED  BY <3>1, <3>2
  <2>3. HandleIsPrefix(req'[v])
    <3>1. HandleIsPrefix(req[v])
        BY <2>1 DEF LengthsOf
    <3>2. Len(req[v].handle) <= req[v].device
        BY <2>1, <2>2, <3>1 DEF HandleIsPrefix
    <3>3. /\ req'[v].handle = req[v].handle /\ req'[v].ids = req[v].ids
          /\ req'[v].cached = req[v].device
        BY <1>5
    <3>. QED  BY <3>1, <3>2, <3>3 DEF HandleIsPrefix
  <2>4. SettledLengths(v)'
    <3>1. CASE batch.phase = "prefill"
      <4>1. PrefillLengths(v)
          BY <1>11, <3>1
      <4>2. CASE v \in chunked
          BY <1>1, <1>5, <4>1, <4>2 DEF PrefillLengths, SettledLengths
      <4>3. CASE v \notin chunked
        <5>1. v \in Sampling(batch)
            BY <4>1, <4>3 DEF PrefillLengths, Sampling
        <5>2. v \notin AwaitLast
            BY <1>2, <3>1 DEF Whereabouts, PrefillsHold
        <5>3. Awaited(v)' = 1
            BY <1>9, <5>1, <5>2 DEF Awaited
        <5>4. Len(req[v].ids) = req[v].device
          <6>1. Prompt[v] \in Seq(Nat) /\ Len(Prompt[v]) \in Nat
              BY <2>1, SchedulerAssumption
          <6>2. req[v].device = Len(Prompt[v]) /\ req[v].ids = FirstIds(Prompt[v], req[v].device)
              BY <2>1, <4>1, <4>3, <6>1 DEF PrefillLengths
          <6>. QED  BY <6>1, <6>2, FirstIdsPaths
        <5>. QED  BY <1>1, <1>5, <2>1, <4>3, <5>3, <5>4 DEF SettledLengths
      <4>. QED  BY <4>2, <4>3
    <3>2. CASE batch.phase # "prefill"
      <4>1. SettledLengths(v) /\ v \notin chunked
          BY <1>11, <3>2
      <4>2. v \in Sampling(batch)
          BY <1>10, <3>2 DEF Sampling
      <4>3. Awaited(v)' = Awaited(v) + 1 /\ Awaited(v) \in Nat
          BY <1>9, <4>2 DEF Awaited
      <4>4. Len(req[v].ids) + Awaited(v) = req[v].device
          BY <4>1 DEF SettledLengths
      <4>5. Len(req[v].ids) + (Awaited(v) + 1) = req[v].device + 1
        <5>1. \A a, b, c \in Nat : a + b = c => a + (b + 1) = c + 1
            OBVIOUS
        <5>2. Len(req[v].ids) \in Nat /\ req[v].device \in Nat
            BY <2>1
        <5>3. Awaited(v) \in Nat
            BY <4>3
        <5>. QED  BY <4>4, <5>1, <5>2, <5>3
      <4>. QED  BY <1>1, <1>5, <4>1, <4>3, <4>5 DEF SettledLengths
    <3>. QED  BY <3>1, <3>2
  <2>5. req'[v].device <= req'[v].maxDevice /\ req'[v].maxDevice <= MaxSeqLen
      BY <1>5, <1>11, <2>1 DEF LengthsOf
  <2>. QED  BY <1>9, <2>3, <2>4, <2>5 DEF LengthsOf
<1>13. Lengths'
  <2>1. ASSUME NEW v \in Holders PROVE LengthsOf(v)'
    <3>1. CASE v \in batch.uids
        BY <1>12, <3>1
    <3>2. CASE v \notin batch.uids
      <4>1. v \in Uids /\ LengthsOf(v) /\ v \notin Prefilling /\ v \notin Sampling(batch)
          BY <1>2, <1>10, <3>2 DEF Holders, Whereabouts, Lengths, Sampling
      <4>2. Awaited(v)' = Awaited(v)
          BY <1>9, <4>1 DEF Awaited
      <4>. QED  BY <1>1, <1>4, <1>9, <3>2, <4>1, <4>2, SameLengths
    <3>. QED  BY <3>1, <3>2
  <2>. QED  BY <1>8, <2>1 DEF Lengths
<1>14. BatchesAreWhole'
    BY <1>1, <1>2, <1>9 DEF Whereabouts, BatchesAreWhole, Building
<1>15. PrefillsHold'
    BY <1>1, <1>2, <1>3, <1>8, <1>9 DEF Whereabouts, PrefillsHold, Sampling
<1>16. HoldersAreKnown'
  <2>1. running' \subseteq Holders'
      BY <1>1, <1>2, <1>3, <1>8 DEF Whereabouts, HoldersAreKnown
  <2>2. ASSUME NEW v \in Holders
        PROVE  \/ v \in chunked' \cup running'
               \/ v \in AwaitLast' \cup AwaitBatch' /\ req'[v].maxDevice = req'[v].device
    <3>1. CASE v \notin batch.uids
      <4>1. v \in Uids /\ req'[v] = req[v]
          BY <1>4, <3>1 DEF Holders
      <4>. QED  BY <1>1, <1>2, <1>9, <3>1, <4>1 DEF Whereabouts, HoldersAreKnown
    <3>2. CASE v \in batch.uids /\ v \in batch.chunks
      <4>1. batch.phase = "prefill"
          BY <1>10, <3>2
      <4>. QED  BY <1>1, <1>11, <3>2, <4>1 DEF PrefillLengths
    <3>3. CASE v \in batch.uids /\ v \notin batch.chunks
      <4>1. v \in AwaitBatch'
          BY <1>9, <3>3 DEF Sampling
      <4>2. fits(v) \/ req'[v].maxDevice = req'[v].device
        <5>1. req[v].device \in Nat /\ req[v].maxDevice \in Nat
            BY <1>2, <1>5, <3>3 DEF TypeOK, ReqObjects
        <5>. QED  BY <1>5, <1>11, <3>3, <5>1
      <4>. QED  BY <1>1, <3>3, <4>1, <4>2
    <3>. QED  BY <3>1, <3>2, <3>3
  <2>. QED  BY <1>8, <2>1, <2>2 DEF HoldersAreKnown
<1>17. FinishedAreGone'
    BY <1>1, <1>2, <1>6 DEF Whereabouts, FinishedAreGone
<1>18. RunningHaveRoom'
  <2>1. ASSUME NEW v \in running' PROVE req'[v].device < req'[v].maxDevice
    <3>1. CASE v \in running \ batch.uids
      <4>1. v \in Uids /\ v \notin Prefilling
          BY <1>2, <1>10, <3>1 DEF TypeOK
      <4>. QED  BY <1>2, <1>4, <3>1, <4>1 DEF Whereabouts, RunningHaveRoom
    <3>2. CASE v \in batch.uids /\ fits(v)
      <4>1. req'[v].device \in Nat /\ req'[v].maxDevice \in Nat
          BY <1>2, <1>5, <3>2 DEF TypeOK, ReqObjects
      <4>. QED  BY <3>2, <4>1
    <3>. QED  BY <1>1, <3>1, <3>2
  <2>. QED  BY <2>1 DEF RunningHaveRoom
<1>19. StopsOnlyToEvict'
    BY <1>1 DEF KInv, PInv, StopsOnlyToEvict
<1>. QED  BY <1>8, <1>13, <1>14, <1>15, <1>16, <1>17, <1>18, <1>19 DEF PInv, Whereabouts

\* What is inserted of a request becomes its handle: a prefix of its tokens.
LEMMA NewHandle ==
    ASSUME NEW r \in ReqObjects, r.cached <= Len(r.ids)
    PROVE  HandleIsPrefix([r EXCEPT !.handle =
                              PathTo(InsertIds(r), Len(InsertIds(r)) \div PageSize)])
<1>. DEFINE ids == InsertIds(r)
            k == Len(ids) \div PageSize
            h == PathTo(ids, k)
            q == [r EXCEPT !.handle = h]
<1>1. r.ids \in Seq(Nat) /\ r.cached \in Nat /\ Len(r.ids) \in Nat /\ r.cached \in 0..Len(r.ids)
  <2>1. r.ids \in Seq(Nat) /\ r.cached \in Nat
      BY DEF ReqObjects
  <2>. QED  BY <2>1
<1>2. ids = FirstIds(r.ids, r.cached)
    BY DEF InsertIds
<1>3. /\ ids \in Seq(Nat) /\ Len(ids) = r.cached
      /\ \A j \in Depths(ids) : j \in Depths(r.ids) /\ PathTo(ids, j) = PathTo(r.ids, j)
    BY <1>1, <1>2, FirstIdsPaths
<1>4. q.handle = h /\ q.ids = r.ids /\ q.cached = r.cached
    BY DEF ReqObjects
<1>. HIDE DEF ids, q
<1>5. k \in Nat /\ k \in Depths(ids)
  <2>1. k \in Nat
      BY <1>1, <1>3, Division
  <2>. QED  BY <2>1 DEF Depths
<1>6. /\ Len(h) = k * PageSize /\ k * PageSize \in 0..Len(ids)
      /\ Len(h) \div PageSize = k /\ Len(h) % PageSize = 0
    BY <1>3, <1>5, PathElements
<1>7. h = PathTo(r.ids, k)
    BY <1>3, <1>5
<1>. HIDE DEF h, k
<1>8. HandleIsPrefix(q)
    BY <1>1, <1>3, <1>4, <1>6, <1>7 DEF HandleIsPrefix
<1>. QED  BY <1>8 DEF q, h, k, ids

\* A token is committed for a request of the batch that awaits it.
LEMMA CommitTokenPages ==
    ASSUME KInv, NEW u \in Uids, NEW token \in Tokens, CommitToken(u, token)
    PROVE  PInv' /\ PagesSettle(u)
<1>. DEFINE r == [req[u] EXCEPT !.ids = Append(@, token)]
            ends == token \in Eos \/ ~CanDecode(u)
<1>1. /\ pc = "commit" /\ u \in todo \ Committing.chunks /\ todo' = todo \ {u}
      /\ outcome' = [outcome EXCEPT ![u] = IF ends /\ @ = "waiting" THEN "finished" ELSE @]
      /\ \/ ends /\ u \notin finished.old /\ FinishReq(u, r)
         \/ ~(ends /\ u \notin finished.old) /\ Committing.phase = "prefill" /\ CachePrompt(u, r)
         \/ /\ ~(ends /\ u \notin finished.old) /\ Committing.phase = "decode"
            /\ req' = [req EXCEPT ![u] = r] /\ UNCHANGED <<cacheVars, running, finished, fault>>
      /\ pc' = IF fault' = "none" THEN pc ELSE "dead"
      /\ UNCHANGED <<loop, pending, chunked, adder, reserved, batch, last>>
    BY DEF CommitToken
<1>2. Whereabouts /\ TypeOK /\ loop \in {"normal", "overlap"} /\ fault = "none"
    BY <1>1, SchedulerAssumption DEF KInv, PInv, IInv, TypeOK, StopsOnlyToEvict
<1>3. /\ req[u] \in ReqObjects /\ r \in ReqObjects /\ r.row = req[u].row /\ r.freed = req[u].freed
      /\ r.handle = req[u].handle /\ r.cached = req[u].cached /\ r.device = req[u].device
      /\ r.maxDevice = req[u].maxDevice
      /\ r.ids = Append(req[u].ids, token) /\ req[u].ids \in Seq(Nat) /\ token \in Nat
  <2>1. req[u] \in ReqObjects
      BY <1>2 DEF TypeOK
  <2>2. token \in Nat /\ req[u].ids \in Seq(Nat)
      BY <2>1, SchedulerAssumption DEF ReqObjects
  <2>3. Append(req[u].ids, token) \in Seq(Nat)
      BY <2>2
  <2>. QED  BY <2>1, <2>2, <2>3 DEF ReqObjects
<1>4. /\ u \in Sampling(Committing) /\ u \notin chunked
      /\ outcome[u] # "new" /\ u \notin ToSet(pending)
  <2>1. u \in Committing.uids /\ u \notin Committing.chunks
      BY <1>1 DEF KInv, IInv, Queues, TodoInBatch
  <2>2. u \notin chunked /\ outcome[u] # "new"
      BY <2>1 DEF KInv, IInv, Queues, ChunkedHold, UnsentNowhere, Committing
  <2>3. adder.taken = 0
      BY <1>1 DEF KInv, IInv, Queues, PackState, NoAdder
  <2>4. ASSUME u \in ToSet(pending) PROVE FALSE
    <3>1. PICK i \in DOMAIN pending : pending[i] = u
        BY <2>4 DEF ToSet
    <3>2. i > adder.taken
        BY <1>2, <2>3, <3>1 DEF TypeOK
    <3>. QED  BY <2>1, <2>2, <3>1, <3>2 DEF KInv, IInv, Queues, QueuedHoldNothing, Committing
  <2>. QED  BY <2>1, <2>2, <2>4 DEF Sampling
<1>5. \/ loop = "overlap" /\ u \in AwaitLast
      \/ loop = "normal" /\ u \in AwaitBatch /\ AwaitLast = {} /\ Committing = batch
    BY <1>1, <1>2, <1>4 DEF AwaitLast, AwaitBatch, Committing
<1>6. ~Building /\ Prefilling = {}
    BY <1>1 DEF Building, Prefilling
<1>7. ASSUME u \in Holders
      PROVE  /\ LengthsOf(u) /\ SettledLengths(u) /\ ~r.freed
             /\ Len(r.ids) = Len(req[u].ids) + 1 /\ Len(req[u].ids) \in Nat /\ Len(r.ids) \in Nat
             /\ Len(req[u].ids) + Awaited(u) = req[u].cached + 1
             /\ req[u].device = req[u].cached + 1 /\ req[u].cached \in Nat
             /\ Awaited(u) \in 1..2 /\ r.cached <= Len(r.ids)
             /\ \A i \in 1..Len(req[u].ids) : r.ids[i] = req[u].ids[i]
  <2>1. LengthsOf(u) /\ SettledLengths(u)
      BY <1>2, <1>6, <1>7 DEF Whereabouts, Lengths, LengthsOf
  <2>2. ~r.freed /\ req[u].cached \in Nat
      BY <1>3, <1>7 DEF Holders, ReqObjects
  <2>3. /\ Len(r.ids) = Len(req[u].ids) + 1 /\ Len(req[u].ids) \in Nat
        /\ \A i \in 1..Len(req[u].ids) : r.ids[i] = req[u].ids[i]
      BY <1>3
  <2>4. req[u].device = req[u].cached + 1 /\ Len(req[u].ids) + Awaited(u) = req[u].device
      BY <1>4, <2>1 DEF SettledLengths
  <2>5. Awaited(u) \in 1..2
      BY <1>5 DEF Awaited
  <2>6. req[u].cached <= Len(req[u].ids) + 1
    <3>. DEFINE n == Len(req[u].ids)
                a == Awaited(u)
                c == req[u].cached
    <3>1. n \in Nat /\ a \in 1..2 /\ c \in Nat /\ n + a = c + 1
        BY <2>2, <2>3, <2>4, <2>5
    <3>. HIDE DEF n, a, c
    <3>2. c <= n + 1
        BY <3>1
    <3>. QED  BY <3>2 DEF n, c
  <2>7. Len(r.ids) \in Nat /\ r.cached <= Len(r.ids)
      BY <1>3, <2>3, <2>6
  <2>. QED  BY <2>1, <2>2, <2>3, <2>4, <2>5, <2>7
<1>8. ASSUME u \in Holders, ~(ends /\ u \notin finished.old)
      PROVE  u \in running
  <2>1. u \notin finished.old
      BY <1>2, <1>8 DEF Whereabouts, FinishedAreGone, Holders
  <2>2. req[u].maxDevice # req[u].device
    <3>1. CanDecode(u)
        BY <1>8, <2>1
    <3>2. req[u].maxDevice \in Nat /\ req[u].device \in Nat
        BY <1>3 DEF ReqObjects
    <3>. QED  BY <3>1, <3>2 DEF CanDecode, RemainLen
  <2>. QED  BY <1>2, <1>4, <1>6, <1>8, <2>2 DEF Whereabouts, HoldersAreKnown
<1>9. ASSUME u \in Holders PROVE Settling(u, InsertIds(r)) /\ Len(InsertIds(r)) = r.cached
  <2>. HIDE DEF r
  <2>1. Len(req[u].ids) <= Len(r.ids)
      BY <1>7, <1>9
  <2>. QED  BY <1>1, <1>2, <1>3, <1>7, <1>9, <2>1, TokensInHand
<1>. HIDE DEF r, ends
\* What every case leaves: u released, or running on with one more token.
<1>10. /\ fault' = fault /\ TrieOK' /\ LocksOK' /\ PagesOK' /\ Gives
       /\ \A v \in Uids \ {u} : req'[v] = req[v]
       /\ \/ /\ Holders' = Holders \ {u} /\ running' = running \ {u} /\ req'[u].freed
             /\ finished' = [finished EXCEPT !.new = @ \cup {u}]
          \/ /\ Holders' = Holders /\ running' = running /\ finished' = finished
             /\ u \in Holders => /\ u \in running /\ HandleIsPrefix(req'[u])
                                 /\ req'[u].ids = r.ids /\ req'[u].cached = r.cached
                                 /\ req'[u].device = r.device /\ req'[u].maxDevice = r.maxDevice
             /\ u \notin Holders => req'[u].freed
  <2>0. pc # "write" /\ pc' # "write" /\ TrieOK /\ LocksOK /\ PagesOK
      BY <1>1 DEF KInv, PInv
  <2>1. CASE ends /\ u \notin finished.old /\ FinishReq(u, r)
    <3>1. /\ running' = running \ {u} /\ FreeReqResources(u, r)
          /\ finished' = [finished EXCEPT !.new = @ \cup {u}]
        BY <2>1 DEF FinishReq
    <3>2. CASE u \in Holders
      <4>1. Settling(u, InsertIds(r)) /\ ~r.freed
          BY <1>7, <1>9, <3>2
      <4>2. /\ fault' = fault /\ Holders' = Holders \ {u}
            /\ \A v \in Uids \ {u} : req'[v] = req[v]
            /\ TrieOK' /\ LocksOK' /\ PagesOK' /\ Gives
          BY <1>2, <1>3, <2>0, <3>1, <3>2, <4>1, ReleaseEffect
      <4>3. req'[u].freed
          BY <4>2 DEF Holders
      <4>. QED  BY <3>1, <4>2, <4>3
    <3>3. CASE u \notin Holders
      <4>1. r.freed
          BY <1>3, <3>3 DEF Holders
      <4>2. req' = [req EXCEPT ![u] = r] /\ UNCHANGED <<cacheVars, fault>>
          BY <3>1, <4>1 DEF FreeReqResources
      <4>3. req'[u] = r /\ \A v \in Uids \ {u} : req'[v] = req[v]
          BY <1>2, <4>2 DEF TypeOK
      <4>4. \A v \in Uids : /\ req'[v].row = req[v].row /\ req'[v].freed = req[v].freed
                            /\ req'[v].handle = req[v].handle /\ req'[v].cached = req[v].cached
          BY <1>3, <4>3
      <4>5. Holders' = Holders /\ TrieOK' /\ LocksOK' /\ PagesOK'
          BY <2>0, <4>2, <4>4, CacheAtRest
      <4>6. Gives
          BY <4>2 DEF Gives, cacheVars
      <4>. QED  BY <3>1, <3>3, <4>1, <4>2, <4>3, <4>5, <4>6
    <3>. QED  BY <3>2, <3>3
  <2>2. CASE ~(ends /\ u \notin finished.old) /\ Committing.phase = "prefill" /\ CachePrompt(u, r)
    <3>1. u \in Holders
        BY <1>1, <1>2, <1>5, <2>2 DEF Whereabouts, PrefillsHold, Committing
    <3>2. /\ Settling(u, InsertIds(r)) /\ Len(InsertIds(r)) = r.cached /\ ~r.freed
          /\ r.cached <= Len(r.ids) /\ u \in running
        BY <1>7, <1>8, <1>9, <2>2, <3>1
    <3>3. /\ fault' = fault /\ Holders' = Holders
          /\ \A v \in Uids \ {u} : req'[v] = req[v]
          /\ req'[u] = [r EXCEPT !.handle = PathTo(InsertIds(r), Len(InsertIds(r)) \div PageSize)]
          /\ TrieOK' /\ LocksOK' /\ PagesOK' /\ Gives
        BY <1>2, <1>3, <2>0, <2>2, <3>1, <3>2, CacheEffect
    <3>4. HandleIsPrefix(req'[u])
        BY <1>3, <3>2, <3>3, NewHandle
    <3>5. /\ req'[u].ids = r.ids /\ req'[u].cached = r.cached
          /\ req'[u].device = r.device /\ req'[u].maxDevice = r.maxDevice
        BY <1>3, <3>3 DEF ReqObjects
    <3>6. running' = running /\ finished' = finished
        BY <2>2 DEF CachePrompt
    <3>. QED  BY <3>1, <3>2, <3>3, <3>4, <3>5, <3>6
  <2>3. CASE /\ ~(ends /\ u \notin finished.old)
             /\ req' = [req EXCEPT ![u] = r] /\ UNCHANGED <<cacheVars, running, finished, fault>>
    <3>1. req'[u] = r /\ \A v \in Uids \ {u} : req'[v] = req[v]
        BY <1>2, <2>3 DEF TypeOK
    <3>2. \A v \in Uids : /\ req'[v].row = req[v].row /\ req'[v].freed = req[v].freed
                          /\ req'[v].handle = req[v].handle /\ req'[v].cached = req[v].cached
        BY <1>3, <3>1
    <3>3. Holders' = Holders /\ TrieOK' /\ LocksOK' /\ PagesOK'
        BY <2>0, <2>3, <3>2, CacheAtRest
    <3>4. ASSUME u \in Holders PROVE u \in running /\ HandleIsPrefix(r)
      <4>1. Settling(u, InsertIds(r)) /\ Len(InsertIds(r)) = r.cached
          BY <1>9, <3>4
      <4>2. HandleIsPrefix(req[u])
          BY <1>7, <3>4 DEF LengthsOf
      <4>3. HandlePages(u) \in Depths(req[u].ids) /\ req[u].handle = PathTo(req[u].ids, HandlePages(u))
        <5>1. Len(req[u].handle) \in Nat /\ Len(req[u].handle) <= Len(req[u].ids) /\ Len(req[u].ids) \in Nat
            BY <1>3, <1>7, <3>4, <4>2 DEF HandleIsPrefix, ReqObjects
        <5>2. /\ Len(req[u].handle) \div PageSize <= Len(req[u].ids) \div PageSize
              /\ Len(req[u].handle) \div PageSize \in Nat /\ Len(req[u].ids) \div PageSize \in Nat
            BY <5>1, Division, PagesGrow
        <5>. QED  BY <4>2, <5>2 DEF Depths, HandlePages, HandleIsPrefix
      <4>4. PathTo(r.ids, HandlePages(u)) = PathTo(req[u].ids, HandlePages(u))
        <5>. DEFINE s == req[u].ids
                    t == r.ids
                    k == HandlePages(u)
        <5>1. s \in Seq(Nat) /\ t \in Seq(Nat) /\ k \in Depths(s)
            BY <1>3, <4>3 DEF ReqObjects
        <5>2. Len(s) \in Nat /\ Len(t) = Len(s) + 1 /\ \A i \in 1..Len(s) : t[i] = s[i]
            BY <1>7, <3>4
        <5>. HIDE DEF s, t, k
        <5>3. k * PageSize \in 0..Len(s) /\ k \in Nat
            BY <5>1, PathElements
        <5>4. k \in Depths(t)
          <6>1. Len(s) \div PageSize <= Len(t) \div PageSize /\ Len(s) \div PageSize \in Nat
                /\ Len(t) \div PageSize \in Nat
              BY <5>2, PagesGrow, Division
          <6>. QED  BY <5>1, <5>3, <6>1 DEF Depths
        <5>5. \A i \in 1..k * PageSize : s[i] = t[i]
            BY <5>2, <5>3
        <5>6. PathTo(s, k) = PathTo(t, k)
            BY <5>1, <5>4, <5>5, SamePath
        <5>. QED  BY <5>6 DEF s, t, k
      <4>5. u \in running
          BY <1>8, <2>3, <3>4
      <4>6. Len(req[u].handle) <= Len(r.ids)
        <5>1. Len(req[u].handle) \in Nat /\ Len(req[u].handle) <= Len(req[u].ids)
            BY <1>3, <4>2 DEF HandleIsPrefix, ReqObjects
        <5>. QED  BY <1>7, <3>4, <5>1
      <4>. QED  BY <1>3, <4>2, <4>3, <4>4, <4>5, <4>6 DEF HandleIsPrefix, HandlePages
    <3>5. u \notin Holders => r.freed
        BY <1>3 DEF Holders
    <3>6. Gives
        BY <2>3 DEF Gives, cacheVars
    <3>. QED  BY <2>3, <3>1, <3>3, <3>4, <3>5, <3>6
  <2>. QED  BY <1>1, <2>1, <2>2, <2>3
<1>11. pc' = "commit" /\ StopsOnlyToEvict'
    BY <1>1, <1>2, <1>10 DEF StopsOnlyToEvict
<1>12. /\ loop = "normal" => AwaitLast' = {}
       /\ AwaitBatch' = IF loop = "normal" THEN AwaitBatch \ {u} ELSE AwaitBatch
       /\ loop = "overlap" => AwaitLast' = AwaitLast \ {u}
       /\ Prefilling' = {} /\ ~Building'
    BY <1>1, <1>2, <1>11 DEF AwaitLast, AwaitBatch, Prefilling, Building, Sampling
<1>13. ASSUME NEW v \in Uids, v # u PROVE Awaited(v)' = Awaited(v)
    BY <1>2, <1>5, <1>12, <1>13 DEF Awaited
<1>14. ASSUME NEW v \in Uids, v = u PROVE Awaited(v)' = Awaited(v) - 1
  <2>1. CASE loop = "overlap"
      BY <1>5, <1>12, <1>14, <2>1 DEF Awaited
  <2>2. CASE loop = "normal"
      BY <1>5, <1>12, <1>14, <2>2 DEF Awaited
  <2>. QED  BY <1>2, <2>1, <2>2
<1>15. BatchesAreWhole'
    BY <1>1, <1>2, <1>11, <1>12 DEF Whereabouts, BatchesAreWhole
<1>16. PrefillsHold'
  <2>1. CASE loop = "overlap"
    <3>1. batch.phase = "prefill" => u \notin AwaitBatch
        BY <1>1, <1>2, <1>5, <2>1 DEF Whereabouts, PrefillsHold, AwaitBatch, Sampling
    <3>. QED  BY <1>1, <1>2, <1>10, <1>12, <2>1, <3>1 DEF Whereabouts, PrefillsHold
  <2>2. CASE loop = "normal"
    <3>1. last = NoBatch
        BY <1>2, <2>2 DEF Whereabouts, BatchesAreWhole
    <3>2. AwaitLast' = {} /\ AwaitBatch' = AwaitBatch \ {u}
        BY <1>5, <1>12, <2>2
    <3>. QED  BY <1>1, <1>2, <1>10, <2>2, <3>1, <3>2 DEF Whereabouts, PrefillsHold, NoBatch
  <2>. QED  BY <1>2, <2>1, <2>2
<1>17. HoldersAreKnown'
  <2>1. running' \subseteq Holders'
      BY <1>2, <1>10 DEF Whereabouts, HoldersAreKnown
  <2>2. ASSUME NEW v \in Holders'
        PROVE  \/ v \in chunked' \cup running'
               \/ v \in AwaitLast' \cup AwaitBatch' /\ req'[v].maxDevice = req'[v].device
    <3>1. CASE v = u
      <4>1. v \in running'
          BY <1>10, <3>1 DEF Holders
      <4>. QED  BY <4>1
    <3>2. CASE v # u
      <4>1. /\ v \in Uids /\ v \in Holders /\ req'[v] = req[v]
            /\ v \in running => v \in running'
          BY <1>10, <3>2 DEF Holders
      <4>2. v \in AwaitLast \cup AwaitBatch => v \in AwaitLast' \cup AwaitBatch'
          BY <1>5, <1>12, <3>2
      <4>. QED  BY <1>1, <1>2, <1>6, <4>1, <4>2 DEF Whereabouts, HoldersAreKnown
    <3>. QED  BY <3>1, <3>2
  <2>. QED  BY <2>1, <2>2 DEF HoldersAreKnown
<1>18. FinishedAreGone'
  <2>1. finished'.old \cup finished'.new \subseteq finished.old \cup finished.new
            \/ /\ finished'.old \cup finished'.new \subseteq finished.old \cup finished.new \cup {u}
               /\ req'[u].freed
    <3>1. CASE finished' = finished
        BY <3>1
    <3>2. CASE finished' = [finished EXCEPT !.new = @ \cup {u}] /\ req'[u].freed
      <4>1. finished'.old \subseteq finished.old /\ finished'.new \subseteq finished.new \cup {u}
          BY <3>2
      <4>. QED  BY <3>2, <4>1
    <3>. QED  BY <1>10, <3>1, <3>2
  <2>2. ASSUME NEW v \in finished'.old \cup finished'.new
        PROVE  v \in Uids /\ req'[v].freed /\ outcome'[v] # "new" /\ v \notin ToSet(pending')
    <3>1. outcome'[u] # "new" /\ \A w \in Uids \ {u} : outcome'[w] = outcome[w]
        BY <1>1, <1>2, <1>4 DEF TypeOK
    <3>2. CASE v = u
      <4>1. req'[u].freed
          BY <1>2, <1>10, <2>1, <2>2, <3>2 DEF Whereabouts, FinishedAreGone, Holders
      <4>. QED  BY <1>1, <1>4, <3>1, <3>2, <4>1
    <3>3. CASE v # u
      <4>1. v \in finished.old \cup finished.new
          BY <2>1, <3>3
      <4>. QED  BY <1>1, <1>2, <1>10, <3>1, <3>3, <4>1 DEF Whereabouts, FinishedAreGone
    <3>. QED  BY <3>2, <3>3
  <2>. QED  BY <2>2 DEF FinishedAreGone
<1>19. Lengths'
  <2>1. ASSUME NEW v \in Holders' PROVE LengthsOf(v)'
    <3>1. CASE v # u
      <4>1. v \in Uids /\ v \in Holders /\ req'[v] = req[v] /\ LengthsOf(v)
          BY <1>2, <1>10, <3>1 DEF Holders, Whereabouts, Lengths
      <4>2. Awaited(v)' = Awaited(v)
          BY <1>13, <3>1, <4>1
      <4>3. (v \in Prefilling)' <=> v \in Prefilling
          BY <1>6, <1>12
      <4>. QED  BY <1>1, <1>6, <4>1, <4>2, <4>3, SameLengths
    <3>2. CASE v = u
      <4>1. /\ u \in Holders /\ HandleIsPrefix(req'[v])
            /\ req'[v].ids = r.ids /\ req'[v].cached = req[u].cached
            /\ req'[v].device = req[u].device /\ req'[v].maxDevice = req[u].maxDevice
          BY <1>3, <1>10, <3>2 DEF Holders
      <4>2. Awaited(v)' = Awaited(u) - 1
          BY <1>14, <3>2
      <4>3. Len(req'[v].ids) + Awaited(v)' = req'[v].device
        <5>. DEFINE n == Len(req[u].ids)
                    a == Awaited(u)
                    b == Awaited(v)'
                    l == Len(req'[v].ids)
                    d == req'[v].device
                    c == req[u].cached
        <5>1. /\ n \in Nat /\ a \in 1..2 /\ c \in Nat /\ n + a = c + 1 /\ d = c + 1
              /\ l = n + 1 /\ b = a - 1
            BY <1>7, <4>1, <4>2
        <5>. HIDE DEF n, a, b, l, c, d
        <5>2. l + b = d
            BY <5>1
        <5>. QED  BY <5>2 DEF l, b, d
      <4>4. SettledLengths(v)'
          BY <1>1, <1>4, <1>7, <3>2, <4>1, <4>3 DEF SettledLengths
      <4>5. req'[v].device <= req'[v].maxDevice /\ req'[v].maxDevice <= MaxSeqLen
          BY <1>7, <4>1 DEF LengthsOf
      <4>. QED  BY <1>12, <4>1, <4>4, <4>5 DEF LengthsOf
    <3>. QED  BY <3>1, <3>2
  <2>. QED  BY <2>1 DEF Lengths
<1>20. RunningHaveRoom'
  <2>1. ASSUME NEW v \in running' PROVE req'[v].device < req'[v].maxDevice
    <3>1. v \in running /\ v \in Uids /\ v \in Holders /\ req[v].device < req[v].maxDevice
        BY <1>2, <1>6, <1>10 DEF Whereabouts, RunningHaveRoom, HoldersAreKnown, TypeOK
    <3>2. CASE v # u
        BY <1>10, <3>1, <3>2
    <3>3. CASE v = u
        BY <1>3, <1>10, <2>1, <3>1, <3>3
    <3>. QED  BY <3>2, <3>3
  <2>. QED  BY <2>1 DEF RunningHaveRoom
<1>21. PagesSettle(u)
    BY <1>1, <1>10, <1>11 DEF PagesSettle
<1>. QED  BY <1>10, <1>11, <1>15, <1>16, <1>17, <1>18, <1>19, <1>20, <1>21 DEF PInv, Whereabouts

----------------------------------------------------------------------------
(* The theorems.                                                           *)

LEMMA InitPInv == Init => PInv
<1>. SUFFICES ASSUME Init PROVE PInv
    OBVIOUS
<1>1. /\ pc = "recv" /\ fault = "none" /\ loop \in Loops
      /\ pending = << >> /\ chunked = {} /\ running = {} /\ todo = {}
      /\ batch = NoBatch /\ last = NoBatch
      /\ finished = [old |-> {}, new |-> {}]
      /\ req = [u \in Uids |-> NoReq]
      /\ tree = << >> /\ refs = << >> /\ freePages = [i \in 1..NumPages |-> i]
      /\ pageTable = [row \in Rows |-> [i \in Pages |-> NoPage]]
    BY DEF Init, CacheInit
<1>2. Holders = {}
    BY <1>1 DEF Holders, NoReq
<1>3. DOMAIN tree = {} /\ DOMAIN refs = {} /\ IsFiniteSet(DOMAIN tree)
  <2>1. DOMAIN << >> = {}
      OBVIOUS
  <2>. QED  BY <1>1, <2>1, FS_EmptySet
<1>4. TrieOK
    BY <1>3 DEF TrieOK
<1>5. LocksOK
    BY <1>2, <1>3 DEF LocksOK
<1>6. PagesOK
  <2>1. DOMAIN Owned = {}
      BY <1>2, OwnedParts
  <2>2. /\ IsInjective(Owned) /\ IsInjective(tree)
        /\ Range(Owned) = {} /\ Range(tree) = {}
      BY <1>3, <2>1 DEF IsInjective, Range
  <2>3. /\ freePages \in Seq(Pages) /\ DOMAIN freePages = Pages
        /\ \A i \in Pages : freePages[i] = i
      BY <1>1, PoolAssumption DEF Pages
  <2>4. IsInjective(freePages) /\ Range(freePages) = Pages
      BY <2>3 DEF IsInjective, Range
  <2>5. pageTable \in [Rows -> [Pages -> Pages \cup {NoPage}]]
      BY <1>1
  <2>. QED  BY <2>2, <2>3, <2>4, <2>5 DEF PagesOK, EveryPageHasOneOwner
<1>7. AwaitLast = {} /\ AwaitBatch = {} /\ ~Building
    BY <1>1 DEF AwaitLast, AwaitBatch, Building, Sampling, NoBatch
<1>8. BatchesAreWhole /\ PrefillsHold
    BY <1>1, <1>2, <1>7 DEF BatchesAreWhole, PrefillsHold, Building, NoBatch
<1>9. HoldersAreKnown /\ FinishedAreGone /\ Lengths /\ RunningHaveRoom /\ StopsOnlyToEvict
    BY <1>1, <1>2 DEF HoldersAreKnown, FinishedAreGone, Lengths, RunningHaveRoom, StopsOnlyToEvict
<1>. QED  BY <1>4, <1>5, <1>6, <1>8, <1>9 DEF PInv, Whereabouts

LEMMA NextKInv ==
    ASSUME AbortsInFlightPrefill = FALSE
    PROVE  KInv /\ [Next]_vars => KInv'
<1>. SUFFICES ASSUME KInv, [Next]_vars PROVE PInv'
    BY NextIInv DEF KInv
<1>1. ASSUME NEW u \in Uids, RecvUser(u) PROVE PInv'
    BY <1>1, RecvUserPages
<1>2. ASSUME NEW u \in Uids, RecvAbort(u) PROVE PInv'
    BY <1>2, RecvAbortPages
<1>3. CASE Idle
    BY <1>3, IdlePages
<1>4. CASE BeginPack
    BY <1>4, BeginPackPages
<1>5. CASE PackOne
  <2>1. pending[adder.taken + 1] \in Uids
      BY <1>5 DEF PackOne, KInv, IInv, TypeOK, Adders
  <2>. QED  BY <1>5, <2>1, PackOnePages
<1>6. CASE EndPack
    BY <1>6, EndPackPages
<1>7. CASE EnsurePages
    BY <1>7, EnsurePagesPages
<1>8. ASSUME NEW u \in Uids, WriteOne(u) PROVE PInv'
    BY <1>8, WriteOnePages
<1>9. CASE Forward
    BY <1>9, ForwardPages
<1>10. ASSUME NEW u \in Uids, CommitChunk(u) PROVE PInv'
    BY <1>10, CommitChunkPages
<1>11. ASSUME NEW u \in Uids, NEW token \in Tokens, CommitToken(u, token) PROVE PInv'
    BY <1>11, CommitTokenPages
<1>12. CASE EndCommit
    BY <1>12, EndCommitPages
<1>13. CASE UNCHANGED vars
  <2>1. PInv' <=> PInv
      BY <1>13 DEF vars, schedVars, cacheVars, PInv, StopsOnlyToEvict, Whereabouts, BatchesAreWhole,
           PrefillsHold, HoldersAreKnown, FinishedAreGone, Lengths, LengthsOf, PrefillLengths, SettledLengths,
           RunningHaveRoom, Awaited, AwaitLast, AwaitBatch, Building, Prefilling, Holders, TrieOK, LocksOK,
           PagesOK, EveryPageHasOneOwner, Owned, OwnIndices, HandlePages, Allocated, Sampling
  <2>. QED  BY <2>1 DEF KInv
<1>. QED
    BY <1>1, <1>2, <1>3, <1>4, <1>5, <1>6, <1>7, <1>8, <1>9, <1>10, <1>11, <1>12, <1>13
    DEF Next, Client, Step

\* Unless an abort names a request between the launch and the commit of its
\* last prefill chunk, every KV page is at all times free, or in the prefix
\* cache under one path, or allocated to one request beyond its handle: what
\* allocate_paged, cache_req and evict move is never lost nor counted twice,
\* whatever prompts share pages and whatever is finished or aborted in flight.
THEOREM PagesHaveOneOwner ==
    ASSUME AbortsInFlightPrefill = FALSE
    PROVE  Spec => []EveryPageHasOneOwner
<1>1. KInv => EveryPageHasOneOwner
    BY DEF KInv, PInv, PagesOK
<1>2. Init => KInv
    BY InitIInv, InitPInv DEF KInv
<1>. QED  BY <1>1, <1>2, NextKInv, PTL DEF Spec

\* Unless an abort names a request between the launch and the commit of its
\* last prefill chunk, no unlock finds a ref_count of 0 (RadixPrefixCache.unlock
\* asserts it) and check_integrity never fails when the scheduler is idle.  The
\* assertion of evict may fire: see PackingIsSound.
THEOREM AssertionsHold ==
    ASSUME AbortsInFlightPrefill = FALSE
    PROVE  Spec => [](fault \notin {"ref_count", "integrity"})
<1>1. KInv => fault \notin {"ref_count", "integrity"}
    BY DEF KInv, PInv, StopsOnlyToEvict
<1>2. Init => KInv
    BY InitIInv, InitPInv DEF KInv
<1>. QED  BY <1>1, <1>2, NextKInv, PTL DEF Spec

\* Unless an abort names a request between the launch and the commit of its
\* last prefill chunk, the ref_counts of the prefix cache are the locks the
\* requests hold, a locked node is in the tree, and between two iterations
\* whoever holds a row, a lock and pages is a request the scheduler will come
\* back to.
THEOREM LocksAreCounted ==
    ASSUME AbortsInFlightPrefill = FALSE
    PROVE  Spec => []NothingLeaks
<1>1. ASSUME KInv PROVE NothingLeaks
  <2>1. LocksOK
      BY <1>1 DEF KInv, PInv
  <2>2. ASSUME pc = "recv"
        PROVE  /\ chunked \cup running \subseteq Holders
               /\ Holders \subseteq chunked \cup running \cup last.uids
    <3>1. Whereabouts
        BY <1>1, <2>2 DEF KInv, PInv
    <3>2. chunked \cup running \subseteq Holders
        BY <1>1, <3>1 DEF KInv, IInv, Queues, ChunkedHold, TypeOK, ToSet, Whereabouts, HoldersAreKnown, Holders
    <3>3. AwaitBatch = {} /\ ~Building /\ AwaitLast \subseteq last.uids
        BY <2>2 DEF AwaitBatch, Building, AwaitLast, Sampling
    <3>. QED  BY <3>1, <3>2, <3>3 DEF Whereabouts, HoldersAreKnown
  <2>. QED  BY <2>1, <2>2 DEF LocksOK, NothingLeaks
<1>2. Init => KInv
    BY InitIInv, InitPInv DEF KInv
<1>3. KInv => NothingLeaks
    BY <1>1
<1>. QED  BY <1>2, <1>3, NextKInv, PTL DEF Spec

----------------------------------------------------------------------------
(* The page bookkeeping implements the ledger.                             *)

\* Whose a page is, by the place it is found in.
OwnersFound ==
    \A p \in Pages :
        /\ p \in Range(freePages) => OwnerOf(p) = FreePage
        /\ p \in Range(tree) => OwnerOf(p) = CachedPage
        /\ \A u \in Holders : p \in OwnPages(u) => OwnerOf(p) = u
        /\ p \in Range(freePages) \cup Range(tree) \/ \E u \in Holders : p \in OwnPages(u)

LEMMA OwnerFound == PagesOK => OwnersFound
<1>. SUFFICES ASSUME PagesOK PROVE OwnersFound
    OBVIOUS
<1>1. /\ Range(freePages) = ToSet(freePages) /\ Range(tree) = { tree[n] : n \in DOMAIN tree }
    BY DEF Range, ToSet
<1>2. \A u \in Holders : OwnPages(u) = { Owned[<<u, i>>] : i \in OwnIndices(u) }
  <2>1. ASSUME NEW u \in Holders PROVE OwnPages(u) = { Owned[<<u, i>>] : i \in OwnIndices(u) }
    <3>1. \A i \in OwnIndices(u) : Owned[<<u, i>>] = pageTable[req[u].row][i]
        BY OwnedParts
    <3>. QED  BY <3>1 DEF OwnPages
  <2>. QED  BY <2>1
<1>3. \A u \in Holders : OwnPages(u) \subseteq Range(Owned)
  <2>1. ASSUME NEW u \in Holders, NEW p \in OwnPages(u) PROVE p \in Range(Owned)
    <3>1. PICK i \in OwnIndices(u) : p = Owned[<<u, i>>]
        BY <1>2
    <3>2. <<u, i>> \in DOMAIN Owned
        BY OwnedParts
    <3>. QED  BY <3>1, <3>2 DEF Range
  <2>. QED  BY <2>1
<1>4. \A p \in Range(Owned) : \E u \in Holders : p \in OwnPages(u)
  <2>1. ASSUME NEW p \in Range(Owned) PROVE \E u \in Holders : p \in OwnPages(u)
    <3>1. PICK x \in DOMAIN Owned : p = Owned[x]
        BY DEF Range
    <3>2. PICK u \in Holders : \E i \in OwnIndices(u) : x = <<u, i>>
        BY OwnedParts
    <3>. QED  BY <1>2, <3>1, <3>2
  <2>. QED  BY <2>1
<1>5. ASSUME NEW u \in Holders, NEW v \in Holders, NEW p \in OwnPages(u), p \in OwnPages(v)
      PROVE  u = v
  <2>1. PICK i \in OwnIndices(u) : p = Owned[<<u, i>>]
      BY <1>2
  <2>2. PICK j \in OwnIndices(v) : p = Owned[<<v, j>>]
      BY <1>2, <1>5
  <2>. DEFINE x == <<u, i>>
              y == <<v, j>>
  <2>3. x \in DOMAIN Owned /\ y \in DOMAIN Owned /\ Owned[x] = Owned[y]
      BY <2>1, <2>2, OwnedParts
  <2>4. x = y
    <3>. HIDE DEF x, y
    <3>. QED  BY <2>3 DEF PagesOK, EveryPageHasOneOwner, IsInjective
  <2>. QED  BY <2>4
<1>6. /\ Range(freePages) \cap Range(tree) = {}
      /\ Range(freePages) \cap Range(Owned) = {} /\ Range(tree) \cap Range(Owned) = {}
      /\ Range(freePages) \cup Range(tree) \cup Range(Owned) = Pages
    BY DEF PagesOK, EveryPageHasOneOwner
<1>7. ASSUME NEW p \in Pages, p \in Range(freePages) PROVE OwnerOf(p) = FreePage
  <2>1. p \in ToSet(freePages)
      BY <1>1, <1>7
  <2>2. ~ \E n \in DOMAIN tree : tree[n] = p
      BY <1>1, <1>6, <1>7
  <2>3. ~ \E u \in Holders : p \in OwnPages(u)
      BY <1>3, <1>6, <1>7
  <2>. QED  BY <2>1, <2>2, <2>3 DEF OwnerOf
<1>8. ASSUME NEW p \in Pages, p \in Range(tree) PROVE OwnerOf(p) = CachedPage
  <2>1. p \notin ToSet(freePages)
      BY <1>1, <1>6, <1>8
  <2>2. \E n \in DOMAIN tree : tree[n] = p
      BY <1>1, <1>8
  <2>3. ~ \E u \in Holders : p \in OwnPages(u)
      BY <1>3, <1>6, <1>8
  <2>. QED  BY <2>1, <2>2, <2>3 DEF OwnerOf
<1>9. ASSUME NEW p \in Pages, NEW u \in Holders, p \in OwnPages(u) PROVE OwnerOf(p) = u
  <2>1. p \in Range(Owned)
      BY <1>3, <1>9
  <2>2. p \notin ToSet(freePages) /\ ~ \E n \in DOMAIN tree : tree[n] = p
      BY <1>1, <1>6, <2>1
  <2>3. OwnerOf(p) = CHOOSE v \in Holders : p \in OwnPages(v)
      BY <1>9, <2>2 DEF OwnerOf
  <2>4. \E v \in Holders : p \in OwnPages(v)
      BY <1>9
  <2>. DEFINE w == CHOOSE v \in Holders : p \in OwnPages(v)
  <2>5. w \in Holders /\ p \in OwnPages(w)
      BY <2>4
  <2>. HIDE DEF w
  <2>6. w = u
      BY <1>5, <1>9, <2>5
  <2>. QED  BY <2>3, <2>6 DEF w
<1>10. ASSUME NEW p \in Pages
       PROVE  p \in Range(freePages) \cup Range(tree) \/ \E u \in Holders : p \in OwnPages(u)
    BY <1>4, <1>6
<1>. QED  BY <1>7, <1>8, <1>9, <1>10 DEF OwnersFound

LEMMA NextOwnerFound == PagesOK' => OwnersFound'
    BY OwnerFound, PTL

\* The two variables of the ledger.
OwnerMap == [p \in Pages |-> OwnerOf(p)]
Pinned == { tree[n] : n \in DOMAIN tree \ Unreferenced(refs) }

\* What a step does to the ledger depends on the places pages are found in.
LEMMA NextOwnersTyped ==
    ASSUME OwnersFound', NEW p \in Pages
    PROVE  OwnerOf(p)' \in Uids \cup {FreePage, CachedPage}
    BY DEF OwnersFound, Holders

LEMMA PinnedAreCached ==
    OwnersFound /\ PagesOK => Pinned \subseteq { p \in Pages : OwnerOf(p) = CachedPage }
<1>. SUFFICES ASSUME OwnersFound, PagesOK
              PROVE  Pinned \subseteq { p \in Pages : OwnerOf(p) = CachedPage }
    OBVIOUS
<1>1. Pinned \subseteq Range(tree) /\ Range(tree) \subseteq Pages
    BY DEF Pinned, Range, PagesOK, EveryPageHasOneOwner
<1>. QED  BY <1>1 DEF OwnersFound

LEMMA NextPinnedAreCached ==
    OwnersFound' /\ PagesOK' => Pinned' \subseteq { p \in Pages : OwnerOf(p)' = CachedPage }
<1>1. (OwnersFound /\ PagesOK => Pinned \subseteq { p \in Pages : OwnerOf(p) = CachedPage })'
    BY PinnedAreCached, PTL
<1>. QED  BY <1>1

LEMMA OwnPagesStay ==
    ASSUME NEW S, RowsStay(S), NEW v \in S
    PROVE  v \in Holders' /\ OwnPages(v)' = OwnPages(v)
    BY DEF RowsStay, OwnPages

\* A request keeps what it owns through a step, whoever else takes part.
LEMMA OwnersStay ==
    ASSUME OwnersFound, OwnersFound', NEW u, RowsStay(Holders \ {u}), NEW p \in Pages,
           OwnerOf(p) \in Uids \ {u}
    PROVE  OwnerOf(p)' = OwnerOf(p)
<1>1. OwnerOf(p) # FreePage /\ OwnerOf(p) # CachedPage
    BY SchedulerAssumption DEF FreePage, CachedPage
<1>2. PICK v \in Holders : p \in OwnPages(v)
    BY <1>1 DEF OwnersFound
<1>3. OwnerOf(p) = v /\ v \in Holders \ {u}
    BY <1>2 DEF OwnersFound
<1>4. v \in Holders' /\ p \in OwnPages(v)'
    BY <1>2, <1>3, OwnPagesStay
<1>. QED  BY <1>3, <1>4 DEF OwnersFound

\* No one comes into what another owns.
LEMMA NoNewOwner ==
    ASSUME OwnersFound, OwnersFound', NEW u, RowsStay(Holders \ {u}), Holders' \subseteq Holders \cup {u},
           NEW p \in Pages, OwnerOf(p)' \in Uids \ {u}
    PROVE  OwnerOf(p)' = OwnerOf(p)
<1>1. OwnerOf(p)' # FreePage /\ OwnerOf(p)' # CachedPage
    BY SchedulerAssumption DEF FreePage, CachedPage
<1>2. PICK v \in Holders' : p \in OwnPages(v)'
    BY <1>1 DEF OwnersFound
<1>3. OwnerOf(p)' = v /\ v \in Holders \ {u}
    BY <1>2 DEF OwnersFound
<1>4. p \in OwnPages(v)
    BY <1>2, <1>3, OwnPagesStay
<1>. QED  BY <1>3, <1>4 DEF OwnersFound

LEMMA SettleImplements ==
    ASSUME OwnersFound, OwnersFound', PagesOK', NEW u \in Uids, PagesSettle(u)
    PROVE  Ledger!Settle(u)
<1>1. RowsStay(Holders \ {u}) /\ Holders' \subseteq Holders \cup {u}
    BY AllocatedAtRest, NextAllocatedAtRest
    DEF PagesSettle, RowsStay, Gives, Holders, HandlePages
<1>2. Range(freePages) \subseteq Range(freePages') /\ Range(tree) \subseteq Range(tree')
    BY DEF PagesSettle, Gives
<1>3. ASSUME NEW p \in Pages, OwnerOf(p)' # OwnerOf(p)
      PROVE  OwnerOf(p) = u /\ OwnerOf(p)' \in {FreePage, CachedPage}
  <2>1. p \notin Range(freePages) /\ p \notin Range(tree)
      BY <1>2, <1>3 DEF OwnersFound
  <2>2. OwnerOf(p) \in Uids
      BY <2>1 DEF OwnersFound, Holders
  <2>3. OwnerOf(p) = u
      BY <1>1, <1>3, <2>2, OwnersStay
  <2>4. OwnerOf(p)' \in Uids \cup {FreePage, CachedPage}
      BY DEF OwnersFound, Holders
  <2>5. OwnerOf(p)' \notin Uids
      BY <1>1, <1>3, <2>3, NoNewOwner
  <2>. QED  BY <2>3, <2>4, <2>5
<1>4. OwnerMap' \in [Pages -> Uids \cup {FreePage, CachedPage}]
    BY NextOwnersTyped DEF OwnerMap
<1>5. Pinned' \subseteq { p \in Pages : OwnerOf(p)' = CachedPage }
    BY NextPinnedAreCached
<1>. QED
    BY <1>3, <1>4, <1>5
    DEF Ledger!Settle, Ledger!Transfer, Ledger!CachedPages, Ledger!Owners, OwnerMap, Pinned

LEMMA AllocateImplements ==
    ASSUME OwnersFound, OwnersFound', NEW u \in Uids, Takes(u)
    PROVE  Ledger!Allocate(u)
<1>1. /\ RowsStay(Holders \ {u}) /\ Holders' \subseteq Holders \cup {u}
      /\ Range(freePages') \subseteq Range(freePages) /\ tree' = tree /\ refs' = refs
    BY DEF Takes
<1>2. ASSUME NEW p \in Pages, OwnerOf(p)' # OwnerOf(p)
      PROVE  OwnerOf(p) = FreePage /\ OwnerOf(p)' = u
  <2>1. p \notin Range(tree)
      BY <1>1, <1>2 DEF OwnersFound
  <2>2. OwnerOf(p) \notin Uids \ {u} /\ OwnerOf(p)' \notin Uids \ {u}
      BY <1>1, <1>2, OwnersStay, NoNewOwner
  <2>3. p \in Range(freePages)
    <3>1. CASE OwnerOf(p) = u
      <4>1. p \notin Range(freePages)
          BY <3>1, SchedulerAssumption DEF OwnersFound, FreePage
      <4>2. \E v \in Holders' : p \in OwnPages(v)'
          BY <1>1, <2>1, <4>1 DEF OwnersFound
      <4>3. OwnerOf(p)' \in Uids
          BY <4>2 DEF OwnersFound, Holders
      <4>. QED  BY <1>2, <2>2, <3>1, <4>3
    <3>2. CASE OwnerOf(p) # u
        BY <2>1, <2>2, <3>2 DEF OwnersFound, Holders
    <3>. QED  BY <3>1, <3>2
  <2>4. OwnerOf(p) = FreePage
      BY <2>3 DEF OwnersFound
  <2>5. p \notin Range(freePages')
      BY <1>2, <2>4 DEF OwnersFound
  <2>6. \E v \in Holders' : p \in OwnPages(v)'
      BY <1>1, <2>1, <2>5 DEF OwnersFound
  <2>7. OwnerOf(p)' \in Uids
      BY <2>6 DEF OwnersFound, Holders
  <2>. QED  BY <2>2, <2>4, <2>7
<1>3. OwnerMap' \in [Pages -> Uids \cup {FreePage, CachedPage}]
    BY NextOwnersTyped DEF OwnerMap
<1>4. Pinned' = Pinned
    BY <1>1 DEF Pinned
<1>. QED
    BY <1>2, <1>3, <1>4
    DEF Ledger!Allocate, Ledger!Transfer, Ledger!Owners, OwnerMap, Pinned

LEMMA EvictImplements ==
    ASSUME OwnersFound, OwnersFound', PagesOK, DOMAIN refs = DOMAIN tree, Evicts
    PROVE  Ledger!Evict
<1>1. /\ Holders' = Holders /\ RowsStay(Holders)
      /\ Range(freePages) \subseteq Range(freePages')
    BY DEF Evicts
<1>2. PICK gone \in SUBSET Unreferenced(refs) :
        tree' = Without(tree, gone) /\ refs' = Without(refs, gone)
    BY DEF Evicts
<1>3. /\ DOMAIN tree' = DOMAIN tree \ gone /\ DOMAIN refs' = DOMAIN refs \ gone
      /\ \A n \in DOMAIN tree \ gone : tree'[n] = tree[n] /\ refs'[n] = refs[n]
    BY <1>2 DEF Without
<1>4. Pinned' = Pinned
  <2>1. DOMAIN tree' \ Unreferenced(refs') = DOMAIN tree \ Unreferenced(refs)
      BY <1>3 DEF Unreferenced
  <2>2. \A n \in DOMAIN tree \ Unreferenced(refs) : tree'[n] = tree[n]
      BY <1>2, <1>3
  <2>. QED  BY <2>1, <2>2 DEF Pinned
<1>5. ASSUME NEW p \in Pages, OwnerOf(p)' # OwnerOf(p)
      PROVE  OwnerOf(p) = CachedPage /\ OwnerOf(p)' = FreePage
  <2>1. p \notin Range(freePages)
      BY <1>1, <1>5 DEF OwnersFound
  <2>. DEFINE none == FreePage
  <2>2. none \notin Uids /\ RowsStay(Holders \ {none}) /\ Holders' \subseteq Holders \cup {none}
      BY <1>1, SchedulerAssumption DEF RowsStay, FreePage
  <2>. HIDE DEF none
  <2>3. OwnerOf(p) \notin Uids /\ OwnerOf(p)' \notin Uids
      BY <1>5, <2>2, OwnersStay, NoNewOwner
  <2>. QED  BY <1>5, <2>1, <2>3 DEF OwnersFound, Holders
<1>6. OwnerMap' \in [Pages -> Uids \cup {FreePage, CachedPage}]
    BY NextOwnersTyped DEF OwnerMap
<1>7. \A p \in Pinned : p \in Pages /\ OwnerOf(p)' = OwnerOf(p)
  <2>1. ASSUME NEW p \in Pinned PROVE p \in Pages /\ OwnerOf(p)' = OwnerOf(p)
    <3>1. p \in Range(tree) /\ p \in Pages /\ OwnerOf(p) = CachedPage
        BY PinnedAreCached DEF Pinned, Range, PagesOK, EveryPageHasOneOwner
    <3>2. p \in Range(tree')
        BY <1>4 DEF Pinned, Range
    <3>. QED  BY <3>1, <3>2 DEF OwnersFound
  <2>. QED  BY <2>1
<1>. QED
    BY <1>4, <1>5, <1>6, <1>7
    DEF Ledger!Evict, Ledger!Transfer, Ledger!Owners, OwnerMap, Pinned

\* A step after which pages are found where they were.
LEMMA OwnersKept ==
    ASSUME OwnersFound, OwnersFound', RowsStay(Holders), UNCHANGED <<freePages, tree>>
    PROVE  OwnerMap' = OwnerMap
<1>1. ASSUME NEW p \in Pages PROVE OwnerOf(p)' = OwnerOf(p)
  <2>1. CASE p \in Range(freePages) \cup Range(tree)
      BY <2>1 DEF OwnersFound
  <2>2. CASE \E v \in Holders : p \in OwnPages(v)
      BY <2>2, OwnPagesStay DEF OwnersFound
  <2>. QED  BY <2>1, <2>2 DEF OwnersFound
<1>. QED  BY <1>1 DEF OwnerMap

LEMMA StaysImplements ==
    ASSUME OwnersFound, OwnersFound', Stays
    PROVE  UNCHANGED Ledger!vars
<1>1. OwnerMap' = OwnerMap /\ Pinned' = Pinned
    BY OwnersKept DEF Stays, Pinned
<1>. QED  BY <1>1 DEF Ledger!vars, OwnerMap, Pinned

LEMMA PinImplements ==
    ASSUME OwnersFound, OwnersFound', PagesOK', RowsStay(Holders), UNCHANGED <<freePages, tree>>
    PROVE  Ledger!Pin
<1>1. OwnerMap' = OwnerMap
    BY OwnersKept
<1>2. \A p \in Pages : OwnerOf(p)' = OwnerOf(p)
    BY <1>1 DEF OwnerMap
<1>3. Pinned' \subseteq { p \in Pages : OwnerOf(p) = CachedPage }
    BY <1>2, NextPinnedAreCached
<1>. QED  BY <1>1, <1>3 DEF Ledger!Pin, Ledger!CachedPages, OwnerMap, Pinned

LEMMA InitImplements == Init => Ledger!Init
<1>. SUFFICES ASSUME Init PROVE Ledger!Init
    OBVIOUS
<1>1. OwnersFound /\ PagesOK
    BY InitPInv, OwnerFound DEF PInv
<1>2. /\ freePages = [i \in 1..NumPages |-> i] /\ tree = << >>
    BY DEF Init, CacheInit
<1>3. Range(freePages) = Pages
    BY <1>2 DEF Range, Pages
<1>4. OwnerMap = [p \in Pages |-> FreePage]
    BY <1>1, <1>3 DEF OwnersFound, OwnerMap
<1>5. Pinned = {}
    BY <1>2 DEF Pinned
<1>. QED  BY <1>4, <1>5 DEF Ledger!Init, OwnerMap, Pinned

LEMMA NextImplements ==
    ASSUME AbortsInFlightPrefill = FALSE
    PROVE  KInv /\ [Next]_vars => [Ledger!Next]_(Ledger!vars)
<1>. SUFFICES ASSUME KInv, [Next]_vars PROVE [Ledger!Next]_(Ledger!vars)
    OBVIOUS
<1>1. PagesOK /\ PagesOK' /\ DOMAIN refs = DOMAIN tree
    BY NextKInv DEF KInv, PInv, TrieOK
<1>2. OwnersFound /\ OwnersFound'
    BY <1>1, OwnerFound, NextOwnerFound
<1>3. ASSUME NEW u \in Uids, RecvUser(u) PROVE UNCHANGED Ledger!vars
    BY <1>2, <1>3, RecvUserPages, StaysImplements
<1>4. ASSUME NEW u \in Uids, RecvAbort(u) PROVE Ledger!Settle(u)
    BY <1>1, <1>2, <1>4, RecvAbortPages, SettleImplements
<1>5. CASE BeginPack
    BY <1>2, <1>5, BeginPackPages, StaysImplements
<1>6. CASE PackOne
  <2>1. pending[adder.taken + 1] \in Uids
      BY <1>6 DEF PackOne, KInv, IInv, TypeOK, Adders
  <2>2. RowsStay(Holders) /\ UNCHANGED <<freePages, tree>>
      BY <1>6, <2>1, PackOnePages
  <2>3. Ledger!Pin
      BY <1>1, <1>2, <2>2, PinImplements
  <2>. QED  BY <2>3 DEF Ledger!Next
<1>7. CASE EndPack
    BY <1>2, <1>7, EndPackPages, StaysImplements
<1>8. CASE EnsurePages
  <2>1. CASE Stays
      BY <1>2, <2>1, StaysImplements
  <2>2. CASE Evicts
    <3>1. Ledger!Evict
        BY <1>1, <1>2, <2>2, EvictImplements
    <3>. QED  BY <3>1 DEF Ledger!Next
  <2>. QED  BY <1>8, <2>1, <2>2, EnsurePagesPages
<1>9. ASSUME NEW u \in Uids, WriteOne(u) PROVE Ledger!Allocate(u)
    BY <1>2, <1>9, WriteOnePages, AllocateImplements
<1>10. CASE Forward
    BY <1>2, <1>10, ForwardPages, StaysImplements
<1>11. ASSUME NEW u \in Uids, CommitChunk(u) PROVE UNCHANGED Ledger!vars
    BY <1>2, <1>11, CommitChunkPages, StaysImplements
<1>12. ASSUME NEW u \in Uids, NEW token \in Tokens, CommitToken(u, token) PROVE Ledger!Settle(u)
    BY <1>1, <1>2, <1>12, CommitTokenPages, SettleImplements
<1>13. CASE EndCommit
    BY <1>2, <1>13, EndCommitPages, StaysImplements
<1>14. CASE Idle \/ UNCHANGED vars
  <2>1. UNCHANGED vars
      BY <1>14, IdleHolds DEF Idle, vars, schedVars
  <2>2. Stays
      BY <2>1 DEF vars, schedVars, cacheVars, Stays, RowsStay, Holders, OwnIndices, HandlePages, Allocated
  <2>. QED  BY <1>2, <2>2, StaysImplements
<1>. QED
    BY <1>3, <1>4, <1>5, <1>6, <1>7, <1>8, <1>9, <1>10, <1>11, <1>12, <1>13, <1>14
    DEF Next, Client, Step, Ledger!Next

\* Unless an abort names a request between the launch and the commit of its
\* last prefill chunk, the page bookkeeping implements the ledger: whatever
\* the scheduler, allocate_paged, cache_req and evict do, a page reaches a
\* request only from the free pool, leaves it only into the cache or back to
\* the pool, and leaves the cache only for the pool and while no one locks it.
THEOREM ImplementsLedger ==
    ASSUME AbortsInFlightPrefill = FALSE
    PROVE  Spec => LedgerSpec
<1>1. Init => KInv
    BY InitIInv, InitPInv DEF KInv
<1>2. Spec => Ledger!Spec
    BY <1>1, NextKInv, InitImplements, NextImplements, PTL DEF Spec, Ledger!Spec
<1>. QED  BY <1>2 DEF LedgerSpec

\* What the ledger allows is a promise about the scheduler's own pages: who
\* owns a page changes only along the ledger's moves.
Moves(p) ==
    \/ OwnerOf(p)' = OwnerOf(p)
    \/ OwnerOf(p) = FreePage /\ OwnerOf(p)' \in Uids
    \/ OwnerOf(p) \in Uids /\ OwnerOf(p)' \in {FreePage, CachedPage}
    \/ OwnerOf(p) = CachedPage /\ OwnerOf(p)' = FreePage /\ p \notin Pinned

\* One move of the ledger is one of these for every page.
LEMMA LedgerMoves ==
    ASSUME [Ledger!Next]_(Ledger!vars), NEW p \in Pages
    PROVE  Moves(p)
<1>1. OwnerMap[p] = OwnerOf(p) /\ OwnerMap'[p] = OwnerOf(p)'
    BY DEF OwnerMap
<1>2. CASE UNCHANGED Ledger!vars
  <2>1. OwnerMap' = OwnerMap
      BY <1>2 DEF Ledger!vars, OwnerMap
  <2>. QED  BY <1>1, <2>1 DEF Moves
<1>3. CASE Ledger!Evict
  <2>1. OwnerMap'[p] # OwnerMap[p] => OwnerMap[p] = CachedPage /\ OwnerMap'[p] = FreePage
      BY <1>3 DEF Ledger!Evict, Ledger!Transfer, OwnerMap
  <2>2. p \in Pinned => OwnerMap'[p] = OwnerMap[p]
      BY <1>3 DEF Ledger!Evict, OwnerMap, Pinned
  <2>. QED  BY <1>1, <2>1, <2>2 DEF Moves
<1>4. CASE Ledger!Pin
  <2>1. OwnerMap' = OwnerMap
      BY <1>4 DEF Ledger!Pin, OwnerMap
  <2>. QED  BY <1>1, <2>1 DEF Moves
<1>5. ASSUME NEW u \in Uids, Ledger!Allocate(u) PROVE Moves(p)
  <2>1. OwnerMap'[p] # OwnerMap[p] => OwnerMap[p] = FreePage /\ OwnerMap'[p] = u
      BY <1>5 DEF Ledger!Allocate, Ledger!Transfer, OwnerMap
  <2>. QED  BY <1>1, <2>1 DEF Moves
<1>6. ASSUME NEW u \in Uids, Ledger!Settle(u) PROVE Moves(p)
  <2>1. OwnerMap'[p] # OwnerMap[p] => OwnerMap[p] = u /\ OwnerMap'[p] \in {FreePage, CachedPage}
      BY <1>6 DEF Ledger!Settle, Ledger!Transfer, OwnerMap
  <2>. QED  BY <1>1, <2>1 DEF Moves
<1>. QED  BY <1>2, <1>3, <1>4, <1>5, <1>6 DEF Ledger!Next

\* Unless an abort names a request between the launch and the commit of its
\* last prefill chunk, every page is free, cached or one request's, and the
\* pages handles run through are cached.
THEOREM LedgerTypeCorrect ==
    ASSUME AbortsInFlightPrefill = FALSE
    PROVE  Spec => []Ledger!TypeOK
<1>1. Init => KInv
    BY InitIInv, InitPInv DEF KInv
<1>2. KInv => Ledger!TypeOK
  <2>. SUFFICES ASSUME KInv PROVE Ledger!TypeOK
      OBVIOUS
  <2>1. OwnersFound /\ PagesOK
      BY OwnerFound DEF KInv, PInv
  <2>2. Pinned \subseteq { p \in Pages : OwnerOf(p) = CachedPage }
      BY <2>1, PinnedAreCached
  <2>3. \A p \in Pages : OwnerOf(p) \in Uids \cup {FreePage, CachedPage}
      BY <2>1 DEF OwnersFound, Holders
  <2>. QED
      BY <2>2, <2>3 DEF Ledger!TypeOK, Ledger!Owners, Ledger!CachedPages, Pinned
<1>. QED  BY <1>1, <1>2, NextKInv, PTL DEF Spec

\* A page some request was handed as part of its prefix keeps its owner for as
\* long as it is locked: eviction, allocation and the settling of other
\* requests (evict, allocate_paged, cache_req) pass it by.
PinnedPagesStay == [][\A p \in Pinned : OwnerOf(p)' = OwnerOf(p)]_vars

\* Pinned pages stay, under the hypothesis of ImplementsLedger.
THEOREM PinnedStay ==
    ASSUME AbortsInFlightPrefill = FALSE
    PROVE  Spec => PinnedPagesStay
<1>1. Init => KInv
    BY InitIInv, InitPInv DEF KInv
<1>2. KInv /\ [Next]_vars => [\A p \in Pinned : OwnerOf(p)' = OwnerOf(p)]_vars
  <2>. SUFFICES ASSUME KInv, [Next]_vars, NEW p \in Pinned PROVE OwnerOf(p)' = OwnerOf(p)
      OBVIOUS
  <2>1. p \in Pages /\ OwnerOf(p) = CachedPage
      BY OwnerFound, PinnedAreCached DEF KInv, PInv
  <2>2. Moves(p)
      BY <2>1, NextImplements, LedgerMoves
  <2>3. CachedPage # FreePage /\ CachedPage \notin Uids
      BY SchedulerAssumption DEF CachedPage, FreePage
  <2>. QED  BY <2>1, <2>2, <2>3 DEF Moves
<1>. QED  BY <1>1, <1>2, NextKInv, PTL DEF Spec, PinnedPagesStay

\* A page never passes from one request to another, nor from the prefix cache
\* to a request: it is given back to the free pages first.
NoDirectTransfer ==
    [][\A p \in Pages : OwnerOf(p)' \in Uids /\ OwnerOf(p)' # OwnerOf(p)
                          => OwnerOf(p) = FreePage]_vars

\* Transfers go through the pool, under the hypothesis of ImplementsLedger.
THEOREM TransfersGoThroughThePool ==
    ASSUME AbortsInFlightPrefill = FALSE
    PROVE  Spec => NoDirectTransfer
<1>1. Init => KInv
    BY InitIInv, InitPInv DEF KInv
<1>2. KInv /\ [Next]_vars =>
        [\A p \in Pages : OwnerOf(p)' \in Uids /\ OwnerOf(p)' # OwnerOf(p)
                            => OwnerOf(p) = FreePage]_vars
  <2>. SUFFICES ASSUME KInv, [Next]_vars, NEW p \in Pages,
                       OwnerOf(p)' \in Uids, OwnerOf(p)' # OwnerOf(p)
                PROVE  OwnerOf(p) = FreePage
      OBVIOUS
  <2>1. Moves(p)
      BY NextImplements, LedgerMoves
  <2>2. CachedPage \notin Uids /\ FreePage \notin Uids
      BY SchedulerAssumption DEF CachedPage, FreePage
  <2>. QED  BY <2>1, <2>2 DEF Moves
<1>. QED  BY <1>1, <1>2, NextKInv, PTL DEF Spec, NoDirectTransfer

----------------------------------------------------------------------------
(* How long requests are.                                                  *)

\* Who is waiting is queued, unless its resources say where it got to.
WaitingAreKept ==
    \A u \in Uids : outcome[u] = "waiting" => u \in Holders \/ u \in ToSet(pending)

\* Packing gave resources to everyone it took.
TakenHold == \A i \in DOMAIN pending : i <= adder.taken => pending[i] \in Holders

\* A prompt that is through has the limit of the client, clipped to the pool.
LimitsAreGiven ==
    \A u \in Holders \ chunked : req[u].maxDevice = Len(Prompt[u]) + OutputLen(u)

LengthInv == WaitingAreKept /\ TakenHold /\ LimitsAreGiven

\* Clients change the queue and the outcome, and an abort releases.
LEMMA ClientLengths ==
    ASSUME KInv, LengthInv, NEW u \in Uids, RecvUser(u) \/ RecvAbort(u)
    PROVE  LengthInv'
<1>. USE DEF KInv, IInv
<1>1. pc = "recv" /\ adder' = adder /\ adder.taken = 0
    BY DEF RecvUser, RecvAbort, Queues, PackState, NoAdder
<1>2. pending \in Seq(Uids) /\ DOMAIN pending' \subseteq Nat \ {0}
  <2>1. CASE RecvUser(u)
      BY <2>1 DEF RecvUser, TypeOK
  <2>2. CASE RecvAbort(u)
    <3>1. pending' \in Seq(Uids)
        BY <2>2, AbortDequeues
    <3>. QED  BY <3>1 DEF TypeOK
  <2>. QED  BY <2>1, <2>2
<1>3. TakenHold'
    BY <1>1, <1>2 DEF TakenHold
<1>4. CASE RecvUser(u)
  <2>1. /\ outcome' \in {[outcome EXCEPT ![u] = "rejected"], [outcome EXCEPT ![u] = "waiting"]}
        /\ outcome'[u] = "waiting" => pending' = Append(pending, u)
        /\ pending' \in {pending, Append(pending, u)}
        /\ UNCHANGED <<chunked, req>>
      BY <1>4 DEF RecvUser, TypeOK
  <2>2. ToSet(Append(pending, u)) = ToSet(pending) \cup {u}
    <3>1. /\ Append(pending, u) \in Seq(Uids) /\ Len(pending) \in Nat
          /\ DOMAIN Append(pending, u) = 1..Len(pending) + 1 /\ DOMAIN pending = 1..Len(pending)
          /\ Append(pending, u)[Len(pending) + 1] = u
          /\ \A i \in 1..Len(pending) : Append(pending, u)[i] = pending[i]
        BY <1>2
    <3>2. \A i \in 1..Len(pending) + 1 : i \in 1..Len(pending) \/ i = Len(pending) + 1
        BY <3>1
    <3>3. Len(pending) + 1 \in 1..Len(pending) + 1 /\ 1..Len(pending) \subseteq 1..Len(pending) + 1
        BY <3>1
    <3>. QED  BY <3>1, <3>2, <3>3 DEF ToSet
  <2>3. WaitingAreKept'
      BY <2>1, <2>2 DEF LengthInv, WaitingAreKept, Holders, TypeOK
  <2>. QED  BY <1>3, <2>1, <2>3 DEF LengthInv, LimitsAreGiven, Holders
<1>5. CASE RecvAbort(u)
  <2>1. ToSet(pending') = ToSet(pending) \ {u}
      BY <1>5, AbortDequeues
  <2>2. /\ u \in chunked \cup running => req'[u].freed
        /\ u \notin chunked \cup running => req'[u] = req[u]
        /\ \A v \in Uids \ {u} : req'[v] = req[v]
    <3>1. CASE FoundWithResources(u)
      <4>1. FreeReqResources(u, req[u]) /\ req[u] \in ReqObjects
          BY <1>5, <3>1 DEF RecvAbort, TypeOK
      <4>. QED  BY <3>1, <4>1, FreeEffect DEF FoundWithResources
    <3>2. CASE ~FoundWithResources(u)
        BY <1>5, <3>2 DEF RecvAbort, FoundWithResources
    <3>. QED  BY <3>1, <3>2
  <2>3. chunked' = chunked \ {u} /\ outcome' = [outcome EXCEPT ![u] = "aborted"]
      BY <1>5 DEF RecvAbort
  <2>4. WaitingAreKept'
      BY <2>1, <2>2, <2>3 DEF LengthInv, WaitingAreKept, Holders, TypeOK
  <2>5. LimitsAreGiven'
    <3>1. ASSUME NEW v \in Holders', v \notin chunked' PROVE req'[v] = req[v] /\ v \in Holders \ chunked
        BY <2>2, <2>3, <3>1 DEF Holders
    <3>. QED  BY <3>1 DEF LengthInv, LimitsAreGiven
  <2>. QED  BY <1>3, <2>4, <2>5 DEF LengthInv
<1>. QED  BY <1>4, <1>5

\* A packed request has its limit once no chunk of it is left.
LEMMA PackLengths ==
    ASSUME KInv, KInv', LengthInv, PackOne
    PROVE  LengthInv'
<1>. USE DEF KInv, IInv
<1>. DEFINE t == adder.taken
<1>0. t \in Nat /\ t + 1 \in DOMAIN pending /\ DOMAIN pending \subseteq Nat
    BY DEF PackOne, TypeOK, Adders
<1>1. PICK u \in Uids : u = pending[t + 1]
    BY <1>0 DEF TypeOK
<1>2. pc = "pack" /\ UNCHANGED <<pc, outcome, pending>> /\ (PackChunk(u) \/ PackNew(u))
    BY <1>1 DEF PackOne
<1>3. PICK row, handle, cachedLen : AddOneReq(u, row, handle, cachedLen)
    BY <1>2 DEF PackChunk, PackNew
<1>4. /\ ~req'[u].freed /\ req'[u].maxDevice = req'[u].device + OutputLen(u)
      /\ \A v \in Uids \ {u} : req'[v] = req[v] /\ (v \in chunked' <=> v \in chunked)
      /\ u \in chunked' <=> req'[u].device < Len(Prompt[u])
      /\ u \in batch'.uids /\ batch'.phase = "prefill"
    BY <1>1, <1>3 DEF AddOneReq, TypeOK
<1>5. adder'.taken = t + 1
    BY <1>0, <1>3 DEF AddOneReq, TypeOK, Adders
<1>6. WaitingAreKept'
    BY <1>1, <1>2, <1>4 DEF LengthInv, WaitingAreKept, Holders
<1>7. TakenHold'
  <2>1. ASSUME NEW i \in DOMAIN pending, i <= t + 1 PROVE pending[i] \in Holders'
    <3>1. i <= t \/ i = t + 1
        BY <1>0, <2>1
    <3>2. pending[i] \in Uids
        BY DEF TypeOK
    <3>3. CASE i = t + 1
        BY <1>1, <1>4, <3>3 DEF Holders
    <3>4. CASE i <= t
        BY <1>1, <1>4, <3>2, <3>4 DEF LengthInv, TakenHold, Holders
    <3>. QED  BY <3>1, <3>3, <3>4
  <2>. QED  BY <1>2, <1>5, <2>1 DEF TakenHold
<1>8. LimitsAreGiven'
  <2>1. LengthsOf(u)' /\ u \in Prefilling'
    <3>1. u \in Holders'
        BY <1>1, <1>4 DEF Holders
    <3>. QED  BY <1>2, <1>4, <3>1 DEF PInv, Whereabouts, Lengths, Prefilling, Building
  <2>2. req'[u].device <= Len(Prompt[u])
      BY <2>1 DEF LengthsOf, PrefillLengths
  <2>3. u \notin chunked' => req'[u].device = Len(Prompt[u])
    <3>1. req'[u].device \in Nat /\ Len(Prompt[u]) \in Nat
      <4>1. req' \in [Uids -> ReqObjects]
          BY DEF TypeOK
      <4>2. req'[u].device \in Nat
          BY <4>1 DEF ReqObjects
      <4>3. Prompt[u] \in Seq(Nat)
          BY SchedulerAssumption
      <4>. QED  BY <4>2, <4>3
    <3>. QED  BY <1>4, <2>2, <3>1
  <2>. QED  BY <1>1, <1>4, <2>3 DEF LengthInv, LimitsAreGiven, Holders
<1>. QED  BY <1>6, <1>7, <1>8 DEF LengthInv

\* What packing did not take stays queued.
LEMMA EndPackLengths ==
    ASSUME KInv, LengthInv, EndPack
    PROVE  LengthInv'
<1>. USE DEF KInv, IInv
<1>1. /\ pending' = Requeued /\ adder'.taken = 0
      /\ UNCHANGED <<outcome, chunked, req>>
    BY DEF EndPack, NoAdder
<1>2. Requeued \in Seq(Uids)
    BY RequeuedElements DEF EndPack
<1>3. TakenHold'
    BY <1>1, <1>2 DEF TakenHold
<1>4. ASSUME NEW i \in DOMAIN pending, i > adder.taken PROVE pending[i] \in ToSet(Requeued)
  <2>. DEFINE R == NotReached
              A == adder.chunks
              j == i - adder.taken
  <2>1. /\ pending \in Seq(Uids) /\ adder.taken \in Nat /\ adder.taken <= Len(pending)
        /\ i \in 1..Len(pending) /\ A \in Seq(Uids) /\ Len(A) \in Nat
      BY DEF TypeOK, Adders, Queues, PackState
  <2>2. /\ R \in Seq(Uids) /\ Len(R) = Len(pending) - adder.taken
        /\ j \in 1..Len(R) /\ R[j] = pending[i]
      BY <1>4, <2>1 DEF NotReached
  <2>. HIDE DEF R, A, j
  <2>3. /\ Len(A \o R) = Len(A) + Len(R)
        /\ \A n \in 1..Len(A) + Len(R) : (A \o R)[n] = IF n <= Len(A) THEN A[n] ELSE R[n - Len(A)]
        /\ A \o R \in Seq(Uids)
      BY <2>1, <2>2, ConcatProperties
  <2>4. /\ Len(A) + j \in 1..Len(A) + Len(R) /\ ~(Len(A) + j <= Len(A))
        /\ (Len(A) + j) - Len(A) = j
      BY <2>1, <2>2
  <2>5. (A \o R)[Len(A) + j] = pending[i] /\ Len(A) + j \in DOMAIN (A \o R)
      BY <2>2, <2>3, <2>4
  <2>6. Requeued = A \o R
      BY DEF Requeued, A, R
  <2>. QED  BY <2>5, <2>6 DEF ToSet
<1>5. WaitingAreKept'
  <2>1. ASSUME NEW u \in Uids, outcome[u] = "waiting", u \notin Holders
        PROVE  u \in ToSet(Requeued)
    <3>1. PICK i \in DOMAIN pending : pending[i] = u
        BY <2>1 DEF LengthInv, WaitingAreKept, ToSet
    <3>2. i \in Nat /\ adder.taken \in Nat
        BY DEF TypeOK, Adders
    <3>3. i > adder.taken
        BY <2>1, <3>1, <3>2 DEF LengthInv, TakenHold
    <3>. QED  BY <1>4, <3>1, <3>3
  <2>. QED  BY <1>1, <2>1 DEF WaitingAreKept, Holders
<1>. QED  BY <1>1, <1>3, <1>5 DEF LengthInv, LimitsAreGiven, Holders

\* A token that does not end its request leaves it what it had.
LEMMA CommitLengths ==
    ASSUME KInv, LengthInv, NEW u \in Uids, NEW token \in Tokens, CommitToken(u, token)
    PROVE  /\ LengthInv'
           /\ req'[u].ids = Append(req[u].ids, token)
           /\ outcome' = [outcome EXCEPT ![u] =
                             IF (token \in Eos \/ ~CanDecode(u)) /\ @ = "waiting" THEN "finished" ELSE @]
<1>. USE DEF KInv, IInv
<1>. DEFINE r == [req[u] EXCEPT !.ids = Append(@, token)]
            ends == token \in Eos \/ ~CanDecode(u)
            told == [outcome EXCEPT ![u] = IF ends /\ @ = "waiting" THEN "finished" ELSE @]
<1>1. /\ r \in ReqObjects /\ r.ids = Append(req[u].ids, token)
      /\ r.row = req[u].row /\ r.freed = req[u].freed /\ r.maxDevice = req[u].maxDevice
  <2>1. req[u] \in ReqObjects /\ Append(req[u].ids, token) \in Seq(Nat)
      BY SchedulerAssumption DEF TypeOK, ReqObjects
  <2>. QED  BY <2>1 DEF ReqObjects
<1>2. /\ UNCHANGED <<pending, chunked, adder>> /\ outcome' = told
      /\ \/ ends /\ FinishReq(u, r)
         \/ CachePrompt(u, r)
         \/ req' = [req EXCEPT ![u] = r]
    BY DEF CommitToken
<1>. HIDE DEF r
<1>3. /\ \A v \in Uids \ {u} : req'[v] = req[v]
      /\ req'[u].ids = r.ids
      /\ \/ ends /\ req'[u].freed
         \/ req'[u].freed = req[u].freed /\ req'[u].maxDevice = req[u].maxDevice
  <2>1. CASE ends /\ FinishReq(u, r)
    <3>1. FreeReqResources(u, r)
        BY <2>1 DEF FinishReq
    <3>2. req' = [req EXCEPT ![u] = r] \/ req' = [req EXCEPT ![u] = [r EXCEPT !.freed = TRUE]]
        BY <3>1 DEF FreeReqResources, ReleaseOnce
    <3>3. [r EXCEPT !.freed = TRUE].ids = r.ids
        BY <1>1 DEF ReqObjects
    <3>4. req'[u].ids = r.ids
        BY <3>2, <3>3 DEF TypeOK
    <3>5. req'[u].freed /\ \A v \in Uids \ {u} : req'[v] = req[v]
        BY <1>1, <3>1, FreeEffect
    <3>. QED  BY <2>1, <3>4, <3>5
  <2>2. CASE CachePrompt(u, r)
    <3>. DEFINE h == PathTo(InsertIds(r), Len(InsertIds(r)) \div PageSize)
                long == [r EXCEPT !.handle = h]
    <3>1. req' = [req EXCEPT ![u] = r] \/ req' = [req EXCEPT ![u] = long]
        BY <2>2 DEF CachePrompt
    <3>. HIDE DEF h
    <3>2. long.ids = r.ids /\ long.freed = r.freed /\ long.maxDevice = r.maxDevice
        BY <1>1 DEF ReqObjects
    <3>. HIDE DEF long
    <3>3. req'[u] \in {r, long} /\ \A v \in Uids \ {u} : req'[v] = req[v]
        BY <3>1 DEF TypeOK
    <3>. QED  BY <1>1, <3>2, <3>3
  <2>3. CASE req' = [req EXCEPT ![u] = r]
      BY <1>1, <2>3 DEF TypeOK
  <2>. QED  BY <1>2, <2>1, <2>2, <2>3
<1>. HIDE DEF ends
<1>4. /\ told[u] = "waiting" => outcome[u] = "waiting" /\ ~ends
      /\ \A v \in Uids \ {u} : told[v] = outcome[v]
    BY DEF TypeOK
<1>5. WaitingAreKept'
    BY <1>2, <1>3, <1>4 DEF LengthInv, WaitingAreKept, Holders
<1>6. TakenHold'
  <2>1. \A i \in DOMAIN pending : ~(i <= adder.taken)
    <3>1. adder.taken = 0 /\ DOMAIN pending = 1..Len(pending) /\ Len(pending) \in Nat
        BY DEF CommitToken, Queues, PackState, NoAdder, TypeOK
    <3>. QED  BY <3>1
  <2>. QED  BY <1>2, <2>1 DEF TakenHold
<1>7. LimitsAreGiven'
    BY <1>2, <1>3 DEF LengthInv, LimitsAreGiven, Holders
<1>. QED  BY <1>1, <1>2, <1>3, <1>5, <1>6, <1>7 DEF LengthInv, told, ends

LEMMA NextLengths ==
    ASSUME KInv, KInv', LengthInv, [Next]_vars
    PROVE  LengthInv'
<1>. USE DEF KInv, IInv
<1>1. ASSUME UNCHANGED <<outcome, pending, chunked, req>>, adder' = adder \/ adder'.taken = 0
      PROVE  LengthInv'
  <2>1. \A i \in DOMAIN pending : i \in Nat \ {0}
      BY DEF TypeOK
  <2>2. TakenHold'
      BY <1>1, <2>1 DEF LengthInv, TakenHold, Holders
  <2>. QED  BY <1>1, <2>2 DEF LengthInv, WaitingAreKept, LimitsAreGiven, Holders
<1>2. CASE Client
    BY <1>2, ClientLengths DEF Client
<1>3. CASE Idle
    BY <1>1, <1>3 DEF Idle
<1>4. CASE BeginPack
  <2>1. adder'.taken = 0
      BY <1>4 DEF BeginPack
  <2>. QED  BY <1>1, <1>4, <2>1 DEF BeginPack
<1>5. CASE PackOne
    BY <1>5, PackLengths
<1>6. CASE EndPack
    BY <1>6, EndPackLengths
<1>7. CASE EnsurePages
    BY <1>1, <1>7 DEF EnsurePages
<1>8. CASE Forward
  <2>1. UNCHANGED <<outcome, pending, chunked, adder>>
      BY <1>8 DEF Forward
  <2>2. \A u \in Uids : req'[u].freed = req[u].freed /\ req'[u].maxDevice = req[u].maxDevice
      BY <1>8 DEF Forward, CompleteOne, TypeOK, ReqObjects
  <2>. QED  BY <2>1, <2>2 DEF LengthInv, WaitingAreKept, TakenHold, LimitsAreGiven, Holders
<1>9. CASE EndCommit
    BY <1>1, <1>9 DEF EndCommit
<1>10. ASSUME NEW u \in Uids, WriteOne(u) \/ CommitChunk(u) PROVE LengthInv'
    BY <1>1, <1>10 DEF WriteOne, CommitChunk
<1>11. ASSUME NEW u \in Uids, NEW token \in Tokens, CommitToken(u, token) PROVE LengthInv'
    BY <1>11, CommitLengths
<1>12. CASE UNCHANGED vars
    BY <1>1, <1>12 DEF vars, schedVars
<1>. QED
    BY <1>2, <1>3, <1>4, <1>5, <1>6, <1>7, <1>8, <1>9, <1>10, <1>11, <1>12
    DEF Next, Step

\* How a request that is waiting comes to be finished.
LEMMA FinishStep ==
    ASSUME KInv, LengthInv, [Next]_vars, NEW u \in Uids
    PROVE  FinishesWith(u, IF loop = "normal" THEN {OutputLen(u)}
                           ELSE {OutputLen(u) - 1, OutputLen(u)})
<1>. USE DEF KInv, IInv
<1>. SUFFICES ASSUME outcome[u] = "waiting", outcome'[u] = "finished"
              PROVE  \/ Last(req'[u].ids) \in Eos
                     \/ Len(req'[u].ids) - Len(Prompt[u]) \in
                           (IF loop = "normal" THEN {OutputLen(u)}
                            ELSE {OutputLen(u) - 1, OutputLen(u)})
    BY DEF FinishesWith
<1>1. PICK token \in Tokens : CommitToken(u, token)
  <2>1. CASE Client
      BY <2>1 DEF Client, RecvUser, RecvAbort, TypeOK
  <2>2. ASSUME NEW v \in Uids, NEW token \in Tokens, CommitToken(v, token)
        PROVE  CommitToken(u, token)
      BY <2>2, CommitLengths DEF TypeOK
  <2>3. CASE Next /\ ~Client /\ ~\E v \in Uids, token \in Tokens : CommitToken(v, token)
      BY <2>3 DEF Next, Step, Idle, BeginPack, PackOne, EndPack, EnsurePages, Forward, EndCommit,
                  WriteOne, CommitChunk
  <2>4. CASE UNCHANGED vars
      BY <2>4 DEF vars, schedVars
  <2>. QED  BY <2>1, <2>2, <2>3, <2>4
<1>2. /\ req'[u].ids = Append(req[u].ids, token)
      /\ token \in Eos \/ ~CanDecode(u)
  <2>1. outcome' = [outcome EXCEPT ![u] =
                       IF (token \in Eos \/ ~CanDecode(u)) /\ @ = "waiting" THEN "finished" ELSE @]
      BY <1>1, CommitLengths
  <2>. QED  BY <1>1, <2>1, CommitLengths DEF TypeOK
<1>3. req[u] \in ReqObjects /\ req[u].ids \in Seq(Nat) /\ token \in Nat
    BY SchedulerAssumption DEF TypeOK, ReqObjects
<1>4. CASE token \in Eos
  <2>1. Last(Append(req[u].ids, token)) = token
      BY <1>3 DEF Last
  <2>. QED  BY <1>2, <1>4, <2>1
<1>5. CASE token \notin Eos
  <2>1. pc = "commit" /\ u \in Committing.uids \ Committing.chunks /\ u \in todo
      BY <1>1 DEF CommitToken, Queues, TodoInBatch
  <2>2. u \notin chunked
      BY <2>1 DEF Queues, ChunkedHold, Committing
  <2>3. u \in Holders
    <3>1. ASSUME u \notin Holders PROVE FALSE
      <4>1. PICK i \in DOMAIN pending : pending[i] = u
          BY <3>1 DEF LengthInv, WaitingAreKept, ToSet
      <4>2. adder.taken = 0 /\ i > 0
          BY <2>1 DEF Queues, PackState, NoAdder, TypeOK
      <4>. QED  BY <2>1, <2>2, <4>1, <4>2 DEF Queues, QueuedHoldNothing, Committing
    <3>. QED  BY <3>1
  <2>4. LengthsOf(u) /\ u \notin Prefilling /\ loop = "normal" => last = NoBatch
      BY <2>1, <2>3 DEF PInv, Whereabouts, Lengths, BatchesAreWhole, Prefilling, Building
  <2>5. /\ Len(req[u].ids) + Awaited(u) = req[u].device
        /\ req[u].device <= req[u].maxDevice
      BY <2>1, <2>2, <2>3 DEF PInv, Whereabouts, Lengths, LengthsOf, SettledLengths, Prefilling, Building
  <2>6. Awaited(u) = 1 \/ (loop # "normal" /\ Awaited(u) = 2)
      BY <2>1 DEF Awaited, AwaitLast, AwaitBatch, Sampling, Committing, TypeOK, SchedulerAssumption
  <2>7. req[u].maxDevice = Len(Prompt[u]) + OutputLen(u)
      BY <2>2, <2>3 DEF LengthInv, LimitsAreGiven
  <2>8. /\ Len(Prompt[u]) \in Nat /\ OutputLen(u) \in Int
        /\ req[u].maxDevice \in Nat /\ req[u].device \in Nat /\ Len(req[u].ids) \in Nat
        /\ Len(Append(req[u].ids, token)) = Len(req[u].ids) + 1
      BY <1>3, SchedulerAssumption DEF ReqObjects, OutputLen
  <2>9. req[u].maxDevice <= req[u].device
      BY <1>2, <1>5, <2>8 DEF CanDecode, RemainLen
  <2>. DEFINE n == Len(req[u].ids)
              p == Len(Prompt[u])
              o == OutputLen(u)
              m == Len(Append(req[u].ids, token))
              a == Awaited(u)
  <2>10. n + a = p + o /\ m = n + 1 /\ n \in Nat /\ p \in Nat /\ o \in Int
      BY <2>5, <2>7, <2>8, <2>9
  <2>11. a = 1 \/ (loop # "normal" /\ a = 2)
      BY <2>6
  <2>. HIDE DEF n, p, o, m, a
  <2>12. m - p = o \/ (loop # "normal" /\ m - p = o - 1)
      BY <2>10, <2>11
  <2>. QED  BY <1>2, <2>12 DEF m, p, o
<1>. QED  BY <1>4, <1>5

\* Unless an abort names a request between the launch and the commit of its
\* last prefill chunk, a request that no end-of-sequence token ends is given
\* all its tokens in normal_loop, and at most one less in overlap_loop, which
\* asks can_decode when the next forward was launched (_process_last_data).
THEOREM RequestsGetTheirTokens ==
    ASSUME AbortsInFlightPrefill = FALSE
    PROVE  Spec => LengthFinishes
<1>1. Init => KInv /\ LengthInv
  <2>1. Init => LengthInv
      BY DEF Init, LengthInv, WaitingAreKept, TakenHold, LimitsAreGiven, Holders, NoReq
  <2>. QED  BY <2>1, InitIInv, InitPInv DEF KInv
<1>2. KInv /\ LengthInv /\ [Next]_vars => (KInv /\ LengthInv)'
    BY NextKInv, NextLengths
<1>3. KInv /\ LengthInv /\ [Next]_vars =>
        [\A u \in Uids : FinishesWith(u, IF loop = "normal" THEN {OutputLen(u)}
                                         ELSE {OutputLen(u) - 1, OutputLen(u)})]_vars
    BY FinishStep
<1>. QED  BY <1>1, <1>2, <1>3, PTL DEF Spec, LengthFinishes
=============================================================================
