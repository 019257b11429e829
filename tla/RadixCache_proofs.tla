------------------------- MODULE RadixCache_proofs -------------------------
(***************************************************************************)
(* What is proved of RadixCache, for every page size, pool, snapshot cap,  *)
(* set of users and set of token streams, with and without recurrent       *)
(* state.                                                                  *)
(*                                                                         *)
(* None of TreeWellFormed, EvictNeverFails and SnapshotsMatchNodes is      *)
(* inductive.  That evict finds a leaf to pop depends on the heap holding  *)
(* an entry with the current time of every unreferenced leaf, on an        *)
(* unreferenced node having only unreferenced ones below it, and on the    *)
(* sizes adding up; that depends on the counts being the handles; and all  *)
(* of it on the tree being one.  The inductive invariant RInv is           *)
(*   Tree      the nodes are finitely many whole-page paths; each hangs    *)
(*             from the nearest node above it, and every page of the tree  *)
(*             is held by one node (OneOver): siblings part at their first *)
(*             page;                                                       *)
(*   Counts    a node's ref_count is the number of handles at or below it, *)
(*             and the path of a handle is in the tree;                    *)
(*   Sized     evictable_size and protected_size are the tokens of the     *)
(*             unreferenced and of the referenced nodes;                   *)
(*   Heaped    every unreferenced leaf has a heap entry with its time;     *)
(*   RecOK     snapshots are on their own nodes, listed once each;         *)
(*   PcOK      what a capture or an eviction under way may rely on.        *)
(* The operations are taken apart into their effects on the nodes (a       *)
(* split, a touch, a graft, a count up or down, an unlinked leaf), and for *)
(* each of these a lemma says that it leaves Good, the first four, true.   *)
(*                                                                         *)
(* That the cache implements PageTrie is proved the same way, on the pages *)
(* of the paths: a split, a touch, a count or a snapshot leaves the pages  *)
(* of a tree Alike, a graft Gains those of a commit, an unlinked leaf      *)
(* takes its own (PathsAt) away.  PageTrie also says that no page has two  *)
(* paths; that needs the free pages to be none of the tree's (Unshared).   *)
(***************************************************************************)
EXTENDS RadixCache, SequenceTheorems, FiniteSetTheorems, NaturalsInduction,
        WellFoundedInduction, TLAPS

\* A set of numbers has a least one.
LEMMA Least ==
    ASSUME NEW S \in SUBSET Nat, S # {}
    PROVE  \E n \in S : \A m \in S : n <= m
<1>1. PICK n \in S : \A m \in S : ~(<<m, n>> \in OpToRel(<, Nat))
    BY NatLessThanWellFounded, WFMin
<1>2. \A m \in S : ~(m < n)
    BY <1>1 DEF OpToRel
<1>3. \A m \in S : n <= m
    BY <1>2
<1>. QED  BY <1>3

\* Whole pages of a length fit into it.
LEMMA PagesFit ==
    ASSUME NEW n \in Nat, NEW k \in 0..(n \div PageSize)
    PROVE  /\ n \div PageSize \in Nat
           /\ k * PageSize \in 0..n
<1>1. n \div PageSize \in Nat
    BY PageSizeAssumption, SMT
<1>2. (n \div PageSize) * PageSize <= n
    BY PageSizeAssumption, SMT
<1>3. k * PageSize <= (n \div PageSize) * PageSize
    BY <1>1, PageSizeAssumption, SMT
<1>4. k * PageSize \in Nat
    BY <1>1, PageSizeAssumption, SMT
<1>. QED  BY <1>1, <1>2, <1>3, <1>4, PageSizeAssumption, SMT

\* A length is its whole pages and a rest.
LEMMA Division ==
    ASSUME NEW n \in Nat
    PROVE  /\ n \div PageSize \in Nat
           /\ n % PageSize \in 0..PageSize - 1
           /\ n = (n \div PageSize) * PageSize + (n % PageSize)
    BY PageSizeAssumption, SMT

\* Nothing else divides it.
LEMMA DivisionUnique ==
    ASSUME NEW k \in Nat, NEW r \in 0..PageSize - 1
    PROVE  /\ k * PageSize + r \in Nat
           /\ (k * PageSize + r) \div PageSize = k
           /\ (k * PageSize + r) % PageSize = r
<1>1. k * PageSize \in Nat
    BY PageSizeAssumption, SMT
<1>2. k * PageSize + r \in Nat
    BY <1>1, PageSizeAssumption, SMT
<1>. DEFINE n == k * PageSize + r
            q == n \div PageSize
            s == n % PageSize
<1>3. q \in Nat /\ s \in 0..PageSize - 1 /\ n = q * PageSize + s
    BY <1>2, Division
<1>. HIDE DEF q, s
<1>4. k * PageSize + r = q * PageSize + s
    BY <1>3
<1>5. k = q
  <2>1. ASSUME k < q PROVE FALSE
    <3>1. (k + 1) * PageSize <= q * PageSize
        BY <1>3, <2>1, PageSizeAssumption, SMT
    <3>2. (k + 1) * PageSize = k * PageSize + PageSize
        BY PageSizeAssumption, SMT
    <3>. QED  BY <1>1, <1>3, <1>4, <3>1, <3>2, PageSizeAssumption, SMT
  <2>2. ASSUME q < k PROVE FALSE
    <3>1. (q + 1) * PageSize <= k * PageSize
        BY <1>3, <2>2, PageSizeAssumption, SMT
    <3>2. (q + 1) * PageSize = q * PageSize + PageSize
        BY <1>3, PageSizeAssumption, SMT
    <3>3. q * PageSize \in Nat
        BY <1>3, PageSizeAssumption, SMT
    <3>. QED  BY <1>1, <1>3, <1>4, <3>1, <3>2, <3>3, PageSizeAssumption, SMT
  <2>. QED  BY <1>3, <2>1, <2>2
<1>6. r = s
    BY <1>1, <1>3, <1>4, <1>5, PageSizeAssumption, SMT
<1>. QED  BY <1>2, <1>5, <1>6 DEF q, s

\* k pages are k * PageSize tokens, a whole number of pages.
LEMMA WholePages ==
    ASSUME NEW k \in Nat
    PROVE  /\ k * PageSize \in Nat
           /\ (k * PageSize) \div PageSize = k
           /\ (k * PageSize) % PageSize = 0
<1>1. 0 \in 0..PageSize - 1 /\ k * PageSize \in Nat
    BY PageSizeAssumption, SMT
<1>2. k * PageSize + 0 = k * PageSize
    BY <1>1
<1>. QED  BY <1>1, <1>2, DivisionUnique

\* What Append and \o do to the elements of a sequence.
LEMMA AppendElements ==
    ASSUME NEW T, NEW s \in Seq(T), NEW x \in T
    PROVE  /\ ToSet(Append(s, x)) = ToSet(s) \cup {x}
           /\ IsInjective(s) /\ x \notin ToSet(s) => IsInjective(Append(s, x))
<1>1. DOMAIN s = 1 .. Len(s) /\ DOMAIN Append(s, x) = 1 .. Len(s) + 1 /\ Len(s) \in Nat
    OBVIOUS
<1>2. \A i \in 1 .. Len(s) : Append(s, x)[i] = s[i]
    OBVIOUS
<1>3. Append(s, x)[Len(s) + 1] = x
    OBVIOUS
<1>4. ToSet(Append(s, x)) = ToSet(s) \cup {x}
  <2>1. ToSet(Append(s, x)) \subseteq ToSet(s) \cup {x}
    BY <1>1, <1>2, <1>3 DEF ToSet
  <2>2. ToSet(s) \subseteq ToSet(Append(s, x))
    BY <1>1, <1>2 DEF ToSet
  <2>3. x \in ToSet(Append(s, x))
    BY <1>1, <1>3 DEF ToSet
  <2>. QED  BY <2>1, <2>2, <2>3
<1>5. ASSUME IsInjective(s), x \notin ToSet(s) PROVE IsInjective(Append(s, x))
    BY <1>1, <1>2, <1>3, <1>5 DEF IsInjective, ToSet
<1>. QED  BY <1>4, <1>5

\* The definition of Only, one element of the sequence at a time.
OnlyStep(s, keys, only, i) ==
    IF i = 0 THEN << >>
    ELSE IF s[i] \in keys THEN Append(only[i - 1], s[i]) ELSE only[i - 1]

\* The function Only is defined by exists, up to every length.
LEMMA OnlyExists ==
    ASSUME NEW T, NEW s \in Seq(T), NEW keys
    PROVE  \A n \in 0 .. Len(s) : \E f : f = [i \in 0 .. n |-> OnlyStep(s, keys, f, i)]
<1>. DEFINE P(n) == \E f : f = [i \in 0 .. n |-> OnlyStep(s, keys, f, i)]
            B == {n \in 0 .. Len(s) : ~P(n)}
<1>1. SUFFICES ASSUME B # {} PROVE FALSE
    OBVIOUS
<1>2. B \in SUBSET Nat
    BY LenProperties
<1>3. PICK n \in B : \A m \in B : n <= m
    BY <1>1, <1>2, Least
<1>4. CASE n = 0
  <2>. DEFINE f == [i \in 0 .. 0 |-> << >>]
  <2>1. f = [i \in 0 .. n |-> OnlyStep(s, keys, f, i)]
    BY <1>4 DEF OnlyStep
  <2>. QED  BY <2>1
<1>5. CASE n # 0
  <2>1. n - 1 \in 0 .. Len(s) /\ n - 1 \notin B /\ n \in Nat \ {0}
    BY <1>3, <1>5, LenProperties
  <2>2. PICK g : g = [i \in 0 .. n - 1 |-> OnlyStep(s, keys, g, i)]
    BY <2>1
  <2>. DEFINE f == [i \in 0 .. n |-> IF i < n THEN g[i] ELSE OnlyStep(s, keys, g, n)]
  <2>3. \A i \in 0 .. n : f[i] = OnlyStep(s, keys, f, i)
    <3>1. ASSUME NEW i \in 0 .. n PROVE f[i] = OnlyStep(s, keys, f, i)
      <4>1. i # 0 => f[i - 1] = g[i - 1]
        BY <2>1
      <4>2. CASE i < n
        <5>1. i \in 0 .. n - 1 /\ f[i] = g[i]
          BY <4>2, <2>1
        <5>2. g[i] = OnlyStep(s, keys, g, i)
          BY <5>1, <2>2
        <5>. QED  BY <4>1, <5>1, <5>2 DEF OnlyStep
      <4>3. CASE i = n
        <5>1. f[i] = OnlyStep(s, keys, g, i)
          BY <4>3, <2>1
        <5>. QED  BY <4>1, <5>1 DEF OnlyStep
      <4>. QED  BY <4>2, <4>3, <2>1
    <3>. QED  BY <3>1
  <2>4. f = [i \in 0 .. n |-> OnlyStep(s, keys, f, i)]
    BY <2>3
  <2>. QED  BY <2>4
<1>. QED  BY <1>4, <1>5

\* Only keeps the elements that are in the set.
LEMMA OnlyElements ==
    ASSUME NEW T, NEW s \in Seq(T), NEW keys
    PROVE  /\ Lists!Only(s, keys) \in Seq(T) /\ ToSet(Lists!Only(s, keys)) = ToSet(s) \cap keys
           /\ IsInjective(s) => IsInjective(Lists!Only(s, keys))
<1>. DEFINE f == CHOOSE f : f = [i \in 0 .. Len(s) |-> OnlyStep(s, keys, f, i)]
<1>0. Len(s) \in Nat /\ DOMAIN s = 1 .. Len(s)
    OBVIOUS
<1>1. f = [i \in 0 .. Len(s) |-> OnlyStep(s, keys, f, i)]
    BY OnlyExists, <1>0
<1>2. Lists!Only(s, keys) = f[Len(s)]
    BY DEF Lists!Only, OnlyStep
<1>3. \A i \in 0 .. Len(s) : f[i] = OnlyStep(s, keys, f, i)
    BY <1>1
<1>. HIDE DEF f
<1>. DEFINE Seen(i) == {s[j] : j \in 1 .. i}
            P(i) == /\ f[i] \in Seq(T) /\ ToSet(f[i]) = Seen(i) \cap keys
                    /\ IsInjective(s) => IsInjective(f[i])
            B == {i \in 0 .. Len(s) : ~P(i)}
<1>. HIDE DEF P
<1>4. ASSUME B # {} PROVE FALSE
  <2>0. B \in SUBSET Nat
    BY <1>0
  <2>1. PICK n \in B : \A m \in B : n <= m
    BY <1>4, <2>0, Least
  <2>2. CASE n = 0
    <3>1. f[n] = << >>
      BY <1>3, <2>2, <1>0 DEF OnlyStep
    <3>2. P(n)
      BY <3>1, <2>2 DEF ToSet, IsInjective, P
    <3>. QED  BY <3>2
  <2>3. CASE n # 0
    <3>1. n - 1 \in 0 .. Len(s) /\ n \in 1 .. Len(s) /\ n - 1 \notin B
      BY <2>1, <2>3, <1>0
    <3>2. P(n - 1)
      BY <3>1
    <3>3. f[n] = IF s[n] \in keys THEN Append(f[n - 1], s[n]) ELSE f[n - 1]
      BY <1>3, <3>1, <2>3 DEF OnlyStep
    <3>4. Seen(n) = Seen(n - 1) \cup {s[n]}
      <4>1. 1 .. n = (1 .. n - 1) \cup {n}
        BY <3>1, <1>0
      <4>. QED  BY <4>1
    <3>5. s[n] \in T
      BY <3>1, <1>0
    <3>6. IsInjective(s) => s[n] \notin Seen(n - 1)
      BY <3>1, <1>0 DEF IsInjective
    <3>7. P(n)
      <4>1. CASE s[n] \in keys
        <5>1. f[n] = Append(f[n - 1], s[n])
          BY <3>3, <4>1
        <5>2. /\ ToSet(f[n]) = ToSet(f[n - 1]) \cup {s[n]}
              /\ IsInjective(f[n - 1]) /\ s[n] \notin ToSet(f[n - 1]) => IsInjective(f[n])
          BY <5>1, <3>2, <3>5, AppendElements DEF P
        <5>3. f[n] \in Seq(T)
          BY <5>1, <3>2, <3>5 DEF P
        <5>. QED  BY <5>2, <5>3, <3>2, <3>4, <3>6, <4>1 DEF P
      <4>2. CASE s[n] \notin keys
        BY <4>2, <3>2, <3>3, <3>4 DEF P
      <4>. QED  BY <4>1, <4>2
    <3>. QED  BY <3>7
  <2>. QED  BY <2>2, <2>3
<1>5. P(Len(s))
    BY <1>4, <1>0
<1>6. Seen(Len(s)) = ToSet(s)
    BY <1>0 DEF ToSet
<1>. QED  BY <1>2, <1>5, <1>6 DEF P

\* A finite set as a sequence: each element, once.
LEMMA Listing ==
    ASSUME NEW S, IsFiniteSet(S)
    PROVE  /\ SetToSeq(S) \in Seq(S)
           /\ ToSet(SetToSeq(S)) = S
           /\ IsInjective(SetToSeq(S))
           /\ Len(SetToSeq(S)) = Cardinality(S)
<1> DEFINE n == Cardinality(S)
<1>1. n \in Nat /\ ExistsBijection(1..n, S) BY FS_CardinalityType
<1>2. \E f \in [1..n -> S] : IsInjective(f)
    BY <1>1 DEF ExistsBijection, Bijection, Injection
<1>3. SetToSeq(S) \in [1..n -> S] /\ IsInjective(SetToSeq(S))
    BY <1>2 DEF SetToSeq
<1> DEFINE f == SetToSeq(S)
<1>4. f \in [1..n -> S] /\ f \in Injection(1..n, S) BY <1>3 DEF Injection
<1>5. IsFiniteSet(1..n) /\ Cardinality(1..n) = n BY <1>1, FS_Interval
<1> HIDE DEF f
<1>6. f \in Surjection(1..n, S) BY <1>4, <1>5, FS_Injection
<1>7. \A e \in S : \E i \in 1..n : f[i] = e BY <1>6 DEF Surjection
<1>8. ToSet(f) = S BY <1>4, <1>7 DEF ToSet
<1>9. f \in Seq(S) /\ Len(f) = n
    <2>1. f \in UNION {[1..m -> S] : m \in Nat} BY <1>1, <1>4
    <2>2. f \in Seq(S) BY <2>1, SeqDef
    <2>3. DOMAIN f = 1..Len(f) /\ DOMAIN f = 1..n /\ Len(f) \in Nat
        BY <1>4, <2>2, LenProperties
    <2>4. QED BY <2>2, <2>3, <1>1
<1>10. QED BY <1>3, <1>8, <1>9 DEF f

----------------------------------------------------------------------------
(* Prefixes.                                                               *)

\* A prefix is not longer, and agrees as far as it goes.
LEMMA PrefixIs ==
    ASSUME NEW S, NEW s \in Seq(S), NEW t \in Seq(S)
    PROVE  IsPrefix(s, t) <=> Len(s) <= Len(t) /\ \A i \in 1 .. Len(s) : s[i] = t[i]
<1>1. CASE Len(s) <= Len(t)
  <2>. DEFINE a == SubSeq(s, 1, Len(s))  b == SubSeq(t, 1, Len(s))
  <2>1. /\ a \in Seq(S) /\ Len(a) = Len(s) /\ \A i \in 1 .. Len(s) : a[i] = s[i]
        /\ b \in Seq(S) /\ Len(b) = Len(s) /\ \A i \in 1 .. Len(s) : b[i] = t[i]
    BY <1>1
  <2>. HIDE DEF a, b
  <2>2. a = b <=> \A i \in 1 .. Len(s) : a[i] = b[i]
    BY <2>1, SeqEqual
  <2>3. IsPrefix(s, t) <=> a = b
    BY <1>1 DEF IsPrefix, a, b
  <2>. QED  BY <1>1, <2>1, <2>2, <2>3
<1>2. CASE ~(Len(s) <= Len(t))
    BY <1>2 DEF IsPrefix
<1>. QED  BY <1>1, <1>2

\* Every sequence begins with itself and with nothing.
LEMMA PrefixRefl ==
    ASSUME NEW S, NEW s \in Seq(S)
    PROVE  IsPrefix(s, s) /\ IsPrefix(<< >>, s)
<1>1. << >> \in Seq(S) /\ Len(<< >>) = 0 /\ Len(s) \in Nat
    OBVIOUS
<1>2. IsPrefix(s, s)
    BY <1>1, PrefixIs
<1>3. PICK e \in Seq(S) : e = << >> /\ Len(e) = 0
    BY <1>1
<1>4. Len(e) <= Len(s) /\ \A i \in 1 .. Len(e) : e[i] = s[i]
    BY <1>1, <1>3
<1>5. IsPrefix(e, s)
  <2>1. e \in Seq(S) /\ s \in Seq(S)
    BY <1>3
  <2>. QED  BY <1>4, <2>1, PrefixIs
<1>. QED  BY <1>2, <1>3, <1>5

\* A prefix of a prefix is a prefix.
LEMMA PrefixTrans ==
    ASSUME NEW S, NEW s \in Seq(S), NEW t \in Seq(S), NEW u \in Seq(S),
           IsPrefix(s, t), IsPrefix(t, u)
    PROVE  IsPrefix(s, u)
<1>1. Len(s) <= Len(t) /\ \A i \in 1 .. Len(s) : s[i] = t[i]
    BY PrefixIs
<1>2. Len(t) <= Len(u) /\ \A i \in 1 .. Len(t) : t[i] = u[i]
    BY PrefixIs
<1>3. Len(s) \in Nat /\ Len(t) \in Nat /\ Len(u) \in Nat
    OBVIOUS
<1>4. Len(s) <= Len(u) /\ \A i \in 1 .. Len(s) : s[i] = u[i]
    BY <1>1, <1>2, <1>3
<1>. QED  BY <1>4, PrefixIs

\* Of two prefixes of one sequence the shorter is a prefix of the other.
LEMMA PrefixNested ==
    ASSUME NEW S, NEW s \in Seq(S), NEW t \in Seq(S), NEW u \in Seq(S),
           IsPrefix(s, u), IsPrefix(t, u), Len(s) <= Len(t)
    PROVE  IsPrefix(s, t)
<1>1. \A i \in 1 .. Len(s) : s[i] = u[i]
    BY PrefixIs
<1>2. \A i \in 1 .. Len(t) : t[i] = u[i]
    BY PrefixIs
<1>3. Len(s) \in Nat /\ Len(t) \in Nat
    OBVIOUS
<1>4. \A i \in 1 .. Len(s) : s[i] = t[i]
    BY <1>1, <1>2, <1>3
<1>. QED  BY <1>4, PrefixIs

\* A prefix that is no shorter is the sequence itself.
LEMMA PrefixSame ==
    ASSUME NEW S, NEW s \in Seq(S), NEW t \in Seq(S), IsPrefix(s, t), Len(t) <= Len(s)
    PROVE  s = t
<1>1. Len(s) <= Len(t) /\ \A i \in 1 .. Len(s) : s[i] = t[i]
    BY PrefixIs
<1>2. Len(s) = Len(t)
    BY <1>1
<1>. QED  BY <1>1, <1>2, SeqEqual

\* A prefix is no longer.
LEMMA PrefixLen ==
    ASSUME NEW S, NEW s \in Seq(S), NEW t \in Seq(S), IsPrefix(s, t)
    PROVE  Len(s) \in Nat /\ Len(t) \in Nat /\ Len(s) <= Len(t)
BY PrefixIs

\* The first tokens of a sequence.
LEMMA FrontIs ==
    ASSUME NEW S, NEW t \in Seq(S), NEW k \in 0 .. Len(t)
    PROVE  /\ SubSeq(t, 1, k) \in Seq(S) /\ Len(SubSeq(t, 1, k)) = k
           /\ IsPrefix(SubSeq(t, 1, k), t)
<1>. DEFINE f == SubSeq(t, 1, k)
<1>1. f \in Seq(S) /\ Len(f) = k /\ \A i \in 1 .. k : f[i] = t[i]
    OBVIOUS
<1>2. Len(f) <= Len(t) /\ \A i \in 1 .. Len(f) : f[i] = t[i]
    BY <1>1
<1>. HIDE DEF f
<1>3. IsPrefix(f, t)
    BY <1>1, <1>2, PrefixIs
<1>. QED  BY <1>1, <1>3 DEF f

\* The only empty sequence is the root.
LEMMA RootIs ==
    ASSUME NEW S, NEW s \in Seq(S)
    PROVE  Root \in Seq(S) /\ Len(Root) = 0 /\ (s = Root <=> Len(s) = 0) /\ IsPrefix(Root, s)
BY PrefixRefl, EmptySeq DEF Root

----------------------------------------------------------------------------
(* Paths: prefixes of whole pages.                                         *)

Text == Seq(Nat)

Aligned(p) == Len(p) % PageSize = 0

\* The paths of ids are the texts of whole pages ids begins with.
LEMMA PathsAre ==
    ASSUME NEW ids \in Text
    PROVE  PathsOf(ids) = {p \in Text : p # Root /\ Aligned(p) /\ IsPrefix(p, ids)}
<1>. DEFINE whole == Len(ids) \div PageSize
<1>1. Len(ids) \in Nat /\ whole \in Nat
    BY Division DEF Text
<1>2. ASSUME NEW k \in 1 .. whole
      PROVE  LET p == PathTo(ids, k)
             IN  p \in Text /\ p # Root /\ Aligned(p) /\ IsPrefix(p, ids)
  <2>. DEFINE p == PathTo(ids, k)
  <2>1. k \in 0 .. whole /\ k \in Nat \ {0}
    BY <1>1
  <2>2. k * PageSize \in 0 .. Len(ids)
    BY <1>1, <2>1, PagesFit
  <2>3. p \in Text /\ Len(p) = k * PageSize /\ IsPrefix(p, ids)
    BY <2>2, FrontIs DEF PathTo, Text
  <2>4. Aligned(p) /\ k * PageSize # 0
    <3>1. k * PageSize > 0
      BY <2>1, PageSizeAssumption, SMT
    <3>. QED  BY <2>1, <2>3, <3>1, WholePages DEF Aligned
  <2>. HIDE DEF p
  <2>5. p # Root
    BY <2>3, <2>4, RootIs DEF Text
  <2>. QED  BY <2>3, <2>4, <2>5 DEF p
<1>3. ASSUME NEW p \in Text, p # Root, Aligned(p), IsPrefix(p, ids)
      PROVE  \E k \in 1 .. whole : p = PathTo(ids, k)
  <2>. DEFINE k == Len(p) \div PageSize
  <2>1. Len(p) \in Nat /\ Len(p) <= Len(ids) /\ Len(p) # 0
    BY <1>3, PrefixLen, RootIs DEF Text
  <2>2. k \in Nat /\ Len(p) = k * PageSize
    <3>1. k \in Nat /\ Len(p) = k * PageSize + (Len(p) % PageSize)
      BY <2>1, Division
    <3>2. k * PageSize \in Nat /\ Len(p) % PageSize = 0
      BY <3>1, <1>3, WholePages DEF Aligned
    <3>. HIDE DEF k
    <3>. QED  BY <3>1, <3>2
  <2>3. k <= whole
    <3>. HIDE DEF k, whole
    <3>1. Len(ids) < whole * PageSize + PageSize /\ whole * PageSize \in Nat
      <4>1. /\ Len(ids) = whole * PageSize + (Len(ids) % PageSize)
            /\ Len(ids) % PageSize \in 0 .. PageSize - 1
        BY <1>1, Division DEF whole
      <4>2. whole * PageSize \in Nat
        BY <1>1, WholePages
      <4>. QED  BY <4>1, <4>2, PageSizeAssumption
    <3>2. ASSUME k > whole PROVE FALSE
      <4>1. (whole + 1) * PageSize <= k * PageSize
        BY <1>1, <2>2, <3>2, PageSizeAssumption, SMT
      <4>2. (whole + 1) * PageSize = whole * PageSize + PageSize
        BY <1>1, PageSizeAssumption, SMT
      <4>. QED  BY <1>1, <2>1, <2>2, <3>1, <4>1, <4>2, PageSizeAssumption
    <3>. QED  BY <1>1, <2>2, <3>2
  <2>4. k # 0
    <3>. HIDE DEF k
    <3>1. k = 0 => k * PageSize = 0
      BY PageSizeAssumption
    <3>. QED  BY <2>1, <2>2, <3>1
  <2>5. PathTo(ids, k) \in Text /\ Len(PathTo(ids, k)) = Len(p) /\ IsPrefix(PathTo(ids, k), ids)
    <3>. HIDE DEF k
    <3>1. Len(p) \in 0 .. Len(ids)
      BY <2>1, <1>1
    <3>. QED  BY <2>2, <3>1, FrontIs DEF PathTo, Text
  <2>6. p = PathTo(ids, k)
    <3>. HIDE DEF k
    <3>1. IsPrefix(p, PathTo(ids, k))
      BY <1>3, <2>1, <2>5, PrefixNested DEF Text
    <3>. QED  BY <2>1, <2>5, <3>1, PrefixSame DEF Text
  <2>7. k \in 1 .. whole
    BY <1>1, <2>2, <2>3, <2>4
  <2>. QED  BY <2>6, <2>7
<1>4. PathsOf(ids) = {PathTo(ids, k) : k \in 1 .. whole}
    BY DEF PathsOf
<1>. HIDE DEF whole
<1>. QED  BY <1>2, <1>3, <1>4

\* A longest sequence of a set, when their lengths are bounded.
LEMMA DeepestIs ==
    ASSUME NEW S, S # {}, NEW b \in Nat, \A m \in S : Len(m) \in Nat /\ Len(m) <= b
    PROVE  Deepest(S) \in S /\ \A m \in S : Len(m) <= Len(Deepest(S))
<1>. DEFINE rest == {b - Len(m) : m \in S}
<1>1. rest \in SUBSET Nat /\ rest # {}
    OBVIOUS
<1>2. PICK r \in rest : \A x \in rest : r <= x
    BY <1>1, Least
<1>3. PICK n \in S : r = b - Len(n)
    BY <1>2
<1>4. \A m \in S : b - Len(n) <= b - Len(m)
    BY <1>2, <1>3
<1>5. \A m \in S : Len(m) <= Len(n)
    BY <1>3, <1>4
<1>6. Deepest(S) = CHOOSE m \in S : \A x \in S : Len(x) <= Len(m)
    BY DEF Deepest
<1>. QED  BY <1>3, <1>5, <1>6

\* Where a walk along ids ends: at the last whole page of ids that some node runs
\* through.
LEMMA WalkIs ==
    ASSUME NEW ns, DOMAIN ns \subseteq Text, NEW ids \in Text
    PROVE  LET stop == WalkEnd(ns, ids)
           IN  /\ stop \in Text /\ Aligned(stop) /\ IsPrefix(stop, ids)
               /\ stop # Root => \E n \in DOMAIN ns : IsPrefix(stop, n)
               /\ \A q \in Text : Aligned(q) /\ IsPrefix(q, ids) /\ (\E n \in DOMAIN ns : IsPrefix(q, n))
                     => Len(q) <= Len(stop)
<1>. DEFINE W == {p \in PathsOf(ids) : \E n \in DOMAIN ns : IsPrefix(p, n)}
            stop == WalkEnd(ns, ids)
<1>1. stop = Deepest(W)
    BY DEF WalkEnd
<1>2. W = {p \in Text : p # Root /\ Aligned(p) /\ IsPrefix(p, ids) /\ \E n \in DOMAIN ns : IsPrefix(p, n)}
    BY PathsAre
<1>. HIDE DEF W, stop
<1>3. Root \in Text /\ Len(Root) = 0 /\ Aligned(Root) /\ IsPrefix(Root, ids) /\ Len(ids) \in Nat
  <2>1. 0 % PageSize = 0
    BY PageSizeAssumption
  <2>. QED  BY <2>1, RootIs DEF Text, Aligned
<1>4. CASE W = {}
  <2>1. stop = Root
    BY <1>1, <1>4 DEF Deepest
  <2>2. ASSUME NEW q \in Text, Aligned(q), IsPrefix(q, ids), \E n \in DOMAIN ns : IsPrefix(q, n)
        PROVE  Len(q) <= Len(stop)
    BY <1>2, <1>3, <1>4, <2>1, <2>2
  <2>. QED  BY <1>3, <2>1, <2>2 DEF stop
<1>5. CASE W # {}
  <2>1. \A m \in W : Len(m) \in Nat /\ Len(m) <= Len(ids)
    BY <1>2, PrefixLen DEF Text
  <2>2. stop \in W /\ \A m \in W : Len(m) <= Len(stop)
    BY <1>1, <1>3, <1>5, <2>1, DeepestIs
  <2>3. ASSUME NEW q \in Text, Aligned(q), IsPrefix(q, ids), \E n \in DOMAIN ns : IsPrefix(q, n)
        PROVE  Len(q) <= Len(stop)
    <3>1. CASE q = Root
      BY <1>3, <2>1, <2>2, <3>1
    <3>2. CASE q # Root
      <4>1. q \in W
        BY <1>2, <2>3, <3>2
      <4>. QED  BY <2>2, <4>1
    <3>. QED  BY <3>1, <3>2
  <2>. QED  BY <1>2, <2>2, <2>3 DEF stop
<1>. QED  BY <1>4, <1>5

----------------------------------------------------------------------------
(* The tree.                                                               *)

Node == [parent : Text, value : Seq(Nat), ref : Nat, time : Nat, rec : Text]

\* Node n holds the page at the end of path p.
Over(ns, n, p) == IsPrefix(p, n) /\ Len(ns[n].parent) < Len(p)

\* Node n hangs from the nearest node above it.
Hangs(ns, n) ==
    /\ ns[n].parent \in DOMAIN ns \cup {Root}
    /\ IsPrefix(ns[n].parent, n) /\ Len(ns[n].parent) < Len(n)
    /\ \A m \in DOMAIN ns : IsPrefix(m, n) /\ m # n => Len(m) <= Len(ns[n].parent)

\* No two nodes hold a page for one path.
OneOver(ns) ==
    \A m, n \in DOMAIN ns : \A p \in Text :
        Aligned(p) /\ Over(ns, m, p) /\ Over(ns, n, p) => m = n

Tree(ns) ==
    /\ IsFiniteSet(DOMAIN ns) /\ DOMAIN ns \subseteq Text
    /\ ns \in [DOMAIN ns -> Node]
    /\ \A n \in DOMAIN ns :
          /\ n # Root /\ Aligned(n) /\ Hangs(ns, n)
          /\ Len(ns[n].value) * PageSize = LengthOf(ns, n)
    /\ OneOver(ns)

\* What is known of one node.
LEMMA NodeIs ==
    ASSUME NEW ns, Tree(ns), NEW n \in DOMAIN ns
    PROVE  /\ n \in Text /\ n # Root /\ Aligned(n) /\ Len(n) \in Nat \ {0} /\ IsPrefix(n, n)
           /\ ns[n] \in Node /\ ns[n].parent \in Text /\ Aligned(ns[n].parent)
           /\ ns[n].parent \in DOMAIN ns \cup {Root}
           /\ Len(ns[n].parent) \in Nat /\ Len(ns[n].parent) < Len(n)
           /\ IsPrefix(ns[n].parent, n) /\ ns[n].parent # n
           /\ Len(ns[n].value) * PageSize = LengthOf(ns, n)
<1>1. n \in Text /\ n # Root /\ Aligned(n) /\ ns[n] \in Node /\ Hangs(ns, n)
      /\ Len(ns[n].value) * PageSize = LengthOf(ns, n)
    BY DEF Tree
<1>2. Len(n) \in Nat \ {0} /\ IsPrefix(n, n)
    BY <1>1, RootIs, PrefixRefl DEF Text
<1>3. ns[n].parent \in Text /\ Len(ns[n].parent) \in Nat /\ ns[n].parent \in DOMAIN ns \cup {Root}
    BY <1>1 DEF Node, Text, Hangs
<1>4. Aligned(ns[n].parent)
  <2>1. CASE ns[n].parent \in DOMAIN ns
    BY <2>1 DEF Tree
  <2>2. CASE ns[n].parent = Root
    <3>1. 0 % PageSize = 0 /\ Len(Root) = 0
      BY PageSizeAssumption DEF Root
    <3>. QED  BY <2>2, <3>1 DEF Aligned
  <2>. QED  BY <1>3, <2>1, <2>2
<1>. QED  BY <1>1, <1>2, <1>3, <1>4 DEF Hangs

\* A path that runs through some node is held by one, at or above that node.
LEMMA OverExists ==
    ASSUME NEW ns, Tree(ns), NEW p \in Text, p # Root, NEW m \in DOMAIN ns, IsPrefix(p, m)
    PROVE  \E n \in DOMAIN ns : Over(ns, n, p) /\ IsPrefix(n, m)
<1>. DEFINE Lens == {Len(n) : n \in {x \in DOMAIN ns : IsPrefix(p, x) /\ IsPrefix(x, m)}}
<1>0. m \in Text /\ IsPrefix(m, m)
    BY NodeIs
<1>1. Lens \in SUBSET Nat /\ Lens # {}
    BY <1>0, NodeIs
<1>2. PICK l \in Lens : \A x \in Lens : l <= x
    BY <1>1, Least
<1>3. PICK n \in DOMAIN ns : IsPrefix(p, n) /\ IsPrefix(n, m) /\ l = Len(n)
    BY <1>2
<1>4. \A x \in DOMAIN ns : IsPrefix(p, x) /\ IsPrefix(x, m) => Len(n) <= Len(x)
    BY <1>2, <1>3
<1>. HIDE DEF Lens
<1>5. ASSUME ~(Len(ns[n].parent) < Len(p)) PROVE FALSE
  <2>. DEFINE q == ns[n].parent
  <2>1. /\ n \in Text /\ q \in Text /\ q \in DOMAIN ns \cup {Root} /\ Len(q) \in Nat /\ Len(q) < Len(n)
        /\ IsPrefix(q, n) /\ Len(n) \in Nat
    BY NodeIs
  <2>2. Len(p) \in Nat \ {0} /\ Len(Root) = 0
    BY RootIs DEF Text
  <2>3. ~(Len(q) < Len(p))
    BY <1>5
  <2>. HIDE DEF q
  <2>4. Len(p) <= Len(q) /\ q # Root
    BY <2>1, <2>2, <2>3
  <2>5. IsPrefix(p, q)
    BY <1>3, <2>1, <2>4, PrefixNested DEF Text
  <2>6. IsPrefix(q, m)
    BY <1>0, <1>3, <2>1, PrefixTrans DEF Text
  <2>7. Len(n) <= Len(q)
    BY <1>4, <2>1, <2>4, <2>5, <2>6
  <2>. QED  BY <2>1, <2>7
<1>. QED  BY <1>3, <1>5 DEF Over

\* The node that a split cuts: it holds the page at the end of p, and is longer.
Cut(ns, p) ==
    CHOOSE n \in DOMAIN ns : IsStrictPrefix(p, n) /\ Len(ns[n].parent) < Len(p)

CanCut(ns, p) ==
    /\ p \in Text /\ p # Root /\ Aligned(p) /\ p \notin DOMAIN ns
    /\ \E n \in DOMAIN ns : IsPrefix(p, n)

\* Where a split cuts: the one node that holds the page at the end of p, which
\* is deeper than p and hangs above it.
LEMMA CutIs ==
    ASSUME NEW ns, Tree(ns), NEW p, CanCut(ns, p)
    PROVE  LET deep == Cut(ns, p)
           IN  /\ deep \in DOMAIN ns /\ Over(ns, deep, p) /\ deep # p
               /\ Len(p) \in Nat \ {0} /\ Len(p) < Len(deep)
               /\ IsPrefix(ns[deep].parent, p) /\ IsPrefix(p, p)
<1>1. p \in Text /\ p # Root /\ Aligned(p) /\ p \notin DOMAIN ns
    BY DEF CanCut
<1>2. PICK n \in DOMAIN ns : Over(ns, n, p)
    BY <1>1, OverExists DEF CanCut
<1>3. IsStrictPrefix(p, n)
    BY <1>1, <1>2 DEF Over, IsStrictPrefix
<1>. DEFINE deep == Cut(ns, p)
<1>4. deep \in DOMAIN ns /\ IsStrictPrefix(p, deep) /\ Len(ns[deep].parent) < Len(p)
    BY <1>2, <1>3 DEF Over, Cut
<1>. HIDE DEF deep
<1>5. IsPrefix(p, deep) /\ deep # p
    BY <1>4 DEF IsStrictPrefix
<1>6. /\ deep \in Text /\ ns[deep].parent \in Text /\ IsPrefix(ns[deep].parent, deep)
      /\ Len(ns[deep].parent) \in Nat
    BY <1>4, NodeIs
<1>7. Len(p) \in Nat \ {0} /\ Len(p) <= Len(deep) /\ Len(deep) \in Nat
    BY <1>1, <1>5, <1>6, PrefixLen, RootIs DEF Text
<1>8. Len(p) # Len(deep)
  <2>1. Len(deep) <= Len(p) => p = deep
    BY <1>1, <1>5, <1>6, PrefixSame DEF Text
  <2>. QED  BY <1>5, <1>7, <2>1
<1>9. IsPrefix(ns[deep].parent, p)
    BY <1>1, <1>4, <1>5, <1>6, <1>7, PrefixNested DEF Text
<1>10. IsPrefix(p, p)
    BY <1>1, PrefixRefl DEF Text
<1>. QED  BY <1>4, <1>5, <1>7, <1>8, <1>9, <1>10 DEF Over, deep

\* The difference of whole pages is whole pages.
LEMMA PagesApart ==
    ASSUME NEW a \in Nat, NEW b \in Nat, b <= a, a % PageSize = 0, b % PageSize = 0
    PROVE  (a - b) \div PageSize \in Nat /\ ((a - b) \div PageSize) * PageSize = a - b
           /\ (a - b) % PageSize = 0
<1>. DEFINE i == a \div PageSize  j == b \div PageSize
<1>1. i \in Nat /\ a = i * PageSize + (a % PageSize) /\ i * PageSize \in Nat
    BY Division, WholePages
<1>2. j \in Nat /\ b = j * PageSize + (b % PageSize) /\ j * PageSize \in Nat
    BY Division, WholePages
<1>. HIDE DEF i, j
<1>3. a = i * PageSize /\ b = j * PageSize
    BY <1>1, <1>2
<1>4. ASSUME i < j PROVE FALSE
  <2>1. (i + 1) * PageSize <= j * PageSize
    BY <1>1, <1>2, <1>4, PageSizeAssumption, SMT
  <2>2. (i + 1) * PageSize = i * PageSize + PageSize
    BY <1>1, PageSizeAssumption, SMT
  <2>. QED  BY <1>1, <1>2, <1>3, <2>1, <2>2, PageSizeAssumption
<1>5. i - j \in Nat
    BY <1>1, <1>2, <1>4
<1>6. (i - j) * PageSize = i * PageSize - j * PageSize
    BY <1>1, <1>2, PageSizeAssumption, SMT
<1>7. a - b = (i - j) * PageSize
    BY <1>3, <1>6
<1>. QED  BY <1>5, <1>7, WholePages

\* As many pages, as many tokens.
LEMMA SamePages ==
    ASSUME NEW i \in Nat, NEW j \in Nat, i * PageSize <= j * PageSize
    PROVE  i <= j
<1>1. ASSUME j < i PROVE FALSE
  <2>1. (j + 1) * PageSize <= i * PageSize
    BY <1>1, PageSizeAssumption, SMT
  <2>2. (j + 1) * PageSize = j * PageSize + PageSize /\ j * PageSize \in Nat
    BY PageSizeAssumption, SMT
  <2>. QED  BY <2>1, <2>2, PageSizeAssumption
<1>. QED  BY <1>1

\* Which page of node n is that of path p.
Nth(ns, n, p) == (Len(p) - Len(ns[n].parent)) \div PageSize

\* The nodes after a split: p has come in above deep.
Halves(ns, p, deep, cut) ==
    /\ DOMAIN cut = DOMAIN ns \cup {p} /\ cut \in [DOMAIN ns \cup {p} -> Node]
    /\ \A n \in DOMAIN ns : n # deep => cut[n] = ns[n]
    /\ cut[p].parent = ns[deep].parent /\ cut[p].rec = NoState
    /\ cut[p].ref = ns[deep].ref /\ cut[p].time = ns[deep].time
    /\ cut[deep].parent = p /\ cut[deep].rec = ns[deep].rec
    /\ cut[deep].ref = ns[deep].ref /\ cut[deep].time = ns[deep].time
    /\ Len(cut[p].value) * PageSize = Len(p) - Len(ns[deep].parent)
    /\ Len(cut[deep].value) * PageSize = Len(deep) - Len(p)
    /\ cut[p].value = SubSeq(ns[deep].value, 1, Nth(ns, deep, p))
    /\ cut[deep].value = SubSeq(ns[deep].value, Nth(ns, deep, p) + 1, Len(ns[deep].value))

\* split_at gives the node above the cut the first half of the deep one's
\* pages, its references and its time, and the deep one the rest.
LEMMA SplitIs ==
    ASSUME NEW ns, Tree(ns), NEW p, CanCut(ns, p)
    PROVE  Halves(ns, p, Cut(ns, p), SplitAt(ns, p))
<1>. DEFINE deep == Cut(ns, p)  cut == SplitAt(ns, p)  q == ns[deep].parent
            k == (Len(p) - Len(q)) \div PageSize  v == ns[deep].value
<1>1. cut = [n \in DOMAIN ns \cup {p} |->
            IF n = p THEN ShallowHalf(ns[deep], k)
            ELSE IF n = deep THEN DeepHalf(ns[deep], k, p) ELSE ns[n]]
    BY DEF SplitAt, Cut
<1>2. /\ deep \in DOMAIN ns /\ deep # p /\ Len(q) < Len(p) /\ Len(p) < Len(deep) /\ Len(p) \in Nat
      /\ p \in Text /\ Aligned(p) /\ p \notin DOMAIN ns
    BY CutIs DEF CanCut, Over
<1>3. /\ ns[deep] \in Node /\ Len(q) \in Nat /\ Aligned(q) /\ Aligned(deep) /\ Len(deep) \in Nat
      /\ Len(v) * PageSize = Len(deep) - Len(q)
    BY <1>2, NodeIs DEF LengthOf
<1>. HIDE DEF deep, cut, q, k
<1>4. k \in Nat /\ k * PageSize = Len(p) - Len(q)
    BY <1>2, <1>3, PagesApart DEF Aligned, k
<1>5. v \in Seq(Nat) /\ Len(v) \in Nat
    BY <1>3 DEF Node
<1>. HIDE DEF v
<1>6. k <= Len(v) /\ (Len(v) - k) * PageSize = Len(deep) - Len(p)
  <2>1. k <= Len(v)
    BY <1>2, <1>3, <1>4, <1>5, SamePages
  <2>2. (Len(v) - k) * PageSize = Len(v) * PageSize - k * PageSize
    BY <1>4, <1>5, PageSizeAssumption, SMT
  <2>. QED  BY <1>2, <1>3, <1>4, <2>1, <2>2
<1>7. /\ SubSeq(v, 1, k) \in Seq(Nat) /\ Len(SubSeq(v, 1, k)) = k
      /\ SubSeq(v, k + 1, Len(v)) \in Seq(Nat) /\ Len(SubSeq(v, k + 1, Len(v))) = Len(v) - k
    BY <1>4, <1>5, <1>6
<1>. DEFINE a == ShallowHalf(ns[deep], k)  b == DeepHalf(ns[deep], k, p)
<1>8. /\ a = [ns[deep] EXCEPT !.value = SubSeq(v, 1, k), !.rec = NoState]
      /\ b = [ns[deep] EXCEPT !.value = SubSeq(v, k + 1, Len(v)), !.parent = p]
    BY <1>3 DEF ShallowHalf, DeepHalf, v, Node
<1>9. NoState \in Text
    BY RootIs DEF NoState, Text, Root
<1>10. /\ a \in Node /\ a.parent = q /\ a.rec = NoState /\ a.value = SubSeq(v, 1, k)
       /\ a.ref = ns[deep].ref /\ a.time = ns[deep].time
    BY <1>3, <1>7, <1>8, <1>9 DEF Node, q
<1>11. /\ b \in Node /\ b.parent = p /\ b.rec = ns[deep].rec /\ b.value = SubSeq(v, k + 1, Len(v))
       /\ b.ref = ns[deep].ref /\ b.time = ns[deep].time
    BY <1>2, <1>3, <1>7, <1>8 DEF Node
<1>. HIDE DEF a, b
<1>12. cut = [n \in DOMAIN ns \cup {p} |-> IF n = p THEN a ELSE IF n = deep THEN b ELSE ns[n]]
    BY <1>1 DEF a, b
<1>13. /\ DOMAIN cut = DOMAIN ns \cup {p} /\ cut[p] = a /\ cut[deep] = b
       /\ \A n \in DOMAIN ns : n # deep => cut[n] = ns[n]
    BY <1>2, <1>12
<1>14. cut \in [DOMAIN ns \cup {p} -> Node]
  <2>1. \A n \in DOMAIN ns : ns[n] \in Node
    BY NodeIs
  <2>. QED  BY <1>10, <1>11, <1>12, <2>1
<1>15. k = Nth(ns, deep, p)
    BY DEF k, q, Nth
<1>. QED  BY <1>4, <1>6, <1>7, <1>10, <1>11, <1>13, <1>14, <1>15 DEF Halves, deep, cut, q, v

\* A split keeps the tree.
LEMMA SplitTree ==
    ASSUME NEW ns, Tree(ns), NEW p, CanCut(ns, p)
    PROVE  Tree(SplitAt(ns, p))
<1>. DEFINE deep == Cut(ns, p)  cut == SplitAt(ns, p)  q == ns[deep].parent
<1>1. /\ p \in Text /\ p # Root /\ Aligned(p) /\ p \notin DOMAIN ns
      /\ deep \in DOMAIN ns /\ Over(ns, deep, p) /\ deep # p /\ Len(p) \in Nat \ {0}
      /\ Len(p) < Len(deep) /\ IsPrefix(q, p) /\ IsPrefix(p, p)
    BY CutIs DEF CanCut
<1>0. Halves(ns, p, deep, cut)
    BY SplitIs
<1>. HIDE DEF deep, cut
<1>2. /\ DOMAIN cut = DOMAIN ns \cup {p} /\ cut \in [DOMAIN ns \cup {p} -> Node]
      /\ \A n \in DOMAIN ns : n # deep => cut[n] = ns[n]
      /\ cut[p].parent = q /\ cut[deep].parent = p
      /\ Len(cut[p].value) * PageSize = Len(p) - Len(q)
      /\ Len(cut[deep].value) * PageSize = Len(deep) - Len(p)
    BY <1>0 DEF Halves
<1>3. IsPrefix(p, deep) /\ Len(q) < Len(p)
    BY <1>1 DEF Over
<1>4. q \in Text /\ q \in DOMAIN ns \cup {Root} /\ Len(q) \in Nat /\ deep \in Text /\ Len(deep) \in Nat
    BY <1>1, NodeIs
<1>5. IsFiniteSet(DOMAIN cut) /\ DOMAIN cut \subseteq Text
    BY <1>1, <1>2, FS_AddElement DEF Tree
<1>6. ASSUME NEW n \in DOMAIN cut
      PROVE  /\ n # Root /\ Aligned(n) /\ Hangs(cut, n)
             /\ Len(cut[n].value) * PageSize = LengthOf(cut, n)
  <2>1. CASE n = p
    <3>1. ASSUME NEW m \in DOMAIN cut, IsPrefix(m, p), m # p PROVE Len(m) <= Len(q)
      <4>1. m \in DOMAIN ns /\ m \in Text /\ Len(m) \in Nat
        BY <1>2, <3>1, NodeIs
      <4>2. IsPrefix(m, deep) /\ Len(m) <= Len(p)
        BY <1>1, <1>3, <1>4, <3>1, <4>1, PrefixTrans, PrefixLen DEF Text
      <4>3. m # deep
        BY <1>1, <1>4, <4>1, <4>2
      <4>. QED  BY <1>1, <4>1, <4>2, <4>3 DEF Tree, Hangs
    <3>2. Hangs(cut, p)
      BY <1>1, <1>2, <1>3, <1>4, <3>1 DEF Hangs
    <3>. QED  BY <1>1, <1>2, <2>1, <3>2 DEF LengthOf
  <2>2. CASE n = deep
    <3>1. ASSUME NEW m \in DOMAIN cut, IsPrefix(m, deep), m # deep PROVE Len(m) <= Len(p)
      <4>1. CASE m = p
        BY <1>1, <4>1
      <4>2. CASE m \in DOMAIN ns
        <5>1. Len(m) <= Len(q) /\ Len(m) \in Nat
          BY <1>1, <3>1, <4>2, NodeIs DEF Tree, Hangs
        <5>. QED  BY <1>1, <1>3, <1>4, <5>1
      <4>. QED  BY <1>2, <4>1, <4>2
    <3>2. Hangs(cut, deep)
      BY <1>1, <1>2, <1>3, <3>1 DEF Hangs
    <3>3. deep # Root /\ Aligned(deep)
      BY <1>1, NodeIs
    <3>. QED  BY <1>2, <2>2, <3>2, <3>3 DEF LengthOf
  <2>3. CASE n # p /\ n # deep
    <3>1. n \in DOMAIN ns /\ cut[n] = ns[n]
      BY <1>2, <2>3
    <3>. DEFINE r == ns[n].parent
    <3>2. /\ n # Root /\ Aligned(n) /\ n \in Text /\ r \in DOMAIN ns \cup {Root} /\ r \in Text
          /\ IsPrefix(r, n) /\ Len(r) < Len(n) /\ Len(r) \in Nat
          /\ Len(ns[n].value) * PageSize = LengthOf(ns, n)
      BY <3>1, NodeIs
    <3>3. ASSUME NEW m \in DOMAIN cut, IsPrefix(m, n), m # n PROVE Len(m) <= Len(r)
      <4>1. CASE m \in DOMAIN ns
        BY <3>1, <3>3, <4>1 DEF Tree, Hangs
      <4>2. CASE m = p
        <5>1. Len(r) < Len(p) => n = deep
          BY <1>1, <3>1, <3>3, <4>2 DEF Over, Tree, OneOver
        <5>. QED  BY <1>1, <2>3, <3>2, <4>2, <5>1
      <4>. QED  BY <1>2, <4>1, <4>2
    <3>4. Hangs(cut, n)
      BY <1>2, <3>1, <3>2, <3>3 DEF Hangs
    <3>. QED  BY <3>1, <3>2, <3>4 DEF LengthOf
  <2>. QED  BY <2>1, <2>2, <2>3
<1>7. OneOver(cut)
  <2>. DEFINE Old(n) == IF n = p THEN deep ELSE n
  <2>1. ASSUME NEW n \in DOMAIN cut, NEW s \in Text, Over(cut, n, s)
        PROVE  Old(n) \in DOMAIN ns /\ Over(ns, Old(n), s)
    <3>0. Len(s) \in Nat
      BY DEF Text
    <3>1. CASE n = p
      <4>1. IsPrefix(s, p) /\ Len(q) < Len(s)
        BY <1>2, <2>1, <3>1 DEF Over
      <4>2. IsPrefix(s, deep)
        BY <1>1, <1>3, <1>4, <4>1, PrefixTrans DEF Text
      <4>. QED  BY <1>1, <3>1, <4>1, <4>2 DEF Over
    <3>2. CASE n = deep
      <4>1. IsPrefix(s, deep) /\ Len(p) < Len(s)
        BY <1>2, <2>1, <3>2 DEF Over
      <4>2. Len(q) < Len(s)
        BY <1>1, <1>3, <1>4, <3>0, <4>1
      <4>. QED  BY <1>1, <3>2, <4>1, <4>2 DEF Over
    <3>3. CASE n # p /\ n # deep
      BY <1>2, <2>1, <3>3 DEF Over
    <3>. QED  BY <3>1, <3>2, <3>3
  <2>2. ASSUME NEW s \in Text PROVE ~(Over(cut, p, s) /\ Over(cut, deep, s))
    <3>1. SUFFICES ASSUME IsPrefix(s, p), Len(p) < Len(s) PROVE FALSE
      BY <1>2 DEF Over
    <3>. QED  BY <1>1, <3>1, PrefixLen DEF Text
  <2>3. ASSUME NEW m \in DOMAIN cut, NEW n \in DOMAIN cut, NEW s \in Text, Aligned(s),
               Over(cut, m, s), Over(cut, n, s)
        PROVE  m = n
    <3>1. Old(m) = Old(n)
      <4>. HIDE DEF Old
      <4>. QED  BY <2>1, <2>3 DEF Tree, OneOver
    <3>2. m = n \/ {m, n} = {p, deep}
      BY <3>1
    <3>. QED  BY <2>2, <2>3, <3>2
  <2>. QED  BY <2>3 DEF OneOver
<1>8. cut \in [DOMAIN cut -> Node]
    BY <1>2
<1>9. Tree(cut)
    BY <1>5, <1>6, <1>7, <1>8 DEF Tree
<1>. QED  BY <1>9 DEF cut

----------------------------------------------------------------------------
(* Sizes.                                                                  *)

\* The lengths of the nodes of S are numbers.
Measured(ns, S) ==
    /\ IsFiniteSet(S)
    /\ \A n \in S : Len(n) \in Nat /\ Len(ns[n].parent) \in Nat /\ Len(ns[n].parent) <= Len(n)

\* The nodes of a tree are measured.
LEMMA TreeMeasured ==
    ASSUME NEW ns, Tree(ns), NEW S \in SUBSET DOMAIN ns
    PROVE  Measured(ns, S)
<1>1. IsFiniteSet(S)
    BY FS_Subset DEF Tree
<1>2. \A n \in S : Len(n) \in Nat /\ Len(ns[n].parent) \in Nat /\ Len(ns[n].parent) <= Len(n)
    BY NodeIs
<1>. QED  BY <1>1, <1>2 DEF Measured

\* The tokens of one node are as many as its length says.
LEMMA TokensAre ==
    ASSUME NEW ns, NEW n, Len(n) \in Nat, Len(ns[n].parent) \in Nat, Len(ns[n].parent) <= Len(n)
    PROVE  /\ IsFiniteSet(TokensOf(ns, n)) /\ Cardinality(TokensOf(ns, n)) = LengthOf(ns, n)
           /\ LengthOf(ns, n) \in Nat
<1>. DEFINE a == Len(ns[n].parent)  b == Len(n)
<1>1. IsFiniteSet({n}) /\ Cardinality({n}) = 1
    BY FS_Singleton
<1>2. a \in Nat /\ b \in Nat /\ a <= b
    OBVIOUS
<1>. HIDE DEF a, b
<1>3. IsFiniteSet(a + 1 .. b) /\ Cardinality(a + 1 .. b) = b - a
  <2>0. a + 1 \in Int /\ b \in Int
    BY <1>2
  <2>. DEFINE a1 == a + 1
  <2>2. a1 \in Int /\ a1 - 1 <= b /\ b - a1 + 1 = b - a
    BY <1>2
  <2>. HIDE DEF a1
  <2>1. Cardinality(a1 .. b) = (IF a1 > b THEN 0 ELSE b - a1 + 1) /\ IsFiniteSet(a1 .. b)
    BY <2>0, <2>2, FS_Interval
  <2>3. Cardinality(a1 .. b) = b - a
    BY <1>2, <2>1, <2>2
  <2>. QED  BY <2>1, <2>3 DEF a1
<1>. DEFINE A == {n}  B == a + 1 .. b
<1>4. IsFiniteSet(A) /\ Cardinality(A) = 1 /\ IsFiniteSet(B) /\ Cardinality(B) = b - a
    BY <1>1, <1>3
<1>5. TokensOf(ns, n) = A \X B /\ LengthOf(ns, n) = b - a
    BY DEF TokensOf, LengthOf, a, b
<1>. HIDE DEF A, B
<1>6. IsFiniteSet(A \X B) /\ Cardinality(A \X B) = Cardinality(A) * Cardinality(B)
    BY <1>4, FS_Product
<1>7. Cardinality(A \X B) = b - a /\ b - a \in Nat
    BY <1>2, <1>4, <1>6
<1>. QED  BY <1>5, <1>6, <1>7

\* Tokens of different nodes are different.
LEMMA TotalFinite ==
    ASSUME NEW ns, NEW S, Measured(ns, S)
    PROVE  /\ IsFiniteSet(UNION {TokensOf(ns, n) : n \in S}) /\ TotalLength(ns, S) \in Nat
<1>. DEFINE T == {TokensOf(ns, n) : n \in S}
<1>1. IsFiniteSet(T)
  <2>. DEFINE f == [n \in S |-> TokensOf(ns, n)]
  <2>1. f \in Surjection(S, T)
    BY DEF Surjection
  <2>2. IsFiniteSet(S)
    BY DEF Measured
  <2>. HIDE DEF f, T
  <2>. QED  BY <2>1, <2>2, FS_Surjection
<1>2. \A t \in T : IsFiniteSet(t)
    BY TokensAre DEF Measured
<1>3. IsFiniteSet(UNION T)
    BY <1>1, <1>2, FS_UNION
<1>. QED  BY <1>3, FS_CardinalityType DEF TotalLength

\* The tokens of two groups of nodes that share none add up.
LEMMA TotalJoin ==
    ASSUME NEW ns, NEW S, NEW T, Measured(ns, S), Measured(ns, T), S \cap T = {}
    PROVE  TotalLength(ns, S \cup T) = TotalLength(ns, S) + TotalLength(ns, T)
<1>. DEFINE A == UNION {TokensOf(ns, n) : n \in S}  B == UNION {TokensOf(ns, n) : n \in T}
<1>1. IsFiniteSet(A) /\ IsFiniteSet(B)
    BY TotalFinite
<1>2. A \cap B = {}
  <2>1. \A x \in A : \E n \in S : x[1] = n
    BY DEF TokensOf
  <2>2. \A x \in B : \E n \in T : x[1] = n
    BY DEF TokensOf
  <2>. HIDE DEF A, B
  <2>. QED  BY <2>1, <2>2
<1>3. UNION {TokensOf(ns, n) : n \in S \cup T} = A \cup B
    OBVIOUS
<1>4. Cardinality(A) \in Nat /\ Cardinality(B) \in Nat
    BY <1>1, FS_CardinalityType
<1>. HIDE DEF A, B
<1>5. Cardinality(A \cup B) = Cardinality(A) + Cardinality(B) - Cardinality({})
    BY <1>1, <1>2, FS_Union
<1>6. Cardinality(A \cup B) = Cardinality(A) + Cardinality(B)
    BY <1>4, <1>5, FS_EmptySet
<1>. QED  BY <1>3, <1>6 DEF TotalLength, A, B

\* The tokens of one node.
LEMMA TotalOne ==
    ASSUME NEW ns, NEW n, Len(n) \in Nat, Len(ns[n].parent) \in Nat, Len(ns[n].parent) <= Len(n)
    PROVE  TotalLength(ns, {n}) = LengthOf(ns, n) /\ Measured(ns, {n})
<1>1. UNION {TokensOf(ns, m) : m \in {n}} = TokensOf(ns, n)
    OBVIOUS
<1>2. Measured(ns, {n})
    BY FS_Singleton DEF Measured
<1>. QED  BY <1>1, <1>2, TokensAre DEF TotalLength

\* The size of nodes that hang from where they did is what it was.
LEMMA TotalSame ==
    ASSUME NEW ns, NEW nt, NEW S, \A n \in S : ns[n].parent = nt[n].parent
    PROVE  TotalLength(ns, S) = TotalLength(nt, S) /\ (Measured(ns, S) => Measured(nt, S))
<1>1. \A n \in S : TokensOf(ns, n) = TokensOf(nt, n)
    BY DEF TokensOf
<1>2. {TokensOf(ns, n) : n \in S} = {TokensOf(nt, n) : n \in S}
    BY <1>1
<1>. QED  BY <1>2 DEF TotalLength, Measured

\* No nodes hold no tokens.
LEMMA TotalNone ==
    ASSUME NEW ns
    PROVE  TotalLength(ns, {}) = 0 /\ Measured(ns, {})
<1>1. UNION {TokensOf(ns, n) : n \in {}} = {}
    OBVIOUS
<1>. QED  BY <1>1, FS_EmptySet DEF TotalLength, Measured

\* Nodes that are taken out take their length with them.
LEMMA TotalLess ==
    ASSUME NEW ns, NEW S, NEW T \in SUBSET S, Measured(ns, S)
    PROVE  /\ TotalLength(ns, S \ T) = TotalLength(ns, S) - TotalLength(ns, T)
           /\ Measured(ns, S \ T) /\ Measured(ns, T)
<1>1. Measured(ns, S \ T) /\ Measured(ns, T)
    BY FS_Subset DEF Measured
<1>2. S = (S \ T) \cup T /\ (S \ T) \cap T = {}
    OBVIOUS
<1>3. TotalLength(ns, S) = TotalLength(ns, S \ T) + TotalLength(ns, T)
    BY <1>1, <1>2, TotalJoin
<1>4. TotalLength(ns, S \ T) \in Nat /\ TotalLength(ns, T) \in Nat
    BY <1>1, TotalFinite
<1>. QED  BY <1>1, <1>3, <1>4

----------------------------------------------------------------------------
(* A cache, and the handles through it.                                    *)

NoPath == <<-1>>

FreeNodes(ns) == {n \in DOMAIN ns : ns[n].ref = 0}

\* The users whose handle goes through n.
Through(hs, n) == {u \in Users : IsPrefix(n, hs[u])}

\* A node is referenced once for each handle through it.
Counts(ns, hs) ==
    /\ hs \in [Users -> DOMAIN ns \cup {Root, NoPath}]
    /\ IsFiniteSet({u \in Users : hs[u] # NoPath})
    /\ \A n \in DOMAIN ns : ns[n].ref = Cardinality(Through(hs, n))

\* evictable_size and protected_size.
Sized(c) ==
    /\ c.evictable = TotalLength(c.nodes, FreeNodes(c.nodes))
    /\ c.protected = TotalLength(c.nodes, DOMAIN c.nodes \ FreeNodes(c.nodes))

\* Every unreferenced leaf is in the heap with the time it was last used.
Heaped(c) ==
    /\ c.heap \subseteq Nat \X Text
    /\ \A n \in FreeNodes(c.nodes) : IsLeaf(c.nodes, n) => <<c.nodes[n].time, n>> \in c.heap

Good(c, hs) ==
    /\ c = [nodes |-> c.nodes, evictable |-> c.evictable, protected |-> c.protected, heap |-> c.heap]
    /\ Tree(c.nodes) /\ Counts(c.nodes, hs) /\ Sized(c) /\ Heaped(c)

\* The step from ns to nt leaves the nodes of ns in the tree, and their
\* snapshots with them.
Grows(ns, nt) ==
    /\ DOMAIN ns \subseteq DOMAIN nt
    /\ \A n \in DOMAIN nt : nt[n].rec = IF n \in DOMAIN ns THEN ns[n].rec ELSE NoState

\* The handle of nobody goes through no node.
LEMMA NoneThrough ==
    ASSUME NEW n \in Text, n # Root
    PROVE  ~IsPrefix(n, NoPath)
<1>1. n \in Seq(Int) /\ NoPath \in Seq(Int) /\ NoPath[1] = -1 /\ Len(n) \in Nat \ {0}
  <2>1. Seq(Nat) \subseteq Seq(Int)
    BY SeqMonotonic
  <2>2. Len(n) # 0
    BY RootIs DEF Text
  <2>. QED  BY <2>1, <2>2 DEF Text, NoPath
<1>2. n[1] \in Nat
    BY <1>1 DEF Text
<1>3. ASSUME IsPrefix(n, NoPath) PROVE n[1] = NoPath[1]
  <2>1. \A i \in 1 .. Len(n) : n[i] = NoPath[i]
    BY <1>1, <1>3, PrefixIs
  <2>2. 1 \in 1 .. Len(n)
    BY <1>1
  <2>. QED  BY <2>1, <2>2
<1>. QED  BY <1>1, <1>2, <1>3

----------------------------------------------------------------------------
(* A split.                                                                *)

\* The size of a set of nodes, and of the same set with the new node where its
\* other half is in it.
LEMMA SplitTotal ==
    ASSUME NEW ns, Tree(ns), NEW p, CanCut(ns, p), NEW S \in SUBSET DOMAIN ns
    PROVE  LET deep == Cut(ns, p)  cut == SplitAt(ns, p)
           IN  /\ deep \in S => TotalLength(cut, S \cup {p}) = TotalLength(ns, S)
               /\ deep \notin S => TotalLength(cut, S) = TotalLength(ns, S)
<1>. DEFINE deep == Cut(ns, p)  cut == SplitAt(ns, p)
<1>1. /\ deep \in DOMAIN ns /\ deep # p /\ p \notin DOMAIN ns /\ p \in DOMAIN cut
      /\ Len(p) \in Nat /\ Len(p) < Len(deep) /\ Len(deep) \in Nat
  <2>1. Halves(ns, p, deep, cut)
    BY SplitIs
  <2>. HIDE DEF deep, cut
  <2>. QED  BY <2>1, CutIs, NodeIs DEF CanCut, Halves, deep
<1>2. /\ \A n \in DOMAIN ns : n # deep => cut[n] = ns[n]
      /\ cut[p].parent = ns[deep].parent /\ cut[deep].parent = p
      /\ DOMAIN cut = DOMAIN ns \cup {p}
  <2>1. Halves(ns, p, deep, cut)
    BY SplitIs
  <2>. HIDE DEF deep, cut
  <2>. QED  BY <1>1, <2>1 DEF Halves
<1>3. Tree(cut)
    BY SplitTree
<1>4. Measured(ns, S) /\ Measured(cut, S) /\ Measured(cut, S \ {deep})
    BY <1>2, <1>3, TreeMeasured
<1>5. Len(ns[deep].parent) \in Nat /\ Len(ns[deep].parent) < Len(p)
    BY <1>1, CutIs, NodeIs DEF Over
<1>. HIDE DEF deep, cut
<1>6. ASSUME deep \notin S PROVE TotalLength(cut, S) = TotalLength(ns, S)
    BY <1>2, <1>6, TotalSame
<1>7. ASSUME deep \in S PROVE TotalLength(cut, S \cup {p}) = TotalLength(ns, S)
  <2>. DEFINE R == S \ {deep}
  <2>1. TotalLength(cut, R) = TotalLength(ns, R)
    BY <1>2, TotalSame
  <2>2. /\ TotalLength(ns, {deep}) = LengthOf(ns, deep)
        /\ TotalLength(cut, {deep}) = LengthOf(cut, deep) /\ Measured(cut, {deep})
        /\ TotalLength(cut, {p}) = LengthOf(cut, p) /\ Measured(cut, {p})
    <3>1. TotalLength(ns, {deep}) = LengthOf(ns, deep)
      BY <1>1, <1>5, TotalOne
    <3>2. TotalLength(cut, {deep}) = LengthOf(cut, deep) /\ Measured(cut, {deep})
      <4>1. Len(cut[deep].parent) \in Nat /\ Len(cut[deep].parent) <= Len(deep)
        BY <1>1, <1>2
      <4>. QED  BY <1>1, <4>1, TotalOne
    <3>3. TotalLength(cut, {p}) = LengthOf(cut, p) /\ Measured(cut, {p})
      <4>1. Len(cut[p].parent) \in Nat /\ Len(cut[p].parent) <= Len(p)
        BY <1>1, <1>2, <1>5
      <4>. QED  BY <1>1, <4>1, TotalOne
    <3>. QED  BY <3>1, <3>2, <3>3
  <2>3. TotalLength(ns, R) = TotalLength(ns, S) - TotalLength(ns, {deep})
    BY <1>4, <1>7, TotalLess
  <2>4. TotalLength(cut, R) = TotalLength(cut, S) - TotalLength(cut, {deep})
    BY <1>4, <1>7, TotalLess
  <2>5. TotalLength(cut, S \cup {p}) = TotalLength(cut, S) + TotalLength(cut, {p})
    BY <1>1, <1>4, <2>2, TotalJoin
  <2>6. TotalLength(cut, S) \in Nat /\ TotalLength(ns, S) \in Nat
    BY <1>4, TotalFinite
  <2>. HIDE DEF R
  <2>. QED  BY <1>1, <1>2, <1>5, <2>1, <2>2, <2>3, <2>4, <2>5, <2>6, SMTT(30) DEF LengthOf
<1>. QED  BY <1>6, <1>7 DEF deep, cut

\* A handle goes through the new node when it goes through its other half.
LEMMA SplitThrough ==
    ASSUME NEW ns, Tree(ns), NEW p, CanCut(ns, p), NEW hs \in [Users -> DOMAIN ns \cup {Root, NoPath}]
    PROVE  Through(hs, p) = Through(hs, Cut(ns, p))
<1>. DEFINE deep == Cut(ns, p)
<1>1. deep \in DOMAIN ns /\ Over(ns, deep, p) /\ p \in Text /\ p # Root /\ Len(p) \in Nat \ {0} /\ Aligned(p)
    BY CutIs DEF CanCut
<1>2. deep \in Text /\ IsPrefix(p, deep) /\ deep # Root
    BY <1>1, NodeIs DEF Over
<1>. HIDE DEF deep
<1>3. ASSUME NEW u \in Users, IsPrefix(p, hs[u]) PROVE IsPrefix(deep, hs[u])
  <2>1. hs[u] # NoPath
    BY <1>1, <1>3, NoneThrough
  <2>2. hs[u] # Root
    <3>1. ASSUME hs[u] = Root PROVE FALSE
      BY <1>1, <1>3, <3>1, RootIs, PrefixLen DEF Text
    <3>. QED  BY <3>1
  <2>3. hs[u] \in DOMAIN ns
    BY <2>1, <2>2
  <2>4. PICK n \in DOMAIN ns : Over(ns, n, p) /\ IsPrefix(n, hs[u])
    BY <1>1, <1>3, <2>3, OverExists
  <2>5. n = deep
    BY <1>1, <2>4 DEF Tree, OneOver
  <2>. QED  BY <2>4, <2>5
<1>4. ASSUME NEW u \in Users, IsPrefix(deep, hs[u]) PROVE IsPrefix(p, hs[u])
  <2>1. hs[u] # NoPath
    BY <1>2, <1>4, NoneThrough
  <2>2. hs[u] \in Text
    <3>1. Root \in Text /\ hs[u] \in DOMAIN ns \cup {Root, NoPath}
      BY <1>1, RootIs DEF Text
    <3>. QED  BY <2>1, <3>1 DEF Tree
  <2>. QED  BY <1>1, <1>2, <1>4, <2>2, PrefixTrans DEF Text
<1>. QED  BY <1>3, <1>4 DEF Through, deep

\* A split keeps the tree, its counts, its sizes and its heap, for the same
\* handles, and adds one node.
LEMMA SplitGood ==
    ASSUME NEW c, NEW hs, Good(c, hs), NEW p, CanCut(c.nodes, p)
    PROVE  /\ Good([c EXCEPT !.nodes = SplitAt(c.nodes, p)], hs)
           /\ Grows(c.nodes, SplitAt(c.nodes, p)) /\ p \in DOMAIN SplitAt(c.nodes, p)
           /\ DOMAIN SplitAt(c.nodes, p) = DOMAIN c.nodes \cup {p}
<1>. DEFINE ns == c.nodes  deep == Cut(ns, p)  cut == SplitAt(ns, p)
            d == [c EXCEPT !.nodes = cut]
<1>1. Tree(ns) /\ CanCut(ns, p) /\ Counts(ns, hs) /\ Sized(c) /\ Heaped(c)
    BY DEF Good
<1>2. /\ d = [nodes |-> cut, evictable |-> c.evictable, protected |-> c.protected, heap |-> c.heap]
      /\ d.nodes = cut /\ d.evictable = c.evictable /\ d.protected = c.protected /\ d.heap = c.heap
    BY DEF Good
<1>. HIDE DEF d, cut, deep, ns
<1>3. Tree(cut) /\ Halves(ns, p, deep, cut) /\ Through(hs, p) = Through(hs, deep)
    BY <1>1, SplitTree, SplitIs, SplitThrough DEF cut, deep, Counts
<1>4. /\ DOMAIN cut = DOMAIN ns \cup {p} /\ p \notin DOMAIN ns /\ deep \in DOMAIN ns /\ deep # p
      /\ \A n \in DOMAIN ns : n # deep => cut[n] = ns[n]
      /\ cut[p].parent = ns[deep].parent /\ cut[p].rec = NoState
      /\ cut[p].ref = ns[deep].ref /\ cut[p].time = ns[deep].time
      /\ cut[deep].parent = p /\ cut[deep].rec = ns[deep].rec
      /\ cut[deep].ref = ns[deep].ref /\ cut[deep].time = ns[deep].time
  <2>1. p \notin DOMAIN ns /\ deep \in DOMAIN ns /\ deep # p
    BY <1>1, CutIs DEF CanCut, deep
  <2>. QED  BY <1>3, <2>1 DEF Halves
<1>5. \A n \in DOMAIN ns : cut[n].ref = ns[n].ref /\ cut[n].time = ns[n].time /\ cut[n].rec = ns[n].rec
    BY <1>4
<1>6. Grows(ns, cut)
    BY <1>4, <1>5 DEF Grows
<1>7. Counts(cut, hs)
  <2>1. hs \in [Users -> DOMAIN cut \cup {Root, NoPath}] /\ IsFiniteSet({u \in Users : hs[u] # NoPath})
    BY <1>1, <1>4 DEF Counts
  <2>2. \A n \in DOMAIN cut : cut[n].ref = Cardinality(Through(hs, n))
    BY <1>1, <1>3, <1>4, <1>5 DEF Counts
  <2>. QED  BY <2>1, <2>2 DEF Counts
<1>. DEFINE F == FreeNodes(ns)  G == FreeNodes(cut)
<1>8. /\ deep \in F => G = F \cup {p} /\ DOMAIN cut \ G = DOMAIN ns \ F
      /\ deep \notin F => G = F /\ DOMAIN cut \ G = (DOMAIN ns \ F) \cup {p}
    BY <1>4, <1>5 DEF FreeNodes
<1>9. F \in SUBSET DOMAIN ns
    BY DEF FreeNodes
<1>. HIDE DEF F, G
<1>10. /\ \A S \in SUBSET DOMAIN ns : deep \in S => TotalLength(cut, S \cup {p}) = TotalLength(ns, S)
       /\ \A S \in SUBSET DOMAIN ns : deep \notin S => TotalLength(cut, S) = TotalLength(ns, S)
    BY <1>1, SplitTotal DEF deep, cut
<1>11. TotalLength(cut, G) = TotalLength(ns, F) /\ TotalLength(cut, DOMAIN cut \ G) = TotalLength(ns, DOMAIN ns \ F)
  <2>1. CASE deep \in F
    <3>1. TotalLength(cut, F \cup {p}) = TotalLength(ns, F)
      BY <1>9, <1>10, <2>1
    <3>2. TotalLength(cut, DOMAIN ns \ F) = TotalLength(ns, DOMAIN ns \ F)
      BY <1>10, <2>1
    <3>. QED  BY <1>8, <2>1, <3>1, <3>2
  <2>2. CASE deep \notin F
    <3>1. TotalLength(cut, F) = TotalLength(ns, F)
      BY <1>9, <1>10, <2>2
    <3>2. TotalLength(cut, (DOMAIN ns \ F) \cup {p}) = TotalLength(ns, DOMAIN ns \ F)
      BY <1>4, <1>10, <2>2
    <3>. QED  BY <1>8, <2>2, <3>1, <3>2
  <2>. QED  BY <2>1, <2>2
<1>12. Sized(d)
    BY <1>1, <1>2, <1>11 DEF Sized, F, G, ns
<1>13. Heaped(d)
  <2>1. ASSUME NEW n \in FreeNodes(cut), IsLeaf(cut, n)
        PROVE  n \in FreeNodes(ns) /\ IsLeaf(ns, n) /\ cut[n].time = ns[n].time
    <3>1. n # p /\ n \in DOMAIN cut
      BY <1>4, <2>1 DEF IsLeaf, FreeNodes
    <3>2. n \in DOMAIN ns
      BY <1>4, <3>1
    <3>3. ASSUME NEW m \in DOMAIN ns, ns[m].parent = n PROVE FALSE
      <4>1. CASE m = deep
        BY <1>4, <2>1, <3>3, <4>1 DEF IsLeaf
      <4>2. CASE m # deep
        BY <1>4, <2>1, <3>3, <4>2 DEF IsLeaf
      <4>. QED  BY <4>1, <4>2
    <3>4. IsLeaf(ns, n)
      BY <3>3 DEF IsLeaf
    <3>. QED  BY <1>5, <2>1, <3>2, <3>4 DEF FreeNodes
  <2>. QED  BY <1>1, <1>2, <2>1 DEF Heaped, ns
<1>14. Good(d, hs)
    BY <1>2, <1>3, <1>7, <1>12, <1>13 DEF Good
<1>. QED  BY <1>4, <1>6, <1>14 DEF d, cut, ns

----------------------------------------------------------------------------
(* Changes that leave the shape of the tree alone.                         *)

SameShape(ns, nt) ==
    /\ DOMAIN nt = DOMAIN ns /\ nt \in [DOMAIN ns -> Node]
    /\ \A n \in DOMAIN ns : nt[n].parent = ns[n].parent /\ nt[n].value = ns[n].value

\* What is asked of a tree depends on its shape alone.
LEMMA ShapeTree ==
    ASSUME NEW ns, NEW nt, Tree(ns), SameShape(ns, nt)
    PROVE  /\ Tree(nt)
           /\ \A n \in DOMAIN ns : IsLeaf(nt, n) <=> IsLeaf(ns, n)
           /\ \A S \in SUBSET DOMAIN ns : TotalLength(nt, S) = TotalLength(ns, S)
<1>1. /\ DOMAIN nt = DOMAIN ns /\ nt \in [DOMAIN nt -> Node]
      /\ \A n \in DOMAIN ns : nt[n].parent = ns[n].parent /\ nt[n].value = ns[n].value
    BY DEF SameShape
<1>2. \A n \in DOMAIN ns : Hangs(nt, n) /\ LengthOf(nt, n) = LengthOf(ns, n)
    BY <1>1 DEF Tree, Hangs, LengthOf
<1>3. OneOver(nt)
  <2>1. \A n \in DOMAIN ns : \A p : Over(nt, n, p) <=> Over(ns, n, p)
    BY <1>1 DEF Over
  <2>. QED  BY <1>1, <2>1 DEF Tree, OneOver
<1>4. Tree(nt)
    BY <1>1, <1>2, <1>3 DEF Tree
<1>5. \A n \in DOMAIN ns : IsLeaf(nt, n) <=> IsLeaf(ns, n)
    BY <1>1 DEF IsLeaf
<1>6. \A S \in SUBSET DOMAIN ns : TotalLength(nt, S) = TotalLength(ns, S)
    BY <1>1, TotalSame
<1>. QED  BY <1>4, <1>5, <1>6

\* All is well but that leaves of S may be missing in the heap.
HeapedBut(c, S) ==
    /\ c.heap \subseteq Nat \X Text
    /\ \A n \in FreeNodes(c.nodes) :
          IsLeaf(c.nodes, n) => n \in S \/ <<c.nodes[n].time, n>> \in c.heap

Nearly(c, hs, S) ==
    /\ c = [nodes |-> c.nodes, evictable |-> c.evictable, protected |-> c.protected, heap |-> c.heap]
    /\ Tree(c.nodes) /\ Counts(c.nodes, hs) /\ Sized(c) /\ HeapedBut(c, S)
    /\ S \subseteq DOMAIN c.nodes

\* _push_leaf of the leaves the heap misses completes the heap.
LEMMA ArmedGood ==
    ASSUME NEW c, NEW hs, NEW S, Nearly(c, hs, S)
    PROVE  Good(Armed(c, S), hs) /\ Armed(c, S).nodes = c.nodes
           /\ Armed(c, S).evictable = c.evictable /\ Armed(c, S).protected = c.protected
<1>. DEFINE more == {<<c.nodes[n].time, n>> : n \in {m \in S : IsLeaf(c.nodes, m)}}
            d == Armed(c, S)
<1>1. d = [c EXCEPT !.heap = @ \cup more]
    BY DEF Armed
<1>2. /\ c = [nodes |-> c.nodes, evictable |-> c.evictable, protected |-> c.protected, heap |-> c.heap]
      /\ Tree(c.nodes) /\ Counts(c.nodes, hs) /\ Sized(c) /\ HeapedBut(c, S)
      /\ S \subseteq DOMAIN c.nodes
    BY DEF Nearly
<1>. HIDE DEF d, more
<1>3. /\ d = [nodes |-> c.nodes, evictable |-> c.evictable, protected |-> c.protected,
              heap |-> c.heap \cup more]
      /\ d.nodes = c.nodes /\ d.evictable = c.evictable /\ d.protected = c.protected
      /\ d.heap = c.heap \cup more
    BY <1>1, <1>2
<1>4. more \subseteq Nat \X Text
  <2>1. \A n \in S : c.nodes[n].time \in Nat /\ n \in Text
    BY <1>2, NodeIs DEF Node
  <2>. QED  BY <2>1 DEF more
<1>5. \A n \in S : IsLeaf(c.nodes, n) => <<c.nodes[n].time, n>> \in more
    BY DEF more
<1>6. Heaped(d)
    BY <1>2, <1>3, <1>4, <1>5 DEF Heaped, HeapedBut
<1>7. Sized(d)
    BY <1>2, <1>3 DEF Sized
<1>8. Good(d, hs)
    BY <1>2, <1>3, <1>6, <1>7 DEF Good
<1>. QED  BY <1>3, <1>8 DEF d

\* A walk or a snapshot changes times and snapshots alone.
LEMMA TouchGood ==
    ASSUME NEW c, NEW hs, Good(c, hs), NEW nt, SameShape(c.nodes, nt), NEW S \in SUBSET DOMAIN c.nodes,
           \A n \in DOMAIN c.nodes : nt[n].ref = c.nodes[n].ref,
           \A n \in DOMAIN c.nodes \ S : nt[n].time = c.nodes[n].time
    PROVE  Nearly([c EXCEPT !.nodes = nt], hs, S)
<1>. DEFINE ns == c.nodes  d == [c EXCEPT !.nodes = nt]
<1>1. Tree(ns) /\ Counts(ns, hs) /\ Sized(c) /\ Heaped(c)
    BY DEF Good
<1>2. /\ d = [nodes |-> nt, evictable |-> c.evictable, protected |-> c.protected, heap |-> c.heap]
      /\ d.nodes = nt /\ d.evictable = c.evictable /\ d.protected = c.protected /\ d.heap = c.heap
    BY DEF Good
<1>. HIDE DEF d
<1>3. /\ Tree(nt) /\ DOMAIN nt = DOMAIN ns
      /\ \A n \in DOMAIN ns : IsLeaf(nt, n) <=> IsLeaf(ns, n)
      /\ \A T \in SUBSET DOMAIN ns : TotalLength(nt, T) = TotalLength(ns, T)
  <2>. HIDE DEF ns
  <2>1. SameShape(ns, nt)
    BY DEF ns
  <2>. QED  BY <1>1, <2>1, ShapeTree DEF SameShape
<1>4. /\ \A n \in DOMAIN ns : nt[n].ref = ns[n].ref
      /\ \A n \in DOMAIN ns \ S : nt[n].time = ns[n].time
      /\ S \in SUBSET DOMAIN ns
    OBVIOUS
<1>5. c.evictable = TotalLength(ns, FreeNodes(ns)) /\ c.protected = TotalLength(ns, DOMAIN ns \ FreeNodes(ns))
      /\ c.heap \subseteq Nat \X Text
      /\ \A n \in FreeNodes(ns) : IsLeaf(ns, n) => <<ns[n].time, n>> \in c.heap
    BY <1>1 DEF Sized, Heaped
<1>. HIDE DEF ns
<1>6. FreeNodes(nt) = FreeNodes(ns) /\ FreeNodes(ns) \in SUBSET DOMAIN ns
    BY <1>3, <1>4 DEF FreeNodes
<1>7. Counts(nt, hs)
    BY <1>1, <1>3, <1>4 DEF Counts
<1>8. Sized(d)
    BY <1>2, <1>3, <1>5, <1>6 DEF Sized
<1>9. HeapedBut(d, S)
    BY <1>2, <1>3, <1>4, <1>5, <1>6 DEF HeapedBut
<1>10. d = [nodes |-> d.nodes, evictable |-> d.evictable, protected |-> d.protected, heap |-> d.heap]
    BY <1>2
<1>. QED  BY <1>2, <1>3, <1>4, <1>7, <1>8, <1>9, <1>10 DEF Nearly, d

\* A cache that misses nothing is a good one.
LEMMA NothingMissing ==
    ASSUME NEW c, NEW hs, Nearly(c, hs, {})
    PROVE  Good(c, hs)
BY DEF Nearly, Good, Heaped, HeapedBut

----------------------------------------------------------------------------
(* A walk.                                                                 *)

\* stop is the last whole page of ids in the tree, and has a node of its own.
Stops(ns, ids, stop) ==
    /\ stop \in Text /\ Aligned(stop) /\ IsPrefix(stop, ids) /\ stop \in DOMAIN ns \cup {Root}
    /\ \A q \in Text : Aligned(q) /\ IsPrefix(q, ids) /\ (\E n \in DOMAIN ns : IsPrefix(q, n))
          => Len(q) <= Len(stop)

\* A tree walk keeps a good cache good, splits at most where it stops, and
\* leaves a node of its own at the end of the last whole page it matched.
LEMMA WalkedGood ==
    ASSUME NEW c, NEW hs, Good(c, hs), NEW ids \in Text, NEW tic \in Nat
    PROVE  /\ Good(Walked(c, ids, tic), hs)
           /\ Stops(Walked(c, ids, tic).nodes, ids, WalkEnd(c.nodes, ids))
           /\ Grows(c.nodes, Walked(c, ids, tic).nodes)
<1>. DEFINE ns == c.nodes
            stop == WalkEnd(ns, ids)
            cut == IF stop \in DOMAIN ns \cup {Root} THEN ns ELSE SplitAt(ns, stop)
            b == [c EXCEPT !.nodes = cut]
            T == Lineage(cut, stop)
            nt == [n \in DOMAIN cut |-> IF n \in T THEN [cut[n] EXCEPT !.time = tic] ELSE cut[n]]
            w == Walked(c, ids, tic)
<1>1. w = Armed([c EXCEPT !.nodes = nt], T)
    BY DEF Walked
<1>2. Tree(ns) /\ DOMAIN ns \subseteq Text
      /\ c = [nodes |-> c.nodes, evictable |-> c.evictable, protected |-> c.protected, heap |-> c.heap]
    BY DEF Good, Tree
<1>3. /\ stop \in Text /\ Aligned(stop) /\ IsPrefix(stop, ids)
      /\ stop # Root => \E n \in DOMAIN ns : IsPrefix(stop, n)
      /\ \A q \in Text : Aligned(q) /\ IsPrefix(q, ids) /\ (\E n \in DOMAIN ns : IsPrefix(q, n))
            => Len(q) <= Len(stop)
  <2>. HIDE DEF ns
  <2>. QED  BY <1>2, WalkIs
<1>. HIDE DEF w, T, stop
<1>4. /\ Good(b, hs) /\ DOMAIN cut \subseteq DOMAIN ns \cup {stop} /\ stop \in DOMAIN cut \cup {Root}
      /\ Grows(ns, cut)
  <2>1. CASE stop \in DOMAIN ns \cup {Root}
    <3>1. cut = ns /\ b = c
      BY <1>2, <2>1
    <3>2. Good(b, hs)
      BY <3>1
    <3>. QED  BY <2>1, <3>1, <3>2 DEF Grows
  <2>2. CASE stop \notin DOMAIN ns \cup {Root}
    <3>1. CanCut(c.nodes, stop)
      BY <1>3, <2>2 DEF CanCut
    <3>2. cut = SplitAt(c.nodes, stop)
      BY <2>2
    <3>. QED  BY <3>1, <3>2, SplitGood
  <2>. QED  BY <2>1, <2>2
<1>. DEFINE d == [c EXCEPT !.nodes = nt]
<1>5. b.nodes = cut /\ d = [b EXCEPT !.nodes = nt]
  <2>. HIDE DEF cut, nt
  <2>. QED  BY <1>2
<1>. HIDE DEF b, d, cut
<1>6. Tree(cut)
    BY <1>4, <1>5 DEF Good
<1>7. T \in SUBSET DOMAIN cut
    BY DEF T, Lineage
<1>8. \A n \in DOMAIN cut :
         /\ nt[n] \in Node /\ nt[n].parent = cut[n].parent /\ nt[n].value = cut[n].value
         /\ nt[n].ref = cut[n].ref /\ nt[n].rec = cut[n].rec
         /\ n \notin T => nt[n].time = cut[n].time
  <2>1. ASSUME NEW n \in DOMAIN cut
        PROVE  /\ nt[n] \in Node /\ nt[n].parent = cut[n].parent /\ nt[n].value = cut[n].value
               /\ nt[n].ref = cut[n].ref /\ nt[n].rec = cut[n].rec
               /\ n \notin T => nt[n].time = cut[n].time
    <3>1. cut[n] \in Node
      BY <1>6, NodeIs
    <3>. QED  BY <3>1 DEF Node
  <2>. QED  BY <2>1
<1>9. DOMAIN nt = DOMAIN cut
    OBVIOUS
<1>10. SameShape(cut, nt)
  <2>1. nt \in [DOMAIN cut -> Node]
    BY <1>8
  <2>. HIDE DEF nt
  <2>. QED  BY <1>8, <1>9, <2>1 DEF SameShape
<1>. HIDE DEF nt
<1>11. Nearly(d, hs, T)
    BY <1>4, <1>5, <1>7, <1>8, <1>10, TouchGood
<1>12. Good(w, hs) /\ w.nodes = nt
  <2>1. d.nodes = nt
    BY <1>2, <1>5 DEF d
  <2>2. w = Armed(d, T)
    BY <1>1 DEF d
  <2>. QED  BY <1>11, <2>1, <2>2, ArmedGood
<1>13. Grows(ns, nt)
    BY <1>4, <1>8, <1>9 DEF Grows
<1>14. Stops(nt, ids, stop)
  <2>1. ASSUME NEW q \in Text, Aligned(q), IsPrefix(q, ids), NEW n \in DOMAIN nt, IsPrefix(q, n)
        PROVE  Len(q) <= Len(stop)
    <3>1. CASE n \in DOMAIN ns
      BY <1>3, <2>1, <3>1
    <3>2. CASE n = stop
      BY <1>3, <2>1, <3>2, PrefixLen DEF Text
    <3>. QED  BY <1>4, <1>9, <3>1, <3>2
  <2>. QED  BY <1>3, <1>4, <1>9, <2>1 DEF Stops
<1>. QED  BY <1>12, <1>13, <1>14 DEF w, stop

\* The same end again.
LEMMA StopsThere ==
    ASSUME NEW ns, Tree(ns), NEW ids \in Text, NEW stop, Stops(ns, ids, stop)
    PROVE  WalkEnd(ns, ids) = stop
<1>. DEFINE again == WalkEnd(ns, ids)
<1>1. /\ again \in Text /\ Aligned(again) /\ IsPrefix(again, ids)
      /\ again # Root => \E n \in DOMAIN ns : IsPrefix(again, n)
      /\ \A q \in Text : Aligned(q) /\ IsPrefix(q, ids) /\ (\E n \in DOMAIN ns : IsPrefix(q, n))
            => Len(q) <= Len(again)
    BY WalkIs DEF Tree
<1>. HIDE DEF again
<1>2. stop \in Text /\ Aligned(stop) /\ IsPrefix(stop, ids) /\ stop \in DOMAIN ns \cup {Root}
    BY DEF Stops
<1>3. Len(again) \in Nat /\ Len(stop) \in Nat /\ Len(Root) = 0
    BY <1>1, <1>2, RootIs DEF Text
<1>4. Len(again) <= Len(stop)
  <2>1. CASE again = Root
    BY <1>3, <2>1
  <2>2. CASE again # Root
    BY <1>1, <2>2 DEF Stops
  <2>. QED  BY <2>1, <2>2
<1>5. Len(stop) <= Len(again)
  <2>1. CASE stop = Root
    BY <1>3, <2>1
  <2>2. CASE stop # Root
    <3>1. IsPrefix(stop, stop)
      BY <1>2, PrefixRefl DEF Text
    <3>. QED  BY <1>1, <1>2, <2>2, <3>1
  <2>. QED  BY <2>1, <2>2
<1>6. IsPrefix(again, stop)
    BY <1>1, <1>2, <1>4, PrefixNested DEF Text
<1>7. again = stop
    BY <1>1, <1>2, <1>5, <1>6, PrefixSame DEF Text
<1>. QED  BY <1>7 DEF again

----------------------------------------------------------------------------
(* An insertion.                                                           *)

\* ids comes in below stop, with the pages the tree lacked.
Grafted(ns, ids, stop, nt) ==
    /\ nt \in [DOMAIN ns \cup {ids} -> Node] /\ \A n \in DOMAIN ns \ {ids} : nt[n] = ns[n]
    /\ nt[ids].parent = stop /\ Len(nt[ids].value) * PageSize = Len(ids) - Len(stop)

\* A leaf grafted where the walk stopped keeps the tree a tree.
LEMMA LeafTree ==
    ASSUME NEW ns, Tree(ns), NEW ids \in Text, Aligned(ids), NEW stop, Stops(ns, ids, stop), stop # ids,
           NEW nt, Grafted(ns, ids, stop, nt)
    PROVE  Tree(nt) /\ ids \notin DOMAIN ns /\ ids # Root
           /\ Len(stop) \in Nat /\ Len(stop) < Len(ids) /\ Len(ids) \in Nat
           /\ \A n \in DOMAIN ns : ~IsPrefix(ids, n)
<1>0. /\ nt \in [DOMAIN ns \cup {ids} -> Node] /\ \A n \in DOMAIN ns \ {ids} : nt[n] = ns[n]
      /\ nt[ids].parent = stop /\ Len(nt[ids].value) * PageSize = Len(ids) - Len(stop)
    BY DEF Grafted
<1>1. stop \in Text /\ Aligned(stop) /\ IsPrefix(stop, ids) /\ stop \in DOMAIN ns \cup {Root}
    BY DEF Stops
<1>2. \A q \in Text : Aligned(q) /\ IsPrefix(q, ids) /\ (\E n \in DOMAIN ns : IsPrefix(q, n))
            => Len(q) <= Len(stop)
    BY DEF Stops
<1>3. Len(stop) \in Nat /\ Len(ids) \in Nat /\ Len(stop) <= Len(ids) /\ IsPrefix(ids, ids)
    BY <1>1, PrefixLen, PrefixRefl DEF Text
<1>4. Len(stop) < Len(ids)
  <2>1. Len(ids) <= Len(stop) => stop = ids
    BY <1>1, PrefixSame DEF Text
  <2>. QED  BY <1>3, <2>1
<1>5. ids # Root
    BY <1>3, <1>4, RootIs DEF Text
<1>6. ASSUME NEW n \in DOMAIN ns, IsPrefix(ids, n) PROVE FALSE
    BY <1>2, <1>3, <1>4, <1>6
<1>7. ids \notin DOMAIN ns
    BY <1>3, <1>6
<1>8. /\ DOMAIN nt = DOMAIN ns \cup {ids} /\ \A n \in DOMAIN ns : nt[n] = ns[n]
      /\ nt[ids].parent = stop
    BY <1>0, <1>7
<1>9. nt \in [DOMAIN nt -> Node]
    BY <1>0, <1>8
<1>10. IsFiniteSet(DOMAIN nt) /\ DOMAIN nt \subseteq Text
    BY <1>8, FS_AddElement DEF Tree
<1>11. ASSUME NEW n \in DOMAIN nt
       PROVE  /\ n # Root /\ Aligned(n) /\ Hangs(nt, n)
              /\ Len(nt[n].value) * PageSize = LengthOf(nt, n)
  <2>1. CASE n = ids
    <3>1. ASSUME NEW m \in DOMAIN nt, IsPrefix(m, ids), m # ids PROVE Len(m) <= Len(stop)
      <4>1. m \in DOMAIN ns /\ m \in Text /\ Aligned(m) /\ IsPrefix(m, m)
        BY <1>8, <3>1, NodeIs
      <4>. QED  BY <1>2, <3>1, <4>1
    <3>2. Hangs(nt, ids)
      BY <1>1, <1>4, <1>8, <3>1 DEF Hangs
    <3>. QED  BY <1>0, <1>5, <1>8, <2>1, <3>2 DEF LengthOf
  <2>2. CASE n \in DOMAIN ns
    <3>1. n # Root /\ Aligned(n) /\ Hangs(ns, n) /\ Len(ns[n].value) * PageSize = LengthOf(ns, n)
      BY <2>2 DEF Tree
    <3>2. Hangs(nt, n)
      BY <1>6, <1>8, <2>2, <3>1 DEF Hangs
    <3>. QED  BY <1>8, <2>2, <3>1, <3>2 DEF LengthOf
  <2>. QED  BY <1>8, <2>1, <2>2
<1>12. OneOver(nt)
  <2>1. ASSUME NEW n \in DOMAIN ns, NEW p \in Text, Aligned(p), Over(nt, n, p), Over(nt, ids, p)
        PROVE  FALSE
    <3>1. IsPrefix(p, n) /\ IsPrefix(p, ids) /\ Len(stop) < Len(p)
      BY <1>8, <2>1 DEF Over
    <3>2. Len(p) \in Nat
      BY DEF Text
    <3>. QED  BY <1>2, <1>3, <2>1, <3>1, <3>2
  <2>2. ASSUME NEW m \in DOMAIN ns, NEW n \in DOMAIN ns, NEW p \in Text, Aligned(p), Over(nt, m, p), Over(nt, n, p)
        PROVE  m = n
    <3>1. Over(ns, m, p) /\ Over(ns, n, p)
      BY <1>8, <2>2 DEF Over
    <3>. QED  BY <2>2, <3>1 DEF Tree, OneOver
  <2>3. ASSUME NEW m \in DOMAIN nt, NEW n \in DOMAIN nt, NEW p \in Text, Aligned(p),
               Over(nt, m, p), Over(nt, n, p)
        PROVE  m = n
    <3>1. m \in DOMAIN ns \/ m = ids
      BY <1>8
    <3>2. n \in DOMAIN ns \/ n = ids
      BY <1>8
    <3>. QED  BY <2>1, <2>2, <2>3, <3>1, <3>2
  <2>. QED  BY <2>3 DEF OneOver
<1>13. Tree(nt)
    BY <1>9, <1>10, <1>11, <1>12 DEF Tree
<1>. QED  BY <1>3, <1>4, <1>5, <1>6, <1>7, <1>13

\* A handle's path, and everything above it, is in the tree.
LEMMA HandleIs ==
    ASSUME NEW ns, Tree(ns), NEW hs, Counts(ns, hs), NEW u \in Users, NEW n \in Text, n # Root, IsPrefix(n, hs[u])
    PROVE  hs[u] \in DOMAIN ns /\ hs[u] # NoPath
<1>1. hs[u] # NoPath
    BY NoneThrough
<1>2. hs[u] # Root
  <2>1. ASSUME hs[u] = Root PROVE FALSE
    <3>1. Root \in Text /\ Len(Root) = 0 /\ Len(n) # 0
      BY RootIs DEF Text
    <3>2. Len(n) \in Nat /\ Len(n) <= Len(Root)
      BY <2>1, <3>1, PrefixLen DEF Text
    <3>. QED  BY <3>1, <3>2
  <2>. QED  BY <2>1
<1>. QED  BY <1>1, <1>2 DEF Counts

\* insert_prefix keeps a good cache good, for the same handles, and makes the
\* whole pages of ids a node.
LEMMA InsertedGood ==
    ASSUME NEW c, NEW hs, Good(c, hs), NEW ids \in Text, Aligned(ids), NEW tic \in Nat,
           NEW pages \in Seq(Nat), Len(pages) * PageSize = Len(ids) - Len(WalkEnd(c.nodes, ids))
    PROVE  /\ Good(Inserted(c, ids, pages, tic), hs)
           /\ Grows(c.nodes, Inserted(c, ids, pages, tic).nodes)
           /\ ids \in DOMAIN Inserted(c, ids, pages, tic).nodes \cup {Root}
<1>. DEFINE w == Walked(c, ids, tic)
            stop == WalkEnd(c.nodes, ids)
            leaf == [parent |-> stop, value |-> pages, ref |-> 0, time |-> tic, rec |-> NoState]
            nt == [n \in DOMAIN w.nodes \cup {ids} |-> IF n = ids THEN leaf ELSE w.nodes[n]]
            more == Len(ids) - Len(stop)
            d == [w EXCEPT !.nodes = nt, !.evictable = @ + more]
            x == Inserted(c, ids, pages, tic)
<1>1. x = IF stop = ids THEN w ELSE Armed(d, {ids})
    BY DEF Inserted
<1>2. Good(w, hs) /\ Stops(w.nodes, ids, stop) /\ Grows(c.nodes, w.nodes)
    BY WalkedGood
<1>3. Len(pages) * PageSize = more
    OBVIOUS
<1>. HIDE DEF x, w, stop
<1>4. CASE stop = ids
    BY <1>1, <1>2, <1>4 DEF Stops, x
<1>5. CASE stop # ids
  <2>1. /\ w = [nodes |-> w.nodes, evictable |-> w.evictable, protected |-> w.protected, heap |-> w.heap]
        /\ Tree(w.nodes) /\ Counts(w.nodes, hs) /\ Sized(w) /\ Heaped(w)
    BY <1>2 DEF Good
  <2>2. /\ leaf \in Node /\ leaf.parent = stop /\ leaf.value = pages /\ leaf.ref = 0
        /\ leaf.rec = NoState
    <3>1. stop \in Text /\ NoState \in Text
      BY <1>2, RootIs DEF Stops, NoState, Root, Text
    <3>. QED  BY <3>1 DEF Node
  <2>. HIDE DEF leaf
  <2>3. /\ Tree(nt) /\ ids \notin DOMAIN w.nodes /\ ids # Root
        /\ Len(stop) \in Nat /\ Len(stop) < Len(ids) /\ Len(ids) \in Nat
        /\ \A n \in DOMAIN w.nodes : ~IsPrefix(ids, n)
    <3>1. Len(leaf.value) * PageSize = Len(ids) - Len(stop)
      BY <1>3, <2>2
    <3>2. PICK ns : ns = w.nodes
      OBVIOUS
    <3>3. Tree(ns) /\ Stops(ns, ids, stop)
      BY <1>2, <2>1, <3>2
    <3>4. nt = [n \in DOMAIN ns \cup {ids} |-> IF n = ids THEN leaf ELSE ns[n]]
      BY <3>2
    <3>5. PICK mt : mt = nt
      OBVIOUS
    <3>6. mt \in [DOMAIN ns \cup {ids} -> Node] /\ \A n \in DOMAIN ns \ {ids} : mt[n] = ns[n]
      <4>1. \A n \in DOMAIN ns : ns[n] \in Node
        BY <3>3, NodeIs
      <4>. QED  BY <2>2, <3>4, <3>5, <4>1
    <3>7. mt[ids] = leaf
      BY <3>4, <3>5
    <3>. HIDE DEF nt
    <3>8. mt[ids].parent = stop /\ Len(mt[ids].value) * PageSize = Len(ids) - Len(stop)
      BY <2>2, <3>1, <3>7
    <3>9. /\ Tree(mt) /\ ids \notin DOMAIN ns /\ ids # Root
          /\ Len(stop) \in Nat /\ Len(stop) < Len(ids) /\ Len(ids) \in Nat
          /\ \A n \in DOMAIN ns : ~IsPrefix(ids, n)
      <4>1. Grafted(ns, ids, stop, mt)
        BY <3>6, <3>8 DEF Grafted
      <4>. QED  BY <1>5, <3>3, <4>1, LeafTree
    <3>. QED  BY <3>2, <3>5, <3>9
  <2>4. /\ DOMAIN nt = DOMAIN w.nodes \cup {ids} /\ nt[ids] = leaf
        /\ \A n \in DOMAIN w.nodes : nt[n] = w.nodes[n]
    BY <2>3
  <2>. HIDE DEF nt
  <2>5. /\ d = [nodes |-> nt, evictable |-> w.evictable + more, protected |-> w.protected, heap |-> w.heap]
        /\ d.nodes = nt /\ d.evictable = w.evictable + more /\ d.protected = w.protected /\ d.heap = w.heap
    <3>1. PICK e : e = w.evictable + more
      OBVIOUS
    <3>2. d = [w EXCEPT !.nodes = nt, !.evictable = e]
      BY <2>1, <3>1
    <3>3. d = [nodes |-> nt, evictable |-> e, protected |-> w.protected, heap |-> w.heap]
      <4>. HIDE DEF d
      <4>. QED  BY <2>1, <3>2
    <3>. HIDE DEF d, more
    <3>. QED  BY <3>1, <3>3
  <2>. HIDE DEF d
  <2>6. Counts(nt, hs)
    <3>1. hs \in [Users -> DOMAIN nt \cup {Root, NoPath}] /\ IsFiniteSet({u \in Users : hs[u] # NoPath})
      BY <2>1, <2>4 DEF Counts
    <3>2. Through(hs, ids) = {}
      <4>1. ASSUME NEW u \in Users, IsPrefix(ids, hs[u]) PROVE FALSE
        <5>1. PICK ns : ns = w.nodes
          OBVIOUS
        <5>2. hs[u] \in DOMAIN ns
          BY <2>1, <2>3, <4>1, <5>1, HandleIs
        <5>. QED  BY <2>3, <4>1, <5>1, <5>2
      <4>. QED  BY <4>1 DEF Through
    <3>3. nt[ids].ref = Cardinality(Through(hs, ids))
      BY <2>2, <2>4, <3>2, FS_EmptySet
    <3>4. \A n \in DOMAIN w.nodes : nt[n].ref = Cardinality(Through(hs, n))
      BY <2>1, <2>4 DEF Counts
    <3>. QED  BY <2>4, <3>1, <3>3, <3>4 DEF Counts
  <2>7. Sized(d)
    <3>. DEFINE F == FreeNodes(w.nodes)
    <3>1. FreeNodes(nt) = F \cup {ids} /\ F \in SUBSET DOMAIN w.nodes /\ ids \notin F
      BY <2>2, <2>3, <2>4 DEF FreeNodes
    <3>2. DOMAIN nt \ FreeNodes(nt) = DOMAIN w.nodes \ F
      BY <2>3, <2>4, <3>1
    <3>3. w.evictable = TotalLength(w.nodes, F) /\ w.protected = TotalLength(w.nodes, DOMAIN w.nodes \ F)
      BY <2>1 DEF Sized
    <3>. HIDE DEF F
    <3>4. TotalLength(nt, F) = TotalLength(w.nodes, F)
          /\ TotalLength(nt, DOMAIN w.nodes \ F) = TotalLength(w.nodes, DOMAIN w.nodes \ F)
      BY <2>4, <3>1, TotalSame
    <3>5. TotalLength(nt, {ids}) = more /\ Measured(nt, {ids})
      <4>1. nt[ids].parent = stop
        BY <2>2, <2>4
      <4>2. Len(nt[ids].parent) \in Nat /\ Len(nt[ids].parent) <= Len(ids)
        BY <2>3, <4>1
      <4>. QED  BY <2>3, <4>1, <4>2, TotalOne DEF LengthOf
    <3>6. TotalLength(nt, F \cup {ids}) = TotalLength(nt, F) + TotalLength(nt, {ids})
      <4>1. Measured(nt, F)
        BY <2>3, <2>4, <3>1, TreeMeasured
      <4>. QED  BY <3>1, <3>5, <4>1, TotalJoin
    <3>. HIDE DEF more
    <3>. QED  BY <2>5, <3>1, <3>2, <3>3, <3>4, <3>5, <3>6 DEF Sized
  <2>8. HeapedBut(d, {ids})
    <3>1. w.heap \subseteq Nat \X Text /\ \A n \in FreeNodes(w.nodes) : IsLeaf(w.nodes, n) => <<w.nodes[n].time, n>> \in w.heap
      BY <2>1 DEF Heaped
    <3>2. ASSUME NEW n \in FreeNodes(nt), IsLeaf(nt, n), n # ids
          PROVE  <<nt[n].time, n>> \in w.heap
      <4>1. n \in FreeNodes(w.nodes) /\ nt[n] = w.nodes[n]
        BY <2>4, <3>2 DEF FreeNodes
      <4>2. IsLeaf(w.nodes, n)
        BY <2>4, <3>2 DEF IsLeaf
      <4>. QED  BY <3>1, <4>1, <4>2
    <3>. QED  BY <2>5, <3>1, <3>2 DEF HeapedBut
  <2>9. Nearly(d, hs, {ids})
    BY <2>3, <2>4, <2>5, <2>6, <2>7, <2>8 DEF Nearly
  <2>10. Good(x, hs) /\ x.nodes = nt
    BY <1>1, <1>5, <2>5, <2>9, ArmedGood
  <2>11. Grows(c.nodes, nt)
    BY <1>2, <2>2, <2>4 DEF Grows
  <2>. QED  BY <2>4, <2>10, <2>11 DEF x
<1>. QED  BY <1>4, <1>5

----------------------------------------------------------------------------
(* Locks.                                                                  *)

\* Counting changes nothing of the tree but the references of S.
CountsUp(ns, nt, S, d) ==
    /\ SameShape(ns, nt)
    /\ \A n \in DOMAIN ns : /\ nt[n].rec = ns[n].rec /\ nt[n].time = ns[n].time
                           /\ nt[n].ref = IF n \in S THEN ns[n].ref + d ELSE ns[n].ref

\* What the loop of lock_handle changes.
LEMMA CountedIs ==
    ASSUME NEW ns, Tree(ns), NEW S \in SUBSET DOMAIN ns, NEW d \in Int, \A n \in S : ns[n].ref + d \in Nat
    PROVE  CountsUp(ns, Counted(ns, S, d), S, d)
<1>. DEFINE nt == Counted(ns, S, d)
<1>1. nt = [n \in DOMAIN ns |-> IF n \in S THEN [ns[n] EXCEPT !.ref = @ + d] ELSE ns[n]]
    BY DEF Counted
<1>2. ASSUME NEW n \in DOMAIN ns
      PROVE  /\ nt[n] \in Node /\ nt[n].parent = ns[n].parent /\ nt[n].value = ns[n].value
             /\ nt[n].rec = ns[n].rec /\ nt[n].time = ns[n].time
             /\ nt[n].ref = IF n \in S THEN ns[n].ref + d ELSE ns[n].ref
  <2>1. ns[n] \in Node
    BY NodeIs
  <2>2. CASE n \in S
    <3>1. nt[n] = [ns[n] EXCEPT !.ref = @ + d]
      BY <1>1, <2>2
    <3>2. ns[n].ref + d \in Nat
      BY <2>2
    <3>. QED  BY <2>1, <2>2, <3>1, <3>2 DEF Node
  <2>3. CASE n \notin S
    <3>1. nt[n] = ns[n]
      BY <1>1, <2>3
    <3>. QED  BY <2>1, <2>3, <3>1
  <2>. QED  BY <2>2, <2>3
<1>3. SameShape(ns, nt)
  <2>1. DOMAIN nt = DOMAIN ns /\ nt = [n \in DOMAIN ns |-> nt[n]]
    BY <1>1
  <2>. HIDE DEF nt
  <2>. QED  BY <1>2, <2>1 DEF SameShape
<1>. QED  BY <1>2, <1>3 DEF nt, CountsUp

\* The handles after one of them changed.
LEMMA ThroughIs ==
    ASSUME NEW ns, NEW hs, NEW D, hs \in [Users -> D], IsFiniteSet({v \in Users : hs[v] # NoPath}),
           NEW u \in Users, NEW h, NEW n \in Text, n # Root
    PROVE  /\ Through([hs EXCEPT ![u] = h], n) = IF IsPrefix(n, h) THEN Through(hs, n) \cup {u} ELSE Through(hs, n) \ {u}
           /\ IsFiniteSet(Through(hs, n)) /\ Cardinality(Through(hs, n)) \in Nat
           /\ IsFiniteSet({v \in Users : [hs EXCEPT ![u] = h][v] # NoPath})
<1>. DEFINE gs == [hs EXCEPT ![u] = h]
<1>1. gs[u] = h /\ \A v \in Users \ {u} : gs[v] = hs[v]
    OBVIOUS
<1>. HIDE DEF gs
<1>2. Through(gs, n) = IF IsPrefix(n, h) THEN Through(hs, n) \cup {u} ELSE Through(hs, n) \ {u}
    BY <1>1 DEF Through
<1>3. Through(hs, n) \subseteq {v \in Users : hs[v] # NoPath}
    BY NoneThrough DEF Through
<1>4. IsFiniteSet(Through(hs, n)) /\ Cardinality(Through(hs, n)) \in Nat
    BY <1>3, FS_Subset, FS_CardinalityType
<1>5. {v \in Users : gs[v] # NoPath} \subseteq {v \in Users : hs[v] # NoPath} \cup {u}
    BY <1>1
<1>6. IsFiniteSet({v \in Users : gs[v] # NoPath})
    BY <1>5, FS_AddElement, FS_Subset
<1>. QED  BY <1>2, <1>4, <1>6 DEF gs

\* Locking a handle for a user that has none counts it on all its path, and
\* moves the newly referenced nodes from evictable to protected.
LEMMA LockedGood ==
    ASSUME NEW c, NEW hs, Good(c, hs), NEW u \in Users, hs[u] = NoPath, NEW h \in DOMAIN c.nodes \cup {Root}
    PROVE  /\ Good(Locked(c, h), [hs EXCEPT ![u] = h])
           /\ Grows(c.nodes, Locked(c, h).nodes)
<1>. DEFINE ns == c.nodes
            up == Lineage(ns, h)
            new == {n \in up : ns[n].ref = 0}
            size == TotalLength(ns, new)
            nt == Counted(ns, up, 1)
            gs == [hs EXCEPT ![u] = h]
            d == Locked(c, h)
<1>1. d = [c EXCEPT !.nodes = nt, !.evictable = @ - size, !.protected = @ + size]
    BY DEF Locked
<1>2. /\ c = [nodes |-> c.nodes, evictable |-> c.evictable, protected |-> c.protected, heap |-> c.heap]
      /\ Tree(ns) /\ Counts(ns, hs) /\ Sized(c) /\ Heaped(c)
    BY DEF Good
<1>3. up \in SUBSET DOMAIN ns /\ \A n \in DOMAIN ns : n \in up <=> IsPrefix(n, h)
    BY DEF Lineage
<1>. HIDE DEF up
<1>4. \A n \in DOMAIN ns : ns[n].ref \in Nat
    BY <1>2, NodeIs DEF Node
<1>5. /\ SameShape(ns, nt)
      /\ \A n \in DOMAIN ns : nt[n].rec = ns[n].rec /\ nt[n].time = ns[n].time
      /\ \A n \in DOMAIN ns : nt[n].ref = IF n \in up THEN ns[n].ref + 1 ELSE ns[n].ref
  <2>1. \A n \in up : ns[n].ref + 1 \in Nat
    BY <1>3, <1>4
  <2>2. PICK one \in Int : one = 1
    OBVIOUS
  <2>3. \A n \in up : ns[n].ref + one \in Nat
    BY <2>1, <2>2
  <2>4. nt = Counted(ns, up, one)
    BY <2>2
  <2>. HIDE DEF ns, nt
  <2>5. CountsUp(ns, Counted(ns, up, one), up, one)
    BY <1>2, <1>3, <2>3, CountedIs
  <2>. QED  BY <2>2, <2>4, <2>5 DEF CountsUp
<1>. HIDE DEF nt, d, size
<1>6. /\ d = [nodes |-> nt, evictable |-> c.evictable - size, protected |-> c.protected + size, heap |-> c.heap]
      /\ d.nodes = nt /\ d.evictable = c.evictable - size /\ d.protected = c.protected + size /\ d.heap = c.heap
    BY <1>1, <1>2
<1>7. Tree(nt) /\ DOMAIN nt = DOMAIN ns /\ (\A n \in DOMAIN ns : IsLeaf(nt, n) <=> IsLeaf(ns, n))
      /\ \A S \in SUBSET DOMAIN ns : TotalLength(nt, S) = TotalLength(ns, S)
  <2>. HIDE DEF ns
  <2>. QED  BY <1>2, <1>5, ShapeTree DEF SameShape
<1>8. Grows(ns, nt)
    BY <1>5, <1>7 DEF Grows
<1>9. Counts(nt, gs)
  <2>1. hs \in [Users -> DOMAIN ns \cup {Root, NoPath}] /\ IsFiniteSet({v \in Users : hs[v] # NoPath})
    BY <1>2 DEF Counts
  <2>2. gs \in [Users -> DOMAIN nt \cup {Root, NoPath}]
    BY <1>7, <2>1
  <2>3. IsFiniteSet({v \in Users : gs[v] # NoPath})
    <3>1. PICK r \in Users : r = u
      OBVIOUS
    <3>2. {v \in Users : gs[v] # NoPath} \subseteq {v \in Users : hs[v] # NoPath} \cup {u}
      BY <2>1
    <3>. QED  BY <2>1, <3>2, FS_AddElement, FS_Subset
  <2>4. ASSUME NEW n \in DOMAIN nt PROVE nt[n].ref = Cardinality(Through(gs, n))
    <3>1. n \in DOMAIN ns /\ n \in Text /\ n # Root
      BY <1>2, <1>7, NodeIs
    <3>2. /\ Through(gs, n) = IF IsPrefix(n, h) THEN Through(hs, n) \cup {u} ELSE Through(hs, n) \ {u}
          /\ IsFiniteSet(Through(hs, n)) /\ Cardinality(Through(hs, n)) \in Nat
      <4>1. PICK D : D = DOMAIN ns \cup {Root, NoPath}
        OBVIOUS
      <4>2. hs \in [Users -> D]
        BY <2>1, <4>1
      <4>. HIDE DEF ns
      <4>. QED  BY <2>1, <3>1, <4>2, ThroughIs, ZenonT(60)
    <3>3. u \notin Through(hs, n)
      BY <3>1, NoneThrough DEF Through
    <3>4. ns[n].ref = Cardinality(Through(hs, n))
      BY <1>2, <3>1 DEF Counts
    <3>5. CASE IsPrefix(n, h)
      <4>1. Cardinality(Through(hs, n) \cup {u}) = Cardinality(Through(hs, n)) + 1
        BY <3>2, <3>3, FS_AddElement
      <4>. QED  BY <1>3, <1>5, <3>1, <3>2, <3>4, <3>5, <4>1
    <3>6. CASE ~IsPrefix(n, h)
      <4>1. Through(gs, n) = Through(hs, n)
        BY <3>2, <3>3, <3>6
      <4>. QED  BY <1>3, <1>5, <3>1, <3>4, <3>6, <4>1
    <3>. QED  BY <3>5, <3>6
  <2>. QED  BY <2>2, <2>3, <2>4 DEF Counts
<1>10. Sized(d)
  <2>. DEFINE F == FreeNodes(ns)
  <2>1. new \in SUBSET F /\ F \in SUBSET DOMAIN ns
    BY <1>3 DEF FreeNodes
  <2>2. FreeNodes(nt) = F \ new
    BY <1>3, <1>4, <1>5, <1>7 DEF FreeNodes
  <2>3. DOMAIN nt \ FreeNodes(nt) = (DOMAIN ns \ F) \cup new /\ (DOMAIN ns \ F) \cap new = {}
    BY <1>7, <2>1, <2>2
  <2>4. c.evictable = TotalLength(ns, F) /\ c.protected = TotalLength(ns, DOMAIN ns \ F)
    BY <1>2 DEF Sized
  <2>. HIDE DEF F, new
  <2>5. Measured(ns, F) /\ Measured(ns, DOMAIN ns \ F) /\ Measured(ns, new)
    <3>. HIDE DEF ns
    <3>. QED  BY <1>2, <2>1, TreeMeasured
  <2>6. TotalLength(ns, F \ new) = TotalLength(ns, F) - size
    BY <2>1, <2>5, TotalLess DEF size
  <2>7. TotalLength(ns, (DOMAIN ns \ F) \cup new) = TotalLength(ns, DOMAIN ns \ F) + size
    BY <2>3, <2>5, TotalJoin DEF size
  <2>8. /\ TotalLength(nt, F \ new) = TotalLength(ns, F \ new)
        /\ TotalLength(nt, (DOMAIN ns \ F) \cup new) = TotalLength(ns, (DOMAIN ns \ F) \cup new)
    BY <1>7, <2>1
  <2>. QED  BY <1>6, <2>2, <2>3, <2>4, <2>6, <2>7, <2>8 DEF Sized
<1>11. Heaped(d)
  <2>1. \A n \in FreeNodes(nt) : n \in FreeNodes(ns) /\ n \in DOMAIN ns
    BY <1>4, <1>5, <1>7 DEF FreeNodes
  <2>. QED  BY <1>2, <1>5, <1>6, <1>7, <2>1 DEF Heaped
<1>12. Good(d, gs)
    BY <1>6, <1>7, <1>9, <1>10, <1>11 DEF Good
<1>. QED  BY <1>6, <1>8, <1>12 DEF d

\* Unlocking a user's handle takes it off all its path, and every leaf that
\* becomes unreferenced is pushed on the heap.
LEMMA UnlockedGood ==
    ASSUME NEW c, NEW hs, Good(c, hs), NEW u \in Users, NEW h, hs[u] = h
    PROVE  /\ Good(Unlocked(c, h), [hs EXCEPT ![u] = NoPath])
           /\ Grows(c.nodes, Unlocked(c, h).nodes)
<1>. DEFINE ns == c.nodes
            up == Lineage(ns, h)
            free == {n \in up : ns[n].ref = 1}
            size == TotalLength(ns, free)
            nt == Counted(ns, up, -1)
            gs == [hs EXCEPT ![u] = NoPath]
            b == [c EXCEPT !.nodes = nt, !.evictable = @ + size, !.protected = @ - size]
            d == Unlocked(c, h)
<1>1. d = Armed(b, free)
    BY DEF Unlocked
<1>2. /\ c = [nodes |-> c.nodes, evictable |-> c.evictable, protected |-> c.protected, heap |-> c.heap]
      /\ Tree(ns) /\ Counts(ns, hs) /\ Sized(c) /\ Heaped(c)
    BY DEF Good
<1>3. up \in SUBSET DOMAIN ns /\ \A n \in DOMAIN ns : n \in up <=> IsPrefix(n, h)
    BY DEF Lineage
<1>. HIDE DEF up
<1>4. \A n \in DOMAIN ns : ns[n].ref \in Nat
    BY <1>2, NodeIs DEF Node
<1>5. hs \in [Users -> DOMAIN ns \cup {Root, NoPath}] /\ IsFiniteSet({v \in Users : hs[v] # NoPath})
    BY <1>2 DEF Counts
<1>6. ASSUME NEW n \in DOMAIN ns
      PROVE  /\ Through(gs, n) = Through(hs, n) \ {u}
             /\ IsFiniteSet(Through(hs, n)) /\ Cardinality(Through(hs, n)) \in Nat
             /\ u \in Through(hs, n) <=> n \in up
             /\ ns[n].ref = Cardinality(Through(hs, n))
             /\ n \in up => Cardinality(Through(hs, n) \ {u}) = ns[n].ref - 1 /\ ns[n].ref - 1 \in Nat
  <2>1. n \in Text /\ n # Root
    BY <1>2, NodeIs
  <2>2. /\ Through(gs, n) = IF IsPrefix(n, NoPath) THEN Through(hs, n) \cup {u} ELSE Through(hs, n) \ {u}
        /\ IsFiniteSet(Through(hs, n)) /\ Cardinality(Through(hs, n)) \in Nat
    <3>1. PICK D : D = DOMAIN ns \cup {Root, NoPath}
      OBVIOUS
    <3>2. hs \in [Users -> D]
      BY <1>5, <3>1
    <3>. HIDE DEF ns
    <3>. QED  BY <1>5, <2>1, <3>2, ThroughIs, ZenonT(60)
  <2>3. Through(gs, n) = Through(hs, n) \ {u}
    BY <2>1, <2>2, NoneThrough
  <2>4. u \in Through(hs, n) <=> n \in up
    BY <1>3 DEF Through
  <2>5. ns[n].ref = Cardinality(Through(hs, n))
    BY <1>2 DEF Counts
  <2>6. n \in up => Cardinality(Through(hs, n) \ {u}) = ns[n].ref - 1 /\ ns[n].ref - 1 \in Nat
    <3>1. IsFiniteSet(Through(hs, n) \ {u})
      BY <2>2, FS_Subset
    <3>2. Cardinality(Through(hs, n) \ {u}) \in Nat
      BY <3>1, FS_CardinalityType
    <3>3. u \in Through(hs, n) => Cardinality(Through(hs, n) \ {u}) = Cardinality(Through(hs, n)) - 1
      BY <2>2, FS_RemoveElement
    <3>. QED  BY <2>4, <2>5, <3>2, <3>3
  <2>. QED  BY <2>2, <2>3, <2>4, <2>5, <2>6
<1>7. /\ SameShape(ns, nt)
      /\ \A n \in DOMAIN ns : nt[n].rec = ns[n].rec /\ nt[n].time = ns[n].time
      /\ \A n \in DOMAIN ns : nt[n].ref = IF n \in up THEN ns[n].ref - 1 ELSE ns[n].ref
  <2>2. PICK one \in Int : one = -1
    OBVIOUS
  <2>3. \A n \in up : ns[n].ref + one \in Nat
    BY <1>3, <1>4, <1>6, <2>2
  <2>4. nt = Counted(ns, up, one)
    BY <2>2
  <2>. HIDE DEF ns, nt
  <2>5. CountsUp(ns, Counted(ns, up, one), up, one)
    <3>1. Tree(ns) /\ up \in SUBSET DOMAIN ns
      BY <1>2, <1>3
    <3>. QED  BY <2>3, <3>1, CountedIs
  <2>6. \A n \in DOMAIN ns : ns[n].ref + one = ns[n].ref - 1
    BY <1>4, <2>2
  <2>. QED  BY <2>4, <2>5, <2>6 DEF CountsUp
<1>. HIDE DEF nt, d, size, b
<1>8. /\ b = [nodes |-> nt, evictable |-> c.evictable + size, protected |-> c.protected - size, heap |-> c.heap]
      /\ b.nodes = nt /\ b.evictable = c.evictable + size /\ b.protected = c.protected - size /\ b.heap = c.heap
  <2>1. PICK e, f : e = c.evictable + size /\ f = c.protected - size
    OBVIOUS
  <2>2. b = [c EXCEPT !.nodes = nt, !.evictable = e, !.protected = f]
    BY <1>2, <2>1 DEF b
  <2>3. b = [nodes |-> nt, evictable |-> e, protected |-> f, heap |-> c.heap]
    BY <1>2, <2>2
  <2>. QED  BY <2>1, <2>3
<1>9. Tree(nt) /\ DOMAIN nt = DOMAIN ns /\ (\A n \in DOMAIN ns : IsLeaf(nt, n) <=> IsLeaf(ns, n))
      /\ \A S \in SUBSET DOMAIN ns : TotalLength(nt, S) = TotalLength(ns, S)
  <2>. HIDE DEF ns
  <2>. QED  BY <1>2, <1>7, ShapeTree DEF SameShape
<1>10. Grows(ns, nt)
    BY <1>7, <1>9 DEF Grows
<1>11. Counts(nt, gs)
  <2>1. gs \in [Users -> DOMAIN nt \cup {Root, NoPath}]
    BY <1>5, <1>9
  <2>2. IsFiniteSet({v \in Users : gs[v] # NoPath})
    <3>1. {v \in Users : gs[v] # NoPath} \subseteq {v \in Users : hs[v] # NoPath}
      BY <1>5
    <3>. QED  BY <1>5, <3>1, FS_Subset
  <2>3. ASSUME NEW n \in DOMAIN nt PROVE nt[n].ref = Cardinality(Through(gs, n))
    <3>1. n \in DOMAIN ns
      BY <1>9
    <3>. HIDE DEF ns, gs
    <3>2. CASE n \in up
      BY <1>6, <1>7, <3>1, <3>2
    <3>3. CASE n \notin up
      <4>1. Through(gs, n) = Through(hs, n)
        BY <1>6, <3>1, <3>3
      <4>. QED  BY <1>6, <1>7, <3>1, <3>3, <4>1
    <3>. QED  BY <3>2, <3>3
  <2>. QED  BY <2>1, <2>2, <2>3 DEF Counts
<1>12. Sized(b)
  <2>. DEFINE F == FreeNodes(ns)
  <2>1. free \in SUBSET (DOMAIN ns \ F) /\ F \in SUBSET DOMAIN ns
    BY <1>3 DEF FreeNodes
  <2>2. FreeNodes(nt) = F \cup free
    <3>1. ASSUME NEW n \in DOMAIN ns PROVE nt[n].ref = 0 <=> n \in F \/ n \in free
      <4>1. CASE n \in up
        <5>1. ns[n].ref \in Nat /\ ns[n].ref - 1 \in Nat
          BY <1>4, <1>6, <4>1
        <5>2. nt[n].ref = ns[n].ref - 1
          BY <1>7, <4>1
        <5>3. nt[n].ref = 0 <=> ns[n].ref = 1
          BY <5>1, <5>2
        <5>4. ns[n].ref # 0
          BY <5>1
        <5>5. n \in free <=> ns[n].ref = 1
          BY <4>1
        <5>6. n \notin F
          BY <5>4 DEF FreeNodes
        <5>. QED  BY <5>3, <5>5, <5>6
      <4>2. CASE n \notin up
        BY <1>7, <4>2 DEF FreeNodes
      <4>. QED  BY <4>1, <4>2
    <3>2. F \cup free \subseteq DOMAIN ns
      BY <2>1
    <3>. HIDE DEF F, free
    <3>. QED  BY <1>9, <3>1, <3>2 DEF FreeNodes
  <2>3. DOMAIN nt \ FreeNodes(nt) = (DOMAIN ns \ F) \ free /\ F \cap free = {}
    BY <1>9, <2>1, <2>2
  <2>4. c.evictable = TotalLength(ns, F) /\ c.protected = TotalLength(ns, DOMAIN ns \ F)
    BY <1>2 DEF Sized
  <2>. HIDE DEF F, free
  <2>5. Measured(ns, F) /\ Measured(ns, DOMAIN ns \ F) /\ Measured(ns, free)
    <3>. HIDE DEF ns
    <3>. QED  BY <1>2, <2>1, TreeMeasured
  <2>6. TotalLength(ns, F \cup free) = TotalLength(ns, F) + size
    BY <2>3, <2>5, TotalJoin DEF size
  <2>7. TotalLength(ns, (DOMAIN ns \ F) \ free) = TotalLength(ns, DOMAIN ns \ F) - size
    BY <2>1, <2>5, TotalLess DEF size
  <2>8. /\ TotalLength(nt, F \cup free) = TotalLength(ns, F \cup free)
        /\ TotalLength(nt, (DOMAIN ns \ F) \ free) = TotalLength(ns, (DOMAIN ns \ F) \ free)
    BY <1>9, <2>1
  <2>. QED  BY <1>8, <2>2, <2>3, <2>4, <2>6, <2>7, <2>8 DEF Sized
<1>13. HeapedBut(b, free)
  <2>1. \A n \in FreeNodes(nt) : n \in DOMAIN ns /\ (n \in FreeNodes(ns) \/ n \in free)
    BY <1>3, <1>4, <1>6, <1>7, <1>9 DEF FreeNodes
  <2>. HIDE DEF free
  <2>. QED  BY <1>2, <1>7, <1>8, <1>9, <2>1 DEF Heaped, HeapedBut
<1>14. free \subseteq DOMAIN nt
    BY <1>3, <1>9
<1>15. Nearly(b, gs, free)
    BY <1>8, <1>9, <1>11, <1>12, <1>13, <1>14 DEF Nearly
<1>. HIDE DEF free, gs
<1>16. Good(d, gs) /\ d.nodes = nt
    BY <1>1, <1>8, <1>15, ArmedGood
<1>. QED  BY <1>10, <1>16 DEF d, gs

----------------------------------------------------------------------------
(* An eviction.                                                            *)

\* No handle ends at an unreferenced node.
LEMMA FreeIsUnheld ==
    ASSUME NEW ns, Tree(ns), NEW hs, Counts(ns, hs), NEW n \in FreeNodes(ns), NEW u \in Users
    PROVE  ~IsPrefix(n, hs[u])
<1>1. n \in DOMAIN ns /\ ns[n].ref = 0
    BY DEF FreeNodes
<1>2. n \in Text /\ n # Root
    BY <1>1, NodeIs
<1>3. hs \in [Users -> DOMAIN ns \cup {Root, NoPath}] /\ IsFiniteSet({v \in Users : hs[v] # NoPath})
      /\ Cardinality(Through(hs, n)) = 0
    BY <1>1 DEF Counts
<1>4. Through(hs, n) \subseteq {v \in Users : hs[v] # NoPath}
    BY <1>2, NoneThrough DEF Through
<1>5. Through(hs, n) = {}
    BY <1>3, <1>4, FS_Subset, FS_EmptySet
<1>. QED  BY <1>5 DEF Through

\* The tree without an unreferenced leaf.
LEMMA PrunedTree ==
    ASSUME NEW ns, Tree(ns), NEW n \in DOMAIN ns, IsLeaf(ns, n)
    PROVE  /\ Tree(Without(ns, {n}))
           /\ DOMAIN Without(ns, {n}) = DOMAIN ns \ {n}
           /\ \A m \in DOMAIN ns \ {n} : Without(ns, {n})[m] = ns[m]
<1>. DEFINE nt == Without(ns, {n})
<1>1. DOMAIN nt = DOMAIN ns \ {n} /\ \A m \in DOMAIN nt : nt[m] = ns[m]
    BY DEF Without
<1>2. nt \in [DOMAIN nt -> Node]
  <2>1. \A m \in DOMAIN ns : ns[m] \in Node
    BY NodeIs
  <2>. QED  BY <2>1 DEF Without
<1>. HIDE DEF nt
<1>3. IsFiniteSet(DOMAIN nt) /\ DOMAIN nt \subseteq Text
    BY <1>1, FS_Subset DEF Tree
<1>4. ASSUME NEW m \in DOMAIN nt
      PROVE  /\ m # Root /\ Aligned(m) /\ Hangs(nt, m)
             /\ Len(nt[m].value) * PageSize = LengthOf(nt, m)
  <2>1. m \in DOMAIN ns /\ m # Root /\ Aligned(m) /\ Hangs(ns, m)
        /\ Len(ns[m].value) * PageSize = LengthOf(ns, m) /\ nt[m] = ns[m]
    BY <1>1 DEF Tree
  <2>2. ns[m].parent # n
    BY <2>1 DEF IsLeaf
  <2>3. Hangs(nt, m)
    BY <1>1, <2>1, <2>2 DEF Hangs
  <2>. QED  BY <2>1, <2>3 DEF LengthOf
<1>5. OneOver(nt)
    BY <1>1 DEF Tree, OneOver, Over
<1>6. Tree(nt)
    BY <1>2, <1>3, <1>4, <1>5 DEF Tree
<1>. QED  BY <1>1, <1>6 DEF nt

\* From c to d the cache lost node n.
Evicts(c, d, n) ==
    d.nodes = Without(c.nodes, {n}) /\ d.evictable = c.evictable - LengthOf(c.nodes, n)

\* What is popped: n is an unreferenced leaf, and e was its entry.
Pops(c, popped, n, e) ==
    /\ n \in FreeNodes(c.nodes) /\ IsLeaf(c.nodes, n) /\ e[2] = n
    /\ popped = [c EXCEPT !.heap = @ \ {e}]

\* Removing an unreferenced leaf keeps a good cache good: the parent, when it
\* becomes an unreferenced leaf itself, is pushed.
LEMMA UnlinkedGood ==
    ASSUME NEW c, NEW hs, Good(c, hs), NEW popped, NEW n, NEW e, Pops(c, popped, n, e)
    PROVE  Good(Unlinked(popped, n), hs) /\ Evicts(c, Unlinked(popped, n), n)
<1>. DEFINE ns == c.nodes  nt == Without(ns, {n})  parent == ns[n].parent
            lost == LengthOf(ns, n)
            b == UnlinkedUnarmed(popped, n)
            S == {m \in {parent} \ {Root} : b.nodes[m].ref = 0}
            d == Unlinked(popped, n)
<1>0. /\ n \in FreeNodes(c.nodes) /\ IsLeaf(c.nodes, n) /\ e[2] = n
      /\ popped = [c EXCEPT !.heap = @ \ {e}]
    BY DEF Pops
<1>1. /\ c = [nodes |-> c.nodes, evictable |-> c.evictable, protected |-> c.protected, heap |-> c.heap]
      /\ Tree(ns) /\ Counts(ns, hs) /\ Sized(c) /\ Heaped(c)
    BY DEF Good
<1>2. /\ popped = [nodes |-> ns, evictable |-> c.evictable, protected |-> c.protected, heap |-> c.heap \ {e}]
      /\ popped.nodes = ns /\ popped.evictable = c.evictable /\ popped.protected = c.protected
      /\ popped.heap = c.heap \ {e}
    BY <1>0, <1>1
<1>3. d = Armed(b, S)
    BY <1>2 DEF Unlinked
<1>4. /\ b = [nodes |-> nt, evictable |-> c.evictable - lost, protected |-> c.protected, heap |-> c.heap \ {e}]
      /\ b.nodes = nt /\ b.evictable = c.evictable - lost /\ b.protected = c.protected
      /\ b.heap = c.heap \ {e}
  <2>1. PICK v : v = c.evictable - lost
    OBVIOUS
  <2>2. b = [popped EXCEPT !.nodes = nt, !.evictable = v]
    BY <1>2, <2>1 DEF UnlinkedUnarmed
  <2>3. b = [nodes |-> nt, evictable |-> v, protected |-> c.protected, heap |-> c.heap \ {e}]
    BY <1>2, <2>2
  <2>. QED  BY <2>1, <2>3
<1>5. n \in DOMAIN ns /\ ns[n].ref = 0
    BY <1>0 DEF FreeNodes
<1>. HIDE DEF b, d, lost, nt
<1>6. /\ Tree(nt) /\ DOMAIN nt = DOMAIN ns \ {n} /\ \A m \in DOMAIN ns \ {n} : nt[m] = ns[m]
  <2>1. PICK m : m = ns
    OBVIOUS
  <2>2. Tree(m) /\ n \in DOMAIN m /\ IsLeaf(m, n)
    BY <1>0, <1>1, <1>5, <2>1
  <2>3. /\ Tree(Without(m, {n})) /\ DOMAIN Without(m, {n}) = DOMAIN m \ {n}
        /\ \A k \in DOMAIN m \ {n} : Without(m, {n})[k] = m[k]
    BY <2>2, PrunedTree
  <2>. QED  BY <2>1, <2>3 DEF nt
<1>7. parent \in DOMAIN ns \cup {Root} /\ parent # n
    BY <1>1, <1>5, NodeIs
<1>8. S \subseteq DOMAIN nt
    BY <1>6, <1>7
<1>9. Counts(nt, hs)
  <2>1. hs \in [Users -> DOMAIN ns \cup {Root, NoPath}] /\ IsFiniteSet({v \in Users : hs[v] # NoPath})
        /\ \A m \in DOMAIN ns : ns[m].ref = Cardinality(Through(hs, m))
    BY <1>1 DEF Counts
  <2>2. IsPrefix(n, n)
    BY <1>1, <1>5, NodeIs
  <2>3. \A v \in Users : hs[v] # n
    BY <1>0, <1>1, <2>2, FreeIsUnheld
  <2>4. hs \in [Users -> DOMAIN nt \cup {Root, NoPath}]
    <3>1. ASSUME NEW v \in Users PROVE hs[v] \in DOMAIN nt \cup {Root, NoPath}
      BY <1>6, <2>1, <2>3
    <3>2. hs = [v \in Users |-> hs[v]]
      BY <2>1
    <3>. QED  BY <3>1, <3>2
  <2>. QED  BY <1>6, <2>1, <2>4 DEF Counts
<1>10. Sized(b)
  <2>. DEFINE F == FreeNodes(ns)
  <2>1. F \in SUBSET DOMAIN ns /\ n \in F
    BY <1>0 DEF FreeNodes
  <2>2. FreeNodes(nt) = F \ {n} /\ DOMAIN nt \ FreeNodes(nt) = DOMAIN ns \ F
    BY <1>5, <1>6 DEF FreeNodes
  <2>3. c.evictable = TotalLength(ns, F) /\ c.protected = TotalLength(ns, DOMAIN ns \ F)
    BY <1>1 DEF Sized
  <2>. HIDE DEF F
  <2>4. /\ TotalLength(nt, F \ {n}) = TotalLength(ns, F \ {n})
        /\ TotalLength(nt, DOMAIN ns \ F) = TotalLength(ns, DOMAIN ns \ F)
    <3>1. \A m \in F \ {n} : nt[m].parent = ns[m].parent
      BY <1>6, <2>1
    <3>2. \A m \in DOMAIN ns \ F : nt[m].parent = ns[m].parent
      BY <1>6, <2>1
    <3>. HIDE DEF ns
    <3>. QED  BY <3>1, <3>2, TotalSame
  <2>5. TotalLength(ns, F \ {n}) = TotalLength(ns, F) - TotalLength(ns, {n})
    <3>1. Measured(ns, F)
      <4>. HIDE DEF ns
      <4>. QED  BY <1>1, <2>1, TreeMeasured
    <3>. HIDE DEF ns
    <3>. QED  BY <2>1, <3>1, TotalLess
  <2>6. TotalLength(ns, {n}) = lost
    <3>1. Len(n) \in Nat /\ Len(ns[n].parent) \in Nat /\ Len(ns[n].parent) <= Len(n)
      BY <1>1, <1>5, NodeIs
    <3>. HIDE DEF ns
    <3>. QED  BY <3>1, TotalOne DEF lost
  <2>. QED  BY <1>4, <2>2, <2>3, <2>4, <2>5, <2>6 DEF Sized
<1>11. HeapedBut(b, S)
  <2>1. c.heap \subseteq Nat \X Text /\ \A m \in FreeNodes(ns) : IsLeaf(ns, m) => <<ns[m].time, m>> \in c.heap
    BY <1>1 DEF Heaped
  <2>2. ASSUME NEW m \in FreeNodes(nt), IsLeaf(nt, m), m \notin S
        PROVE  <<nt[m].time, m>> \in b.heap
    <3>1. m \in FreeNodes(ns) /\ nt[m] = ns[m] /\ m # n /\ m \in DOMAIN nt /\ nt[m].ref = 0
      BY <1>6, <2>2 DEF FreeNodes
    <3>2. m # parent
      <4>1. m # Root
        BY <1>6, <3>1, NodeIs
      <4>. QED  BY <1>4, <2>2, <3>1, <4>1
    <3>3. IsLeaf(ns, m)
      BY <1>6, <2>2, <3>2 DEF IsLeaf
    <3>4. <<nt[m].time, m>> \in c.heap
      BY <2>1, <3>1, <3>3
    <3>5. <<nt[m].time, m>> # e
      BY <1>0, <3>1
    <3>. QED  BY <1>4, <3>4, <3>5
  <2>. QED  BY <1>4, <2>1, <2>2 DEF HeapedBut
<1>12. Nearly(b, hs, S)
    BY <1>4, <1>6, <1>8, <1>9, <1>10, <1>11 DEF Nearly
<1>. HIDE DEF S
<1>13. Good(d, hs) /\ d.nodes = nt /\ d.evictable = c.evictable - lost
    BY <1>3, <1>4, <1>12, ArmedGood
<1>. QED  BY <1>13 DEF d, nt, lost, Evicts

\* Taking an entry that no unreferenced leaf needs.
LEMMA PoppedGood ==
    ASSUME NEW c, NEW hs, Good(c, hs), NEW e,
           \A n \in FreeNodes(c.nodes) : IsLeaf(c.nodes, n) => e # <<c.nodes[n].time, n>>
    PROVE  Good([c EXCEPT !.heap = @ \ {e}], hs)
<1>. DEFINE d == [c EXCEPT !.heap = @ \ {e}]
<1>1. /\ d = [nodes |-> c.nodes, evictable |-> c.evictable, protected |-> c.protected, heap |-> c.heap \ {e}]
      /\ d.nodes = c.nodes /\ d.evictable = c.evictable /\ d.protected = c.protected
      /\ d.heap = c.heap \ {e}
    BY DEF Good
<1>. HIDE DEF d
<1>2. Tree(c.nodes) /\ Counts(c.nodes, hs) /\ Sized(c) /\ Heaped(c)
    BY DEF Good
<1>3. Sized(d)
    BY <1>1, <1>2 DEF Sized
<1>4. Heaped(d)
    BY <1>1, <1>2 DEF Heaped
<1>5. Good(d, hs)
    BY <1>1, <1>2, <1>3, <1>4 DEF Good
<1>. QED  BY <1>5 DEF d

----------------------------------------------------------------------------
(* Snapshots.                                                              *)

\* What SnapshotsMatchNodes says, of nodes ns and a list of those with a snapshot.
RecOK(ns, live) ==
    /\ live \in Seq(Text) /\ IsInjective(live) /\ Len(live) <= SnapshotCap
    /\ ToSet(live) = {n \in DOMAIN ns : ns[n].rec # NoState}
    /\ \A n \in DOMAIN ns : ns[n].rec \in {NoState, n}

\* Steps that only add nodes keep the snapshots where they are.
LEMMA GrowsRec ==
    ASSUME NEW ns, NEW live, RecOK(ns, live), NEW nt, Grows(ns, nt)
    PROVE  RecOK(nt, live)
<1>1. {n \in DOMAIN nt : nt[n].rec # NoState} = {n \in DOMAIN ns : ns[n].rec # NoState}
    BY DEF Grows
<1>2. \A n \in DOMAIN nt : nt[n].rec \in {NoState, n}
    BY DEF Grows, RecOK
<1>. QED  BY <1>1, <1>2 DEF RecOK

\* Two steps that only add nodes are one such step.
LEMMA GrowsTrans ==
    ASSUME NEW a, NEW b, NEW c, Grows(a, b), Grows(b, c)
    PROVE  Grows(a, c)
BY DEF Grows

\* A list without repetitions is as long as the set of its elements is large.
LEMMA InjectiveCard ==
    ASSUME NEW T, NEW s \in Seq(T), IsInjective(s)
    PROVE  IsFiniteSet(ToSet(s)) /\ Cardinality(ToSet(s)) = Len(s)
<1>. DEFINE n == Len(s)
<1>1. n \in Nat /\ DOMAIN s = 1 .. n /\ s \in [1 .. n -> ToSet(s)] /\ ToSet(s) = {s[i] : i \in 1 .. n}
    BY DEF ToSet
<1>. HIDE DEF n
<1>2. s \in Bijection(1 .. n, ToSet(s))
    BY <1>1 DEF Bijection, Injection, Surjection, IsInjective
<1>3. ExistsBijection(1 .. n, ToSet(s))
    BY <1>2 DEF ExistsBijection
<1>4. IsFiniteSet(ToSet(s)) /\ Cardinality(ToSet(s)) = n
    BY <1>1, <1>3, FS_CountingElements, FS_NatBijection
<1>. QED  BY <1>4 DEF n

\* What is left when the first elements of a list without repetitions go.
LEMMA RestIs ==
    ASSUME NEW T, NEW s \in Seq(T), IsInjective(s), NEW over \in 0 .. Len(s)
    PROVE  /\ SubSeq(s, over + 1, Len(s)) \in Seq(T) /\ Len(SubSeq(s, over + 1, Len(s))) = Len(s) - over
           /\ IsInjective(SubSeq(s, over + 1, Len(s)))
           /\ ToSet(SubSeq(s, over + 1, Len(s))) = ToSet(s) \ ToSet(SubSeq(s, 1, over))
<1>. DEFINE a == SubSeq(s, 1, over)  b == SubSeq(s, over + 1, Len(s))  n == Len(s)
<1>1. n \in Nat /\ DOMAIN s = 1 .. n /\ over \in Nat /\ over <= n
    OBVIOUS
<1>2. DOMAIN a = 1 .. over /\ \A i \in 1 .. over : a[i] = s[i]
    OBVIOUS
<1>3. b \in Seq(T) /\ Len(b) = n - over /\ DOMAIN b = 1 .. n - over
    OBVIOUS
<1>4. \A i \in 1 .. n - over : b[i] = s[over + i]
    OBVIOUS
<1>. HIDE DEF a, b, n
<1>5. IsInjective(b)
  <2>1. ASSUME NEW i \in 1 .. n - over, NEW j \in 1 .. n - over, b[i] = b[j] PROVE i = j
    <3>1. over + i \in 1 .. n /\ over + j \in 1 .. n /\ s[over + i] = s[over + j]
      BY <1>1, <1>4, <2>1
    <3>2. over + i = over + j
      BY <1>1, <3>1 DEF IsInjective
    <3>. QED  BY <1>1, <3>2
  <2>. QED  BY <1>3, <2>1 DEF IsInjective
<1>6. ToSet(b) \subseteq ToSet(s) \ ToSet(a)
  <2>1. ASSUME NEW i \in 1 .. n - over PROVE b[i] \in ToSet(s) /\ b[i] \notin ToSet(a)
    <3>1. over + i \in 1 .. n /\ b[i] = s[over + i]
      BY <1>1, <1>4
    <3>2. \A j \in 1 .. over : j \in 1 .. n /\ j # over + i
      BY <1>1
    <3>3. \A j \in 1 .. over : s[j] # s[over + i]
      BY <1>1, <3>1, <3>2 DEF IsInjective
    <3>. QED  BY <1>1, <1>2, <3>1, <3>3 DEF ToSet
  <2>. QED  BY <1>3, <2>1 DEF ToSet
<1>7. ToSet(s) \ ToSet(a) \subseteq ToSet(b)
  <2>1. ASSUME NEW k \in 1 .. n, s[k] \notin ToSet(a) PROVE s[k] \in ToSet(b)
    <3>1. k \notin 1 .. over
      BY <1>2, <2>1 DEF ToSet
    <3>2. k - over \in 1 .. n - over /\ over + (k - over) = k
      BY <1>1, <3>1
    <3>3. b[k - over] = s[k]
      BY <1>4, <3>2
    <3>. QED  BY <1>3, <3>2, <3>3 DEF ToSet
  <2>. QED  BY <1>1, <2>1 DEF ToSet
<1>. QED  BY <1>3, <1>5, <1>6, <1>7 DEF a, b, n

\* attach_rec_state puts the snapshot of a path on its node, and takes those of the
\* oldest nodes away when there are more than the cap.
LEMMA AttachGood ==
    ASSUME NEW hs, NEW ns, Good([cache EXCEPT !.nodes = ns], hs), Good(cache, hs), RecOK(ns, recNodes),
           NEW n \in DOMAIN ns, Attach(ns, n, n), RadixAssumption
    PROVE  Good(cache', hs) /\ RecOK(cache'.nodes, recNodes') /\ DOMAIN cache'.nodes = DOMAIN ns
<1>. DEFINE live == IF ns[n].rec = NoState THEN Append(recNodes, n) ELSE recNodes
            over == IF Len(live) > SnapshotCap THEN Len(live) - SnapshotCap ELSE 0
            lost == ToSet(SubSeq(live, 1, over))
            nt == [m \in DOMAIN ns |->
                      IF m \in lost THEN [ns[m] EXCEPT !.rec = NoState]
                      ELSE IF m = n THEN [ns[m] EXCEPT !.rec = n] ELSE ns[m]]
            b == [cache EXCEPT !.nodes = ns]
            d == [b EXCEPT !.nodes = nt]
<1>1. recNodes' = SubSeq(live, over + 1, Len(live)) /\ cache' = [cache EXCEPT !.nodes = nt]
    BY DEF Attach
<1>. HIDE DEF live, over, lost
<1>2. cache = [nodes |-> cache.nodes, evictable |-> cache.evictable, protected |-> cache.protected, heap |-> cache.heap]
    BY DEF Good
<1>3. b.nodes = ns /\ d.nodes = nt /\ cache' = d
  <2>. HIDE DEF nt
  <2>. QED  BY <1>1, <1>2
<1>. HIDE DEF b
<1>4. Tree(ns) /\ n \in Text /\ n # NoState
  <2>1. Tree(ns)
    BY <1>3 DEF Good, b
  <2>2. NoState = Root
    BY DEF NoState, Root
  <2>. QED  BY <2>1, <2>2, NodeIs
<1>5. \A m \in DOMAIN ns :
         /\ nt[m] \in Node /\ nt[m].parent = ns[m].parent /\ nt[m].value = ns[m].value
         /\ nt[m].ref = ns[m].ref /\ nt[m].time = ns[m].time
         /\ nt[m].rec = IF m \in lost THEN NoState ELSE IF m = n THEN n ELSE ns[m].rec
  <2>1. NoState \in Text
    BY <1>4, RootIs DEF NoState, Root, Text
  <2>2. ASSUME NEW m \in DOMAIN ns
        PROVE  /\ nt[m] \in Node /\ nt[m].parent = ns[m].parent /\ nt[m].value = ns[m].value
               /\ nt[m].ref = ns[m].ref /\ nt[m].time = ns[m].time
               /\ nt[m].rec = IF m \in lost THEN NoState ELSE IF m = n THEN n ELSE ns[m].rec
    <3>1. ns[m] \in Node
      BY <1>4, NodeIs
    <3>. QED  BY <1>4, <2>1, <3>1 DEF Node
  <2>. QED  BY <2>2
<1>6. DOMAIN nt = DOMAIN ns
    OBVIOUS
<1>7. SameShape(ns, nt)
  <2>1. nt \in [DOMAIN ns -> Node]
    BY <1>5
  <2>. HIDE DEF nt
  <2>. QED  BY <1>5, <1>6, <2>1 DEF SameShape
<1>. HIDE DEF nt, d
<1>8. Good(d, hs)
  <2>1. PICK v : v = b
    OBVIOUS
  <2>2. Good(v, hs) /\ SameShape(v.nodes, nt)
    BY <1>3, <1>7, <2>1 DEF b
  <2>3. /\ \A m \in DOMAIN v.nodes : nt[m].ref = v.nodes[m].ref
        /\ \A m \in DOMAIN v.nodes \ {} : nt[m].time = v.nodes[m].time
    BY <1>3, <1>5, <2>1
  <2>4. Nearly([v EXCEPT !.nodes = nt], hs, {})
    BY <2>2, <2>3, TouchGood
  <2>. QED  BY <2>1, <2>4, NothingMissing DEF d
<1>9. /\ recNodes \in Seq(Text) /\ IsInjective(recNodes) /\ Len(recNodes) <= SnapshotCap /\ Len(recNodes) \in Nat
      /\ ToSet(recNodes) = {m \in DOMAIN ns : ns[m].rec # NoState}
      /\ \A m \in DOMAIN ns : ns[m].rec \in {NoState, m}
    BY DEF RecOK
<1>10. live \in Seq(Text) /\ IsInjective(live) /\ ToSet(live) = ToSet(recNodes) \cup {n}
  <2>1. CASE ns[n].rec = NoState
    <3>1. live = Append(recNodes, n) /\ n \notin ToSet(recNodes)
      BY <1>9, <2>1 DEF live
    <3>. QED  BY <1>4, <1>9, <3>1, AppendElements
  <2>2. CASE ns[n].rec # NoState
    BY <1>9, <2>2 DEF live
  <2>. QED  BY <2>1, <2>2
<1>11. over \in 0 .. Len(live) /\ Len(live) - over <= SnapshotCap /\ Len(live) \in Nat
    BY <1>10 DEF over, RadixAssumption
<1>12. /\ recNodes' \in Seq(Text) /\ Len(recNodes') = Len(live) - over /\ IsInjective(recNodes')
       /\ ToSet(recNodes') = ToSet(live) \ lost
    BY <1>1, <1>10, <1>11, RestIs DEF lost
<1>13. {m \in DOMAIN nt : nt[m].rec # NoState} = (ToSet(recNodes) \cup {n}) \ lost
    BY <1>4, <1>5, <1>6, <1>9
<1>14. \A m \in DOMAIN nt : nt[m].rec \in {NoState, m}
    BY <1>5, <1>6, <1>9
<1>15. RecOK(nt, recNodes')
    BY <1>10, <1>11, <1>12, <1>13, <1>14 DEF RecOK
<1>. QED  BY <1>3, <1>6, <1>8, <1>15

\* The snapshot of an evicted node goes with it.
LEMMA PrunedRec ==
    ASSUME NEW ns, Tree(ns), NEW live, RecOK(ns, live), NEW n \in DOMAIN ns, IsLeaf(ns, n)
    PROVE  RecOK(Without(ns, {n}), Lists!Without(live, {n}))
<1>. DEFINE nt == Without(ns, {n})  keys == ToSet(live) \ {n}  less == Lists!Only(live, keys)
<1>1. DOMAIN nt = DOMAIN ns \ {n} /\ \A m \in DOMAIN ns \ {n} : nt[m] = ns[m]
    BY PrunedTree
<1>2. /\ live \in Seq(Text) /\ IsInjective(live) /\ Len(live) <= SnapshotCap /\ Len(live) \in Nat
      /\ ToSet(live) = {m \in DOMAIN ns : ns[m].rec # NoState}
      /\ \A m \in DOMAIN ns : ns[m].rec \in {NoState, m}
    BY DEF RecOK
<1>3. Lists!Without(live, {n}) = less
    BY DEF Lists!Without, Lists!ToSet, ToSet
<1>4. less \in Seq(Text) /\ ToSet(less) = ToSet(live) \cap keys /\ IsInjective(less)
  <2>. HIDE DEF keys
  <2>. QED  BY <1>2, OnlyElements
<1>. HIDE DEF nt, less
<1>5. Len(less) <= Len(live)
  <2>1. /\ IsFiniteSet(ToSet(live)) /\ Cardinality(ToSet(live)) = Len(live)
        /\ IsFiniteSet(ToSet(less)) /\ Cardinality(ToSet(less)) = Len(less)
    BY <1>2, <1>4, InjectiveCard
  <2>2. ToSet(less) \subseteq ToSet(live)
    BY <1>4
  <2>. QED  BY <2>1, <2>2, FS_Subset
<1>6. Len(less) <= SnapshotCap
  <2>1. Len(less) \in Nat
    BY <1>4
  <2>. QED  BY <1>2, <1>5, <2>1, RadixAssumption DEF RadixAssumption
<1>7. RecOK(nt, less)
    BY <1>1, <1>2, <1>4, <1>6 DEF RecOK
<1>. QED  BY <1>3, <1>7 DEF nt

----------------------------------------------------------------------------
(* The inductive invariant.                                                *)

HandlesOf(hd) == [u \in Users |-> hd[u].handle]

RTypes ==
    /\ recurrent \in BOOLEAN /\ clock \in Nat /\ want \in Int
    /\ freePages \in SUBSET Nat /\ IsFiniteSet(freePages)
    /\ pc \in {"idle", "capture", "evict"}
    /\ held \in [Users -> [ids : Text, handle : Seq(Int)]]
    /\ fresh \in [end : Text, done : Nat]

HeldOK == \A u \in Users : held[u] # NoHandle => held[u].ids \in Streams /\ held[u].handle # NoPath

PcOK ==
    /\ pc = "capture" => fresh.end \in DOMAIN cache.nodes \cup {Root}
    /\ pc = "evict" => want <= cache.evictable

RInv ==
    /\ RTypes /\ HeldOK /\ PcOK
    /\ Good(cache, HandlesOf(held)) /\ RecOK(cache.nodes, recNodes)

\* A list has finitely many members.
LEMMA ToSetFinite ==
    ASSUME NEW T, NEW s \in Seq(T)
    PROVE  IsFiniteSet(ToSet(s)) /\ ToSet(s) \subseteq T
<1>1. Len(s) \in Nat /\ DOMAIN s = 1 .. Len(s) /\ ToSet(s) \subseteq T
    BY DEF ToSet
<1>2. s \in Surjection(1 .. Len(s), ToSet(s))
  <2>1. s \in [1 .. Len(s) -> ToSet(s)] /\ ToSet(s) = {s[i] : i \in 1 .. Len(s)}
    BY <1>1 DEF ToSet
  <2>. QED  BY <2>1 DEF Surjection
<1>3. IsFiniteSet(1 .. Len(s))
    BY <1>1, FS_Interval
<1>. QED  BY <1>1, <1>2, <1>3, FS_Surjection

\* The empty cache satisfies the invariant.
LEMMA RadixInit ==
    ASSUME Init, RadixAssumption
    PROVE  RInv
<1>1. /\ cache = [nodes |-> << >>, evictable |-> 0, protected |-> 0, heap |-> {}]
      /\ recNodes = << >> /\ clock = 0 /\ freePages = 1 .. NumPages
      /\ held = [u \in Users |-> NoHandle] /\ pc = "idle" /\ fresh = NoCapture /\ want = 0
      /\ recurrent \in BOOLEAN
    BY DEF Init
<1>2. Root \in Text /\ << >> \in Seq(Text) /\ Len(<< >>) = 0 /\ DOMAIN << >> = {}
    BY DEF Root, Text
<1>3. RTypes
  <2>1. NoHandle \in [ids : Text, handle : Seq(Int)]
    <3>1. <<-1>> \in Seq(Int)
      OBVIOUS
    <3>. QED  BY <1>2, <3>1 DEF NoHandle
  <2>2. NoCapture \in [end : Text, done : Nat]
    BY <1>2 DEF NoCapture
  <2>3. freePages \in SUBSET Nat /\ IsFiniteSet(freePages)
    <3>1. NumPages \in Int /\ 1 \in Int
      BY DEF RadixAssumption
    <3>2. IsFiniteSet(1 .. NumPages)
      BY <3>1, FS_Interval
    <3>. QED  BY <1>1, <3>2
  <2>. QED  BY <1>1, <2>1, <2>2, <2>3 DEF RTypes
<1>4. HeldOK /\ PcOK
    BY <1>1 DEF HeldOK, PcOK
<1>5. HandlesOf(held) = [u \in Users |-> NoPath]
    BY <1>1 DEF HandlesOf, NoHandle, NoPath
<1>6. PICK ns : ns = cache.nodes
    OBVIOUS
<1>7. DOMAIN ns = {} /\ ns = << >>
    BY <1>1, <1>2, <1>6
<1>8. FreeNodes(ns) = {} /\ DOMAIN ns \ FreeNodes(ns) = {}
    BY <1>7 DEF FreeNodes
<1>9. Tree(ns)
  <2>1. ns \in [DOMAIN ns -> Node]
    BY <1>7
  <2>. QED  BY <1>7, <2>1, FS_EmptySet DEF Tree, OneOver
<1>10. Counts(ns, HandlesOf(held))
  <2>1. {u \in Users : HandlesOf(held)[u] # NoPath} = {}
    BY <1>5
  <2>2. HandlesOf(held) \in [Users -> DOMAIN ns \cup {Root, NoPath}]
    BY <1>5
  <2>. QED  BY <1>7, <2>1, <2>2, FS_EmptySet DEF Counts
<1>11. Good(cache, HandlesOf(held))
  <2>1. Sized(cache)
    BY <1>1, <1>6, <1>8, TotalNone DEF Sized
  <2>2. Heaped(cache)
    BY <1>1, <1>6, <1>8 DEF Heaped
  <2>. QED  BY <1>1, <1>6, <1>9, <1>10, <2>1, <2>2 DEF Good
<1>12. RecOK(cache.nodes, recNodes)
  <2>1. ToSet(recNodes) = {} /\ IsInjective(recNodes)
    BY <1>1, <1>2 DEF ToSet, IsInjective
  <2>2. Len(recNodes) <= SnapshotCap
    BY <1>1, <1>2 DEF RadixAssumption
  <2>. QED  BY <1>1, <1>2, <1>6, <1>7, <2>1, <2>2 DEF RecOK
<1>. QED  BY <1>3, <1>4, <1>11, <1>12 DEF RInv

----------------------------------------------------------------------------
(* What a match locks.                                                     *)

\* A match ends at a node or at the root, and with recurrent state at one that
\* carries a snapshot.
LEMMA MatchIs ==
    ASSUME NEW ns, Tree(ns), NEW ids \in Text, NEW stop, Stops(ns, ids, stop)
    PROVE  /\ MatchResult(ns, ids) \in DOMAIN ns \cup {Root}
           /\ recurrent /\ MatchResult(ns, ids) # Root => ns[MatchResult(ns, ids)].rec # NoState
           /\ ~recurrent => MatchResult(ns, ids) = stop
           /\ IsPrefix(MatchResult(ns, ids), stop)
<1>. DEFINE L == {n \in Lineage(ns, stop) : ns[n].rec # NoState}
<1>1. MatchResult(ns, ids) = IF recurrent THEN Deepest(L) ELSE stop
    BY StopsThere DEF MatchResult
<1>2. stop \in DOMAIN ns \cup {Root} /\ stop \in Text
    BY DEF Stops
<1>3. L # {} => Deepest(L) \in L
  <2>1. \A n \in L : n \in DOMAIN ns /\ n \in Text /\ IsPrefix(n, stop)
    BY NodeIs DEF Lineage
  <2>2. \A n \in L : Len(n) \in Nat /\ Len(n) <= Len(stop)
    BY <1>2, <2>1, PrefixLen DEF Text
  <2>3. Len(stop) \in Nat
    BY <1>2 DEF Text
  <2>. HIDE DEF L
  <2>. QED  BY <2>2, <2>3, DeepestIs
<1>4. L = {} => Deepest(L) = Root
    BY DEF Deepest
<1>5. IsPrefix(stop, stop) /\ IsPrefix(Root, stop)
    BY <1>2, PrefixRefl, RootIs DEF Text
<1>. QED  BY <1>1, <1>2, <1>3, <1>4, <1>5 DEF Lineage

\* What RInv says of a user that holds a handle.
LEMMA HolderIs ==
    ASSUME RInv, NEW u \in Users, held[u] # NoHandle, RadixAssumption
    PROVE  /\ held[u].ids \in Streams /\ held[u].ids \in Text
           /\ held[u].handle \in DOMAIN cache.nodes \cup {Root} /\ held[u].handle \in Text
           /\ HandlesOf(held)[u] = held[u].handle
<1>1. held[u].ids \in Streams /\ held[u].handle # NoPath
    BY DEF RInv, HeldOK
<1>2. HandlesOf(held)[u] = held[u].handle
    BY DEF HandlesOf
<1>3. HandlesOf(held)[u] \in DOMAIN cache.nodes \cup {Root, NoPath} /\ Tree(cache.nodes)
    BY DEF RInv, Good, Counts
<1>4. Root \in Text
    BY DEF Root, Text
<1>. QED  BY <1>1, <1>2, <1>3, <1>4 DEF Tree, RadixAssumption, Text

\* A user's new record changes that user's handle alone.
LEMMA HandlesSet ==
    ASSUME NEW D, NEW hd \in [Users -> D], NEW u \in Users, NEW r, NEW h, r.handle = h
    PROVE  HandlesOf([hd EXCEPT ![u] = r]) = [HandlesOf(hd) EXCEPT ![u] = h]
<1>1. \A v \in Users : [hd EXCEPT ![u] = r][v] = IF v = u THEN r ELSE hd[v]
    OBVIOUS
<1>. QED  BY <1>1 DEF HandlesOf

\* The parts of a user's record.
LEMMA HeldIs ==
    ASSUME RTypes, NEW u \in Users
    PROVE  /\ held[u] = [ids |-> held[u].ids, handle |-> held[u].handle]
           /\ held[u].handle # NoPath => held[u] # NoHandle
           /\ held[u] = NoHandle => held[u].handle = NoPath
<1>1. held[u] \in [ids : Text, handle : Seq(Int)]
    BY DEF RTypes
<1>2. NoHandle.handle = NoPath
    BY DEF NoHandle, NoPath
<1>. QED  BY <1>1, <1>2

\* match_req and lock keep the invariant, evict nothing, and with recurrent
\* state hand out a path whose node carries the snapshot of that very path.
LEMMA MatchStep ==
    ASSUME RInv, NEW u \in Users, Match(u), RadixAssumption
    PROVE  /\ RInv' /\ DOMAIN cache.nodes \subseteq DOMAIN cache'.nodes
           /\ \A v \in Users \ {u} : held'[v] = held[v]
           /\ recurrent /\ held'[u] # NoHandle /\ held'[u].handle # Root =>
                  cache'.nodes[held'[u].handle].rec = held'[u].handle
<1>1. /\ pc = "idle" /\ held[u] = NoHandle /\ clock' = clock + 1
      /\ UNCHANGED <<recurrent, recNodes, freePages, pc, fresh, want>>
    BY DEF Match, Tick
<1>2. PICK s \in Streams :
         LET ids == SubSeq(s, 1, Len(s) - 1)
             w   == Walked(cache, ids, clock')
             h   == MatchResult(w.nodes, ids)
         IN  \/ cache' = w /\ UNCHANGED held
             \/ /\ cache' = Locked(w, h)
                /\ held' = [held EXCEPT ![u] = [ids |-> s, handle |-> h]]
    BY DEF Match
<1>3. PICK ids : ids = SubSeq(s, 1, Len(s) - 1)
    OBVIOUS
<1>4. PICK w : w = Walked(cache, ids, clock')
    OBVIOUS
<1>5. PICK h : h = MatchResult(w.nodes, ids)
    OBVIOUS
<1>6. \/ cache' = w /\ held' = held
      \/ /\ cache' = Locked(w, h)
         /\ held' = [held EXCEPT ![u] = [ids |-> s, handle |-> h]]
    BY <1>2, <1>3, <1>4, <1>5
<1>7. ids \in Text /\ s \in Text
  <2>1. s \in Seq(Nat) /\ Len(s) \in Nat /\ Len(s) # 0
    BY RootIs DEF RadixAssumption, Root
  <2>2. Len(s) - 1 \in 0 .. Len(s)
    BY <2>1
  <2>. QED  BY <1>3, <2>1, <2>2, FrontIs DEF Text
<1>8. clock' \in Nat /\ RTypes /\ HeldOK /\ Good(cache, HandlesOf(held)) /\ RecOK(cache.nodes, recNodes)
    BY <1>1 DEF RInv, RTypes
<1>9. /\ Good(w, HandlesOf(held)) /\ Grows(cache.nodes, w.nodes)
      /\ Stops(w.nodes, ids, WalkEnd(cache.nodes, ids))
    BY <1>4, <1>7, <1>8, WalkedGood
<1>10. Tree(w.nodes) /\ Counts(w.nodes, HandlesOf(held))
    BY <1>9 DEF Good
<1>11. /\ h \in DOMAIN w.nodes \cup {Root} /\ h \in Text
       /\ recurrent /\ h # Root => w.nodes[h].rec # NoState
  <2>1. PICK ns : ns = w.nodes
    OBVIOUS
  <2>2. PICK stop : stop = WalkEnd(cache.nodes, ids)
    OBVIOUS
  <2>3. Tree(ns) /\ Stops(ns, ids, stop)
    BY <1>9, <1>10, <2>1, <2>2
  <2>4. /\ MatchResult(ns, ids) \in DOMAIN ns \cup {Root}
        /\ recurrent /\ MatchResult(ns, ids) # Root => ns[MatchResult(ns, ids)].rec # NoState
    BY <1>7, <2>3, MatchIs
  <2>5. Root \in Text /\ DOMAIN ns \subseteq Text
    BY <2>3 DEF Root, Text, Tree
  <2>. QED  BY <1>5, <2>1, <2>4, <2>5
<1>12. RecOK(w.nodes, recNodes)
    BY <1>8, <1>9, GrowsRec
<1>13. CASE cache' = w /\ held' = held
  <2>1. RTypes' /\ HeldOK' /\ PcOK'
    BY <1>1, <1>8, <1>13 DEF RTypes, HeldOK, PcOK
  <2>2. Good(cache', HandlesOf(held')) /\ RecOK(cache'.nodes, recNodes')
    BY <1>1, <1>9, <1>12, <1>13
  <2>3. RInv'
    BY <2>1, <2>2 DEF RInv
  <2>4. DOMAIN cache.nodes \subseteq DOMAIN cache'.nodes
    BY <1>9, <1>13 DEF Grows
  <2>. QED  BY <1>1, <1>13, <2>3, <2>4
<1>14. CASE /\ cache' = Locked(w, h)
            /\ held' = [held EXCEPT ![u] = [ids |-> s, handle |-> h]]
  <2>1. HandlesOf(held)[u] = NoPath /\ held \in [Users -> [ids : Text, handle : Seq(Int)]]
    BY <1>1, <1>8 DEF HandlesOf, NoHandle, NoPath, RTypes
  <2>2. HandlesOf(held') = [HandlesOf(held) EXCEPT ![u] = h]
    <3>1. PICK r : r = [ids |-> s, handle |-> h]
      OBVIOUS
    <3>2. PICK D : D = [ids : Text, handle : Seq(Int)]
      OBVIOUS
    <3>3. r.handle = h /\ held \in [Users -> D] /\ held' = [held EXCEPT ![u] = r]
      BY <1>14, <2>1, <3>1, <3>2
    <3>. QED  BY <3>3, HandlesSet
  <2>3. Good(cache', HandlesOf(held')) /\ Grows(w.nodes, cache'.nodes)
    <3>1. /\ Good(Locked(w, h), [HandlesOf(held) EXCEPT ![u] = h])
          /\ Grows(w.nodes, Locked(w, h).nodes)
      BY <1>9, <1>11, <2>1, LockedGood
    <3>. QED  BY <1>14, <2>2, <3>1
  <2>4. RecOK(cache'.nodes, recNodes')
    BY <1>1, <1>12, <2>3, GrowsRec
  <2>5. /\ held'[u] = [ids |-> s, handle |-> h] /\ held'[u].handle = h /\ held'[u].ids = s
        /\ \A v \in Users \ {u} : held'[v] = held[v]
    BY <1>14, <2>1
  <2>6. RTypes'
    <3>1. h \in Seq(Int)
      <4>1. Seq(Nat) \subseteq Seq(Int)
        BY SeqMonotonic
      <4>. QED  BY <1>11, <4>1 DEF Text
    <3>2. held' \in [Users -> [ids : Text, handle : Seq(Int)]]
      BY <1>7, <1>14, <2>1, <3>1
    <3>. QED  BY <1>1, <1>8, <3>2 DEF RTypes
  <2>7. h # NoPath
    <3>1. IsPrefix(h, h)
      BY <1>11, PrefixRefl DEF Text
    <3>2. h # Root => h # NoPath
      BY <1>11, <3>1, NoneThrough
    <3>3. Root # NoPath
      <4>1. Len(Root) = 0 /\ Len(NoPath) = 1
        BY DEF Root, NoPath
      <4>. QED  BY <4>1
    <3>. QED  BY <3>2, <3>3
  <2>8. HeldOK' /\ PcOK'
    BY <1>1, <1>8, <2>5, <2>7 DEF HeldOK, PcOK
  <2>9. RInv'
    BY <2>3, <2>4, <2>6, <2>8 DEF RInv
  <2>10. DOMAIN cache.nodes \subseteq DOMAIN cache'.nodes
    BY <1>9, <2>3 DEF Grows
  <2>11. recurrent /\ h # Root => cache'.nodes[h].rec = h
    <3>1. ASSUME recurrent, h # Root PROVE cache'.nodes[h].rec = h
      <4>1. h \in DOMAIN w.nodes /\ w.nodes[h].rec # NoState
        BY <1>11, <3>1
      <4>2. w.nodes[h].rec = h
        BY <1>12, <4>1 DEF RecOK
      <4>. QED  BY <2>3, <4>1, <4>2 DEF Grows
    <3>. QED  BY <3>1
  <2>. QED  BY <2>5, <2>9, <2>10, <2>11
<1>. QED  BY <1>6, <1>13, <1>14

----------------------------------------------------------------------------
(* What a request commits.                                                 *)

\* The pages that are brought are as many as are missing.
LEMMA InsertIs ==
    ASSUME RInv, NEW ids \in Text, Aligned(ids), Insert(ids)
    PROVE  /\ Brought(ids) \in Seq(Nat)
           /\ Len(Brought(ids)) * PageSize = Len(ids) - Len(WalkEnd(cache.nodes, ids))
           /\ freePages' \in SUBSET Nat /\ IsFiniteSet(freePages')
<1>. DEFINE stop == WalkEnd(cache.nodes, ids)
            count == (Len(ids) - Len(stop)) \div PageSize
<1>1. /\ count <= Cardinality(freePages) /\ freePages' = freePages \ ToSet(Brought(ids))
      /\ Brought(ids) = SubSeq(SetToSeq(freePages), 1, count)
    BY DEF Insert, Brought
<1>2. /\ freePages \in SUBSET Nat /\ IsFiniteSet(freePages) /\ DOMAIN cache.nodes \subseteq Text
    BY DEF RInv, RTypes, Good, Tree
<1>3. /\ stop \in Text /\ Aligned(stop) /\ IsPrefix(stop, ids)
    BY <1>2, WalkIs
<1>. HIDE DEF stop
<1>4. Len(stop) \in Nat /\ Len(ids) \in Nat /\ Len(stop) <= Len(ids)
    BY <1>3, PrefixLen DEF Text
<1>5. count \in Nat /\ count * PageSize = Len(ids) - Len(stop)
    BY <1>3, <1>4, PagesApart DEF Aligned
<1>. HIDE DEF count
<1>6. SetToSeq(freePages) \in Seq(freePages) /\ Len(SetToSeq(freePages)) = Cardinality(freePages)
    BY <1>2, Listing
<1>7. SetToSeq(freePages) \in Seq(Nat)
    BY <1>2, <1>6, SeqMonotonic
<1>8. PICK all \in Seq(Nat) : all = SetToSeq(freePages)
    BY <1>7
<1>9. Len(all) \in Nat /\ count \in 0 .. Len(all)
    BY <1>1, <1>5, <1>6, <1>8
<1>10. Brought(ids) \in Seq(Nat) /\ Len(Brought(ids)) = count
    BY <1>1, <1>8, <1>9, FrontIs
<1>11. freePages' \in SUBSET Nat /\ IsFiniteSet(freePages')
    BY <1>1, <1>2, FS_Subset
<1>. QED  BY <1>5, <1>10, <1>11 DEF stop

\* What a user commits is whole pages of its text.
LEMMA CommitIs ==
    ASSUME RInv, NEW u \in Users, held[u] # NoHandle, RadixAssumption,
           NEW k \in (Len(held[u].handle) \div PageSize) .. (Len(held[u].ids) \div PageSize)
    PROVE  PathTo(held[u].ids, k) \in Text /\ Aligned(PathTo(held[u].ids, k))
<1>1. held[u].ids \in Text /\ held[u].handle \in Text
    BY HolderIs
<1>. DEFINE a == held[u].handle  b == held[u].ids
<1>2. Len(a) \in Nat /\ Len(b) \in Nat
    BY <1>1 DEF Text
<1>. HIDE DEF a, b
<1>3. Len(a) \div PageSize \in Nat /\ Len(b) \div PageSize \in Nat
    BY <1>2, Division
<1>4. k \in Nat /\ k \in 0 .. Len(b) \div PageSize
    BY <1>3 DEF a, b
<1>5. k * PageSize \in 0 .. Len(b)
    BY <1>2, <1>4, PagesFit
<1>6. SubSeq(b, 1, k * PageSize) \in Text /\ Len(SubSeq(b, 1, k * PageSize)) = k * PageSize
    BY <1>1, <1>5, FrontIs DEF Text, b
<1>7. (k * PageSize) % PageSize = 0
    BY <1>4, WholePages
<1>. QED  BY <1>6, <1>7 DEF PathTo, Aligned, b

\* The insertion and the unlock that both forms of cache_req begin with.
LEMMA CommitGood ==
    ASSUME RInv, NEW u \in Users, held[u] # NoHandle, RadixAssumption, NEW tic \in Nat,
           NEW ids \in Text, Aligned(ids), Insert(ids)
    PROVE  LET x == Unlocked(Inserted(cache, ids, Brought(ids), tic), held[u].handle)
           IN  /\ Good(x, [HandlesOf(held) EXCEPT ![u] = NoPath])
               /\ Grows(cache.nodes, x.nodes)
               /\ ids \in DOMAIN x.nodes \cup {Root}
<1>1. Good(cache, HandlesOf(held))
    BY DEF RInv
<1>2. PICK pages \in Seq(Nat) : pages = Brought(ids)
    BY InsertIs
<1>3. Len(pages) * PageSize = Len(ids) - Len(WalkEnd(cache.nodes, ids))
    BY <1>2, InsertIs
<1>4. PICK y : y = Inserted(cache, ids, pages, tic)
    OBVIOUS
<1>5. Good(y, HandlesOf(held)) /\ Grows(cache.nodes, y.nodes) /\ ids \in DOMAIN y.nodes \cup {Root}
    BY <1>1, <1>3, <1>4, InsertedGood
<1>6. PICK h : h = held[u].handle
    OBVIOUS
<1>7. HandlesOf(held)[u] = h
    BY <1>6, HolderIs
<1>8. Good(Unlocked(y, h), [HandlesOf(held) EXCEPT ![u] = NoPath]) /\ Grows(y.nodes, Unlocked(y, h).nodes)
    BY <1>5, <1>7, UnlockedGood
<1>9. PICK x : x = Unlocked(y, h)
    OBVIOUS
<1>10. Grows(cache.nodes, x.nodes) /\ ids \in DOMAIN x.nodes \cup {Root}
    BY <1>5, <1>8, <1>9 DEF Grows
<1>. QED  BY <1>2, <1>4, <1>6, <1>8, <1>9, <1>10

\* A text is a sequence of integers.
LEMMA TextIsInt == Text \subseteq Seq(Int)
BY SeqMonotonic DEF Text

\* A path of the tree is not the handle of nobody.
LEMMA PathIsNot ==
    ASSUME NEW h \in Text
    PROVE  h # NoPath
<1>1. IsPrefix(h, h)
    BY PrefixRefl DEF Text
<1>2. h # Root => h # NoPath
    BY <1>1, NoneThrough
<1>3. Root # NoPath
  <2>1. Len(Root) = 0 /\ Len(NoPath) = 1
    BY DEF Root, NoPath
  <2>. QED  BY <2>1
<1>. QED  BY <1>2, <1>3

\* Where the capture begins.
LEMMA CaptureIs ==
    ASSUME RTypes, pc = "idle", NEW h \in Text, Capture(h), NEW D, h \in D
    PROVE  /\ pc' \in {"idle", "capture"} /\ fresh' \in [end : Text, done : Nat]
           /\ pc' = "capture" => fresh'.end \in D
BY DEF Capture, RTypes

\* cache_req of an unfinished request keeps the invariant and evicts nothing.
LEMMA CacheReqStep ==
    ASSUME RInv, NEW u \in Users, CacheReq(u), RadixAssumption
    PROVE  /\ RInv' /\ DOMAIN cache.nodes \subseteq DOMAIN cache'.nodes
           /\ \A v \in Users : held[v] = NoHandle => held'[v] = NoHandle
<1>1. /\ pc = "idle" /\ held[u] # NoHandle /\ clock' = clock + 1
      /\ UNCHANGED <<recurrent, recNodes, want>>
    BY DEF CacheReq, Tick
<1>2. PICK k \in (Len(held[u].handle) \div PageSize) .. (Len(held[u].ids) \div PageSize) :
         LET ids == PathTo(held[u].ids, k)
         IN  /\ Insert(ids)
             /\ cache' = Locked(Unlocked(Inserted(cache, ids, Brought(ids), clock'),
                                         held[u].handle), ids)
             /\ held' = [held EXCEPT ![u].handle = ids]
             /\ Capture(ids)
    BY DEF CacheReq
<1>3. PICK ids : ids = PathTo(held[u].ids, k)
    OBVIOUS
<1>4. PICK x : x = Unlocked(Inserted(cache, ids, Brought(ids), clock'), held[u].handle)
    OBVIOUS
<1>5. Insert(ids) /\ cache' = Locked(x, ids) /\ held' = [held EXCEPT ![u].handle = ids] /\ Capture(ids)
    BY <1>2, <1>3, <1>4
<1>6. ids \in Text /\ Aligned(ids)
    BY <1>1, <1>3, CommitIs
<1>7. clock' \in Nat /\ RTypes /\ HeldOK /\ Good(cache, HandlesOf(held)) /\ RecOK(cache.nodes, recNodes)
    BY <1>1 DEF RInv, RTypes
<1>8. PICK tic \in Nat : tic = clock'
    BY <1>7
<1>9. /\ Good(x, [HandlesOf(held) EXCEPT ![u] = NoPath]) /\ Grows(cache.nodes, x.nodes)
      /\ ids \in DOMAIN x.nodes \cup {Root}
    BY <1>1, <1>4, <1>5, <1>6, <1>8, CommitGood
<1>10. PICK gs : gs = [HandlesOf(held) EXCEPT ![u] = NoPath]
    OBVIOUS
<1>11. gs[u] = NoPath /\ Good(x, gs) /\ [gs EXCEPT ![u] = ids] = [HandlesOf(held) EXCEPT ![u] = ids]
    BY <1>9, <1>10 DEF HandlesOf
<1>12. Good(cache', [HandlesOf(held) EXCEPT ![u] = ids]) /\ Grows(x.nodes, cache'.nodes)
    BY <1>5, <1>9, <1>11, LockedGood
<1>13. /\ held \in [Users -> [ids : Text, handle : Seq(Int)]]
       /\ held[u] = [ids |-> held[u].ids, handle |-> held[u].handle]
    BY <1>7, HeldIs DEF RTypes
<1>14. PICK r : r = [ids |-> held[u].ids, handle |-> ids]
    OBVIOUS
<1>15. held' = [held EXCEPT ![u] = r] /\ r.handle = ids /\ r.ids = held[u].ids
  <2>1. held' = [held EXCEPT ![u] = [held[u] EXCEPT !.handle = ids]]
    BY <1>5
  <2>2. [held[u] EXCEPT !.handle = ids] = r
    BY <1>13, <1>14
  <2>. QED  BY <1>14, <2>1, <2>2
<1>16. held'[u] = r /\ \A v \in Users \ {u} : held'[v] = held[v]
    BY <1>13, <1>15
<1>17. HandlesOf(held') = [HandlesOf(held) EXCEPT ![u] = ids]
  <2>1. PICK D : D = [ids : Text, handle : Seq(Int)]
    OBVIOUS
  <2>2. held \in [Users -> D] /\ held' = [held EXCEPT ![u] = r] /\ r.handle = ids
    BY <1>13, <1>15, <2>1
  <2>. QED  BY <2>2, HandlesSet
<1>18. Grows(cache.nodes, cache'.nodes) /\ ids \in DOMAIN cache'.nodes \cup {Root}
    BY <1>9, <1>12 DEF Grows
<1>19. RecOK(cache'.nodes, recNodes')
    BY <1>1, <1>7, <1>18, GrowsRec
<1>20. /\ pc' \in {"idle", "capture"} /\ fresh' \in [end : Text, done : Nat]
       /\ pc' = "capture" => fresh'.end \in DOMAIN cache'.nodes \cup {Root}
    BY <1>1, <1>5, <1>6, <1>7, <1>18, CaptureIs
<1>21. ids \in Seq(Int) /\ ids # NoPath /\ NoHandle.handle = NoPath
    BY <1>6, TextIsInt, PathIsNot DEF NoHandle, NoPath
<1>22. held[u].ids \in Streams /\ held[u].ids \in Text
    BY <1>1, HolderIs
<1>23. RTypes'
  <2>1. held' \in [Users -> [ids : Text, handle : Seq(Int)]]
    BY <1>13, <1>14, <1>15, <1>21, <1>22
  <2>2. freePages' \in SUBSET Nat /\ IsFiniteSet(freePages')
    BY <1>5, <1>6, InsertIs
  <2>. QED  BY <1>1, <1>7, <1>20, <2>1, <2>2 DEF RTypes
<1>24. HeldOK'
    BY <1>7, <1>15, <1>16, <1>21, <1>22 DEF HeldOK
<1>25. PcOK'
    BY <1>20 DEF PcOK
<1>26. RInv'
    BY <1>12, <1>17, <1>19, <1>23, <1>24, <1>25 DEF RInv
<1>. QED  BY <1>1, <1>16, <1>18, <1>26 DEF Grows

\* cache_req of a finished request keeps the invariant and evicts nothing.
LEMMA FinishReqStep ==
    ASSUME RInv, NEW u \in Users, FinishReq(u), RadixAssumption
    PROVE  /\ RInv' /\ DOMAIN cache.nodes \subseteq DOMAIN cache'.nodes
           /\ \A v \in Users : held[v] = NoHandle => held'[v] = NoHandle
<1>1. /\ pc = "idle" /\ held[u] # NoHandle /\ held' = [held EXCEPT ![u] = NoHandle]
      /\ UNCHANGED <<recurrent, recNodes, want>>
    BY DEF FinishReq
<1>2. RTypes /\ HeldOK /\ Good(cache, HandlesOf(held)) /\ RecOK(cache.nodes, recNodes)
    BY DEF RInv
<1>. DEFINE Ends(end) ==
                /\ Capture(end) /\ end \in DOMAIN cache'.nodes \cup {Root}
                /\ Good(cache', [HandlesOf(held) EXCEPT ![u] = NoPath])
                /\ Grows(cache.nodes, cache'.nodes)
                /\ clock' \in Nat /\ freePages' \in SUBSET Nat /\ IsFiniteSet(freePages')
            Ended == \E end \in Text : Ends(end)
<1>3. Ended
  <2>1. ASSUME Tick,
               \E k \in (Len(held[u].handle) \div PageSize)..(Len(held[u].ids) \div PageSize) :
                  LET ids == PathTo(held[u].ids, k)
                  IN  /\ Insert(ids)
                      /\ cache' = Unlocked(Inserted(cache, ids, Brought(ids), clock'), held[u].handle)
                      /\ Capture(ids)
        PROVE  Ended
    <3>1. PICK k \in (Len(held[u].handle) \div PageSize)..(Len(held[u].ids) \div PageSize) :
                  LET ids == PathTo(held[u].ids, k)
                  IN  /\ Insert(ids)
                      /\ cache' = Unlocked(Inserted(cache, ids, Brought(ids), clock'), held[u].handle)
                      /\ Capture(ids)
      BY <2>1
    <3>2. PICK ids : ids = PathTo(held[u].ids, k)
      OBVIOUS
    <3>3. /\ Insert(ids) /\ Capture(ids)
          /\ cache' = Unlocked(Inserted(cache, ids, Brought(ids), clock'), held[u].handle)
      BY <3>1, <3>2
    <3>4. ids \in Text /\ Aligned(ids)
      BY <1>1, <3>2, CommitIs
    <3>5. clock' \in Nat
      BY <1>2, <2>1 DEF RTypes, Tick
    <3>6. PICK tic \in Nat : tic = clock'
      BY <3>5
    <3>7. /\ Good(cache', [HandlesOf(held) EXCEPT ![u] = NoPath]) /\ Grows(cache.nodes, cache'.nodes)
          /\ ids \in DOMAIN cache'.nodes \cup {Root}
      BY <1>1, <3>3, <3>4, <3>6, CommitGood
    <3>8. freePages' \in SUBSET Nat /\ IsFiniteSet(freePages')
      BY <3>3, <3>4, InsertIs
    <3>. QED  BY <3>3, <3>4, <3>5, <3>7, <3>8
  <2>2. ASSUME cache' = Unlocked(cache, held[u].handle), Capture(held[u].handle), UNCHANGED <<clock, freePages>>
        PROVE  Ended
    <3>1. PICK h : h = held[u].handle
      OBVIOUS
    <3>2. h \in DOMAIN cache.nodes \cup {Root} /\ h \in Text /\ HandlesOf(held)[u] = h
      BY <1>1, <3>1, HolderIs
    <3>3. Good(Unlocked(cache, h), [HandlesOf(held) EXCEPT ![u] = NoPath])
          /\ Grows(cache.nodes, Unlocked(cache, h).nodes)
      BY <1>2, <3>2, UnlockedGood
    <3>4. Good(cache', [HandlesOf(held) EXCEPT ![u] = NoPath]) /\ Grows(cache.nodes, cache'.nodes)
          /\ h \in DOMAIN cache'.nodes \cup {Root} /\ Capture(h)
      BY <2>2, <3>1, <3>2, <3>3 DEF Grows
    <3>5. clock' \in Nat /\ freePages' \in SUBSET Nat /\ IsFiniteSet(freePages')
      BY <1>2, <2>2 DEF RTypes
    <3>. QED  BY <3>2, <3>4, <3>5
  <2>. HIDE DEF Ended
  <2>. QED  BY <2>1, <2>2 DEF FinishReq
<1>4. PICK end \in Text : Ends(end)
    BY <1>3
<1>5. held \in [Users -> [ids : Text, handle : Seq(Int)]] /\ NoHandle.handle = NoPath
    BY <1>2 DEF RTypes, NoHandle, NoPath
<1>6. held'[u] = NoHandle /\ \A v \in Users \ {u} : held'[v] = held[v]
    BY <1>1, <1>5
<1>7. HandlesOf(held') = [HandlesOf(held) EXCEPT ![u] = NoPath]
    BY <1>1, <1>5, HandlesSet
<1>8. RecOK(cache'.nodes, recNodes')
    BY <1>1, <1>2, <1>4, GrowsRec
<1>9. /\ pc' \in {"idle", "capture"} /\ fresh' \in [end : Text, done : Nat]
      /\ pc' = "capture" => fresh'.end \in DOMAIN cache'.nodes \cup {Root}
    BY <1>1, <1>2, <1>4, CaptureIs
<1>10. RTypes'
  <2>1. NoHandle \in [ids : Text, handle : Seq(Int)]
    <3>1. <<-1>> \in Seq(Int) /\ Root \in Text
      BY DEF Root, Text
    <3>. QED  BY <3>1 DEF NoHandle
  <2>2. held' \in [Users -> [ids : Text, handle : Seq(Int)]]
    BY <1>1, <1>5, <2>1
  <2>. QED  BY <1>1, <1>2, <1>4, <1>9, <2>2 DEF RTypes
<1>11. HeldOK'
    BY <1>2, <1>6 DEF HeldOK
<1>12. PcOK'
    BY <1>9 DEF PcOK
<1>13. RInv'
    BY <1>4, <1>7, <1>8, <1>10, <1>11, <1>12 DEF RInv
<1>. QED  BY <1>4, <1>6, <1>13 DEF Grows

\* A boundary of the ladder is a path above the end of the handle.
LEMMA CapturePath ==
    ASSUME RInv, pc = "capture", NEW k \in fresh.done + 1..(Len(fresh.end) \div PageSize) - 1,
           NEW p, p = PathTo(fresh.end, k)
    PROVE  /\ p \in Text /\ p # Root /\ Aligned(p) /\ IsPrefix(p, fresh.end) /\ k \in Nat
           /\ fresh.end \in DOMAIN cache.nodes
<1>. DEFINE e == fresh.end  whole == Len(e) \div PageSize
<1>1. /\ fresh \in [end : Text, done : Nat] /\ e \in Text /\ fresh.done \in Nat
      /\ e \in DOMAIN cache.nodes \cup {Root}
    BY DEF RInv, RTypes, PcOK
<1>2. Len(e) \in Nat
    BY <1>1 DEF Text
<1>3. whole \in Nat
    BY <1>2, Division
<1>4. k \in Nat /\ k \in 1 .. whole
    BY <1>1, <1>3
<1>5. p \in PathsOf(e)
    BY <1>4 DEF PathsOf
<1>6. p \in Text /\ p # Root /\ Aligned(p) /\ IsPrefix(p, e)
    BY <1>1, <1>5, PathsAre
<1>7. e # Root
  <2>1. ASSUME e = Root PROVE FALSE
    <3>1. Root \in Text /\ Len(Root) = 0 /\ Len(p) # 0 /\ Len(p) \in Nat /\ Len(p) <= Len(Root)
      BY <1>6, <2>1, RootIs, PrefixLen DEF Text
    <3>. QED  BY <3>1
  <2>. QED  BY <2>1
<1>. QED  BY <1>1, <1>4, <1>6, <1>7

\* A capture leaves everything but the snapshots and the splits they need.
LEMMA AttachAtStep ==
    ASSUME RInv, AttachAt, RadixAssumption
    PROVE  RInv' /\ DOMAIN cache.nodes \subseteq DOMAIN cache'.nodes /\ held' = held
<1>1. pc = "capture" /\ UNCHANGED <<recurrent, clock, freePages, held, pc, want>>
    BY DEF AttachAt
<1>2. PICK k \in fresh.done + 1..(Len(fresh.end) \div PageSize) - 1 :
         LET p  == PathTo(fresh.end, k)
             ns == IF p \in DOMAIN cache.nodes THEN cache.nodes ELSE SplitAt(cache.nodes, p)
         IN  Attach(ns, p, p) /\ fresh' = [fresh EXCEPT !.done = k]
    BY DEF AttachAt
<1>3. PICK p : p = PathTo(fresh.end, k)
    OBVIOUS
<1>4. PICK ns : ns = IF p \in DOMAIN cache.nodes THEN cache.nodes ELSE SplitAt(cache.nodes, p)
    OBVIOUS
<1>5. Attach(ns, p, p) /\ fresh' = [fresh EXCEPT !.done = k]
    BY <1>2, <1>3, <1>4
<1>6. /\ RTypes /\ HeldOK /\ Good(cache, HandlesOf(held)) /\ RecOK(cache.nodes, recNodes)
      /\ fresh \in [end : Text, done : Nat] /\ fresh.end \in Text /\ fresh.done \in Nat
      /\ fresh.end \in DOMAIN cache.nodes \cup {Root}
    BY <1>1 DEF RInv, RTypes, PcOK
<1>7. /\ p \in Text /\ p # Root /\ Aligned(p) /\ IsPrefix(p, fresh.end) /\ k \in Nat
      /\ fresh.end \in DOMAIN cache.nodes
    BY <1>1, <1>3, CapturePath
<1>8. /\ Good([cache EXCEPT !.nodes = ns], HandlesOf(held)) /\ Grows(cache.nodes, ns) /\ p \in DOMAIN ns
  <2>1. CASE p \in DOMAIN cache.nodes
    <3>1. ns = cache.nodes
      BY <1>4, <2>1
    <3>2. [cache EXCEPT !.nodes = ns] = cache
      BY <1>6, <3>1 DEF Good
    <3>. QED  BY <1>6, <2>1, <3>1, <3>2 DEF Grows
  <2>2. CASE p \notin DOMAIN cache.nodes
    <3>1. CanCut(cache.nodes, p)
      BY <1>7, <2>2 DEF CanCut
    <3>2. ns = SplitAt(cache.nodes, p)
      BY <1>4, <2>2
    <3>. QED  BY <1>6, <3>1, <3>2, SplitGood
  <2>. QED  BY <2>1, <2>2
<1>9. RecOK(ns, recNodes)
    BY <1>6, <1>8, GrowsRec
<1>10. Good(cache', HandlesOf(held)) /\ RecOK(cache'.nodes, recNodes') /\ DOMAIN cache'.nodes = DOMAIN ns
    BY <1>5, <1>6, <1>8, <1>9, AttachGood
<1>11. fresh' \in [end : Text, done : Nat] /\ fresh'.end = fresh.end
    BY <1>5, <1>6, <1>7
<1>12. RTypes' /\ HeldOK'
    BY <1>1, <1>6, <1>11 DEF RTypes, HeldOK
<1>13. DOMAIN cache.nodes \subseteq DOMAIN cache'.nodes
    BY <1>8, <1>10 DEF Grows
<1>14. PcOK'
    BY <1>1, <1>7, <1>11, <1>13 DEF PcOK
<1>. QED  BY <1>1, <1>10, <1>12, <1>13, <1>14 DEF RInv

\* The snapshot at the end of the committed path keeps the invariant.
LEMMA AttachEndStep ==
    ASSUME RInv, AttachEnd, RadixAssumption
    PROVE  RInv' /\ DOMAIN cache.nodes \subseteq DOMAIN cache'.nodes /\ held' = held
<1>1. /\ pc = "capture" /\ pc' = "idle" /\ fresh' = NoCapture
      /\ UNCHANGED <<recurrent, clock, freePages, held, want>>
    BY DEF AttachEnd
<1>2. /\ RTypes /\ HeldOK /\ Good(cache, HandlesOf(held)) /\ RecOK(cache.nodes, recNodes)
      /\ fresh.end \in DOMAIN cache.nodes \cup {Root}
    BY <1>1 DEF RInv, PcOK
<1>3. Good(cache', HandlesOf(held)) /\ RecOK(cache'.nodes, recNodes') /\ DOMAIN cache'.nodes = DOMAIN cache.nodes
  <2>1. CASE fresh.end # Root /\ Attach(cache.nodes, fresh.end, fresh.end)
    <3>1. PICK ns : ns = cache.nodes
      OBVIOUS
    <3>2. PICK n \in DOMAIN ns : n = fresh.end
      BY <1>2, <2>1, <3>1
    <3>3. [cache EXCEPT !.nodes = ns] = cache
      BY <1>2, <3>1 DEF Good
    <3>4. Good([cache EXCEPT !.nodes = ns], HandlesOf(held)) /\ RecOK(ns, recNodes) /\ Attach(ns, n, n)
      BY <1>2, <2>1, <3>1, <3>2, <3>3
    <3>. QED  BY <1>2, <3>1, <3>4, AttachGood
  <2>2. CASE UNCHANGED <<cache, recNodes>>
    BY <1>2, <2>2
  <2>. QED  BY <2>1, <2>2 DEF AttachEnd
<1>4. NoCapture \in [end : Text, done : Nat]
  <2>1. Root \in Text
    BY DEF Root, Text
  <2>. QED  BY <2>1 DEF NoCapture
<1>5. RTypes' /\ HeldOK' /\ PcOK'
    BY <1>1, <1>2, <1>4 DEF RTypes, HeldOK, PcOK
<1>. QED  BY <1>1, <1>3, <1>5 DEF RInv

\* evict starts with no more to find than is evictable.
LEMMA BeginEvictStep ==
    ASSUME RInv, BeginEvict, RadixAssumption
    PROVE  RInv' /\ DOMAIN cache.nodes \subseteq DOMAIN cache'.nodes /\ held' = held
<1>1. pc' = "evict" /\ UNCHANGED <<recurrent, cache, recNodes, clock, freePages, held, fresh>>
    BY DEF BeginEvict
<1>2. PICK needed \in 1 .. NumPages : want' = (needed - Cardinality(freePages)) * PageSize /\ want' <= cache.evictable
    BY DEF BeginEvict
<1>3. RTypes /\ Cardinality(freePages) \in Nat
    BY FS_CardinalityType DEF RInv, RTypes
<1>4. needed \in Int /\ PageSize \in Int
    BY PageSizeAssumption DEF RadixAssumption
<1>5. want' \in Int
  <2>1. PICK x \in Int : x = needed - Cardinality(freePages)
    BY <1>3, <1>4
  <2>2. x * PageSize \in Int
    BY <1>4, SMT
  <2>. QED  BY <1>2, <2>1, <2>2
<1>6. RTypes' /\ HeldOK' /\ PcOK'
    BY <1>1, <1>2, <1>3, <1>5 DEF RInv, RTypes, HeldOK, PcOK
<1>. QED  BY <1>1, <1>6 DEF RInv

\* evict ends.
LEMMA EndEvictStep ==
    ASSUME RInv, EndEvict, RadixAssumption
    PROVE  RInv' /\ DOMAIN cache.nodes \subseteq DOMAIN cache'.nodes /\ held' = held
<1>1. pc' = "idle" /\ want' = 0 /\ UNCHANGED <<recurrent, cache, recNodes, clock, freePages, held, fresh>>
    BY DEF EndEvict
<1>2. RTypes' /\ HeldOK' /\ PcOK'
    BY <1>1 DEF RInv, RTypes, HeldOK, PcOK
<1>. QED  BY <1>1, <1>2 DEF RInv

\* A pop that finds a stale entry, and one that finds a leaf to evict.
LEMMA PopStep ==
    ASSUME RInv, PopEntry, RadixAssumption
    PROVE  /\ RInv' /\ held' = held
           /\ \A n \in DOMAIN cache.nodes : n \notin DOMAIN cache'.nodes => Valid(Top) /\ n = Top[2]
<1>1. /\ pc = "evict" /\ UNCHANGED <<recurrent, clock, held, pc, fresh>>
    BY DEF PopEntry
<1>2. PICK popped : popped = [cache EXCEPT !.heap = @ \ {Top}]
    OBVIOUS
<1>3. PICK n : n = Top[2]
    OBVIOUS
<1>4. \/ /\ ~Valid(Top) /\ cache' = popped
         /\ UNCHANGED <<recNodes, freePages, want>>
      \/ /\ Valid(Top)
         /\ cache' = Unlinked(popped, n)
         /\ recNodes' = Lists!Without(recNodes, {n})
         /\ freePages' = freePages \cup ToSet(cache.nodes[n].value)
         /\ want' = want - LengthOf(cache.nodes, n)
    BY <1>2, <1>3 DEF PopEntry
<1>5. /\ RTypes /\ HeldOK /\ Good(cache, HandlesOf(held)) /\ RecOK(cache.nodes, recNodes)
      /\ want <= cache.evictable /\ Tree(cache.nodes) /\ want \in Int
    BY <1>1 DEF RInv, PcOK, Good, RTypes
<1>6. CASE ~Valid(Top) /\ cache' = popped /\ UNCHANGED <<recNodes, freePages, want>>
  <2>1. \A m \in FreeNodes(cache.nodes) : IsLeaf(cache.nodes, m) => Top # <<cache.nodes[m].time, m>>
    BY <1>6 DEF Valid, FreeNodes
  <2>2. Good(cache', HandlesOf(held))
    BY <1>2, <1>5, <1>6, <2>1, PoppedGood
  <2>3. cache'.nodes = cache.nodes /\ cache'.evictable = cache.evictable
    BY <1>2, <1>5, <1>6 DEF Good
  <2>4. RTypes' /\ HeldOK' /\ PcOK'
    BY <1>1, <1>5, <1>6, <2>3 DEF RTypes, HeldOK, PcOK
  <2>5. RInv'
    BY <1>1, <1>5, <1>6, <2>2, <2>3, <2>4 DEF RInv
  <2>. QED  BY <1>1, <2>3, <2>5
<1>7. CASE /\ Valid(Top)
           /\ cache' = Unlinked(popped, n)
           /\ recNodes' = Lists!Without(recNodes, {n})
           /\ freePages' = freePages \cup ToSet(cache.nodes[n].value)
           /\ want' = want - LengthOf(cache.nodes, n)
  <2>1. n \in FreeNodes(cache.nodes) /\ IsLeaf(cache.nodes, n) /\ n \in DOMAIN cache.nodes
    BY <1>3, <1>7 DEF Valid, FreeNodes
  <2>2. /\ Good(cache', HandlesOf(held)) /\ cache'.nodes = Without(cache.nodes, {n})
        /\ cache'.evictable = cache.evictable - LengthOf(cache.nodes, n)
    <3>1. PICK e : e = Top
      OBVIOUS
    <3>2. PICK c : c = cache
      OBVIOUS
    <3>3. Good(c, HandlesOf(held)) /\ Pops(c, popped, n, e)
      BY <1>2, <1>3, <1>5, <2>1, <3>1, <3>2 DEF Pops
    <3>4. Good(Unlinked(popped, n), HandlesOf(held)) /\ Evicts(c, Unlinked(popped, n), n)
      BY <3>3, UnlinkedGood
    <3>. QED  BY <1>7, <3>2, <3>4 DEF Evicts
  <2>3. PICK ns : ns = cache.nodes
    OBVIOUS
  <2>4. Tree(ns) /\ n \in DOMAIN ns /\ IsLeaf(ns, n) /\ RecOK(ns, recNodes)
    BY <1>5, <2>1, <2>3
  <2>5. RecOK(cache'.nodes, recNodes')
    BY <1>7, <2>2, <2>3, <2>4, PrunedRec
  <2>6. DOMAIN cache'.nodes = DOMAIN ns \ {n}
    BY <2>2, <2>3, <2>4, PrunedTree
  <2>7. LengthOf(ns, n) \in Int /\ ns[n].value \in Seq(Nat)
    BY <2>4, NodeIs DEF LengthOf, Node
  <2>8. freePages' \in SUBSET Nat /\ IsFiniteSet(freePages')
    <3>1. PICK v \in Seq(Nat) : v = ns[n].value
      BY <2>7
    <3>2. IsFiniteSet(ToSet(v)) /\ ToSet(v) \subseteq Nat
      BY ToSetFinite
    <3>3. freePages' = freePages \cup ToSet(v) /\ freePages \in SUBSET Nat /\ IsFiniteSet(freePages)
      BY <1>5, <1>7, <2>3, <3>1 DEF RTypes
    <3>. QED  BY <3>2, <3>3, FS_Union
  <2>9. want' \in Int /\ want' <= cache'.evictable
    <3>1. cache.evictable \in Nat
      <4>1. Measured(ns, FreeNodes(ns))
        BY <2>4, TreeMeasured DEF FreeNodes
      <4>2. TotalLength(ns, FreeNodes(ns)) \in Nat
        BY <4>1, TotalFinite
      <4>. QED  BY <1>5, <2>3, <4>2 DEF Good, Sized
    <3>2. want' = want - LengthOf(ns, n) /\ cache'.evictable = cache.evictable - LengthOf(ns, n)
      BY <1>7, <2>2, <2>3
    <3>. QED  BY <1>5, <2>7, <3>1, <3>2
  <2>10. RTypes' /\ HeldOK' /\ PcOK'
    BY <1>1, <1>5, <2>8, <2>9 DEF RTypes, HeldOK, PcOK
  <2>11. RInv'
    BY <1>1, <2>2, <2>5, <2>10 DEF RInv
  <2>. QED  BY <1>1, <1>3, <1>7, <2>3, <2>6, <2>11
<1>. QED  BY <1>4, <1>6, <1>7

----------------------------------------------------------------------------
(* What the invariant says.                                                *)

\* A node hangs from the deepest node above it.
LEMMA ParentIs ==
    ASSUME NEW ns, Tree(ns), NEW n \in DOMAIN ns
    PROVE  ns[n].parent = Deepest(Lineage(ns, n) \ {n})
<1>. DEFINE S == Lineage(ns, n) \ {n}  q == ns[n].parent  d == Deepest(S)
<1>1. /\ n \in Text /\ q \in Text /\ q \in DOMAIN ns \cup {Root} /\ IsPrefix(q, n) /\ q # n
      /\ Len(q) \in Nat /\ Len(n) \in Nat
    BY NodeIs
<1>2. \A m \in S : m \in DOMAIN ns /\ m \in Text /\ m # Root /\ IsPrefix(m, n) /\ Len(m) \in Nat \ {0}
    BY NodeIs DEF Lineage
<1>3. \A m \in S : Len(m) <= Len(q)
    BY <1>2 DEF Tree, Hangs
<1>4. q \in DOMAIN ns => q \in S
    BY <1>1 DEF Lineage
<1>5. S = {} => d = Root
    BY DEF Deepest
<1>. HIDE DEF S, q, d
<1>6. CASE S = {}
    BY <1>1, <1>4, <1>5, <1>6 DEF q, d, S
<1>7. CASE S # {}
  <2>1. d \in S /\ \A m \in S : Len(m) <= Len(d)
    BY <1>1, <1>2, <1>3, <1>7, DeepestIs DEF d
  <2>2. Len(Root) = 0
    BY DEF Root
  <2>3. q \in S
    BY <1>1, <1>2, <1>3, <1>4, <2>1, <2>2
  <2>4. Len(d) <= Len(q) /\ Len(q) <= Len(d) /\ d \in Text /\ IsPrefix(d, n)
    BY <1>2, <1>3, <2>1, <2>3
  <2>5. IsPrefix(d, q)
    BY <1>1, <2>4, PrefixNested DEF Text
  <2>6. d = q
    BY <1>1, <2>4, <2>5, PrefixSame DEF Text
  <2>. QED  BY <2>6 DEF q, d, S
<1>. QED  BY <1>6, <1>7

\* Siblings differ in their first page.
LEMMA SiblingsDiffer ==
    ASSUME NEW ns, Tree(ns), NEW m \in DOMAIN ns, NEW n \in DOMAIN ns, ns[m].parent = ns[n].parent,
           SubSeq(m, 1, Len(ns[m].parent) + PageSize) = SubSeq(n, 1, Len(ns[m].parent) + PageSize)
    PROVE  m = n
<1>. DEFINE b == Len(ns[m].parent)  f == b + PageSize  p == SubSeq(m, 1, f)
<1>1. /\ b \in Nat /\ b % PageSize = 0 /\ PageSize \in Nat \ {0}
      /\ m \in Text /\ Len(m) \in Nat /\ Len(m) % PageSize = 0 /\ b < Len(m)
      /\ n \in Text /\ Len(n) \in Nat /\ Len(n) % PageSize = 0 /\ b < Len(n)
    BY NodeIs, PageSizeAssumption DEF Aligned
<1>2. p = SubSeq(n, 1, f)
    OBVIOUS
<1>. HIDE DEF b
<1>3. ASSUME NEW a \in Nat, a % PageSize = 0, b < a PROVE f \in 0 .. a
  <2>. DEFINE j == (a - b) \div PageSize
  <2>1. j \in Nat /\ j * PageSize = a - b
    <3>1. PICK c \in Nat : c = b
      BY <1>1
    <3>2. c <= a /\ c % PageSize = 0 /\ a % PageSize = 0
      BY <1>1, <1>3, <3>1
    <3>3. (a - c) \div PageSize \in Nat /\ ((a - c) \div PageSize) * PageSize = a - c
      BY <3>2, PagesApart
    <3>. QED  BY <3>1, <3>3
  <2>. HIDE DEF j
  <2>2. j # 0
    <3>1. j = 0 => j * PageSize = 0
      BY <1>1
    <3>. QED  BY <1>1, <1>3, <2>1, <3>1
  <2>3. PageSize <= j * PageSize
    BY <1>1, <2>1, <2>2, SMT
  <2>. QED  BY <1>1, <1>3, <2>1, <2>3
<1>4. f % PageSize = 0 /\ f \in Nat
  <2>. DEFINE i == b \div PageSize
  <2>1. i \in Nat /\ b = i * PageSize + (b % PageSize)
    BY <1>1, Division
  <2>. HIDE DEF i
  <2>2. i * PageSize \in Nat
    BY <2>1, WholePages
  <2>3. f = i * PageSize + PageSize
    BY <1>1, <2>1, <2>2
  <2>4. (i + 1) * PageSize = i * PageSize + PageSize
    BY <1>1, <2>1, SMT
  <2>5. ((i + 1) * PageSize) % PageSize = 0
    BY <2>1, WholePages
  <2>. QED  BY <1>1, <2>2, <2>3, <2>4, <2>5
<1>. HIDE DEF f
<1>5. f \in 0 .. Len(m) /\ f \in 0 .. Len(n)
    BY <1>1, <1>3
<1>6. p \in Text /\ Len(p) = f /\ IsPrefix(p, m) /\ IsPrefix(p, n)
    BY <1>1, <1>2, <1>5, FrontIs DEF Text
<1>. HIDE DEF p
<1>7. Aligned(p) /\ b < Len(p)
    BY <1>1, <1>4, <1>6 DEF Aligned, f
<1>8. Over(ns, m, p) /\ Over(ns, n, p)
    BY <1>6, <1>7 DEF Over, b
<1>. QED  BY <1>6, <1>7, <1>8 DEF Tree, OneOver

\* The invariant says that the tree is well formed.
LEMMA RInvTree ==
    ASSUME RInv
    PROVE  TreeWellFormed
<1>1. Tree(cache.nodes) /\ Sized(cache)
    BY DEF RInv, Good
<1>2. SizesAgree
    BY <1>1 DEF Sized, SizesAgree, FreeNodes
<1>3. PICK ns : ns = cache.nodes
    OBVIOUS
<1>4. Tree(ns)
    BY <1>1, <1>3
<1>5. \A n \in DOMAIN ns :
         /\ n # Root /\ Len(n) % PageSize = 0
         /\ ns[n].parent = Deepest(Lineage(ns, n) \ {n})
         /\ Len(ns[n].value) * PageSize = LengthOf(ns, n)
    BY <1>4, NodeIs, ParentIs DEF Aligned
<1>6. \A m, n \in DOMAIN ns :
         m # n /\ ns[m].parent = ns[n].parent =>
             LET first == Len(ns[m].parent) + PageSize
             IN  SubSeq(m, 1, first) # SubSeq(n, 1, first)
    BY <1>4, SiblingsDiffer
<1>. QED  BY <1>2, <1>3, <1>5, <1>6 DEF TreeWellFormed

\* The invariant says that snapshots match their nodes.
LEMMA RInvSnapshots ==
    ASSUME RInv
    PROVE  SnapshotsMatchNodes
BY InjectiveCard DEF RInv, RecOK, SnapshotsMatchNodes

\* While there is anything unreferenced, some unreferenced node is a leaf: the one
\* with the fewest nodes below it.
LEMMA FreeLeaf ==
    ASSUME NEW ns, Tree(ns), NEW hs, Counts(ns, hs), FreeNodes(ns) # {}
    PROVE  \E n \in FreeNodes(ns) : IsLeaf(ns, n)
<1>. DEFINE Below(n) == {m \in DOMAIN ns : IsPrefix(n, m)}
            Sizes == {Cardinality(Below(n)) : n \in FreeNodes(ns)}
<1>1. ASSUME NEW n PROVE IsFiniteSet(Below(n)) /\ Cardinality(Below(n)) \in Nat
  <2>1. Below(n) \subseteq DOMAIN ns /\ IsFiniteSet(DOMAIN ns)
    BY DEF Tree
  <2>. HIDE DEF Below
  <2>. QED  BY <2>1, FS_Subset, FS_CardinalityType
<1>2. Sizes \in SUBSET Nat /\ Sizes # {}
    BY <1>1
<1>3. PICK l \in Sizes : \A x \in Sizes : l <= x
    BY <1>2, Least
<1>4. PICK n \in FreeNodes(ns) : l = Cardinality(Below(n))
    BY <1>3
<1>5. \A x \in FreeNodes(ns) : Cardinality(Below(n)) <= Cardinality(Below(x))
    BY <1>3, <1>4
<1>. HIDE DEF Sizes
<1>6. ASSUME NEW x \in DOMAIN ns, ns[x].parent = n PROVE FALSE
  <2>1. /\ n \in DOMAIN ns /\ n \in Text /\ x \in Text /\ IsPrefix(n, x) /\ n # x /\ Len(n) \in Nat
        /\ Len(n) < Len(x) /\ Len(x) \in Nat /\ IsPrefix(n, n) /\ x # Root
    BY <1>6, NodeIs DEF FreeNodes
  <2>2. Through(hs, x) = {}
    <3>1. ASSUME NEW u \in Users, IsPrefix(x, hs[u]) PROVE FALSE
      <4>1. hs[u] \in Text
        BY <2>1, <3>1, HandleIs DEF Tree
      <4>2. IsPrefix(n, hs[u])
        BY <2>1, <3>1, <4>1, PrefixTrans DEF Text
      <4>. QED  BY <1>4, <4>2, FreeIsUnheld
    <3>. QED  BY <3>1 DEF Through
  <2>3. x \in FreeNodes(ns)
    BY <2>2, FS_EmptySet DEF Counts, FreeNodes
  <2>4. Below(x) \subseteq Below(n)
    <3>1. ASSUME NEW m \in DOMAIN ns, IsPrefix(x, m) PROVE IsPrefix(n, m)
      <4>1. m \in Text
        BY NodeIs
      <4>. QED  BY <2>1, <3>1, <4>1, PrefixTrans DEF Text
    <3>. QED  BY <3>1
  <2>5. n \in Below(n) /\ n \notin Below(x)
    <3>1. ~IsPrefix(x, n)
      BY <2>1, PrefixLen DEF Text
    <3>. QED  BY <2>1, <3>1
  <2>. HIDE DEF Below
  <2>6. Below(x) \subseteq Below(n) \ {n}
    BY <2>4, <2>5
  <2>7. Cardinality(Below(n) \ {n}) = Cardinality(Below(n)) - 1 /\ IsFiniteSet(Below(n) \ {n})
    BY <1>1, <2>5, FS_RemoveElement
  <2>8. Cardinality(Below(x)) <= Cardinality(Below(n) \ {n})
    BY <2>6, <2>7, FS_Subset
  <2>. QED  BY <1>1, <1>5, <2>3, <2>7, <2>8
<1>. QED  BY <1>6 DEF IsLeaf

\* While evict still wants tokens there is an unreferenced leaf, and the heap
\* has a valid entry for it.
LEMMA RInvEvict ==
    ASSUME RInv
    PROVE  EvictNeverFails
<1>1. SUFFICES ASSUME pc = "evict", want > 0 PROVE \E e \in cache.heap : Valid(e)
    BY DEF EvictNeverFails
<1>2. /\ Tree(cache.nodes) /\ Counts(cache.nodes, HandlesOf(held)) /\ Sized(cache) /\ Heaped(cache)
      /\ want <= cache.evictable /\ want \in Int
    BY <1>1 DEF RInv, Good, PcOK, RTypes
<1>3. PICK ns : ns = cache.nodes
    OBVIOUS
<1>4. FreeNodes(ns) # {}
  <2>1. ASSUME FreeNodes(ns) = {} PROVE FALSE
    <3>1. TotalLength(ns, {}) = 0
      BY TotalNone
    <3>2. cache.evictable = 0
      BY <1>2, <1>3, <2>1, <3>1 DEF Sized
    <3>. QED  BY <1>1, <1>2, <3>2
  <2>. QED  BY <2>1
<1>5. PICK n \in FreeNodes(ns) : IsLeaf(ns, n)
    BY <1>2, <1>3, <1>4, FreeLeaf
<1>6. <<ns[n].time, n>> \in cache.heap
    BY <1>2, <1>3, <1>5 DEF Heaped
<1>7. Valid(<<ns[n].time, n>>)
    BY <1>3, <1>5 DEF Valid, FreeNodes
<1>. QED  BY <1>6, <1>7

\* The top of the heap was used no later than any unreferenced leaf.
LEMMA TopIsOldest ==
    ASSUME RInv, cache.heap # {}, NEW m \in DOMAIN cache.nodes, IsLeaf(cache.nodes, m), cache.nodes[m].ref = 0
    PROVE  Top \in cache.heap /\ Top[1] <= cache.nodes[m].time
<1>. DEFINE Times == {e[1] : e \in cache.heap}
<1>1. /\ cache.heap \subseteq Nat \X Text
      /\ \A n \in FreeNodes(cache.nodes) : IsLeaf(cache.nodes, n) => <<cache.nodes[n].time, n>> \in cache.heap
    BY DEF RInv, Good, Heaped
<1>2. Times \in SUBSET Nat /\ Times # {}
    BY <1>1
<1>3. PICK t \in Times : \A x \in Times : t <= x
    BY <1>2, Least
<1>4. PICK e \in cache.heap : t = e[1]
    BY <1>3
<1>5. \A f \in cache.heap : e[1] <= f[1]
    BY <1>3, <1>4
<1>6. Top \in cache.heap /\ \A f \in cache.heap : Top[1] <= f[1]
    BY <1>4, <1>5 DEF Top
<1>7. <<cache.nodes[m].time, m>> \in cache.heap
    BY <1>1 DEF FreeNodes
<1>8. Top[1] <= <<cache.nodes[m].time, m>>[1]
    BY <1>6, <1>7
<1>. QED  BY <1>6, <1>8

----------------------------------------------------------------------------
(* The theorems.                                                           *)

\* Every action keeps the invariant.
LEMMA RadixStep ==
    ASSUME RInv, [Next]_vars, RadixAssumption
    PROVE  RInv'
<1>1. ASSUME NEW u \in Users, Match(u) PROVE RInv'
    BY <1>1, MatchStep
<1>2. ASSUME NEW u \in Users, CacheReq(u) PROVE RInv'
    BY <1>2, CacheReqStep
<1>3. ASSUME NEW u \in Users, FinishReq(u) PROVE RInv'
    BY <1>3, FinishReqStep
<1>4. CASE AttachAt
    BY <1>4, AttachAtStep
<1>5. CASE AttachEnd
    BY <1>5, AttachEndStep
<1>6. CASE BeginEvict
    BY <1>6, BeginEvictStep
<1>7. CASE PopEntry
    BY <1>7, PopStep
<1>8. CASE EndEvict
    BY <1>8, EndEvictStep
<1>9. CASE UNCHANGED vars
    BY <1>9 DEF vars, RInv, RTypes, HeldOK, PcOK
<1>. QED  BY <1>1, <1>2, <1>3, <1>4, <1>5, <1>6, <1>7, <1>8, <1>9 DEF Next

\* The inductive invariant holds in every reachable state, for every page size,
\* pool, snapshot cap, set of users and set of token streams.
THEOREM RadixInvariant == Spec => []RInv
<1>1. Init => RInv
    BY RadixInit, RadixAssumption
<1>2. RInv /\ [Next]_vars => RInv'
    BY RadixStep, RadixAssumption
<1>. QED  BY <1>1, <1>2, PTL DEF Spec

\* The radix tree stays well formed whatever walks, splits, inserts, locks and
\* evictions do: every node hangs from the nearest one above it by whole pages,
\* siblings differ in their first page, and evictable_size and protected_size
\* are the tokens of the unreferenced and of the referenced nodes.
THEOREM TreeStaysWellFormed == Spec => []TreeWellFormed
<1>1. RInv => TreeWellFormed
    BY RInvTree
<1>. QED  BY <1>1, RadixInvariant, PTL

\* evict never runs out of heap entries before it found the tokens it promised
\* ("Cannot evict enough cache" is never raised).
THEOREM EvictionFindsLeaves == Spec => []EvictNeverFails
<1>1. RInv => EvictNeverFails
    BY RInvEvict
<1>. QED  BY <1>1, RadixInvariant, PTL

\* A recurrent-state snapshot is on the node of the path it was taken for, at
\* most SnapshotCap are live, and the list of live ones is the nodes that
\* carry one.
THEOREM SnapshotsStayOnNodes == Spec => []SnapshotsMatchNodes
<1>1. RInv => SnapshotsMatchNodes
    BY RInvSnapshots
<1>. QED  BY <1>1, RadixInvariant, PTL

\* What one step may evict, and which match it may hand out.
EvictsOldest ==
    \A n \in DOMAIN cache.nodes \ DOMAIN cache'.nodes :
         /\ IsLeaf(cache.nodes, n) /\ cache.nodes[n].ref = 0
         /\ \A m \in DOMAIN cache.nodes :
              IsLeaf(cache.nodes, m) /\ cache.nodes[m].ref = 0 =>
                  cache.nodes[n].time <= cache.nodes[m].time

Restorable ==
    \A u \in Users :
         recurrent /\ held[u] = NoHandle /\ held'[u] # NoHandle /\ held'[u].handle # Root =>
             cache'.nodes[held'[u].handle].rec = held'[u].handle

\* A step evicts only the oldest unreferenced leaf and hands out only
\* restorable matches.
LEMMA RadixActions ==
    ASSUME RInv, [Next]_vars, RadixAssumption
    PROVE  EvictsOldest /\ Restorable
<1>1. ASSUME DOMAIN cache.nodes \subseteq DOMAIN cache'.nodes PROVE EvictsOldest
    BY <1>1 DEF EvictsOldest
<1>2. ASSUME \A v \in Users : held[v] = NoHandle => held'[v] = NoHandle PROVE Restorable
    BY <1>2 DEF Restorable
<1>3. ASSUME NEW u \in Users, Match(u) PROVE EvictsOldest /\ Restorable
  <2>1. /\ DOMAIN cache.nodes \subseteq DOMAIN cache'.nodes
        /\ \A v \in Users \ {u} : held'[v] = held[v]
        /\ recurrent /\ held'[u] # NoHandle /\ held'[u].handle # Root =>
                  cache'.nodes[held'[u].handle].rec = held'[u].handle
    BY <1>3, MatchStep
  <2>. QED  BY <1>1, <2>1 DEF Restorable
<1>4. ASSUME NEW u \in Users, CacheReq(u) PROVE EvictsOldest /\ Restorable
    BY <1>1, <1>2, <1>4, CacheReqStep
<1>5. ASSUME NEW u \in Users, FinishReq(u) PROVE EvictsOldest /\ Restorable
    BY <1>1, <1>2, <1>5, FinishReqStep
<1>6. ASSUME DOMAIN cache.nodes \subseteq DOMAIN cache'.nodes /\ held' = held
      PROVE  EvictsOldest /\ Restorable
    BY <1>1, <1>2, <1>6
<1>7. CASE AttachAt
    BY <1>6, <1>7, AttachAtStep
<1>8. CASE AttachEnd
    BY <1>6, <1>8, AttachEndStep
<1>9. CASE BeginEvict
    BY <1>6, <1>9, BeginEvictStep
<1>10. CASE EndEvict
    BY <1>6, <1>10, EndEvictStep
<1>11. CASE UNCHANGED vars
    BY <1>6, <1>11 DEF vars
<1>12. CASE PopEntry
  <2>1. /\ held' = held
        /\ \A n \in DOMAIN cache.nodes : n \notin DOMAIN cache'.nodes => Valid(Top) /\ n = Top[2]
    BY <1>12, PopStep
  <2>2. cache.heap # {}
    BY <1>12 DEF PopEntry
  <2>3. ASSUME NEW n \in DOMAIN cache.nodes \ DOMAIN cache'.nodes
        PROVE  /\ IsLeaf(cache.nodes, n) /\ cache.nodes[n].ref = 0
               /\ \A m \in DOMAIN cache.nodes :
                    IsLeaf(cache.nodes, m) /\ cache.nodes[m].ref = 0 =>
                        cache.nodes[n].time <= cache.nodes[m].time
    <3>1. IsLeaf(cache.nodes, n) /\ cache.nodes[n].ref = 0 /\ cache.nodes[n].time = Top[1]
      BY <2>1, <2>3 DEF Valid
    <3>. QED  BY <2>2, <3>1, TopIsOldest
  <2>4. EvictsOldest
    BY <2>3 DEF EvictsOldest
  <2>5. Restorable
    BY <1>2, <2>1
  <2>. QED  BY <2>4, <2>5
<1>. QED  BY <1>3, <1>4, <1>5, <1>7, <1>8, <1>9, <1>10, <1>11, <1>12 DEF Next

\* The heap has stale entries, yet a step evicts only an unreferenced leaf that
\* was used no later than any other one.
THEOREM EvictionTakesTheOldest == Spec => EvictsLeastRecentlyUsed
<1>1. RInv /\ [Next]_vars => EvictsOldest
    BY RadixActions, RadixAssumption
<1>2. Spec => [][EvictsOldest]_vars
    BY <1>1, RadixInvariant, PTL DEF Spec
<1>. QED  BY <1>2 DEF EvictsLeastRecentlyUsed, EvictsOldest

\* With recurrent state, match_req never hands out a prefix whose node has no
\* snapshot of exactly that prefix, whatever splits and evictions came before.
THEOREM MatchesStayRestorable == Spec => MatchesAreRestorable
<1>1. RInv /\ [Next]_vars => Restorable
    BY RadixActions, RadixAssumption
<1>2. Spec => [][Restorable]_vars
    BY <1>1, RadixInvariant, PTL DEF Spec
<1>. QED  BY <1>2 DEF MatchesAreRestorable, Restorable

----------------------------------------------------------------------------
(* The tree page by page.                                                  *)

\* The paths the nodes of a tree hold pages for, and the page of each.
PathsIn(ns) == {p \in Text : p # Root /\ Aligned(p) /\ \E n \in DOMAIN ns : IsPrefix(p, n)}

PageIn(ns, p) ==
    LET n == CHOOSE n \in DOMAIN ns : IsPrefix(p, n) /\ Len(ns[n].parent) < Len(p)
    IN  ns[n].value[(Len(p) - Len(ns[n].parent)) \div PageSize]

\* No page has two paths, and none that has one is free.
Unshared(ns, free) ==
    /\ \A p, q \in PathsIn(ns) : PageIn(ns, p) = PageIn(ns, q) => p = q
    /\ \A p \in PathsIn(ns) : PageIn(ns, p) \notin free

\* The two trees hold the same pages for the same paths.
Alike(ns, nt) ==
    /\ PathsIn(nt) = PathsIn(ns)
    /\ \A p \in PathsIn(ns) : PageIn(nt, p) = PageIn(ns, p)

\* The page of a path is one of those of the node over it.
LEMMA NthIs ==
    ASSUME NEW ns, Tree(ns), NEW n \in DOMAIN ns, NEW p \in Text, Aligned(p), Over(ns, n, p)
    PROVE  /\ Nth(ns, n, p) \in 1 .. Len(ns[n].value) /\ Len(ns[n].value) \in Nat
           /\ Nth(ns, n, p) * PageSize = Len(p) - Len(ns[n].parent)
<1>. DEFINE q == ns[n].parent  v == ns[n].value  k == Nth(ns, n, p)
<1>1. /\ n \in Text /\ Len(q) \in Nat /\ Aligned(q) /\ v \in Seq(Nat) /\ Len(v) \in Nat
      /\ Len(v) * PageSize = Len(n) - Len(q)
    BY NodeIs DEF LengthOf, Node
<1>2. IsPrefix(p, n) /\ Len(q) < Len(p)
    BY DEF Over
<1>3. Len(p) \in Nat /\ Len(n) \in Nat /\ Len(p) <= Len(n)
    BY <1>1, <1>2, PrefixLen DEF Text
<1>. HIDE DEF q, v, k
<1>4. k \in Nat /\ k * PageSize = Len(p) - Len(q)
    BY <1>1, <1>2, <1>3, PagesApart DEF Aligned, k, q, Nth
<1>5. k # 0
  <2>1. k = 0 => k * PageSize = 0
    BY PageSizeAssumption, SMT
  <2>. QED  BY <1>1, <1>2, <1>3, <1>4, <2>1
<1>6. k <= Len(v)
    BY <1>1, <1>2, <1>3, <1>4, SamePages
<1>. QED  BY <1>1, <1>4, <1>5, <1>6 DEF q, v, k

\* Each path of the tree has one node over it, and its page there.
LEMMA PageIs ==
    ASSUME NEW ns, Tree(ns), NEW p \in PathsIn(ns)
    PROVE  /\ \E n \in DOMAIN ns : Over(ns, n, p)
           /\ \A n \in DOMAIN ns : Over(ns, n, p) => PageIn(ns, p) = ns[n].value[Nth(ns, n, p)]
<1>1. p \in Text /\ p # Root /\ Aligned(p) /\ \E n \in DOMAIN ns : IsPrefix(p, n)
    BY DEF PathsIn
<1>2. \E n \in DOMAIN ns : Over(ns, n, p)
    BY <1>1, OverExists
<1>. DEFINE m == CHOOSE n \in DOMAIN ns : IsPrefix(p, n) /\ Len(ns[n].parent) < Len(p)
<1>3. m \in DOMAIN ns /\ Over(ns, m, p)
    BY <1>2 DEF Over
<1>4. PageIn(ns, p) = ns[m].value[Nth(ns, m, p)]
    BY DEF PageIn, Nth
<1>. HIDE DEF m
<1>5. \A n \in DOMAIN ns : Over(ns, n, p) => n = m
    BY <1>1, <1>3 DEF Tree, OneOver
<1>. QED  BY <1>2, <1>4, <1>5

\* A node over a path makes it one of the tree.
LEMMA OverIn ==
    ASSUME NEW ns, Tree(ns), NEW n \in DOMAIN ns, NEW p \in Text, Aligned(p), Over(ns, n, p)
    PROVE  p \in PathsIn(ns)
<1>1. Len(ns[n].parent) \in Nat /\ Len(ns[n].parent) < Len(p) /\ IsPrefix(p, n)
    BY NodeIs DEF Over
<1>2. p # Root
    BY <1>1, RootIs DEF Text
<1>. QED  BY <1>1, <1>2 DEF PathsIn

\* Two trees are alike when each path and page of one is in the other.
LEMMA AlikeBy ==
    ASSUME NEW ns, Tree(ns), NEW nt, Tree(nt), PathsIn(nt) \subseteq PathsIn(ns),
           \A p \in PathsIn(ns) : \A n \in DOMAIN ns : Over(ns, n, p) =>
               \E m \in DOMAIN nt : Over(nt, m, p) /\ nt[m].value[Nth(nt, m, p)] = ns[n].value[Nth(ns, n, p)]
    PROVE  Alike(ns, nt)
<1>1. ASSUME NEW p \in PathsIn(ns) PROVE p \in PathsIn(nt) /\ PageIn(nt, p) = PageIn(ns, p)
  <2>1. PICK n \in DOMAIN ns : Over(ns, n, p) /\ PageIn(ns, p) = ns[n].value[Nth(ns, n, p)]
    BY PageIs
  <2>2. PICK m \in DOMAIN nt : Over(nt, m, p) /\ nt[m].value[Nth(nt, m, p)] = ns[n].value[Nth(ns, n, p)]
    BY <2>1
  <2>3. p \in PathsIn(nt)
    BY <2>2, OverIn DEF PathsIn
  <2>4. PageIn(nt, p) = nt[m].value[Nth(nt, m, p)]
    BY <2>2, <2>3, PageIs
  <2>. QED  BY <2>1, <2>2, <2>3, <2>4
<1>. QED  BY <1>1 DEF Alike

\* Trees that are alike one after the other are alike.
LEMMA AlikeTrans ==
    ASSUME NEW a, NEW b, NEW c, Alike(a, b), Alike(b, c)
    PROVE  Alike(a, c)
BY DEF Alike

\* Nodes of the same shape with the same pages.
SamePlaces(ns, nt) ==
    /\ DOMAIN nt = DOMAIN ns
    /\ \A n \in DOMAIN ns : nt[n].parent = ns[n].parent /\ nt[n].value = ns[n].value

\* Counts, times and snapshots are no part of the trie.
LEMMA SameAlike ==
    ASSUME NEW ns, Tree(ns), NEW nt, Tree(nt), SamePlaces(ns, nt)
    PROVE  Alike(ns, nt)
<1>1. PathsIn(nt) \subseteq PathsIn(ns)
    BY DEF PathsIn, SamePlaces
<1>2. \A p \in PathsIn(ns) : \A n \in DOMAIN ns : Over(ns, n, p) =>
           Over(nt, n, p) /\ nt[n].value[Nth(nt, n, p)] = ns[n].value[Nth(ns, n, p)]
    BY DEF SamePlaces, Over, Nth
<1>3. DOMAIN nt = DOMAIN ns
    BY DEF SamePlaces
<1>. QED  BY <1>1, <1>2, <1>3, AlikeBy

\* The pages of a split node go to its two halves, each to its own path.
LEMMA SplitAlike ==
    ASSUME NEW ns, Tree(ns), NEW p, CanCut(ns, p)
    PROVE  Alike(ns, SplitAt(ns, p))
<1>. DEFINE deep == Cut(ns, p)  cut == SplitAt(ns, p)  q == ns[deep].parent  v == ns[deep].value
            k == Nth(ns, deep, p)
<1>1. /\ p \in Text /\ p # Root /\ Aligned(p) /\ deep \in DOMAIN ns /\ Over(ns, deep, p)
      /\ deep # p /\ p \notin DOMAIN ns /\ IsPrefix(p, deep) /\ Len(p) \in Nat /\ Len(q) < Len(p)
    BY CutIs DEF CanCut, Over
<1>2. Halves(ns, p, deep, cut) /\ Tree(cut)
    BY SplitIs, SplitTree
<1>. HIDE DEF deep, cut
<1>3. /\ deep \in Text /\ Len(q) \in Nat /\ v \in Seq(Nat) /\ Len(v) \in Nat /\ Len(deep) \in Nat
    BY <1>1, NodeIs DEF Node
<1>4. k \in 1 .. Len(v) /\ k * PageSize = Len(p) - Len(q)
    BY <1>1, NthIs
<1>. HIDE DEF k, v, q
<1>5. /\ DOMAIN cut = DOMAIN ns \cup {p} /\ \A n \in DOMAIN ns : n # deep => cut[n] = ns[n]
      /\ cut[p].parent = q /\ cut[deep].parent = p
      /\ cut[p].value = SubSeq(v, 1, k) /\ cut[deep].value = SubSeq(v, k + 1, Len(v))
    BY <1>2 DEF Halves, k, v, q
<1>6. PathsIn(cut) \subseteq PathsIn(ns)
  <2>1. ASSUME NEW s \in Text, IsPrefix(s, p) PROVE IsPrefix(s, deep)
    BY <1>1, <1>3, <2>1, PrefixTrans DEF Text
  <2>. QED  BY <1>1, <1>5, <2>1 DEF PathsIn
<1>7. ASSUME NEW s \in PathsIn(ns), NEW n \in DOMAIN ns, Over(ns, n, s)
      PROVE  \E m \in DOMAIN cut : Over(cut, m, s) /\ cut[m].value[Nth(cut, m, s)] = ns[n].value[Nth(ns, n, s)]
  <2>1. s \in Text /\ Aligned(s) /\ Len(s) \in Nat
    BY DEF PathsIn, Text
  <2>2. CASE n # deep
    <3>1. n \in DOMAIN cut /\ cut[n] = ns[n]
      BY <1>5, <2>2
    <3>. QED  BY <1>7, <3>1 DEF Over, Nth
  <2>3. CASE n = deep
    <3>1. IsPrefix(s, deep) /\ Len(q) < Len(s)
      BY <1>7, <2>3 DEF Over, q
    <3>. DEFINE i == Nth(ns, deep, s)
    <3>2. i \in 1 .. Len(v) /\ i * PageSize = Len(s) - Len(q)
      BY <1>1, <1>7, <2>1, <2>3, NthIs DEF q, v
    <3>. HIDE DEF i
    <3>3. CASE Len(s) <= Len(p)
      <4>1. IsPrefix(s, p)
        BY <1>1, <1>3, <2>1, <3>1, <3>3, PrefixNested DEF Text
      <4>2. Over(cut, p, s)
        BY <1>5, <3>1, <4>1 DEF Over
      <4>3. Nth(cut, p, s) = i
        BY <1>5 DEF Nth, i, q
      <4>4. i <= k
        BY <1>3, <1>4, <2>1, <3>2, <3>3, <1>1, SamePages
      <4>5. SubSeq(v, 1, k)[i] = v[i]
        BY <1>3, <1>4, <3>2, <4>4
      <4>. QED  BY <1>5, <2>3, <4>2, <4>3, <4>5 DEF i, v
    <3>4. CASE Len(p) < Len(s)
      <4>1. Over(cut, deep, s) /\ deep \in DOMAIN cut
        BY <1>1, <1>5, <3>1, <3>4 DEF Over
      <4>. DEFINE j == Nth(cut, deep, s)
      <4>2. j \in 1 .. Len(cut[deep].value) /\ j * PageSize = Len(s) - Len(p)
        BY <1>2, <1>5, <2>1, <4>1, NthIs
      <4>. HIDE DEF j
      <4>3. j + k = i
        <5>1. (j + k) * PageSize = i * PageSize
          <6>1. (j + k) * PageSize = j * PageSize + k * PageSize
            BY <1>4, <4>2, PageSizeAssumption, SMT
          <6>. QED  BY <1>1, <1>3, <1>4, <2>1, <3>2, <4>2, <6>1
        <5>2. j + k \in Nat /\ i \in Nat /\ i * PageSize \in Int
          BY <1>4, <3>2, <4>2, PageSizeAssumption, SMT
        <5>. QED  BY <5>1, <5>2, SamePages
      <4>4. SubSeq(v, k + 1, Len(v))[j] = v[i]
        <5>1. PICK a \in Int : a = k + 1
          BY <1>4
        <5>2. PICK b \in Int : b = Len(v)
          BY <1>3
        <5>3. j \in 1 .. b - a + 1 /\ a + j - 1 = i /\ a \in 1 .. b + 1
          BY <1>4, <3>2, <4>2, <4>3, <5>1, <5>2
        <5>4. SubSeq(v, a, b)[j] = v[a + j - 1]
          BY <1>3, <5>2, <5>3
        <5>. QED  BY <5>1, <5>2, <5>3, <5>4
      <4>. QED  BY <1>5, <2>3, <4>1, <4>4 DEF i, j, v
    <3>. QED  BY <1>1, <2>1, <3>3, <3>4
  <2>. QED  BY <2>2, <2>3
<1>8. Alike(ns, cut)
    BY <1>2, <1>6, <1>7, AlikeBy
<1>. QED  BY <1>8 DEF cut

\* A push changes the heap alone.
LEMMA ArmedNodes ==
    ASSUME NEW c, NEW S,
           c = [nodes |-> c.nodes, evictable |-> c.evictable, protected |-> c.protected, heap |-> c.heap]
    PROVE  Armed(c, S).nodes = c.nodes
<1>1. PICK h : Armed(c, S) = [c EXCEPT !.heap = h]
    BY DEF Armed
<1>. QED  BY <1>1

\* A walk moves no page.
LEMMA WalkedAlike ==
    ASSUME NEW c, NEW hs, Good(c, hs), NEW ids \in Text, NEW tic \in Nat
    PROVE  Alike(c.nodes, Walked(c, ids, tic).nodes)
<1>. DEFINE ns == c.nodes
            stop == WalkEnd(ns, ids)
            cut == IF stop \in DOMAIN ns \cup {Root} THEN ns ELSE SplitAt(ns, stop)
            T == Lineage(cut, stop)
            nt == [n \in DOMAIN cut |-> IF n \in T THEN [cut[n] EXCEPT !.time = tic] ELSE cut[n]]
            w == Walked(c, ids, tic)
<1>1. w = Armed([c EXCEPT !.nodes = nt], T)
    BY DEF Walked
<1>2. Tree(ns) /\ DOMAIN ns \subseteq Text /\ Tree(w.nodes)
      /\ c = [nodes |-> c.nodes, evictable |-> c.evictable, protected |-> c.protected, heap |-> c.heap]
    BY WalkedGood DEF Good, Tree
<1>3. /\ stop \in Text /\ Aligned(stop)
      /\ stop # Root => \E n \in DOMAIN ns : IsPrefix(stop, n)
  <2>. HIDE DEF ns
  <2>. QED  BY <1>2, WalkIs
<1>. HIDE DEF w, T, stop, ns
<1>4. Tree(cut) /\ Alike(ns, cut)
  <2>1. CASE stop \in DOMAIN ns \cup {Root}
    BY <1>2, <2>1 DEF Alike
  <2>2. CASE stop \notin DOMAIN ns \cup {Root}
    <3>1. CanCut(ns, stop)
      BY <1>3, <2>2 DEF CanCut
    <3>. QED  BY <1>2, <2>2, <3>1, SplitTree, SplitAlike
  <2>. QED  BY <2>1, <2>2
<1>. HIDE DEF cut
<1>5. SamePlaces(cut, nt)
  <2>1. ASSUME NEW n \in DOMAIN cut PROVE nt[n].parent = cut[n].parent /\ nt[n].value = cut[n].value
    <3>1. cut[n] \in Node
      BY <1>4, NodeIs
    <3>. QED  BY <3>1 DEF Node
  <2>. QED  BY <2>1 DEF SamePlaces
<1>. HIDE DEF nt
<1>6. w.nodes = nt
  <2>1. PICK b : b = [c EXCEPT !.nodes = nt]
    OBVIOUS
  <2>2. /\ b.nodes = nt /\ b = [nodes |-> b.nodes, evictable |-> b.evictable, protected |-> b.protected, heap |-> b.heap]
    BY <1>2, <2>1
  <2>. QED  BY <1>1, <2>1, <2>2, ArmedNodes
<1>7. Alike(cut, nt)
    BY <1>2, <1>4, <1>5, <1>6, SameAlike
<1>8. Alike(ns, w.nodes)
    BY <1>4, <1>6, <1>7, AlikeTrans
<1>. QED  BY <1>8 DEF w, ns

\* Neither does a lock or an unlock.
LEMMA CountedAlike ==
    ASSUME NEW ns, Tree(ns), NEW S, NEW d, Tree(Counted(ns, S, d))
    PROVE  Alike(ns, Counted(ns, S, d))
<1>1. ASSUME NEW n \in DOMAIN ns
      PROVE  Counted(ns, S, d)[n].parent = ns[n].parent /\ Counted(ns, S, d)[n].value = ns[n].value
  <2>1. ns[n] \in Node
    BY NodeIs
  <2>. QED  BY <2>1 DEF Node, Counted
<1>2. DOMAIN Counted(ns, S, d) = DOMAIN ns
    BY DEF Counted
<1>. QED  BY <1>1, <1>2, SameAlike DEF SamePlaces

\* The lock of a handle changes counts alone.
LEMMA LockedAlike ==
    ASSUME NEW c, NEW hs, Good(c, hs), NEW h, NEW gs, Good(Locked(c, h), gs)
    PROVE  Alike(c.nodes, Locked(c, h).nodes)
<1>. DEFINE ns == c.nodes  up == Lineage(ns, h)
<1>1. PICK e, p : Locked(c, h) = [c EXCEPT !.nodes = Counted(@, up, 1), !.evictable = e, !.protected = p]
    BY DEF Locked
<1>2. Tree(ns) /\ Tree(Locked(c, h).nodes)
      /\ c = [nodes |-> c.nodes, evictable |-> c.evictable, protected |-> c.protected, heap |-> c.heap]
    BY DEF Good
<1>3. Locked(c, h).nodes = Counted(ns, up, 1)
    BY <1>1, <1>2
<1>. HIDE DEF up, ns
<1>4. Alike(ns, Counted(ns, up, 1))
    BY <1>2, <1>3, CountedAlike
<1>. QED  BY <1>3, <1>4 DEF ns

\* So does its unlock.
LEMMA UnlockedAlike ==
    ASSUME NEW c, NEW hs, Good(c, hs), NEW h, NEW gs, Good(Unlocked(c, h), gs)
    PROVE  Alike(c.nodes, Unlocked(c, h).nodes)
<1>. DEFINE ns == c.nodes  up == Lineage(ns, h)
<1>1. PICK e, p, F : Unlocked(c, h) = Armed([c EXCEPT !.nodes = Counted(@, up, -1), !.evictable = e, !.protected = p], F)
    BY DEF Unlocked
<1>2. Tree(ns) /\ Tree(Unlocked(c, h).nodes)
      /\ c = [nodes |-> c.nodes, evictable |-> c.evictable, protected |-> c.protected, heap |-> c.heap]
    BY DEF Good
<1>3. Unlocked(c, h).nodes = Counted(ns, up, -1)
  <2>1. PICK m : m = Counted(ns, up, -1)
    OBVIOUS
  <2>2. PICK b : b = [c EXCEPT !.nodes = m, !.evictable = e, !.protected = p]
    OBVIOUS
  <2>3. /\ b.nodes = m
        /\ b = [nodes |-> b.nodes, evictable |-> b.evictable, protected |-> b.protected, heap |-> b.heap]
    BY <1>2, <2>2
  <2>4. Unlocked(c, h) = Armed(b, F)
    BY <1>1, <2>1, <2>2
  <2>. QED  BY <2>1, <2>3, <2>4, ArmedNodes
<1>. HIDE DEF up, ns
<1>4. Alike(ns, Counted(ns, up, -1))
    BY <1>2, <1>3, CountedAlike
<1>. QED  BY <1>3, <1>4 DEF ns

\* The tree gained the paths of ids, and for those it lacked pages of the list, each once.
Gains(ns, nt, ids, pages) ==
    /\ PathsIn(nt) = PathsIn(ns) \cup PathsOf(ids)
    /\ \A p \in PathsIn(ns) : PageIn(nt, p) = PageIn(ns, p)
    /\ \A p \in PathsOf(ids) \ PathsIn(ns) : PageIn(nt, p) \in ToSet(pages)
    /\ IsInjective(pages) =>
           \A p, q \in PathsOf(ids) \ PathsIn(ns) : PageIn(nt, p) = PageIn(nt, q) => p = q

\* A grafted leaf brings the pages of the paths below the place where the walk ended.
LEMMA GraftGains ==
    ASSUME NEW ns, Tree(ns), NEW ids \in Text, Aligned(ids), NEW stop, Stops(ns, ids, stop), stop # ids,
           NEW nt, Grafted(ns, ids, stop, nt), NEW pages, nt[ids].value = pages
    PROVE  Gains(ns, nt, ids, pages)
<1>1. /\ Tree(nt) /\ ids \notin DOMAIN ns /\ ids # Root
      /\ Len(stop) \in Nat /\ Len(stop) < Len(ids) /\ Len(ids) \in Nat
    BY LeafTree
<1>2. /\ DOMAIN nt = DOMAIN ns \cup {ids} /\ \A n \in DOMAIN ns : nt[n] = ns[n]
      /\ nt[ids].parent = stop
    BY <1>1 DEF Grafted
<1>3. PathsOf(ids) = {p \in Text : p # Root /\ Aligned(p) /\ IsPrefix(p, ids)}
    BY PathsAre
<1>4. PathsIn(nt) = PathsIn(ns) \cup PathsOf(ids)
    BY <1>2, <1>3 DEF PathsIn
<1>5. ASSUME NEW p \in PathsIn(ns) PROVE PageIn(nt, p) = PageIn(ns, p)
  <2>1. PICK n \in DOMAIN ns : Over(ns, n, p) /\ PageIn(ns, p) = ns[n].value[Nth(ns, n, p)]
    BY PageIs
  <2>2. Over(nt, n, p) /\ Nth(nt, n, p) = Nth(ns, n, p) /\ nt[n] = ns[n] /\ n \in DOMAIN nt
    BY <1>2, <2>1 DEF Over, Nth
  <2>. QED  BY <1>1, <1>4, <2>1, <2>2, PageIs
<1>6. ASSUME NEW p \in PathsOf(ids) \ PathsIn(ns)
      PROVE  /\ PageIn(nt, p) = pages[Nth(nt, ids, p)] /\ Nth(nt, ids, p) \in 1 .. Len(pages)
             /\ Nth(nt, ids, p) * PageSize = Len(p) - Len(stop)
             /\ p \in Text /\ IsPrefix(p, ids) /\ Len(p) \in Nat
  <2>1. p \in Text /\ p # Root /\ Aligned(p) /\ IsPrefix(p, ids) /\ Len(p) \in Nat
    BY <1>3 DEF Text
  <2>2. PICK n \in DOMAIN nt : Over(nt, n, p) /\ PageIn(nt, p) = nt[n].value[Nth(nt, n, p)]
    BY <1>1, <1>4, PageIs
  <2>3. n = ids
    BY <1>2, <2>1, <2>2 DEF Over, PathsIn
  <2>4. Over(nt, ids, p) /\ PageIn(nt, p) = pages[Nth(nt, ids, p)]
    BY <2>2, <2>3
  <2>5. Nth(nt, ids, p) \in 1 .. Len(pages) /\ Nth(nt, ids, p) * PageSize = Len(p) - Len(stop)
    BY <1>1, <1>2, <2>1, <2>4, NthIs
  <2>. QED  BY <2>1, <2>4, <2>5
<1>7. \A p \in PathsOf(ids) \ PathsIn(ns) : PageIn(nt, p) \in ToSet(pages)
    BY <1>6 DEF ToSet
<1>8. ASSUME IsInjective(pages), NEW p \in PathsOf(ids) \ PathsIn(ns), NEW q \in PathsOf(ids) \ PathsIn(ns),
             PageIn(nt, p) = PageIn(nt, q)
      PROVE  p = q
  <2>1. /\ pages[Nth(nt, ids, p)] = pages[Nth(nt, ids, q)]
        /\ Nth(nt, ids, p) \in 1 .. Len(pages) /\ Nth(nt, ids, q) \in 1 .. Len(pages)
    BY <1>6, <1>8
  <2>2. Nth(nt, ids, p) = Nth(nt, ids, q)
    BY <1>8, <2>1 DEF IsInjective, Grafted, Node
  <2>3. Len(p) = Len(q)
    BY <1>1, <1>6, <2>2
  <2>4. IsPrefix(p, q)
    BY <1>6, <2>3, PrefixNested DEF Text
  <2>. QED  BY <1>6, <2>3, <2>4, PrefixSame DEF Text
<1>. QED  BY <1>4, <1>5, <1>7, <1>8 DEF Gains

\* Where the walk ends at a node of ids itself there is nothing to gain.
LEMMA NoGains ==
    ASSUME NEW ns, NEW ids \in Text, ids \in DOMAIN ns \cup {Root}, NEW pages
    PROVE  Gains(ns, ns, ids, pages)
<1>1. PathsOf(ids) = {p \in Text : p # Root /\ Aligned(p) /\ IsPrefix(p, ids)}
    BY PathsAre
<1>2. ASSUME NEW p \in PathsOf(ids) PROVE ids # Root
  <2>1. ASSUME ids = Root PROVE FALSE
    <3>1. Len(p) \in Nat /\ Len(p) <= Len(Root) /\ Len(Root) = 0 /\ p # Root /\ p \in Text
      BY <1>1, <2>1, RootIs, PrefixLen DEF Text
    <3>. QED  BY <3>1, RootIs DEF Text
  <2>. QED  BY <2>1
<1>3. PathsOf(ids) \subseteq PathsIn(ns)
    BY <1>1, <1>2 DEF PathsIn
<1>. QED  BY <1>3 DEF Gains

\* Changes that move no page, before and after.
LEMMA GainsAlike ==
    ASSUME NEW a, NEW b, NEW c, NEW d, NEW ids, NEW pages,
           Alike(a, b), Gains(b, c, ids, pages), Alike(c, d)
    PROVE  Gains(a, d, ids, pages)
BY DEF Alike, Gains

\* insert_prefix brings pages for the paths that were missing.
LEMMA InsertedGains ==
    ASSUME NEW c, NEW hs, Good(c, hs), NEW ids \in Text, Aligned(ids), NEW tic \in Nat,
           NEW pages \in Seq(Nat), Len(pages) * PageSize = Len(ids) - Len(WalkEnd(c.nodes, ids))
    PROVE  Gains(c.nodes, Inserted(c, ids, pages, tic).nodes, ids, pages)
<1>. DEFINE w == Walked(c, ids, tic)
            stop == WalkEnd(c.nodes, ids)
            leaf == [parent |-> stop, value |-> pages, ref |-> 0, time |-> tic, rec |-> NoState]
            nt == [n \in DOMAIN w.nodes \cup {ids} |-> IF n = ids THEN leaf ELSE w.nodes[n]]
            more == Len(ids) - Len(stop)
            x == Inserted(c, ids, pages, tic)
<1>1. x = IF stop = ids THEN w ELSE Armed([w EXCEPT !.nodes = nt, !.evictable = @ + more], {ids})
    BY DEF Inserted
<1>2. Good(w, hs) /\ Stops(w.nodes, ids, stop) /\ Alike(c.nodes, w.nodes)
    BY WalkedGood, WalkedAlike
<1>3. Len(pages) * PageSize = more
    OBVIOUS
<1>. HIDE DEF x, w, stop
<1>4. PICK ns : ns = w.nodes
    OBVIOUS
<1>5. /\ Tree(ns) /\ Stops(ns, ids, stop)
      /\ w = [nodes |-> w.nodes, evictable |-> w.evictable, protected |-> w.protected, heap |-> w.heap]
    BY <1>2, <1>4 DEF Good
<1>6. Gains(ns, x.nodes, ids, pages)
  <2>1. CASE stop = ids
    <3>1. ids \in DOMAIN ns \cup {Root}
      BY <1>5, <2>1 DEF Stops
    <3>. QED  BY <1>1, <1>4, <2>1, <3>1, NoGains
  <2>2. CASE stop # ids
    <3>1. leaf \in Node /\ leaf.parent = stop /\ leaf.value = pages
      <4>1. stop \in Text /\ NoState \in Text
        BY <1>5, RootIs DEF Stops, NoState, Root, Text
      <4>. QED  BY <4>1 DEF Node
    <3>. HIDE DEF leaf
    <3>2. nt = [n \in DOMAIN ns \cup {ids} |-> IF n = ids THEN leaf ELSE ns[n]]
      BY <1>4
    <3>3. PICK mt : mt = nt
      OBVIOUS
    <3>4. mt \in [DOMAIN ns \cup {ids} -> Node] /\ \A n \in DOMAIN ns \ {ids} : mt[n] = ns[n]
      <4>1. \A n \in DOMAIN ns : ns[n] \in Node
        BY <1>5, NodeIs
      <4>. QED  BY <3>1, <3>2, <3>3, <4>1
    <3>5. mt[ids] = leaf
      BY <3>2, <3>3
    <3>. HIDE DEF nt
    <3>6. mt[ids].parent = stop /\ Len(mt[ids].value) * PageSize = Len(ids) - Len(stop) /\ mt[ids].value = pages
      BY <1>3, <3>1, <3>5
    <3>7. Gains(ns, mt, ids, pages)
      <4>1. Grafted(ns, ids, stop, mt)
        BY <3>4, <3>6 DEF Grafted
      <4>. QED  BY <1>5, <2>2, <3>6, <4>1, GraftGains
    <3>8. x.nodes = mt
      <4>1. PICK e : e = w.evictable + more
        OBVIOUS
      <4>2. PICK b : b = [w EXCEPT !.nodes = mt, !.evictable = e]
        OBVIOUS
      <4>3. /\ b.nodes = mt
            /\ b = [nodes |-> b.nodes, evictable |-> b.evictable, protected |-> b.protected, heap |-> b.heap]
        BY <1>5, <4>2
      <4>4. x = Armed(b, {ids})
        BY <1>1, <1>5, <2>2, <3>3, <4>1, <4>2
      <4>. QED  BY <4>3, <4>4, ArmedNodes
    <3>. QED  BY <3>7, <3>8
  <2>. QED  BY <2>1, <2>2
<1>7. Alike(x.nodes, x.nodes)
    BY DEF Alike
<1>8. Gains(c.nodes, x.nodes, ids, pages)
    BY <1>2, <1>4, <1>6, <1>7, GainsAlike
<1>. QED  BY <1>8 DEF x

\* A handle goes through a path when it goes through the node over it.
LEMMA PathRef ==
    ASSUME NEW ns, Tree(ns), NEW hs, Counts(ns, hs), NEW p \in PathsIn(ns), NEW n \in DOMAIN ns, Over(ns, n, p)
    PROVE  ns[n].ref = Cardinality(Through(hs, p))
<1>1. p \in Text /\ p # Root /\ Aligned(p) /\ n \in Text /\ n # Root /\ IsPrefix(p, n)
    BY NodeIs DEF PathsIn, Over
<1>2. ASSUME NEW u \in Users, IsPrefix(p, hs[u]) PROVE IsPrefix(n, hs[u])
  <2>1. hs[u] \in DOMAIN ns
    BY <1>1, <1>2, HandleIs
  <2>2. PICK m \in DOMAIN ns : Over(ns, m, p) /\ IsPrefix(m, hs[u])
    BY <1>1, <1>2, <2>1, OverExists
  <2>3. m = n
    BY <1>1, <2>2 DEF Tree, OneOver
  <2>. QED  BY <2>2, <2>3
<1>3. ASSUME NEW u \in Users, IsPrefix(n, hs[u]) PROVE IsPrefix(p, hs[u])
  <2>1. hs[u] \in DOMAIN ns
    BY <1>1, <1>3, HandleIs
  <2>2. hs[u] \in Text
    BY <2>1, NodeIs
  <2>. QED  BY <1>1, <1>3, <2>2, PrefixTrans DEF Text
<1>4. Through(hs, n) = Through(hs, p)
    BY <1>2, <1>3 DEF Through
<1>. QED  BY <1>4 DEF Counts

\* Below a leaf there is no node.
LEMMA LeafIs ==
    ASSUME NEW ns, Tree(ns), NEW n \in DOMAIN ns, IsLeaf(ns, n), NEW x \in DOMAIN ns, IsPrefix(n, x)
    PROVE  x = n
<1>. DEFINE Below == {m \in DOMAIN ns : IsPrefix(n, m) /\ m # n}
            Lens == {Len(m) : m \in Below}
<1>1. SUFFICES ASSUME Below # {} PROVE FALSE
    OBVIOUS
<1>2. Lens \in SUBSET Nat /\ Lens # {}
    BY <1>1, NodeIs
<1>3. PICK l \in Lens : \A k \in Lens : l <= k
    BY <1>2, Least
<1>4. PICK m \in Below : l = Len(m)
    BY <1>3
<1>5. \A k \in Below : Len(m) <= Len(k)
    BY <1>3, <1>4
<1>6. m \in DOMAIN ns /\ IsPrefix(n, m) /\ m # n
    BY <1>4
<1>. DEFINE q == ns[m].parent
<1>7. /\ q \in Text /\ q \in DOMAIN ns \cup {Root} /\ IsPrefix(q, m) /\ Len(q) < Len(m) /\ Len(q) \in Nat
      /\ m \in Text /\ n \in Text /\ Len(n) \in Nat \ {0} /\ Len(m) \in Nat
    BY <1>6, NodeIs
<1>8. Len(n) <= Len(q)
    BY <1>6 DEF Tree, Hangs
<1>9. q # n
    BY <1>6 DEF IsLeaf
<1>. HIDE DEF q, Lens
<1>10. IsPrefix(n, q)
    BY <1>6, <1>7, <1>8, PrefixNested DEF Text
<1>11. q # Root
    BY <1>7, <1>8, RootIs DEF Text
<1>12. q \in Below
    BY <1>7, <1>9, <1>10, <1>11
<1>. QED  BY <1>5, <1>7, <1>12

\* The paths whose pages node n holds.
PathsAt(ns, n) == {p \in PathsIn(ns) : Over(ns, n, p)}

\* Without an unreferenced leaf, the trie lacks the leaf's pages, and no more.
LEMMA PrunedPages ==
    ASSUME NEW ns, Tree(ns), NEW n \in DOMAIN ns, IsLeaf(ns, n)
    PROVE  /\ PathsIn(Without(ns, {n})) = PathsIn(ns) \ PathsAt(ns, n)
           /\ \A p \in PathsIn(ns) \ PathsAt(ns, n) : PageIn(Without(ns, {n}), p) = PageIn(ns, p)
<1>. DEFINE nt == Without(ns, {n})
<1>1. Tree(nt) /\ DOMAIN nt = DOMAIN ns \ {n} /\ \A m \in DOMAIN ns \ {n} : nt[m] = ns[m]
    BY PrunedTree
<1>. HIDE DEF nt
<1>2. ASSUME NEW p \in PathsIn(nt) PROVE p \in PathsIn(ns) /\ ~Over(ns, n, p)
  <2>1. p \in Text /\ p # Root /\ Aligned(p)
    BY DEF PathsIn
  <2>2. PICK m \in DOMAIN nt : IsPrefix(p, m)
    BY DEF PathsIn
  <2>3. m \in DOMAIN ns /\ m # n
    BY <1>1
  <2>4. p \in PathsIn(ns)
    BY <2>1, <2>2, <2>3 DEF PathsIn
  <2>5. ASSUME Over(ns, n, p) PROVE FALSE
    <3>1. PICK y \in DOMAIN ns : Over(ns, y, p) /\ IsPrefix(y, m)
      BY <2>1, <2>2, <2>3, OverExists
    <3>2. y = n
      BY <2>1, <2>5, <3>1 DEF Tree, OneOver
    <3>. QED  BY <2>3, <3>1, <3>2, LeafIs
  <2>. QED  BY <2>4, <2>5
<1>3. ASSUME NEW p \in PathsIn(ns), ~Over(ns, n, p)
      PROVE  p \in PathsIn(nt) /\ PageIn(nt, p) = PageIn(ns, p)
  <2>1. PICK m \in DOMAIN ns : Over(ns, m, p) /\ PageIn(ns, p) = ns[m].value[Nth(ns, m, p)]
    BY PageIs
  <2>2. m \in DOMAIN nt /\ nt[m] = ns[m]
    BY <1>1, <1>3, <2>1
  <2>3. Over(nt, m, p) /\ Nth(nt, m, p) = Nth(ns, m, p)
    BY <2>1, <2>2 DEF Over, Nth
  <2>4. p \in PathsIn(nt)
    BY <1>1, <2>2, <2>3, OverIn DEF PathsIn
  <2>. QED  BY <1>1, <2>1, <2>2, <2>3, <2>4, PageIs
<1>. QED  BY <1>2, <1>3 DEF nt, PathsAt

\* A node's list is the pages of its paths.
LEMMA ValueIs ==
    ASSUME NEW ns, Tree(ns), NEW n \in DOMAIN ns
    PROVE  ToSet(ns[n].value) = {PageIn(ns, p) : p \in PathsAt(ns, n)}
<1>. DEFINE v == ns[n].value  q == ns[n].parent
<1>1. /\ n \in Text /\ Len(n) \in Nat /\ Aligned(n) /\ Len(q) \in Nat /\ Aligned(q) /\ Len(q) < Len(n)
      /\ v \in Seq(Nat) /\ Len(v) \in Nat /\ Len(v) * PageSize = Len(n) - Len(q)
    BY NodeIs DEF LengthOf, Node
<1>2. ASSUME NEW p \in PathsAt(ns, n) PROVE PageIn(ns, p) \in ToSet(v)
  <2>1. p \in PathsIn(ns) /\ Over(ns, n, p) /\ p \in Text /\ Aligned(p)
    BY DEF PathsAt, PathsIn
  <2>2. PageIn(ns, p) = v[Nth(ns, n, p)] /\ Nth(ns, n, p) \in 1 .. Len(v)
    BY <2>1, PageIs, NthIs
  <2>. QED  BY <1>1, <2>2 DEF ToSet
<1>. HIDE DEF v, q
<1>3. ASSUME NEW i \in 1 .. Len(v) PROVE \E p \in PathsAt(ns, n) : PageIn(ns, p) = v[i]
  <2>0. PICK a \in Nat : a = Len(q) \div PageSize /\ Len(q) = a * PageSize
    <3>1. PICK b : b = Len(q)
      OBVIOUS
    <3>2. PICK a \in Nat : a = b \div PageSize /\ b = a * PageSize + (b % PageSize)
      BY <1>1, <3>1, Division
    <3>3. b % PageSize = 0 /\ a * PageSize \in Nat
      BY <1>1, <3>1, WholePages DEF Aligned
    <3>. QED  BY <3>1, <3>2, <3>3
  <2>. DEFINE k == a + i  p == SubSeq(n, 1, k * PageSize)
  <2>1. k \in Nat /\ i \in Nat /\ i # 0
    BY <1>1
  <2>2. k * PageSize = a * PageSize + i * PageSize /\ i * PageSize \in Nat /\ k * PageSize \in Nat
    BY <2>0, <2>1, PageSizeAssumption, SMT
  <2>3. i * PageSize <= Len(v) * PageSize
    BY <1>1, <2>1, PageSizeAssumption, SMT
  <2>4. k * PageSize \in 0 .. Len(n) /\ (k * PageSize) % PageSize = 0
    <3>1. PICK x, y, z, w \in Int : x = k * PageSize /\ y = a * PageSize /\ z = i * PageSize /\ w = Len(v) * PageSize
      BY <1>1, <2>0, <2>2
    <3>2. x \in Nat /\ x = y + z /\ z <= w /\ w = Len(n) - Len(q) /\ Len(q) = y
      BY <1>1, <2>0, <2>2, <2>3, <3>1
    <3>3. x <= Len(n)
      BY <1>1, <3>2
    <3>4. (k * PageSize) % PageSize = 0
      BY <2>1, WholePages
    <3>. QED  BY <1>1, <3>1, <3>2, <3>3, <3>4
  <2>5. 1 * PageSize <= i * PageSize /\ 1 * PageSize = PageSize
    BY <1>1, <2>1, PageSizeAssumption, SMT
  <2>6. p \in Text /\ Len(p) = k * PageSize /\ IsPrefix(p, n)
    BY <1>1, <2>4, FrontIs DEF Text
  <2>. HIDE DEF k, p
  <2>7. Aligned(p) /\ Len(q) < Len(p)
    <3>1. Aligned(p)
      BY <2>4, <2>6 DEF Aligned
    <3>2. PICK x, y, z \in Int : x = k * PageSize /\ y = a * PageSize /\ z = i * PageSize
      BY <1>1, <2>0, <2>2
    <3>3. Len(p) = x /\ Len(q) = y /\ x = y + z /\ PageSize <= z
      BY <2>0, <2>2, <2>5, <2>6, <3>2
    <3>4. PageSize \in Nat \ {0}
      BY PageSizeAssumption
    <3>. QED  BY <3>1, <3>2, <3>3, <3>4
  <2>8. Over(ns, n, p) /\ p \in PathsIn(ns)
    BY <2>6, <2>7, OverIn DEF Over, q
  <2>9. Nth(ns, n, p) * PageSize = i * PageSize /\ Nth(ns, n, p) \in Nat
    <3>1. Nth(ns, n, p) \in 1 .. Len(v) /\ Nth(ns, n, p) * PageSize = Len(p) - Len(q)
      BY <2>6, <2>7, <2>8, NthIs DEF v, q
    <3>. QED  BY <1>1, <2>0, <2>2, <2>6, <3>1
  <2>10. Nth(ns, n, p) = i
    BY <2>1, <2>2, <2>9, SamePages
  <2>. QED  BY <2>8, <2>10, PageIs DEF PathsAt, v
<1>4. ToSet(v) \subseteq {PageIn(ns, p) : p \in PathsAt(ns, n)}
    BY <1>1, <1>3 DEF ToSet
<1>. QED  BY <1>2, <1>4 DEF v

\* What PageTrie sees of the nodes and of the handles.
TreeOf(ns) == [p \in PathsIn(ns) |-> PageIn(ns, p)]
RefsOf(ns, hs) == [p \in PathsIn(ns) |-> Cardinality(Through(hs, p))]

\* The handles are finitely many.
Handles(hs) == (\E D : hs \in [Users -> D]) /\ IsFiniteSet({v \in Users : hs[v] # NoPath})

\* Which paths of the tree a handle goes through.
LEMMA OnHandle ==
    ASSUME NEW ns, NEW p \in PathsIn(ns), NEW h \in Text
    PROVE  p \in PathsOf(h) <=> IsPrefix(p, h)
<1>1. PathsOf(h) = {q \in Text : q # Root /\ Aligned(q) /\ IsPrefix(q, h)}
    BY PathsAre
<1>. QED  BY <1>1 DEF PathsIn

\* A new handle counts once on each of its paths.
LEMMA LockRefs ==
    ASSUME NEW ns, NEW hs, Handles(hs), NEW u \in Users, hs[u] = NoPath, NEW h \in Text
    PROVE  RefsOf(ns, [hs EXCEPT ![u] = h]) = Lock(RefsOf(ns, hs), h)
<1>. DEFINE gs == [hs EXCEPT ![u] = h]  r == RefsOf(ns, hs)
<1>1. ASSUME NEW p \in PathsIn(ns)
      PROVE  Cardinality(Through(gs, p)) = IF p \in PathsOf(h) THEN r[p] + 1 ELSE r[p]
  <2>1. p \in Text /\ p # Root
    BY DEF PathsIn
  <2>2. PICK D : hs \in [Users -> D]
    BY DEF Handles
  <2>3. IsFiniteSet({v \in Users : hs[v] # NoPath})
    BY DEF Handles
  <2>. HIDE DEF r
  <2>4. /\ Through(gs, p) = IF IsPrefix(p, h) THEN Through(hs, p) \cup {u} ELSE Through(hs, p) \ {u}
        /\ IsFiniteSet(Through(hs, p)) /\ Cardinality(Through(hs, p)) \in Nat
    BY <2>1, <2>2, <2>3, ThroughIs, ZenonT(60)
  <2>5. u \notin Through(hs, p)
    BY <2>1, NoneThrough DEF Through
  <2>6. Cardinality(Through(hs, p) \cup {u}) = Cardinality(Through(hs, p)) + 1
    BY <2>4, <2>5, FS_AddElement
  <2>7. Through(hs, p) \ {u} = Through(hs, p)
    BY <2>5
  <2>8. r[p] = Cardinality(Through(hs, p))
    BY DEF RefsOf, r
  <2>. QED  BY <2>4, <2>6, <2>7, <2>8, OnHandle
<1>2. DOMAIN r = PathsIn(ns)
    BY DEF RefsOf
<1>. HIDE DEF r, gs
<1>3. RefsOf(ns, gs) = [p \in DOMAIN r |-> IF p \in PathsOf(h) THEN r[p] + 1 ELSE r[p]]
    BY <1>1, <1>2 DEF RefsOf
<1>. QED  BY <1>3 DEF Lock, r, gs

\* A handle that is given up counts no more on any.
LEMMA UnlockRefs ==
    ASSUME NEW ns, NEW hs, Handles(hs), NEW u \in Users, hs[u] \in Text
    PROVE  RefsOf(ns, [hs EXCEPT ![u] = NoPath]) = Unlock(RefsOf(ns, hs), hs[u])
<1>. DEFINE gs == [hs EXCEPT ![u] = NoPath]  r == RefsOf(ns, hs)  h == hs[u]
<1>1. ASSUME NEW p \in PathsIn(ns)
      PROVE  Cardinality(Through(gs, p)) = IF p \in PathsOf(h) THEN r[p] - 1 ELSE r[p]
  <2>1. p \in Text /\ p # Root
    BY DEF PathsIn
  <2>2. PICK D : hs \in [Users -> D]
    BY DEF Handles
  <2>3. /\ Through(gs, p) = IF IsPrefix(p, NoPath) THEN Through(hs, p) \cup {u} ELSE Through(hs, p) \ {u}
        /\ IsFiniteSet(Through(hs, p)) /\ Cardinality(Through(hs, p)) \in Nat
    <3>1. PICK e : e = NoPath
      OBVIOUS
    <3>. HIDE DEF gs, r, h
    <3>2. /\ Through([hs EXCEPT ![u] = e], p) = IF IsPrefix(p, e) THEN Through(hs, p) \cup {u} ELSE Through(hs, p) \ {u}
          /\ IsFiniteSet(Through(hs, p)) /\ Cardinality(Through(hs, p)) \in Nat
      <4>1. IsFiniteSet({v \in Users : hs[v] # NoPath})
        BY DEF Handles
      <4>. QED  BY <2>1, <2>2, <4>1, ThroughIs, ZenonT(60)
    <3>. QED  BY <3>1, <3>2 DEF gs
  <2>4. Through(gs, p) = Through(hs, p) \ {u}
    BY <2>1, <2>3, NoneThrough
  <2>5. u \in Through(hs, p) <=> p \in PathsOf(h)
    <3>1. u \in Through(hs, p) <=> IsPrefix(p, h)
      BY DEF Through
    <3>2. h \in Text
      OBVIOUS
    <3>. QED  BY <3>1, <3>2, OnHandle
  <2>6. u \in Through(hs, p) => Cardinality(Through(hs, p) \ {u}) = Cardinality(Through(hs, p)) - 1
    BY <2>3, FS_RemoveElement
  <2>7. u \notin Through(hs, p) => Through(hs, p) \ {u} = Through(hs, p)
    OBVIOUS
  <2>8. r[p] = Cardinality(Through(hs, p))
    BY DEF RefsOf
  <2>. HIDE DEF r, gs, h
  <2>. QED  BY <2>4, <2>5, <2>6, <2>7, <2>8
<1>2. DOMAIN r = PathsIn(ns)
    BY DEF RefsOf
<1>. HIDE DEF r, gs, h
<1>3. RefsOf(ns, gs) = [p \in DOMAIN r |-> IF p \in PathsOf(h) THEN r[p] - 1 ELSE r[p]]
    BY <1>1, <1>2 DEF RefsOf
<1>. QED  BY <1>3 DEF Unlock, r, gs, h

\* New paths are not referenced.
LEMMA GainRefs ==
    ASSUME NEW ns, Tree(ns), NEW hs, Counts(ns, hs), NEW ids, NEW nt, PathsIn(nt) = PathsIn(ns) \cup PathsOf(ids),
           ids \in Text
    PROVE  RefsOf(nt, hs) = InsertRefs(RefsOf(ns, hs), ids)
<1>. DEFINE r == RefsOf(ns, hs)
<1>1. r = [p \in PathsIn(ns) |-> Cardinality(Through(hs, p))] /\ DOMAIN r = PathsIn(ns)
    BY DEF RefsOf
<1>2. ASSUME NEW p \in PathsIn(nt), p \notin PathsIn(ns) PROVE Cardinality(Through(hs, p)) = 0
  <2>1. p \in Text /\ p # Root /\ Aligned(p)
    BY DEF PathsIn
  <2>2. ASSUME NEW u \in Users, IsPrefix(p, hs[u]) PROVE FALSE
    <3>1. hs[u] \in DOMAIN ns
      BY <2>1, <2>2, HandleIs
    <3>. QED  BY <1>2, <2>1, <2>2, <3>1 DEF PathsIn
  <2>3. Through(hs, p) = {}
    BY <2>2 DEF Through
  <2>. QED  BY <2>3, FS_EmptySet
<1>. HIDE DEF r
<1>3. \A p \in PathsIn(nt) : Cardinality(Through(hs, p)) = IF p \in DOMAIN r THEN r[p] ELSE 0
    BY <1>1, <1>2
<1>4. PathsIn(nt) = DOMAIN r \cup PathsOf(ids)
    BY <1>1
<1>5. RefsOf(nt, hs) = [p \in DOMAIN r \cup PathsOf(ids) |-> IF p \in DOMAIN r THEN r[p] ELSE 0]
    BY <1>3, <1>4 DEF RefsOf
<1>. QED  BY <1>5 DEF InsertRefs, r

\* Trees that are alike look alike.
LEMMA AlikeSame ==
    ASSUME NEW ns, NEW nt, Alike(ns, nt)
    PROVE  /\ TreeOf(nt) = TreeOf(ns) /\ \A hs : RefsOf(nt, hs) = RefsOf(ns, hs)
           /\ \A free : Unshared(ns, free) => Unshared(nt, free)
<1>1. PathsIn(nt) = PathsIn(ns) /\ \A p \in PathsIn(ns) : PageIn(nt, p) = PageIn(ns, p)
    BY DEF Alike
<1>2. TreeOf(nt) = TreeOf(ns)
    BY <1>1 DEF TreeOf
<1>3. \A hs : RefsOf(nt, hs) = RefsOf(ns, hs)
    BY <1>1 DEF RefsOf
<1>4. \A free : Unshared(ns, free) => Unshared(nt, free)
    BY <1>1 DEF Unshared
<1>. QED  BY <1>2, <1>3, <1>4

\* Pages that come from the free ones and are listed once stay apart.
LEMMA GainsUnshared ==
    ASSUME NEW ns, NEW nt, NEW ids, NEW pages, Gains(ns, nt, ids, pages), IsInjective(pages),
           NEW free, Unshared(ns, free), ToSet(pages) \subseteq free
    PROVE  Unshared(nt, free \ ToSet(pages))
<1>1. ASSUME NEW p \in PathsIn(nt), NEW q \in PathsIn(nt), PageIn(nt, p) = PageIn(nt, q) PROVE p = q
    BY <1>1 DEF Gains, Unshared
<1>2. \A p \in PathsIn(nt) : PageIn(nt, p) \notin free \ ToSet(pages)
    BY DEF Gains, Unshared
<1>. QED  BY <1>1, <1>2 DEF Unshared

----------------------------------------------------------------------------
(* A match, page by page.                                                  *)

\* A path has as many pages as its length says.
LEMMA PathCount ==
    ASSUME NEW p \in Text, Aligned(p)
    PROVE  /\ IsFiniteSet(PathsOf(p)) /\ Cardinality(PathsOf(p)) = Len(p) \div PageSize
           /\ Len(p) \div PageSize \in Nat /\ (Len(p) \div PageSize) * PageSize = Len(p)
<1>. DEFINE n == Len(p) \div PageSize  f == [k \in 1 .. n |-> PathTo(p, k)]
<1>1. Len(p) \in Nat
    BY DEF Text
<1>2. n \in Nat
    BY <1>1, Division
<1>3. n * PageSize = Len(p)
  <2>1. PICK b : b = Len(p)
    OBVIOUS
  <2>2. b \in Nat /\ b % PageSize = 0 /\ n = b \div PageSize
    BY <1>1, <2>1 DEF Aligned
  <2>. HIDE DEF n
  <2>3. b = n * PageSize + (b % PageSize) /\ n * PageSize \in Nat
    BY <1>2, <2>2, Division, WholePages
  <2>. QED  BY <2>1, <2>2, <2>3
<1>. HIDE DEF n
<1>4. \A k \in 1 .. n : Len(PathTo(p, k)) = k * PageSize /\ k \in Nat
  <2>1. ASSUME NEW k \in 1 .. n PROVE Len(PathTo(p, k)) = k * PageSize /\ k \in Nat
    <3>1. k \in 0 .. Len(p) \div PageSize /\ k \in Nat
      BY <1>2 DEF n
    <3>2. k * PageSize \in 0 .. Len(p)
      BY <1>1, <3>1, PagesFit
    <3>. QED  BY <3>1, <3>2, FrontIs DEF PathTo, Text
  <2>. QED  BY <2>1
<1>5. \A i, j \in 1 .. n : f[i] = f[j] => i = j
  <2>1. ASSUME NEW i \in 1 .. n, NEW j \in 1 .. n, f[i] = f[j] PROVE i = j
    <3>1. i * PageSize = j * PageSize /\ i \in Nat /\ j \in Nat
      BY <1>4, <2>1
    <3>2. i * PageSize \in Nat /\ j * PageSize \in Nat
      BY <3>1, WholePages
    <3>. QED  BY <3>1, <3>2, SamePages
  <2>. QED  BY <2>1
<1>6. PathsOf(p) = {f[k] : k \in 1 .. n}
    BY DEF PathsOf, n
<1>7. f \in Bijection(1 .. n, PathsOf(p))
  <2>1. f \in [1 .. n -> PathsOf(p)]
    BY <1>6
  <2>2. \A y \in PathsOf(p) : \E k \in 1 .. n : f[k] = y
    BY <1>6
  <2>. HIDE DEF f
  <2>3. f \in Injection(1 .. n, PathsOf(p))
    BY <1>5, <2>1 DEF Injection, IsInjective
  <2>. QED  BY <2>1, <2>2, <2>3 DEF Bijection, Surjection
<1>8. IsFiniteSet(1 .. n) /\ Cardinality(1 .. n) = n
  <2>1. Cardinality(1 .. n) = (IF 1 > n THEN 0 ELSE n - 1 + 1) /\ IsFiniteSet(1 .. n)
    BY <1>2, FS_Interval
  <2>. QED  BY <1>2, <2>1
<1>9. IsFiniteSet(PathsOf(p)) /\ Cardinality(PathsOf(p)) = n
  <2>1. PICK S : S = 1 .. n
    OBVIOUS
  <2>2. PICK T : T = PathsOf(p)
    OBVIOUS
  <2>3. IsFiniteSet(S) /\ Cardinality(S) = n /\ f \in Bijection(S, T)
    BY <1>7, <1>8, <2>1, <2>2
  <2>4. IsFiniteSet(T) /\ Cardinality(T) = Cardinality(S)
    BY <2>3, FS_Bijection DEF ExistsBijection
  <2>. QED  BY <2>2, <2>3, <2>4
<1>. QED  BY <1>2, <1>3, <1>9 DEF n

\* The cached paths of ids are those of the place where the walk ends.
LEMMA MatchedAre ==
    ASSUME NEW ns, Tree(ns), NEW ids \in Text, NEW stop, Stops(ns, ids, stop), NEW tr, DOMAIN tr = PathsIn(ns)
    PROVE  MatchedPages(tr, ids) = Len(stop) \div PageSize
<1>1. stop \in Text /\ Aligned(stop) /\ IsPrefix(stop, ids) /\ stop \in DOMAIN ns \cup {Root}
    BY DEF Stops
<1>2. /\ PathsOf(ids) = {p \in Text : p # Root /\ Aligned(p) /\ IsPrefix(p, ids)}
      /\ PathsOf(stop) = {p \in Text : p # Root /\ Aligned(p) /\ IsPrefix(p, stop)}
    BY <1>1, PathsAre
<1>3. ASSUME NEW p \in PathsOf(ids), p \in PathsIn(ns) PROVE p \in PathsOf(stop)
  <2>1. p \in Text /\ p # Root /\ Aligned(p) /\ IsPrefix(p, ids) /\ \E n \in DOMAIN ns : IsPrefix(p, n)
    BY <1>2, <1>3 DEF PathsIn
  <2>2. Len(p) <= Len(stop)
    BY <2>1 DEF Stops
  <2>3. IsPrefix(p, stop)
    BY <1>1, <2>1, <2>2, PrefixNested DEF Text
  <2>. QED  BY <1>2, <2>1, <2>3
<1>4. ASSUME NEW p \in PathsOf(stop) PROVE p \in PathsOf(ids) /\ p \in PathsIn(ns)
  <2>1. p \in Text /\ p # Root /\ Aligned(p) /\ IsPrefix(p, stop)
    BY <1>2
  <2>2. IsPrefix(p, ids)
    BY <1>1, <2>1, PrefixTrans DEF Text
  <2>3. stop # Root
    <3>1. ASSUME stop = Root PROVE FALSE
      <4>1. Len(p) \in Nat /\ Len(p) <= Len(Root) /\ Len(Root) = 0
        BY <1>1, <2>1, <3>1, RootIs, PrefixLen DEF Text
      <4>. QED  BY <2>1, <4>1, RootIs DEF Text
    <3>. QED  BY <3>1
  <2>. QED  BY <1>1, <1>2, <2>1, <2>2, <2>3 DEF PathsIn
<1>5. PathsOf(ids) \cap PathsIn(ns) = PathsOf(stop)
    BY <1>3, <1>4
<1>. QED  BY <1>1, <1>5, PathCount DEF MatchedPages

\* A whole-page prefix of a text is one of its paths, or the root.
LEMMA PrefixPath ==
    ASSUME NEW ids \in Text, NEW h \in Text, Aligned(h), IsPrefix(h, ids)
    PROVE  PathTo(ids, Len(h) \div PageSize) = h
<1>1. (Len(h) \div PageSize) * PageSize = Len(h)
    BY PathCount
<1>2. Len(h) \in Nat /\ Len(ids) \in Nat /\ Len(h) <= Len(ids)
    BY PrefixLen DEF Text
<1>. DEFINE g == SubSeq(ids, 1, Len(h))
<1>3. g \in Text /\ Len(g) = Len(h) /\ IsPrefix(g, ids)
    BY <1>2, FrontIs DEF Text
<1>. HIDE DEF g
<1>4. IsPrefix(g, h)
    BY <1>2, <1>3, PrefixNested DEF Text
<1>5. g = h
    BY <1>2, <1>3, <1>4, PrefixSame DEF Text
<1>. QED  BY <1>1, <1>5 DEF PathTo, g

----------------------------------------------------------------------------
(* The steps of PageTrie.                                                  *)

\* PageTrie's tree and reference counts, from the nodes and the handles.
TrieTree == TreeOf(cache.nodes)
TrieRefs == RefsOf(cache.nodes, HandlesOf(held))

Viewed ==
    /\ [p \in Cached |-> PageAt(p)] = TrieTree
    /\ [p \in Cached |-> cache.nodes[NodeOver(p)].ref] = TrieRefs

\* The pages and counts of the paths in RadixCache's words and in PageTrie's agree.
LEMMA ViewIs == RInv => Viewed
<1>. SUFFICES ASSUME RInv PROVE Viewed
    OBVIOUS
<1>. DEFINE ns == cache.nodes
<1>1. Tree(ns) /\ Counts(ns, HandlesOf(held))
    BY DEF RInv, Good
<1>2. Cached = PathsIn(ns)
  <2>1. \A n \in DOMAIN ns : PathsOf(n) = {p \in Text : p # Root /\ Aligned(p) /\ IsPrefix(p, n)}
    BY <1>1, NodeIs, PathsAre
  <2>. QED  BY <2>1 DEF Cached, PathsIn
<1>3. ASSUME NEW p \in PathsIn(ns)
      PROVE  PageAt(p) = PageIn(ns, p) /\ ns[NodeOver(p)].ref = Cardinality(Through(HandlesOf(held), p))
  <2>1. PageAt(p) = PageIn(ns, p)
    BY DEF PageAt, NodeOver, PageIn
  <2>2. \E n \in DOMAIN ns : IsPrefix(p, n) /\ Len(ns[n].parent) < Len(p)
    BY <1>1, <1>3, PageIs DEF Over
  <2>3. NodeOver(p) \in DOMAIN ns /\ Over(ns, NodeOver(p), p)
    BY <2>2 DEF NodeOver, Over
  <2>. HIDE DEF ns
  <2>4. ns[NodeOver(p)].ref = Cardinality(Through(HandlesOf(held), p))
    BY <1>1, <1>3, <2>3, PathRef
  <2>. QED  BY <2>1, <2>4
<1>4. [p \in Cached |-> PageAt(p)] = TrieTree
    BY <1>2, <1>3 DEF TrieTree, TreeOf
<1>5. [p \in Cached |-> cache.nodes[NodeOver(p)].ref] = TrieRefs
    BY <1>2, <1>3 DEF TrieRefs, RefsOf
<1>. QED  BY <1>4, <1>5 DEF Viewed

\* After a step too.
LEMMA ViewNext == RInv' => Viewed'
BY ViewIs, PTL

\* PageTrie speaks of the same paths.
LEMMA TrieOps ==
    /\ \A s, k : Trie!PathTo(s, k) = PathTo(s, k)
    /\ \A s : Trie!PathsOf(s) = PathsOf(s)
    /\ \A t, s : Trie!MatchedPages(t, s) = MatchedPages(t, s)
    /\ \A t, s : Trie!MatchPrefix(t, s) = MatchPrefix(t, s)
    /\ \A r, h : Trie!Lock(r, h) = Lock(r, h) /\ Trie!Unlock(r, h) = Unlock(r, h)
    /\ \A r, s : Trie!InsertRefs(r, s) = InsertRefs(r, s)
    /\ \A f, S : Trie!Without(f, S) = Without(f, S)
    /\ \A r, k : Trie!EvictionSets(r, k) = EvictionSets(r, k)
<1>1. \A s, k : Trie!PathTo(s, k) = PathTo(s, k)
    BY DEF Trie!PathTo, PathTo
<1>2. \A s : Trie!PathsOf(s) = PathsOf(s)
    BY <1>1 DEF Trie!PathsOf, PathsOf
<1>3. \A t, s : Trie!MatchedPages(t, s) = MatchedPages(t, s)
    BY <1>2 DEF Trie!MatchedPages, MatchedPages, Trie!Cardinality, Cardinality
<1>4. \A t, s : Trie!MatchPrefix(t, s) = MatchPrefix(t, s)
    BY <1>1, <1>3 DEF Trie!MatchPrefix, MatchPrefix
<1>5. \A r, h : Trie!Lock(r, h) = Lock(r, h) /\ Trie!Unlock(r, h) = Unlock(r, h)
    BY <1>2 DEF Trie!Lock, Lock, Trie!Unlock, Unlock
<1>6. \A r, s : Trie!InsertRefs(r, s) = InsertRefs(r, s)
    BY <1>2 DEF Trie!InsertRefs, InsertRefs
<1>7. \A f, S : Trie!Without(f, S) = Without(f, S)
    BY DEF Trie!Without, Without
<1>8. \A r, k : Trie!EvictionSets(r, k) = EvictionSets(r, k)
    BY <1>2 DEF Trie!EvictionSets, EvictionSets, Trie!Unreferenced, Unreferenced, Trie!Cardinality, Cardinality
<1>. QED  BY <1>1, <1>2, <1>3, <1>4, <1>5, <1>6, <1>7, <1>8

\* The empty cache.
LEMMA TrieInit ==
    ASSUME Init, RadixAssumption
    PROVE  Trie!Init /\ Unshared(cache.nodes, freePages)
<1>1. /\ recurrent \in BOOLEAN /\ cache.nodes = << >>
      /\ held = [u \in Users |-> NoHandle]
    BY DEF Init
<1>2. DOMAIN cache.nodes = {}
    BY <1>1
<1>3. Cached = {} /\ PathsIn(cache.nodes) = {}
    BY <1>2 DEF Cached, PathsIn
<1>4. Unshared(cache.nodes, freePages)
    BY <1>3 DEF Unshared
<1>5. [p \in Cached |-> PageAt(p)] = << >>
    BY <1>3
<1>6. [p \in Cached |-> cache.nodes[NodeOver(p)].ref] = << >>
    BY <1>3
<1>7. [u \in Users |-> held[u].handle] = [u \in Users |-> <<-1>>]
    BY <1>1 DEF NoHandle
<1>. QED  BY <1>1, <1>4, <1>5, <1>6, <1>7 DEF Trie!Init

\* A step that changes nothing PageTrie sees.
LEMMA StutterBy ==
    ASSUME Viewed, Viewed', TrieTree' = TrieTree, TrieRefs' = TrieRefs,
           HandlesOf(held') = HandlesOf(held), recurrent' = recurrent
    PROVE  UNCHANGED Trie!vars
<1>1. [p \in Cached |-> PageAt(p)]' = [p \in Cached |-> PageAt(p)]
    BY DEF Viewed
<1>2. [p \in Cached |-> cache.nodes[NodeOver(p)].ref]' = [p \in Cached |-> cache.nodes[NodeOver(p)].ref]
    BY DEF Viewed
<1>3. [u \in Users |-> held[u].handle]' = [u \in Users |-> held[u].handle]
    BY DEF HandlesOf
<1>. QED  BY <1>1, <1>2, <1>3 DEF Trie!vars

\* What match_req may lock, for all that PageTrie sees.
Offered(ids) ==
    IF recurrent THEN {PathTo(ids, k) : k \in 0 .. MatchedPages(TrieTree, ids)}
    ELSE {MatchPrefix(TrieTree, ids)}

\* A locked match.
LEMMA AdmitBy ==
    ASSUME Viewed, Viewed', NEW u \in Users, NEW s \in Streams, NEW h \in Offered(SubSeq(s, 1, Len(s) - 1)),
           HandlesOf(held)[u] = NoPath, HandlesOf(held') = [HandlesOf(held) EXCEPT ![u] = h],
           TrieTree' = TrieTree, TrieRefs' = Lock(TrieRefs, h), recurrent' = recurrent
    PROVE  Trie!Admit(u)
<1>1. [p \in Cached |-> PageAt(p)]' = [p \in Cached |-> PageAt(p)] /\ [p \in Cached |-> PageAt(p)] = TrieTree
    BY DEF Viewed
<1>2. /\ [p \in Cached |-> cache.nodes[NodeOver(p)].ref]' = Lock(TrieRefs, h)
      /\ [p \in Cached |-> cache.nodes[NodeOver(p)].ref] = TrieRefs
    BY DEF Viewed
<1>3. /\ [v \in Users |-> held[v].handle]' = [[v \in Users |-> held[v].handle] EXCEPT ![u] = h]
      /\ [v \in Users |-> held[v].handle][u] = <<-1>>
    BY DEF HandlesOf, NoPath
<1>4. h \in Trie!Offers(SubSeq(s, 1, Len(s) - 1))
    BY <1>1, TrieOps DEF Trie!Offers, Offered
<1>5. [p \in Cached |-> cache.nodes[NodeOver(p)].ref]' = Trie!Lock([p \in Cached |-> cache.nodes[NodeOver(p)].ref], h)
    BY <1>2, TrieOps
<1>. QED  BY <1>1, <1>3, <1>4, <1>5 DEF Trie!Admit

\* The tree has the paths of ids now, keeps what it had, and no page has two paths.
Added(ids) ==
    /\ DOMAIN TrieTree' = DOMAIN TrieTree \cup PathsOf(ids)
    /\ \A n \in DOMAIN TrieTree : TrieTree'[n] = TrieTree[n]
    /\ \A m, n \in DOMAIN TrieTree' : TrieTree'[m] = TrieTree'[n] => m = n

\* What was added, as PageTrie says it.
LEMMA AddsBy ==
    ASSUME Viewed, Viewed', NEW ids, Added(ids)
    PROVE  Trie!Adds(ids)
<1>1. [p \in Cached |-> PageAt(p)]' = TrieTree' /\ [p \in Cached |-> PageAt(p)] = TrieTree
    BY DEF Viewed
<1>2. DOMAIN TrieTree' = DOMAIN TrieTree \cup Trie!PathsOf(ids)
    BY TrieOps DEF Added
<1>. QED  BY <1>1, <1>2 DEF Trie!Adds, Added

\* What a user commits, for PageTrie: some whole pages of a stream.
Commits(ids) == \E s \in Streams : \E k \in 0 .. (Len(s) \div PageSize) : ids = PathTo(s, k)

\* A commit that keeps the request going.
LEMMA CacheBy ==
    ASSUME Viewed, Viewed', NEW u \in Users, NEW ids, Commits(ids), Added(ids),
           HandlesOf(held)[u] # NoPath, HandlesOf(held') = [HandlesOf(held) EXCEPT ![u] = ids],
           TrieRefs' = Lock(Unlock(InsertRefs(TrieRefs, ids), HandlesOf(held)[u]), ids), recurrent' = recurrent
    PROVE  Trie!Cache(u)
<1>0. PICK s \in Streams : \E k \in 0 .. (Len(s) \div PageSize) : ids = PathTo(s, k)
    BY DEF Commits
<1>1. PICK k \in 0 .. (Len(s) \div PageSize) : ids = PathTo(s, k)
    BY <1>0
<1>2. ids = Trie!PathTo(s, k) /\ Trie!Adds(ids)
    BY <1>1, TrieOps, AddsBy
<1>3. /\ [p \in Cached |-> cache.nodes[NodeOver(p)].ref]' = TrieRefs'
      /\ [p \in Cached |-> cache.nodes[NodeOver(p)].ref] = TrieRefs
    BY DEF Viewed
<1>4. /\ [v \in Users |-> held[v].handle]' = [[v \in Users |-> held[v].handle] EXCEPT ![u] = ids]
      /\ [v \in Users |-> held[v].handle][u] # <<-1>>
      /\ [v \in Users |-> held[v].handle][u] = HandlesOf(held)[u]
    BY DEF HandlesOf, NoPath
<1>5. [p \in Cached |-> cache.nodes[NodeOver(p)].ref]' =
          Trie!Lock(Trie!Unlock(Trie!InsertRefs([p \in Cached |-> cache.nodes[NodeOver(p)].ref], ids),
                                [v \in Users |-> held[v].handle][u]), ids)
    BY <1>3, <1>4, TrieOps
<1>6. [v \in Users |-> held[v].handle]' = [[v \in Users |-> held[v].handle] EXCEPT ![u] = Trie!PathTo(s, k)]
    BY <1>2, <1>4
<1>7. Trie!Adds(Trie!PathTo(s, k))
    BY <1>2
<1>8. [p \in Cached |-> cache.nodes[NodeOver(p)].ref]' =
          Trie!Lock(Trie!Unlock(Trie!InsertRefs([p \in Cached |-> cache.nodes[NodeOver(p)].ref], Trie!PathTo(s, k)),
                                [v \in Users |-> held[v].handle][u]), Trie!PathTo(s, k))
    BY <1>2, <1>5
<1>9. [v \in Users |-> held[v].handle][u] # <<-1>>
    BY <1>4
<1>10. UNCHANGED recurrent
    OBVIOUS
<1>. QED  BY <1>6, <1>7, <1>8, <1>9, <1>10, Zenon DEF Trie!Cache

\* A commit that ends the request.
LEMMA FinishBy ==
    ASSUME Viewed, Viewed', NEW u \in Users, NEW ids, Commits(ids), Added(ids),
           HandlesOf(held)[u] # NoPath, HandlesOf(held') = [HandlesOf(held) EXCEPT ![u] = NoPath],
           TrieRefs' = Unlock(InsertRefs(TrieRefs, ids), HandlesOf(held)[u]), recurrent' = recurrent
    PROVE  Trie!Finish(u)
<1>0. PICK s \in Streams : \E k \in 0 .. (Len(s) \div PageSize) : ids = PathTo(s, k)
    BY DEF Commits
<1>1. PICK k \in 0 .. (Len(s) \div PageSize) : ids = PathTo(s, k)
    BY <1>0
<1>2. ids = Trie!PathTo(s, k) /\ Trie!Adds(ids)
    BY <1>1, TrieOps, AddsBy
<1>3. /\ [p \in Cached |-> cache.nodes[NodeOver(p)].ref]' = TrieRefs'
      /\ [p \in Cached |-> cache.nodes[NodeOver(p)].ref] = TrieRefs
    BY DEF Viewed
<1>4. /\ [v \in Users |-> held[v].handle]' = [[v \in Users |-> held[v].handle] EXCEPT ![u] = <<-1>>]
      /\ [v \in Users |-> held[v].handle][u] # <<-1>>
      /\ [v \in Users |-> held[v].handle][u] = HandlesOf(held)[u]
    BY DEF HandlesOf, NoPath
<1>5. [p \in Cached |-> cache.nodes[NodeOver(p)].ref]' =
          Trie!Unlock(Trie!InsertRefs([p \in Cached |-> cache.nodes[NodeOver(p)].ref], ids),
                      [v \in Users |-> held[v].handle][u])
    BY <1>3, <1>4, TrieOps
<1>. QED  BY <1>1, <1>2, <1>4, <1>5 DEF Trie!Finish

\* An eviction.
LEMMA EvictBy ==
    ASSUME Viewed, Viewed', NEW gone \in EvictionSets(TrieRefs, 1),
           TrieTree' = Without(TrieTree, gone), TrieRefs' = Without(TrieRefs, gone),
           HandlesOf(held') = HandlesOf(held), recurrent' = recurrent
    PROVE  Trie!Evict
<1>1. [p \in Cached |-> PageAt(p)]' = Trie!Without([p \in Cached |-> PageAt(p)], gone)
    BY TrieOps DEF Viewed
<1>2. /\ [p \in Cached |-> cache.nodes[NodeOver(p)].ref]' =
             Trie!Without([p \in Cached |-> cache.nodes[NodeOver(p)].ref], gone)
      /\ gone \in Trie!EvictionSets([p \in Cached |-> cache.nodes[NodeOver(p)].ref], 1)
    BY TrieOps DEF Viewed
<1>3. [u \in Users |-> held[u].handle]' = [u \in Users |-> held[u].handle]
    BY DEF HandlesOf
<1>. QED  BY <1>1, <1>2, <1>3 DEF Trie!Evict

\* PageTrie's state, where the nodes are alike and where they gained.
LEMMA SameTree ==
    ASSUME Alike(cache.nodes, cache'.nodes)
    PROVE  TrieTree' = TrieTree /\ TrieRefs' = RefsOf(cache.nodes, HandlesOf(held'))
<1>1. PICK ns : ns = cache.nodes
    OBVIOUS
<1>2. PICK nt : nt = cache'.nodes
    OBVIOUS
<1>3. TreeOf(nt) = TreeOf(ns) /\ \A hs : RefsOf(nt, hs) = RefsOf(ns, hs)
    BY <1>1, <1>2, AlikeSame
<1>4. TrieTree' = TreeOf(nt) /\ TrieRefs' = RefsOf(nt, HandlesOf(held'))
    BY <1>2 DEF TrieTree, TrieRefs
<1>. QED  BY <1>1, <1>3, <1>4 DEF TrieTree

\* What RInv says of the handles.
LEMMA HandlesAre ==
    ASSUME RInv
    PROVE  Handles(HandlesOf(held)) /\ Tree(cache.nodes) /\ Counts(cache.nodes, HandlesOf(held))
           /\ Good(cache, HandlesOf(held))
<1>1. Good(cache, HandlesOf(held))
    BY DEF RInv
<1>. QED  BY <1>1 DEF Good, Counts, Handles

\* A match is PageTrie's when it is locked, and nothing when it is refused.
LEMMA MatchMaps ==
    ASSUME RInv, RInv', NEW u \in Users, Match(u), RadixAssumption, Unshared(cache.nodes, freePages)
    PROVE  /\ Unshared(cache'.nodes, freePages')
           /\ Trie!Admit(u) \/ UNCHANGED Trie!vars
<1>1. /\ held[u] = NoHandle /\ clock' = clock + 1 /\ recurrent' = recurrent /\ freePages' = freePages
    BY DEF Match, Tick
<1>2. PICK s \in Streams :
         LET ids == SubSeq(s, 1, Len(s) - 1)
             w   == Walked(cache, ids, clock')
             h   == MatchResult(w.nodes, ids)
         IN  \/ cache' = w /\ UNCHANGED held
             \/ /\ cache' = Locked(w, h)
                /\ held' = [held EXCEPT ![u] = [ids |-> s, handle |-> h]]
    BY DEF Match
<1>3. PICK ids : ids = SubSeq(s, 1, Len(s) - 1)
    OBVIOUS
<1>4. PICK w : w = Walked(cache, ids, clock')
    OBVIOUS
<1>5. PICK h : h = MatchResult(w.nodes, ids)
    OBVIOUS
<1>6. \/ cache' = w /\ held' = held
      \/ /\ cache' = Locked(w, h)
         /\ held' = [held EXCEPT ![u] = [ids |-> s, handle |-> h]]
    BY <1>2, <1>3, <1>4, <1>5
<1>7. ids \in Text /\ s \in Text
  <2>1. s \in Seq(Nat) /\ Len(s) \in Nat /\ Len(s) # 0
    BY RootIs DEF RadixAssumption, Root
  <2>2. Len(s) - 1 \in 0 .. Len(s)
    BY <2>1
  <2>. QED  BY <1>3, <2>1, <2>2, FrontIs DEF Text
<1>8. /\ clock' \in Nat /\ RTypes /\ Viewed /\ Viewed' /\ Good(cache, HandlesOf(held)) /\ Good(cache', HandlesOf(held'))
      /\ Tree(cache.nodes) /\ Handles(HandlesOf(held))
    BY <1>1, ViewIs, ViewNext, HandlesAre DEF RInv, RTypes
<1>9. /\ Good(w, HandlesOf(held)) /\ Alike(cache.nodes, w.nodes)
      /\ Stops(w.nodes, ids, WalkEnd(cache.nodes, ids))
    BY <1>4, <1>7, <1>8, WalkedGood, WalkedAlike
<1>10. Alike(cache.nodes, cache'.nodes)
  <2>1. CASE cache' = w
    BY <1>9, <2>1
  <2>2. CASE cache' = Locked(w, h)
    <3>1. Alike(w.nodes, cache'.nodes)
      BY <1>8, <1>9, <2>2, LockedAlike
    <3>. QED  BY <1>9, <3>1, AlikeTrans
  <2>. QED  BY <1>6, <2>1, <2>2
<1>11. TrieTree' = TrieTree /\ TrieRefs' = RefsOf(cache.nodes, HandlesOf(held'))
    BY <1>10, SameTree
<1>12. Unshared(cache'.nodes, freePages')
    BY <1>1, <1>10, AlikeSame
<1>13. CASE cache' = w /\ held' = held
  <2>1. HandlesOf(held') = HandlesOf(held)
    BY <1>13
  <2>2. TrieRefs' = TrieRefs
    BY <1>11, <2>1 DEF TrieRefs
  <2>3. UNCHANGED Trie!vars
    BY <1>1, <1>8, <1>11, <2>1, <2>2, StutterBy
  <2>. QED  BY <1>12, <2>3
<1>14. CASE /\ cache' = Locked(w, h)
            /\ held' = [held EXCEPT ![u] = [ids |-> s, handle |-> h]]
  <2>1. HandlesOf(held)[u] = NoPath /\ held \in [Users -> [ids : Text, handle : Seq(Int)]]
    BY <1>1, <1>8 DEF HandlesOf, NoHandle, NoPath, RTypes
  <2>2. HandlesOf(held') = [HandlesOf(held) EXCEPT ![u] = h]
    <3>1. PICK r : r = [ids |-> s, handle |-> h]
      OBVIOUS
    <3>2. PICK D : D = [ids : Text, handle : Seq(Int)]
      OBVIOUS
    <3>3. r.handle = h /\ held \in [Users -> D] /\ held' = [held EXCEPT ![u] = r]
      BY <1>14, <2>1, <3>1, <3>2
    <3>. QED  BY <3>3, HandlesSet
  <2>3. PICK ns : ns = w.nodes
    OBVIOUS
  <2>4. PICK stop : stop = WalkEnd(cache.nodes, ids)
    OBVIOUS
  <2>5. Tree(ns) /\ Stops(ns, ids, stop) /\ DOMAIN TrieTree = PathsIn(ns)
    BY <1>9, <2>3, <2>4 DEF Good, TrieTree, TreeOf, Alike
  <2>6. /\ h \in DOMAIN ns \cup {Root} /\ IsPrefix(h, stop) /\ (~recurrent => h = stop)
    BY <1>5, <1>7, <2>3, <2>5, MatchIs
  <2>7. h \in Text /\ Aligned(h) /\ stop \in Text /\ Aligned(stop) /\ IsPrefix(stop, ids)
    <3>1. Root \in Text /\ Aligned(Root)
      <4>1. Root \in Text /\ Len(Root) = 0
        BY DEF Root, Text
      <4>2. 0 % PageSize = 0
        BY PageSizeAssumption
      <4>. QED  BY <4>1, <4>2 DEF Aligned
    <3>2. h \in DOMAIN ns => h \in Text /\ Aligned(h)
      BY <2>5, NodeIs
    <3>. QED  BY <2>5, <2>6, <3>1, <3>2 DEF Stops
  <2>8. IsPrefix(h, ids)
    BY <1>7, <2>6, <2>7, PrefixTrans DEF Text
  <2>9. MatchedPages(TrieTree, ids) = Len(stop) \div PageSize
    <3>1. PICK tr : tr = TrieTree
      OBVIOUS
    <3>. QED  BY <1>7, <2>5, <3>1, MatchedAre
  <2>10. PathTo(ids, Len(h) \div PageSize) = h /\ PathTo(ids, Len(stop) \div PageSize) = stop
    BY <1>7, <2>7, <2>8, PrefixPath
  <2>11. Len(h) \div PageSize \in 0 .. Len(stop) \div PageSize
    <3>1. Len(h) \in Nat /\ Len(stop) \in Nat /\ Len(h) <= Len(stop)
      BY <2>6, <2>7, PrefixLen DEF Text
    <3>2. PICK i \in Nat : i = Len(h) \div PageSize /\ i * PageSize = Len(h)
      BY <2>7, PathCount
    <3>3. PICK j \in Nat : j = Len(stop) \div PageSize /\ j * PageSize = Len(stop)
      BY <2>7, PathCount
    <3>4. i <= j
      BY <3>1, <3>2, <3>3, SamePages
    <3>. QED  BY <3>2, <3>3, <3>4
  <2>12. h \in Offered(ids)
    <3>1. CASE recurrent
      BY <2>9, <2>10, <2>11, <3>1 DEF Offered
    <3>2. CASE ~recurrent
      BY <2>6, <2>9, <2>10, <3>2 DEF Offered, MatchPrefix
    <3>. QED  BY <3>1, <3>2
  <2>13. TrieRefs' = Lock(TrieRefs, h)
    <3>1. PICK hs : hs = HandlesOf(held)
      OBVIOUS
    <3>2. PICK nodes : nodes = cache.nodes
      OBVIOUS
    <3>3. RefsOf(nodes, [hs EXCEPT ![u] = h]) = Lock(RefsOf(nodes, hs), h)
      BY <1>8, <2>1, <2>7, <3>1, LockRefs
    <3>. QED  BY <1>11, <2>2, <3>1, <3>2, <3>3 DEF TrieRefs
  <2>14. Trie!Admit(u)
    BY <1>1, <1>3, <1>8, <1>11, <2>1, <2>2, <2>12, <2>13, AdmitBy
  <2>. QED  BY <1>12, <2>14
<1>. QED  BY <1>6, <1>13, <1>14

\* The pages that are brought are free ones, each once.
LEMMA BroughtIs ==
    ASSUME RInv, NEW ids \in Text, Aligned(ids), Insert(ids)
    PROVE  /\ IsInjective(Brought(ids)) /\ ToSet(Brought(ids)) \subseteq freePages
           /\ freePages' = freePages \ ToSet(Brought(ids))
<1>. DEFINE stop == WalkEnd(cache.nodes, ids)
            count == (Len(ids) - Len(stop)) \div PageSize
<1>1. /\ count <= Cardinality(freePages) /\ freePages' = freePages \ ToSet(Brought(ids))
      /\ Brought(ids) = SubSeq(SetToSeq(freePages), 1, count)
    BY DEF Insert, Brought
<1>2. /\ freePages \in SUBSET Nat /\ IsFiniteSet(freePages) /\ DOMAIN cache.nodes \subseteq Text
    BY DEF RInv, RTypes, Good, Tree
<1>3. /\ stop \in Text /\ Aligned(stop) /\ IsPrefix(stop, ids)
    BY <1>2, WalkIs
<1>. HIDE DEF stop
<1>4. Len(stop) \in Nat /\ Len(ids) \in Nat /\ Len(stop) <= Len(ids)
    BY <1>3, PrefixLen DEF Text
<1>5. count \in Nat
    BY <1>3, <1>4, PagesApart DEF Aligned
<1>. HIDE DEF count
<1>6. /\ SetToSeq(freePages) \in Seq(freePages) /\ Len(SetToSeq(freePages)) = Cardinality(freePages)
      /\ IsInjective(SetToSeq(freePages))
    BY <1>2, Listing
<1>7. PICK all \in Seq(freePages) : all = SetToSeq(freePages)
    BY <1>6
<1>8. Len(all) \in Nat /\ count \in 0 .. Len(all) /\ DOMAIN all = 1 .. Len(all) /\ IsInjective(all)
    BY <1>1, <1>5, <1>6, <1>7
<1>9. PICK b : b = SubSeq(all, 1, count)
    OBVIOUS
<1>10. DOMAIN b = 1 .. count /\ \A i \in 1 .. count : b[i] = all[i]
    BY <1>8, <1>9
<1>11. \A i \in 1 .. count : i \in DOMAIN all /\ all[i] \in freePages
    BY <1>7, <1>8
<1>12. IsInjective(b) /\ ToSet(b) \subseteq freePages
    BY <1>8, <1>10, <1>11 DEF IsInjective, ToSet
<1>. QED  BY <1>1, <1>7, <1>9, <1>12

\* What a commit does to the pages, before it locks anything.
LEMMA CommitGains ==
    ASSUME RInv, NEW u \in Users, held[u] # NoHandle, RadixAssumption, NEW tic \in Nat,
           NEW ids \in Text, Aligned(ids), Insert(ids)
    PROVE  Gains(cache.nodes, Unlocked(Inserted(cache, ids, Brought(ids), tic), held[u].handle).nodes,
                 ids, Brought(ids))
<1>1. Good(cache, HandlesOf(held))
    BY DEF RInv
<1>2. PICK pages \in Seq(Nat) : pages = Brought(ids)
    BY InsertIs
<1>3. Len(pages) * PageSize = Len(ids) - Len(WalkEnd(cache.nodes, ids))
    BY <1>2, InsertIs
<1>4. PICK y : y = Inserted(cache, ids, pages, tic)
    OBVIOUS
<1>5. Good(y, HandlesOf(held)) /\ Gains(cache.nodes, y.nodes, ids, pages)
    BY <1>1, <1>3, <1>4, InsertedGood, InsertedGains
<1>6. PICK h : h = held[u].handle
    OBVIOUS
<1>7. HandlesOf(held)[u] = h
    BY <1>6, HolderIs
<1>8. Good(Unlocked(y, h), [HandlesOf(held) EXCEPT ![u] = NoPath])
    BY <1>5, <1>7, UnlockedGood
<1>9. Alike(y.nodes, Unlocked(y, h).nodes)
    BY <1>5, <1>8, UnlockedAlike
<1>10. Alike(cache.nodes, cache.nodes)
    BY DEF Alike
<1>11. Gains(cache.nodes, Unlocked(y, h).nodes, ids, pages)
    BY <1>5, <1>9, <1>10, GainsAlike
<1>. QED  BY <1>2, <1>4, <1>6, <1>11

\* What is committed is some whole pages of a stream.
LEMMA CommitsIs ==
    ASSUME RInv, NEW u \in Users, held[u] # NoHandle, RadixAssumption,
           NEW k \in (Len(held[u].handle) \div PageSize) .. (Len(held[u].ids) \div PageSize)
    PROVE  Commits(PathTo(held[u].ids, k))
<1>1. held[u].ids \in Streams /\ held[u].ids \in Text /\ held[u].handle \in Text
    BY HolderIs
<1>. DEFINE a == Len(held[u].handle) \div PageSize  b == Len(held[u].ids) \div PageSize
<1>2. a \in Nat /\ b \in Nat
  <2>1. Len(held[u].handle) \in Nat /\ Len(held[u].ids) \in Nat
    BY <1>1 DEF Text
  <2>. QED  BY <2>1, Division
<1>3. k \in a .. b
    OBVIOUS
<1>. HIDE DEF a, b
<1>4. k \in 0 .. b
    BY <1>2, <1>3
<1>. QED  BY <1>1, <1>4 DEF Commits, b

\* The gain, as PageTrie sees it.
LEMMA AddedBy ==
    ASSUME RInv, NEW ids \in Text, NEW pages, Gains(cache.nodes, cache'.nodes, ids, pages),
           IsInjective(pages), Unshared(cache.nodes, freePages), ToSet(pages) \subseteq freePages,
           freePages' = freePages \ ToSet(pages)
    PROVE  /\ Added(ids) /\ Unshared(cache'.nodes, freePages')
           /\ TrieRefs' = RefsOf(cache'.nodes, HandlesOf(held'))
           /\ \A hs : Counts(cache.nodes, hs) => RefsOf(cache'.nodes, hs) = InsertRefs(RefsOf(cache.nodes, hs), ids)
<1>1. PICK ns : ns = cache.nodes
    OBVIOUS
<1>2. PICK nt : nt = cache'.nodes
    OBVIOUS
<1>3. Tree(ns) /\ Gains(ns, nt, ids, pages)
    BY <1>1, <1>2, HandlesAre
<1>4. Unshared(nt, freePages')
    BY <1>1, <1>3, GainsUnshared
<1>5. TrieTree = TreeOf(ns) /\ TrieTree' = TreeOf(nt) /\ TrieRefs' = RefsOf(nt, HandlesOf(held'))
    BY <1>1, <1>2 DEF TrieTree, TrieRefs
<1>6. PathsIn(nt) = PathsIn(ns) \cup PathsOf(ids) /\ \A p \in PathsIn(ns) : PageIn(nt, p) = PageIn(ns, p)
    BY <1>3 DEF Gains
<1>7. /\ DOMAIN TreeOf(nt) = DOMAIN TreeOf(ns) \cup PathsOf(ids)
      /\ \A n \in DOMAIN TreeOf(ns) : TreeOf(nt)[n] = TreeOf(ns)[n]
    BY <1>6 DEF TreeOf
<1>8. \A m, n \in DOMAIN TreeOf(nt) : TreeOf(nt)[m] = TreeOf(nt)[n] => m = n
    BY <1>4 DEF TreeOf, Unshared
<1>9. Added(ids)
    BY <1>5, <1>7, <1>8 DEF Added
<1>10. \A hs : Counts(ns, hs) => RefsOf(nt, hs) = InsertRefs(RefsOf(ns, hs), ids)
    BY <1>3, <1>6, GainRefs
<1>. QED  BY <1>1, <1>2, <1>4, <1>5, <1>9, <1>10

\* A handle that is exchanged for another one.
LEMMA SwapRefs ==
    ASSUME NEW nt, NEW hs, Handles(hs), NEW u \in Users, hs[u] \in Text, NEW h \in Text
    PROVE  RefsOf(nt, [hs EXCEPT ![u] = h]) = Lock(Unlock(RefsOf(nt, hs), hs[u]), h)
<1>1. PICK gs : gs = [hs EXCEPT ![u] = NoPath]
    OBVIOUS
<1>2. RefsOf(nt, gs) = Unlock(RefsOf(nt, hs), hs[u])
    BY <1>1, UnlockRefs
<1>3. gs[u] = NoPath /\ [gs EXCEPT ![u] = h] = [hs EXCEPT ![u] = h]
    BY <1>1 DEF Handles
<1>4. Handles(gs)
  <2>1. PICK D : hs \in [Users -> D]
    BY DEF Handles
  <2>2. gs \in [Users -> D \cup {NoPath}]
    BY <1>1, <2>1
  <2>3. {v \in Users : gs[v] # NoPath} \subseteq {v \in Users : hs[v] # NoPath}
    BY <1>1, <2>1
  <2>4. IsFiniteSet({v \in Users : gs[v] # NoPath})
    BY <2>3, FS_Subset DEF Handles
  <2>. QED  BY <2>2, <2>4 DEF Handles
<1>5. RefsOf(nt, [gs EXCEPT ![u] = h]) = Lock(RefsOf(nt, gs), h)
    BY <1>3, <1>4, LockRefs
<1>. QED  BY <1>1, <1>2, <1>3, <1>5

\* cache_req of a request that goes on is PageTrie's.
LEMMA CacheReqMaps ==
    ASSUME RInv, RInv', NEW u \in Users, CacheReq(u), RadixAssumption, Unshared(cache.nodes, freePages)
    PROVE  Unshared(cache'.nodes, freePages') /\ Trie!Cache(u)
<1>1. held[u] # NoHandle /\ clock' = clock + 1 /\ recurrent' = recurrent
    BY DEF CacheReq, Tick
<1>2. PICK k \in (Len(held[u].handle) \div PageSize) .. (Len(held[u].ids) \div PageSize) :
         LET ids == PathTo(held[u].ids, k)
         IN  /\ Insert(ids)
             /\ cache' = Locked(Unlocked(Inserted(cache, ids, Brought(ids), clock'),
                                         held[u].handle), ids)
             /\ held' = [held EXCEPT ![u].handle = ids]
             /\ Capture(ids)
    BY DEF CacheReq
<1>3. PICK ids : ids = PathTo(held[u].ids, k)
    OBVIOUS
<1>4. PICK x : x = Unlocked(Inserted(cache, ids, Brought(ids), clock'), held[u].handle)
    OBVIOUS
<1>5. Insert(ids) /\ cache' = Locked(x, ids) /\ held' = [held EXCEPT ![u].handle = ids]
    BY <1>2, <1>3, <1>4
<1>6. ids \in Text /\ Aligned(ids) /\ Commits(ids)
    BY <1>1, <1>3, CommitIs, CommitsIs
<1>7. clock' \in Nat /\ RTypes /\ Viewed /\ Viewed' /\ Handles(HandlesOf(held)) /\ Counts(cache.nodes, HandlesOf(held))
    BY <1>1, ViewIs, ViewNext, HandlesAre DEF RInv, RTypes
<1>8. PICK tic \in Nat : tic = clock'
    BY <1>7
<1>9. /\ Good(x, [HandlesOf(held) EXCEPT ![u] = NoPath]) /\ Good(cache', HandlesOf(held'))
      /\ Gains(cache.nodes, x.nodes, ids, Brought(ids))
    BY <1>1, <1>4, <1>5, <1>6, <1>8, CommitGood, CommitGains DEF RInv
<1>10. PICK pages : pages = Brought(ids)
    OBVIOUS
<1>11. Gains(cache.nodes, cache'.nodes, ids, pages)
  <2>1. Alike(x.nodes, cache'.nodes)
    BY <1>5, <1>9, LockedAlike
  <2>2. Alike(cache.nodes, cache.nodes)
    BY DEF Alike
  <2>. QED  BY <1>9, <1>10, <2>1, <2>2, GainsAlike
<1>12. IsInjective(pages) /\ ToSet(pages) \subseteq freePages /\ freePages' = freePages \ ToSet(pages)
    BY <1>5, <1>6, <1>10, BroughtIs
<1>13. /\ Added(ids) /\ Unshared(cache'.nodes, freePages')
       /\ TrieRefs' = RefsOf(cache'.nodes, HandlesOf(held'))
       /\ RefsOf(cache'.nodes, HandlesOf(held)) = InsertRefs(RefsOf(cache.nodes, HandlesOf(held)), ids)
    BY <1>6, <1>7, <1>11, <1>12, AddedBy
<1>14. HandlesOf(held)[u] = held[u].handle /\ held[u].handle \in Text /\ HandlesOf(held)[u] # NoPath
    BY <1>1, HolderIs, PathIsNot
<1>15. HandlesOf(held') = [HandlesOf(held) EXCEPT ![u] = ids]
  <2>1. /\ held \in [Users -> [ids : Text, handle : Seq(Int)]]
        /\ held[u] = [ids |-> held[u].ids, handle |-> held[u].handle]
    BY <1>7, HeldIs DEF RTypes
  <2>2. PICK D : D = [ids : Text, handle : Seq(Int)]
    OBVIOUS
  <2>3. PICK r : r = [ids |-> held[u].ids, handle |-> ids]
    OBVIOUS
  <2>4. held' = [held EXCEPT ![u] = [held[u] EXCEPT !.handle = ids]]
    BY <1>5
  <2>5. [held[u] EXCEPT !.handle = ids] = r
    BY <2>1, <2>3
  <2>6. held \in [Users -> D] /\ held' = [held EXCEPT ![u] = r] /\ r.handle = ids
    BY <2>1, <2>2, <2>3, <2>4, <2>5
  <2>. QED  BY <2>6, HandlesSet
<1>16. TrieRefs' = Lock(Unlock(InsertRefs(TrieRefs, ids), HandlesOf(held)[u]), ids)
  <2>1. PICK hs : hs = HandlesOf(held)
    OBVIOUS
  <2>2. PICK nt : nt = cache'.nodes
    OBVIOUS
  <2>3. PICK r : r = InsertRefs(TrieRefs, ids)
    OBVIOUS
  <2>4. Handles(hs) /\ hs[u] \in Text /\ RefsOf(nt, hs) = r /\ ids \in Text
    BY <1>6, <1>7, <1>13, <1>14, <2>1, <2>2, <2>3 DEF TrieRefs
  <2>5. RefsOf(nt, [hs EXCEPT ![u] = ids]) = Lock(Unlock(RefsOf(nt, hs), hs[u]), ids)
    BY <2>4, SwapRefs
  <2>. QED  BY <1>13, <1>15, <2>1, <2>2, <2>3, <2>4, <2>5
<1>17. Trie!Cache(u)
    BY <1>1, <1>6, <1>7, <1>13, <1>14, <1>15, <1>16, CacheBy
<1>. QED  BY <1>13, <1>17

\* The root is some whole pages of every stream, and adds nothing.
LEMMA NothingCommitted ==
    ASSUME NEW s \in Streams, RadixAssumption, NEW r, r = [p \in DOMAIN r |-> r[p]]
    PROVE  /\ Commits(Root) /\ PathsOf(Root) = {} /\ InsertRefs(r, Root) = r
<1>1. s \in Seq(Nat) /\ Len(s) \in Nat
    BY DEF RadixAssumption
<1>2. Len(s) \div PageSize \in Nat
    BY <1>1, Division
<1>3. PathTo(s, 0) = Root
  <2>1. 0 * PageSize = 0
    BY PageSizeAssumption
  <2>2. SubSeq(s, 1, 0) = << >>
    BY <1>1
  <2>. QED  BY <2>1, <2>2 DEF PathTo, Root
<1>4. Commits(Root)
    BY <1>2, <1>3 DEF Commits
<1>5. PathsOf(Root) = {}
  <2>1. Len(Root) \div PageSize = 0
    <3>1. Len(Root) = 0
      BY DEF Root
    <3>2. 0 \div PageSize = 0
      BY PageSizeAssumption, SMT
    <3>. QED  BY <3>1, <3>2
  <2>. QED  BY <2>1 DEF PathsOf
<1>6. InsertRefs(r, Root) = r
    BY <1>5 DEF InsertRefs
<1>. QED  BY <1>4, <1>5, <1>6

\* cache_req of a request that ends is PageTrie's, whether its output is cached or not.
LEMMA FinishReqMaps ==
    ASSUME RInv, RInv', NEW u \in Users, FinishReq(u), RadixAssumption, Unshared(cache.nodes, freePages)
    PROVE  Unshared(cache'.nodes, freePages') /\ Trie!Finish(u)
<1>1. held[u] # NoHandle /\ held' = [held EXCEPT ![u] = NoHandle] /\ recurrent' = recurrent
    BY DEF FinishReq
<1>2. /\ RTypes /\ Viewed /\ Viewed' /\ Handles(HandlesOf(held)) /\ Counts(cache.nodes, HandlesOf(held))
      /\ Good(cache, HandlesOf(held)) /\ Good(cache', HandlesOf(held'))
    BY ViewIs, ViewNext, HandlesAre DEF RInv
<1>3. /\ HandlesOf(held)[u] = held[u].handle /\ held[u].handle \in Text /\ HandlesOf(held)[u] # NoPath
      /\ held[u].ids \in Streams
    BY <1>1, HolderIs, PathIsNot
<1>4. HandlesOf(held') = [HandlesOf(held) EXCEPT ![u] = NoPath]
  <2>1. held \in [Users -> [ids : Text, handle : Seq(Int)]] /\ NoHandle.handle = NoPath
    BY <1>2 DEF RTypes, NoHandle, NoPath
  <2>. QED  BY <1>1, <2>1, HandlesSet
<1>. DEFINE Ends(ids) ==
                /\ Commits(ids) /\ Added(ids) /\ Unshared(cache'.nodes, freePages')
                /\ TrieRefs' = Unlock(InsertRefs(TrieRefs, ids), HandlesOf(held)[u])
            Ended == \E ids \in Text : Ends(ids)
<1>5. Ended
  <2>1. ASSUME Tick,
               \E k \in (Len(held[u].handle) \div PageSize)..(Len(held[u].ids) \div PageSize) :
                  LET ids == PathTo(held[u].ids, k)
                  IN  /\ Insert(ids)
                      /\ cache' = Unlocked(Inserted(cache, ids, Brought(ids), clock'), held[u].handle)
                      /\ Capture(ids)
        PROVE  Ended
    <3>1. PICK k \in (Len(held[u].handle) \div PageSize)..(Len(held[u].ids) \div PageSize) :
                  LET ids == PathTo(held[u].ids, k)
                  IN  /\ Insert(ids)
                      /\ cache' = Unlocked(Inserted(cache, ids, Brought(ids), clock'), held[u].handle)
                      /\ Capture(ids)
      BY <2>1
    <3>2. PICK ids : ids = PathTo(held[u].ids, k)
      OBVIOUS
    <3>3. Insert(ids) /\ cache' = Unlocked(Inserted(cache, ids, Brought(ids), clock'), held[u].handle)
      BY <3>1, <3>2
    <3>4. ids \in Text /\ Aligned(ids) /\ Commits(ids)
      BY <1>1, <3>2, CommitIs, CommitsIs
    <3>5. PICK tic \in Nat : tic = clock'
      BY <1>2, <2>1 DEF RTypes, Tick
    <3>6. PICK pages : pages = Brought(ids)
      OBVIOUS
    <3>7. Gains(cache.nodes, cache'.nodes, ids, pages)
      BY <1>1, <3>3, <3>4, <3>5, <3>6, CommitGains
    <3>8. IsInjective(pages) /\ ToSet(pages) \subseteq freePages /\ freePages' = freePages \ ToSet(pages)
      BY <3>3, <3>4, <3>6, BroughtIs
    <3>9. /\ Added(ids) /\ Unshared(cache'.nodes, freePages')
          /\ TrieRefs' = RefsOf(cache'.nodes, HandlesOf(held'))
          /\ RefsOf(cache'.nodes, HandlesOf(held)) = InsertRefs(RefsOf(cache.nodes, HandlesOf(held)), ids)
      BY <1>2, <3>4, <3>7, <3>8, AddedBy
    <3>10. TrieRefs' = Unlock(InsertRefs(TrieRefs, ids), HandlesOf(held)[u])
      <4>1. PICK hs : hs = HandlesOf(held)
        OBVIOUS
      <4>2. PICK nt : nt = cache'.nodes
        OBVIOUS
      <4>3. PICK r : r = InsertRefs(TrieRefs, ids)
        OBVIOUS
      <4>4. Handles(hs) /\ hs[u] \in Text /\ RefsOf(nt, hs) = r
        BY <1>2, <1>3, <3>9, <4>1, <4>2, <4>3 DEF TrieRefs
      <4>5. RefsOf(nt, [hs EXCEPT ![u] = NoPath]) = Unlock(RefsOf(nt, hs), hs[u])
        BY <4>4, UnlockRefs
      <4>. QED  BY <1>4, <3>9, <4>1, <4>2, <4>3, <4>4, <4>5
    <3>. QED  BY <3>4, <3>9, <3>10
  <2>2. ASSUME cache' = Unlocked(cache, held[u].handle), freePages' = freePages
        PROVE  Ended
    <3>1. PICK h : h = held[u].handle
      OBVIOUS
    <3>2. Alike(cache.nodes, cache'.nodes)
      BY <1>2, <2>2, UnlockedAlike
    <3>3. TrieTree' = TrieTree /\ TrieRefs' = RefsOf(cache.nodes, HandlesOf(held'))
      BY <3>2, SameTree
    <3>4. Unshared(cache'.nodes, freePages')
      BY <2>2, <3>2, AlikeSame
    <3>5. Commits(Root) /\ PathsOf(Root) = {} /\ InsertRefs(TrieRefs, Root) = TrieRefs
      <4>1. TrieRefs = [p \in DOMAIN TrieRefs |-> TrieRefs[p]]
        BY DEF TrieRefs, RefsOf
      <4>. QED  BY <1>3, <4>1, NothingCommitted
    <3>6. \A m, n \in DOMAIN TrieTree : TrieTree[m] = TrieTree[n] => m = n
      BY DEF TrieTree, TreeOf, Unshared
    <3>7. Added(Root)
      BY <3>3, <3>5, <3>6 DEF Added
    <3>8. TrieRefs' = Unlock(InsertRefs(TrieRefs, Root), HandlesOf(held)[u])
      <4>1. PICK hs : hs = HandlesOf(held)
        OBVIOUS
      <4>2. PICK ns : ns = cache.nodes
        OBVIOUS
      <4>3. Handles(hs) /\ hs[u] \in Text
        BY <1>2, <1>3, <4>1
      <4>4. RefsOf(ns, [hs EXCEPT ![u] = NoPath]) = Unlock(RefsOf(ns, hs), hs[u])
        BY <4>3, UnlockRefs
      <4>. QED  BY <1>4, <3>3, <3>5, <4>1, <4>2, <4>4 DEF TrieRefs
    <3>9. Root \in Text
      BY DEF Root, Text
    <3>. QED  BY <3>4, <3>5, <3>7, <3>8, <3>9
  <2>. HIDE DEF Ended
  <2>. QED  BY <2>1, <2>2 DEF FinishReq
<1>6. PICK ids \in Text : Ends(ids)
    BY <1>5
<1>7. Trie!Finish(u)
    BY <1>1, <1>2, <1>3, <1>4, <1>6, FinishBy
<1>. QED  BY <1>6, <1>7

\* A snapshot moves no page.
LEMMA AttachAlike ==
    ASSUME NEW hs, Good(cache, hs), NEW gs, Good(cache', gs), NEW ns, Tree(ns), NEW n, Attach(ns, n, n)
    PROVE  Alike(ns, cache'.nodes)
<1>. DEFINE live == IF ns[n].rec = NoState THEN Append(recNodes, n) ELSE recNodes
            over == IF Len(live) > SnapshotCap THEN Len(live) - SnapshotCap ELSE 0
            lost == ToSet(SubSeq(live, 1, over))
            nt == [m \in DOMAIN ns |->
                      IF m \in lost THEN [ns[m] EXCEPT !.rec = NoState]
                      ELSE IF m = n THEN [ns[m] EXCEPT !.rec = n] ELSE ns[m]]
<1>1. cache' = [cache EXCEPT !.nodes = nt]
    BY DEF Attach
<1>. HIDE DEF live, over, lost
<1>2. cache = [nodes |-> cache.nodes, evictable |-> cache.evictable, protected |-> cache.protected, heap |-> cache.heap]
    BY DEF Good
<1>3. ASSUME NEW m \in DOMAIN ns PROVE nt[m].parent = ns[m].parent /\ nt[m].value = ns[m].value
  <2>1. ns[m] \in Node
    BY NodeIs
  <2>. QED  BY <2>1 DEF Node
<1>4. SamePlaces(ns, nt)
    BY <1>3 DEF SamePlaces
<1>. HIDE DEF nt
<1>5. cache'.nodes = nt
    BY <1>1, <1>2
<1>6. Tree(nt)
    BY <1>5 DEF Good
<1>. QED  BY <1>4, <1>5, <1>6, SameAlike

\* A step that moves no page, takes or gives none, and changes no handle is none of PageTrie's.
LEMMA StillMaps ==
    ASSUME RInv, RInv', Alike(cache.nodes, cache'.nodes), held' = held, recurrent' = recurrent,
           freePages' = freePages, Unshared(cache.nodes, freePages)
    PROVE  Unshared(cache'.nodes, freePages') /\ UNCHANGED Trie!vars
<1>1. TrieTree' = TrieTree /\ TrieRefs' = RefsOf(cache.nodes, HandlesOf(held'))
    BY SameTree
<1>2. HandlesOf(held') = HandlesOf(held) /\ TrieRefs' = TrieRefs
    BY <1>1 DEF TrieRefs
<1>3. Viewed /\ Viewed'
    BY ViewIs, ViewNext
<1>4. Unshared(cache'.nodes, freePages')
    BY AlikeSame
<1>. QED  BY <1>1, <1>2, <1>3, <1>4, StutterBy

\* A snapshot at a boundary may split a node, which PageTrie does not see.
LEMMA AttachAtMaps ==
    ASSUME RInv, RInv', AttachAt, RadixAssumption
    PROVE  Alike(cache.nodes, cache'.nodes)
<1>1. pc = "capture"
    BY DEF AttachAt
<1>2. PICK k \in fresh.done + 1..(Len(fresh.end) \div PageSize) - 1 :
         LET p  == PathTo(fresh.end, k)
             ns == IF p \in DOMAIN cache.nodes THEN cache.nodes ELSE SplitAt(cache.nodes, p)
         IN  Attach(ns, p, p) /\ fresh' = [fresh EXCEPT !.done = k]
    BY DEF AttachAt
<1>3. PICK p : p = PathTo(fresh.end, k)
    OBVIOUS
<1>4. PICK ns : ns = IF p \in DOMAIN cache.nodes THEN cache.nodes ELSE SplitAt(cache.nodes, p)
    OBVIOUS
<1>5. Attach(ns, p, p)
    BY <1>2, <1>3, <1>4
<1>6. /\ p \in Text /\ p # Root /\ Aligned(p) /\ IsPrefix(p, fresh.end) /\ fresh.end \in DOMAIN cache.nodes
    BY <1>1, <1>3, CapturePath
<1>7. Good(cache, HandlesOf(held)) /\ Good(cache', HandlesOf(held')) /\ Tree(cache.nodes)
    BY DEF RInv, Good
<1>8. Tree(ns) /\ Alike(cache.nodes, ns)
  <2>1. CASE p \in DOMAIN cache.nodes
    BY <1>4, <1>7, <2>1 DEF Alike
  <2>2. CASE p \notin DOMAIN cache.nodes
    <3>1. CanCut(cache.nodes, p) /\ ns = SplitAt(cache.nodes, p)
      BY <1>4, <1>6, <2>2 DEF CanCut
    <3>. QED  BY <1>7, <3>1, SplitTree, SplitAlike
  <2>. QED  BY <2>1, <2>2
<1>9. Alike(ns, cache'.nodes)
    BY <1>5, <1>7, <1>8, AttachAlike
<1>. QED  BY <1>8, <1>9, AlikeTrans

\* Neither does it see the snapshot at the end.
LEMMA AttachEndMaps ==
    ASSUME RInv, RInv', AttachEnd, RadixAssumption
    PROVE  Alike(cache.nodes, cache'.nodes)
<1>1. Good(cache, HandlesOf(held)) /\ Good(cache', HandlesOf(held')) /\ Tree(cache.nodes)
    BY DEF RInv, Good
<1>2. CASE Attach(cache.nodes, fresh.end, fresh.end)
  <2>1. PICK ns : ns = cache.nodes
    OBVIOUS
  <2>2. PICK n : n = fresh.end
    OBVIOUS
  <2>3. Tree(ns) /\ Attach(ns, n, n)
    BY <1>1, <1>2, <2>1, <2>2
  <2>4. Alike(ns, cache'.nodes)
    BY <1>1, <2>3, AttachAlike
  <2>. QED  BY <2>1, <2>4
<1>3. CASE cache' = cache
    BY <1>3 DEF Alike
<1>. QED  BY <1>2, <1>3 DEF AttachEnd

\* The pages of an unreferenced leaf are a set that PageTrie may evict.
LEMMA LeafGoes ==
    ASSUME NEW ns, Tree(ns), NEW hs, Counts(ns, hs), NEW n \in FreeNodes(ns), IsLeaf(ns, n)
    PROVE  PathsAt(ns, n) \in EvictionSets(RefsOf(ns, hs), 1)
<1>. DEFINE gone == PathsAt(ns, n)  r == RefsOf(ns, hs)
<1>1. /\ n \in DOMAIN ns /\ ns[n].ref = 0 /\ n \in Text /\ n # Root /\ Aligned(n) /\ IsPrefix(n, n)
      /\ Len(ns[n].parent) < Len(n)
    BY NodeIs DEF FreeNodes
<1>2. ASSUME NEW p \in gone
      PROVE  p \in PathsIn(ns) /\ Over(ns, n, p) /\ p \in Text /\ p # Root /\ Aligned(p) /\ IsPrefix(p, n)
    BY DEF PathsAt, PathsIn, Over
<1>3. DOMAIN r = PathsIn(ns)
    BY DEF RefsOf
<1>4. ASSUME NEW p \in gone PROVE p \in Unreferenced(r)
  <2>1. ns[n].ref = Cardinality(Through(hs, p))
    BY <1>1, <1>2, PathRef
  <2>. QED  BY <1>1, <1>2, <2>1 DEF Unreferenced, RefsOf
<1>5. n \in gone
  <2>1. Over(ns, n, n)
    BY <1>1 DEF Over
  <2>. QED  BY <1>1, <2>1, OverIn DEF PathsAt
<1>6. IsFiniteSet(gone)
  <2>1. PathsOf(n) = {p \in Text : p # Root /\ Aligned(p) /\ IsPrefix(p, n)}
    BY <1>1, PathsAre
  <2>2. gone \subseteq PathsOf(n)
    BY <1>2, <2>1
  <2>. HIDE DEF gone
  <2>. QED  BY <1>1, <2>2, PathCount, FS_Subset
<1>7. Cardinality(gone) >= 1
  <2>. HIDE DEF gone
  <2>1. Cardinality(gone) \in Nat /\ Cardinality(gone) # 0
    BY <1>5, <1>6, FS_EmptySet, FS_CardinalityType
  <2>. QED  BY <2>1
<1>8. ASSUME NEW p \in gone, NEW m \in PathsIn(ns), p \in PathsOf(m) PROVE m \in gone
  <2>1. m \in Text /\ m # Root /\ Aligned(m) /\ \E x \in DOMAIN ns : IsPrefix(m, x)
    BY DEF PathsIn
  <2>2. IsPrefix(p, m) /\ Len(p) \in Nat /\ Len(m) \in Nat /\ Len(p) <= Len(m) /\ Len(ns[n].parent) \in Nat
        /\ Len(ns[n].parent) < Len(p)
    <3>1. PathsOf(m) = {q \in Text : q # Root /\ Aligned(q) /\ IsPrefix(q, m)}
      BY <2>1, PathsAre
    <3>2. IsPrefix(p, m) /\ p \in Text
      BY <1>8, <3>1
    <3>. QED  BY <1>1, <1>2, <1>8, <2>1, <3>2, PrefixLen, NodeIs DEF Text, Over
  <2>3. PICK y \in DOMAIN ns : Over(ns, y, m)
    BY <2>1, OverExists
  <2>4. y \in Text /\ IsPrefix(m, y)
    BY <2>3, NodeIs DEF Over
  <2>5. IsPrefix(p, y)
    BY <1>2, <1>8, <2>1, <2>2, <2>4, PrefixTrans DEF Text
  <2>6. PICK z \in DOMAIN ns : Over(ns, z, p) /\ IsPrefix(z, y)
    BY <1>2, <1>8, <2>5, OverExists
  <2>7. z = n
    BY <1>1, <1>2, <1>8, <2>6 DEF Tree, OneOver
  <2>8. y = n
    BY <1>1, <2>6, <2>7, LeafIs
  <2>. QED  BY <2>3, <2>8, <1>8 DEF PathsAt
<1>. HIDE DEF gone
<1>9. \A p \in gone, m \in DOMAIN r : p \in PathsOf(m) => m \in gone
    BY <1>3, <1>8
<1>. HIDE DEF r
<1>10. gone \in EvictionSets(r, 1)
    BY <1>4, <1>7, <1>9 DEF EvictionSets
<1>. QED  BY <1>10 DEF gone, r

\* Without the leaf, PageTrie lacks its pages, and they are free.
LEMMA LeafGone ==
    ASSUME NEW ns, Tree(ns), NEW hs, NEW n \in DOMAIN ns, IsLeaf(ns, n), NEW free, Unshared(ns, free)
    PROVE  LET nt == Without(ns, {n})
               gone == PathsAt(ns, n)
           IN  /\ TreeOf(nt) = Without(TreeOf(ns), gone) /\ RefsOf(nt, hs) = Without(RefsOf(ns, hs), gone)
               /\ Unshared(nt, free \cup ToSet(ns[n].value))
<1>. DEFINE nt == Without(ns, {n})  gone == PathsAt(ns, n)
<1>1. /\ PathsIn(nt) = PathsIn(ns) \ gone
      /\ \A p \in PathsIn(ns) \ gone : PageIn(nt, p) = PageIn(ns, p)
    BY PrunedPages
<1>2. ToSet(ns[n].value) = {PageIn(ns, p) : p \in gone}
    BY ValueIs
<1>3. gone \subseteq PathsIn(ns)
    BY DEF PathsAt
<1>. HIDE DEF nt, gone
<1>4. TreeOf(nt) = Without(TreeOf(ns), gone)
    BY <1>1 DEF TreeOf, Without
<1>5. RefsOf(nt, hs) = Without(RefsOf(ns, hs), gone)
    BY <1>1 DEF RefsOf, Without
<1>6. \A p, q \in PathsIn(nt) : PageIn(nt, p) = PageIn(nt, q) => p = q
    BY <1>1 DEF Unshared
<1>7. ASSUME NEW p \in PathsIn(nt) PROVE PageIn(nt, p) \notin free \cup ToSet(ns[n].value)
  <2>1. p \in PathsIn(ns) /\ p \notin gone /\ PageIn(nt, p) = PageIn(ns, p) /\ PageIn(ns, p) \notin free
    BY <1>1, <1>7 DEF Unshared
  <2>2. ASSUME NEW q \in gone, PageIn(ns, q) = PageIn(ns, p) PROVE FALSE
    <3>1. q \in PathsIn(ns)
      BY <1>3
    <3>2. q = p
      BY <2>1, <2>2, <3>1 DEF Unshared
    <3>. QED  BY <2>1, <2>2, <3>2
  <2>. QED  BY <1>2, <2>1, <2>2
<1>8. Unshared(nt, free \cup ToSet(ns[n].value))
    BY <1>6, <1>7 DEF Unshared
<1>. QED  BY <1>4, <1>5, <1>8 DEF nt, gone

\* A pop is PageTrie's eviction when the entry is valid, and nothing otherwise.
LEMMA PopMaps ==
    ASSUME RInv, RInv', PopEntry, RadixAssumption, Unshared(cache.nodes, freePages)
    PROVE  Unshared(cache'.nodes, freePages') /\ (Trie!Evict \/ UNCHANGED Trie!vars)
<1>1. UNCHANGED <<recurrent, held>>
    BY DEF PopEntry
<1>2. PICK popped : popped = [cache EXCEPT !.heap = @ \ {Top}]
    OBVIOUS
<1>3. PICK n : n = Top[2]
    OBVIOUS
<1>4. \/ ~Valid(Top) /\ cache' = popped /\ freePages' = freePages
      \/ /\ Valid(Top) /\ cache' = Unlinked(popped, n)
         /\ freePages' = freePages \cup ToSet(cache.nodes[n].value)
    BY <1>2, <1>3 DEF PopEntry
<1>5. /\ Good(cache, HandlesOf(held)) /\ Tree(cache.nodes) /\ Counts(cache.nodes, HandlesOf(held))
      /\ Viewed /\ Viewed'
    BY ViewIs, ViewNext, HandlesAre
<1>6. CASE ~Valid(Top) /\ cache' = popped /\ freePages' = freePages
  <2>1. cache'.nodes = cache.nodes
    BY <1>2, <1>5, <1>6 DEF Good
  <2>2. Alike(cache.nodes, cache'.nodes)
    BY <2>1 DEF Alike
  <2>. QED  BY <1>1, <1>6, <2>2, StillMaps
<1>7. CASE /\ Valid(Top) /\ cache' = Unlinked(popped, n)
           /\ freePages' = freePages \cup ToSet(cache.nodes[n].value)
  <2>1. n \in FreeNodes(cache.nodes) /\ IsLeaf(cache.nodes, n) /\ n \in DOMAIN cache.nodes
    BY <1>3, <1>7 DEF Valid, FreeNodes
  <2>2. cache'.nodes = Without(cache.nodes, {n})
    <3>1. PICK e : e = Top
      OBVIOUS
    <3>2. PICK c : c = cache
      OBVIOUS
    <3>3. Good(c, HandlesOf(held)) /\ Pops(c, popped, n, e)
      BY <1>2, <1>3, <1>5, <2>1, <3>1, <3>2 DEF Pops
    <3>4. Evicts(c, Unlinked(popped, n), n)
      BY <3>3, UnlinkedGood
    <3>. QED  BY <1>7, <3>2, <3>4 DEF Evicts
  <2>3. PICK ns : ns = cache.nodes
    OBVIOUS
  <2>4. PICK hs : hs = HandlesOf(held)
    OBVIOUS
  <2>5. PICK gone : gone = PathsAt(ns, n)
    OBVIOUS
  <2>6. /\ Tree(ns) /\ Counts(ns, hs) /\ n \in FreeNodes(ns) /\ n \in DOMAIN ns /\ IsLeaf(ns, n)
        /\ Unshared(ns, freePages) /\ cache'.nodes = Without(ns, {n})
    BY <1>5, <2>1, <2>2, <2>3, <2>4
  <2>7. gone \in EvictionSets(RefsOf(ns, hs), 1)
    BY <2>5, <2>6, LeafGoes
  <2>8. /\ TreeOf(cache'.nodes) = Without(TreeOf(ns), gone)
        /\ RefsOf(cache'.nodes, hs) = Without(RefsOf(ns, hs), gone)
        /\ Unshared(cache'.nodes, freePages \cup ToSet(ns[n].value))
    BY <2>5, <2>6, LeafGone
  <2>9. HandlesOf(held') = HandlesOf(held) /\ Unshared(cache'.nodes, freePages')
    BY <1>1, <1>7, <2>3, <2>8
  <2>10. /\ TrieTree' = Without(TrieTree, gone) /\ TrieRefs' = Without(TrieRefs, gone)
         /\ gone \in EvictionSets(TrieRefs, 1)
    BY <2>3, <2>4, <2>7, <2>8, <2>9 DEF TrieTree, TrieRefs
  <2>11. Trie!Evict
    BY <1>1, <1>5, <2>9, <2>10, EvictBy
  <2>. QED  BY <2>9, <2>11
<1>. QED  BY <1>4, <1>6, <1>7

\* Every step of the radix cache is one of PageTrie's or none, and shares no page.
LEMMA TrieStep ==
    ASSUME RInv, RInv', [Next]_vars, RadixAssumption, Unshared(cache.nodes, freePages)
    PROVE  Unshared(cache'.nodes, freePages') /\ [Trie!Next]_(Trie!vars)
<1>1. ASSUME NEW u \in Users, Match(u)
      PROVE  Unshared(cache'.nodes, freePages') /\ [Trie!Next]_(Trie!vars)
    BY <1>1, MatchMaps DEF Trie!Next
<1>2. ASSUME NEW u \in Users, CacheReq(u)
      PROVE  Unshared(cache'.nodes, freePages') /\ [Trie!Next]_(Trie!vars)
    BY <1>2, CacheReqMaps DEF Trie!Next
<1>3. ASSUME NEW u \in Users, FinishReq(u)
      PROVE  Unshared(cache'.nodes, freePages') /\ [Trie!Next]_(Trie!vars)
    BY <1>3, FinishReqMaps DEF Trie!Next
<1>4. CASE AttachAt
  <2>1. held' = held /\ recurrent' = recurrent /\ freePages' = freePages
    BY <1>4 DEF AttachAt
  <2>. QED  BY <1>4, <2>1, AttachAtMaps, StillMaps
<1>5. CASE AttachEnd
  <2>1. held' = held /\ recurrent' = recurrent /\ freePages' = freePages
    BY <1>5 DEF AttachEnd
  <2>. QED  BY <1>5, <2>1, AttachEndMaps, StillMaps
<1>6. CASE BeginEvict \/ EndEvict \/ UNCHANGED vars
  <2>1. cache' = cache /\ held' = held /\ recurrent' = recurrent /\ freePages' = freePages
    BY <1>6 DEF BeginEvict, EndEvict, vars
  <2>2. Alike(cache.nodes, cache'.nodes)
    BY <2>1 DEF Alike
  <2>. QED  BY <2>1, <2>2, StillMaps
<1>7. CASE PopEntry
    BY <1>7, PopMaps DEF Trie!Next
<1>. QED  BY <1>1, <1>2, <1>3, <1>4, <1>5, <1>6, <1>7 DEF Next

\* No page is in the tree twice, or in the tree and in the pool of free pages.
PagesDistinct == Unshared(cache.nodes, freePages)

\* No page of the pool is ever in the tree under two paths, nor in the tree and
\* free at once, through every split, insertion and eviction.
THEOREM PagesStayDistinct == Spec => []PagesDistinct
<1>1. Init => PagesDistinct
    BY TrieInit, RadixAssumption DEF PagesDistinct
<1>2. RInv /\ RInv' /\ PagesDistinct /\ [Next]_vars => PagesDistinct'
    BY TrieStep, RadixAssumption DEF PagesDistinct
<1>. QED  BY <1>1, <1>2, RadixInvariant, PTL DEF Spec

\* The compressed tree, its split nodes, its reference counts and its heap
\* implement the page-granular prefix cache: every step hands out the longest
\* cached prefix (or a shorter one where recurrent state caps it), adds the
\* paths of a commit without moving a page, evicts unreferenced pages, the
\* deepest of them first, or is one that PageTrie does not see.
THEOREM RadixRefinesTrie == Spec => TrieSpec
<1>1. Init => Trie!Init
    BY TrieInit, RadixAssumption
<1>2. RInv /\ RInv' /\ PagesDistinct /\ [Next]_vars => [Trie!Next]_(Trie!vars)
    BY TrieStep, RadixAssumption DEF PagesDistinct
<1>. QED  BY <1>1, <1>2, RadixInvariant, PagesStayDistinct, PTL DEF Spec, TrieSpec, Trie!Spec
=============================================================================
