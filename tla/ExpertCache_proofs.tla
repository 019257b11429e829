------------------------- MODULE ExpertCache_proofs -------------------------
(***************************************************************************)
(* The expert cache, for any number of keys, slots, copies and ticks.      *)
(* Three layers, each an invariant that uses the ones before it:           *)
(*                                                                         *)
(*  - HInv, the host: the five places a slot can be in are disjoint and    *)
(*    cover all slots, the policy has the keys that hold one, and, if no   *)
(*    key is evicted during a tick, an entry that is followed is for a key *)
(*    that still has the slot.  Therefore admitting a key into a free slot *)
(*    evicts nobody, and what is abandoned is a claim.                     *)
(*  - AInv, host and device: what the table will say is claimed or on its  *)
(*    way to being retracted, a claim is readable or its copy is followed; *)
(*    a key that has a slot again while its retraction waits has its copy  *)
(*    under way; nothing followed is published.                            *)
(*  - BInv, the bytes: a reference of the table, now or after any of the   *)
(*    writes left, names a row with the right bytes; a copy waits until    *)
(*    the last reference of another key to its row is overwritten, which   *)
(*    the event of a free slot tells; an entry whose event has happened    *)
(*    has its bytes in place and nobody is going to write over them.       *)
(*                                                                         *)
(* The manager evicts during a tick and copies get lost only in different  *)
(* behaviours (Separate): together they break all three, which is a finding *)
(* of the README.  The last layer is about the behaviours with no eviction *)
(* during a tick and, if copies get lost, a tick that waits for the compute *)
(* stream (Orderly): with evictions, a copy that outlasts three ticks is   *)
(* another finding.                                                        *)
(***************************************************************************)
EXTENDS ExpertCache, SequenceTheorems, FiniteSetTheorems, WellFoundedInduction, TLAPS

----------------------------------------------------------------------------
(* Sequences.                                                              *)

\* A set of numbers has a least one.
LEMMA Least ==
    ASSUME NEW S \in SUBSET Nat, S # {}
    PROVE  \E n \in S : \A m \in S : n <= m
<1>1. PICK n \in S : \A m \in S : ~(<<m, n>> \in OpToRel(<, Nat))
    BY NatLessThanWellFounded, WFMin
<1>2. \A m \in S : ~(m < n)
    BY <1>1 DEF OpToRel
<1>3. \A m \in S : n <= m
    BY <1>2
<1>. QED  BY <1>3

\* A set of numbers with a bound has a greatest one.
LEMMA Greatest ==
    ASSUME NEW S \in SUBSET Nat, S # {}, NEW b \in Nat, \A n \in S : n <= b
    PROVE  \E n \in S : \A m \in S : m <= n
<1>. DEFINE D == {b - n : n \in S}
<1>0. \A n \in S : n \in Nat /\ n <= b
    OBVIOUS
<1>1. D \in SUBSET Nat /\ D # {}
  <2>1. \A n \in S : b - n \in Nat
    BY <1>0
  <2>. QED  BY <2>1
<1>2. PICK d \in D : \A e \in D : d <= e
    BY <1>1, Least
<1>3. PICK n \in S : d = b - n
    OBVIOUS
<1>4. \A m \in S : b - m \in D
    OBVIOUS
<1>5. \A m \in S : b - n <= b - m
    BY <1>2, <1>3, <1>4
<1>6. \A m \in S : m <= n
    BY <1>5
<1>. QED  BY <1>6

\* What Append, \o, Tail and Front do to the elements of a sequence.
LEMMA AppendElements ==
    ASSUME NEW T, NEW s \in Seq(T), NEW x \in T
    PROVE  /\ ToSet(Append(s, x)) = ToSet(s) \cup {x}
           /\ IsInjective(s) /\ x \notin ToSet(s) => IsInjective(Append(s, x))
<1>1. DOMAIN s = 1 .. Len(s) /\ DOMAIN Append(s, x) = 1 .. Len(s) + 1 /\ Len(s) \in Nat
    OBVIOUS
<1>2. \A i \in 1 .. Len(s) : Append(s, x)[i] = s[i]
    OBVIOUS
<1>3. Append(s, x)[Len(s) + 1] = x
    OBVIOUS
<1>4. ToSet(Append(s, x)) = ToSet(s) \cup {x}
  <2>1. ToSet(Append(s, x)) \subseteq ToSet(s) \cup {x}
    BY <1>1, <1>2, <1>3 DEF ToSet
  <2>2. ToSet(s) \subseteq ToSet(Append(s, x))
    BY <1>1, <1>2 DEF ToSet
  <2>3. x \in ToSet(Append(s, x))
    BY <1>1, <1>3 DEF ToSet
  <2>. QED  BY <2>1, <2>2, <2>3
<1>5. ASSUME IsInjective(s), x \notin ToSet(s) PROVE IsInjective(Append(s, x))
    BY <1>1, <1>2, <1>3, <1>5 DEF IsInjective, ToSet
<1>. QED  BY <1>4, <1>5

LEMMA ConcatElements ==
    ASSUME NEW T, NEW s \in Seq(T), NEW t \in Seq(T)
    PROVE  /\ ToSet(s \o t) = ToSet(s) \cup ToSet(t)
           /\ IsInjective(s) /\ IsInjective(t) /\ ToSet(s) \cap ToSet(t) = {}
                 => IsInjective(s \o t)
<1>1. /\ DOMAIN s = 1 .. Len(s) /\ DOMAIN t = 1 .. Len(t)
      /\ DOMAIN (s \o t) = 1 .. Len(s) + Len(t) /\ Len(s) \in Nat /\ Len(t) \in Nat
    OBVIOUS
<1>2. \A i \in 1 .. Len(s) : (s \o t)[i] = s[i]
    OBVIOUS
<1>3. \A i \in 1 .. Len(t) : (s \o t)[Len(s) + i] = t[i]
    OBVIOUS
<1>4. \A i \in 1 .. Len(s) + Len(t) :
         i \in 1 .. Len(s) \/ (i - Len(s) \in 1 .. Len(t) /\ (s \o t)[i] = t[i - Len(s)])
    BY <1>1, <1>3
<1>5. ToSet(s \o t) = ToSet(s) \cup ToSet(t)
  <2>1. ToSet(s \o t) \subseteq ToSet(s) \cup ToSet(t)
    BY <1>1, <1>2, <1>4 DEF ToSet
  <2>2. ToSet(s) \subseteq ToSet(s \o t)
    BY <1>1, <1>2 DEF ToSet
  <2>3. ToSet(t) \subseteq ToSet(s \o t)
    <3>1. \A i \in DOMAIN t : Len(s) + i \in DOMAIN (s \o t)
      BY <1>1
    <3>. QED  BY <3>1, <1>1, <1>3 DEF ToSet
  <2>. QED  BY <2>1, <2>2, <2>3
<1>6. ASSUME IsInjective(s), IsInjective(t), ToSet(s) \cap ToSet(t) = {},
             NEW i \in 1 .. Len(s) + Len(t), NEW j \in 1 .. Len(s) + Len(t),
             (s \o t)[i] = (s \o t)[j]
      PROVE  i = j
  <2>1. CASE i \in 1 .. Len(s) /\ j \in 1 .. Len(s)
    BY <2>1, <1>1, <1>2, <1>6 DEF IsInjective
  <2>2. CASE i \in 1 .. Len(s) /\ j \notin 1 .. Len(s)
    BY <2>2, <1>1, <1>2, <1>4, <1>6 DEF ToSet
  <2>3. CASE i \notin 1 .. Len(s) /\ j \in 1 .. Len(s)
    BY <2>3, <1>1, <1>2, <1>4, <1>6 DEF ToSet
  <2>4. CASE i \notin 1 .. Len(s) /\ j \notin 1 .. Len(s)
    <3>1. i - Len(s) = j - Len(s)
      BY <2>4, <1>1, <1>4, <1>6 DEF IsInjective
    <3>. QED  BY <3>1, <1>1
  <2>. QED  BY <2>1, <2>2, <2>3, <2>4
<1>. QED  BY <1>1, <1>5, <1>6 DEF IsInjective

LEMMA TailElements ==
    ASSUME NEW T, NEW s \in Seq(T), s # << >>
    PROVE  /\ Tail(s) \in Seq(T) /\ Head(s) \in T /\ Head(s) = s[1] /\ 1 \in DOMAIN s
           /\ DOMAIN Tail(s) = 1 .. Len(s) - 1 /\ Len(s) \in Nat \ {0}
           /\ DOMAIN s = 1 .. Len(s)
           /\ \A i \in DOMAIN Tail(s) : Tail(s)[i] = s[i + 1] /\ i + 1 \in DOMAIN s
           /\ \A i \in DOMAIN s : i # 1 => i - 1 \in DOMAIN Tail(s) /\ s[i] = Tail(s)[i - 1]
           /\ ToSet(s) = ToSet(Tail(s)) \cup {Head(s)}
           /\ IsInjective(s) => IsInjective(Tail(s)) /\ Head(s) \notin ToSet(Tail(s))
<1>1. /\ Tail(s) \in Seq(T) /\ Head(s) \in T /\ Head(s) = s[1]
      /\ DOMAIN Tail(s) = 1 .. Len(s) - 1 /\ Len(s) \in Nat \ {0}
      /\ DOMAIN s = 1 .. Len(s)
    OBVIOUS
<1>2. \A i \in 1 .. Len(s) - 1 : Tail(s)[i] = s[i + 1]
    OBVIOUS
<1>3. /\ \A i \in DOMAIN Tail(s) : Tail(s)[i] = s[i + 1] /\ i + 1 \in DOMAIN s
      /\ \A i \in DOMAIN s : i # 1 => i - 1 \in DOMAIN Tail(s) /\ s[i] = Tail(s)[i - 1]
    BY <1>1, <1>2
<1>4. ToSet(s) = ToSet(Tail(s)) \cup {Head(s)}
  <2>1. \A i \in DOMAIN s : s[i] \in ToSet(Tail(s)) \cup {Head(s)}
    <3>1. ASSUME NEW i \in DOMAIN s, i # 1 PROVE s[i] \in ToSet(Tail(s))
      BY <1>3, <3>1 DEF ToSet
    <3>. QED  BY <3>1, <1>1
  <2>2. ToSet(Tail(s)) \subseteq ToSet(s)
    BY <1>3 DEF ToSet
  <2>3. Head(s) \in ToSet(s)
    BY <1>1 DEF ToSet
  <2>. QED  BY <2>1, <2>2, <2>3 DEF ToSet
<1>5. ASSUME IsInjective(s) PROVE IsInjective(Tail(s)) /\ Head(s) \notin ToSet(Tail(s))
  <2>1. IsInjective(Tail(s))
    <3>1. \A i, j \in DOMAIN Tail(s) : Tail(s)[i] = Tail(s)[j] => i + 1 = j + 1
      BY <1>3, <1>5 DEF IsInjective
    <3>. QED  BY <3>1, <1>1 DEF IsInjective
  <2>2. \A i \in DOMAIN Tail(s) : i + 1 # 1
    BY <1>1
  <2>3. Head(s) \notin ToSet(Tail(s))
    BY <1>1, <1>3, <1>5, <2>2 DEF IsInjective, ToSet
  <2>. QED  BY <2>1, <2>3
<1>. QED  BY <1>1, <1>3, <1>4, <1>5

LEMMA FrontElements ==
    ASSUME NEW T, NEW s \in Seq(T), s # << >>
    PROVE  /\ Front(s) \in Seq(T) /\ Last(s) \in T
           /\ ToSet(s) = ToSet(Front(s)) \cup {Last(s)}
           /\ IsInjective(s) => IsInjective(Front(s)) /\ Last(s) \notin ToSet(Front(s))
<1>1. Len(s) \in Nat \ {0} /\ DOMAIN s = 1 .. Len(s)
    OBVIOUS
<1>2. /\ Front(s) \in Seq(T) /\ DOMAIN Front(s) = 1 .. Len(s) - 1
      /\ \A i \in 1 .. Len(s) - 1 : Front(s)[i] = s[i]
  <2>1. \A i \in 1 .. Len(s) - 1 : s[i] \in T
    OBVIOUS
  <2>2. /\ SubSeq(s, 1, Len(s) - 1) \in Seq(T)
        /\ Len(SubSeq(s, 1, Len(s) - 1)) = Len(s) - 1
        /\ \A i \in 1 .. Len(s) - 1 : SubSeq(s, 1, Len(s) - 1)[i] = s[i]
    BY <1>1
  <2>. QED  BY <2>2 DEF Front
<1>3. Last(s) = s[Len(s)] /\ Last(s) \in T
    BY <1>1 DEF Last
<1>4. ToSet(s) = ToSet(Front(s)) \cup {Last(s)}
  <2>1. ToSet(s) \subseteq ToSet(Front(s)) \cup {Last(s)}
    BY <1>1, <1>2, <1>3 DEF ToSet
  <2>2. ToSet(Front(s)) \subseteq ToSet(s)
    BY <1>1, <1>2 DEF ToSet
  <2>3. Last(s) \in ToSet(s)
    BY <1>1, <1>3 DEF ToSet
  <2>. QED  BY <2>1, <2>2, <2>3
<1>5. ASSUME IsInjective(s) PROVE IsInjective(Front(s)) /\ Last(s) \notin ToSet(Front(s))
    BY <1>1, <1>2, <1>3, <1>5 DEF IsInjective, ToSet
<1>. QED  BY <1>2, <1>3, <1>4, <1>5

LEMMA PrefixElements ==
    ASSUME NEW T, NEW s \in Seq(T), NEW n \in Nat, n <= Len(s)
    PROVE  /\ SubSeq(s, 1, n) \in Seq(T) /\ ToSet(SubSeq(s, 1, n)) \subseteq ToSet(s)
           /\ IsInjective(s) => IsInjective(SubSeq(s, 1, n))
<1>1. Len(s) \in Nat /\ DOMAIN s = 1 .. Len(s)
    OBVIOUS
<1>2. /\ SubSeq(s, 1, n) \in Seq(T) /\ DOMAIN SubSeq(s, 1, n) = 1 .. n
      /\ \A i \in 1 .. n : SubSeq(s, 1, n)[i] = s[i]
    BY <1>1
<1>. QED  BY <1>1, <1>2 DEF ToSet, IsInjective

\* The definition of Only, one element of the sequence at a time.
OnlyStep(s, keys, only, i) ==
    IF i = 0 THEN << >>
    ELSE IF s[i] \in keys THEN Append(only[i - 1], s[i]) ELSE only[i - 1]

LEMMA OnlyExists ==
    ASSUME NEW T, NEW s \in Seq(T), NEW keys
    PROVE  \A n \in 0 .. Len(s) : \E f : f = [i \in 0 .. n |-> OnlyStep(s, keys, f, i)]
<1>. DEFINE P(n) == \E f : f = [i \in 0 .. n |-> OnlyStep(s, keys, f, i)]
            B == {n \in 0 .. Len(s) : ~P(n)}
<1>1. SUFFICES ASSUME B # {} PROVE FALSE
    OBVIOUS
<1>2. B \in SUBSET Nat
    BY LenProperties
<1>3. PICK n \in B : \A m \in B : n <= m
    BY <1>1, <1>2, Least
<1>4. CASE n = 0
  <2>. DEFINE f == [i \in 0 .. 0 |-> << >>]
  <2>1. f = [i \in 0 .. n |-> OnlyStep(s, keys, f, i)]
    BY <1>4 DEF OnlyStep
  <2>. QED  BY <2>1
<1>5. CASE n # 0
  <2>1. n - 1 \in 0 .. Len(s) /\ n - 1 \notin B /\ n \in Nat \ {0}
    BY <1>3, <1>5, LenProperties
  <2>2. PICK g : g = [i \in 0 .. n - 1 |-> OnlyStep(s, keys, g, i)]
    BY <2>1
  <2>. DEFINE f == [i \in 0 .. n |-> IF i < n THEN g[i] ELSE OnlyStep(s, keys, g, n)]
  <2>3. \A i \in 0 .. n : f[i] = OnlyStep(s, keys, f, i)
    <3>1. ASSUME NEW i \in 0 .. n PROVE f[i] = OnlyStep(s, keys, f, i)
      <4>1. i # 0 => f[i - 1] = g[i - 1]
        BY <2>1
      <4>2. CASE i < n
        <5>1. i \in 0 .. n - 1 /\ f[i] = g[i]
          BY <4>2, <2>1
        <5>2. g[i] = OnlyStep(s, keys, g, i)
          BY <5>1, <2>2
        <5>. QED  BY <4>1, <5>1, <5>2 DEF OnlyStep
      <4>3. CASE i = n
        <5>1. f[i] = OnlyStep(s, keys, g, i)
          BY <4>3, <2>1
        <5>. QED  BY <4>1, <5>1 DEF OnlyStep
      <4>. QED  BY <4>2, <4>3, <2>1
    <3>. QED  BY <3>1
  <2>4. f = [i \in 0 .. n |-> OnlyStep(s, keys, f, i)]
    BY <2>3
  <2>. QED  BY <2>4
<1>. QED  BY <1>4, <1>5

\* Only keeps the elements that are in the set.
LEMMA OnlyElements ==
    ASSUME NEW T, NEW s \in Seq(T), NEW keys
    PROVE  /\ Only(s, keys) \in Seq(T) /\ ToSet(Only(s, keys)) = ToSet(s) \cap keys
           /\ IsInjective(s) => IsInjective(Only(s, keys))
<1>. DEFINE f == CHOOSE f : f = [i \in 0 .. Len(s) |-> OnlyStep(s, keys, f, i)]
<1>0. Len(s) \in Nat /\ DOMAIN s = 1 .. Len(s)
    OBVIOUS
<1>1. f = [i \in 0 .. Len(s) |-> OnlyStep(s, keys, f, i)]
    BY OnlyExists, <1>0
<1>2. Only(s, keys) = f[Len(s)]
    BY DEF Only, OnlyStep
<1>3. \A i \in 0 .. Len(s) : f[i] = OnlyStep(s, keys, f, i)
    BY <1>1
<1>. HIDE DEF f
<1>. DEFINE Seen(i) == {s[j] : j \in 1 .. i}
            P(i) == /\ f[i] \in Seq(T) /\ ToSet(f[i]) = Seen(i) \cap keys
                    /\ IsInjective(s) => IsInjective(f[i])
            B == {i \in 0 .. Len(s) : ~P(i)}
<1>. HIDE DEF P
<1>4. ASSUME B # {} PROVE FALSE
  <2>0. B \in SUBSET Nat
    BY <1>0
  <2>1. PICK n \in B : \A m \in B : n <= m
    BY <1>4, <2>0, Least
  <2>2. CASE n = 0
    <3>1. f[n] = << >>
      BY <1>3, <2>2, <1>0 DEF OnlyStep
    <3>2. P(n)
      BY <3>1, <2>2 DEF ToSet, IsInjective, P
    <3>. QED  BY <3>2
  <2>3. CASE n # 0
    <3>1. n - 1 \in 0 .. Len(s) /\ n \in 1 .. Len(s) /\ n - 1 \notin B
      BY <2>1, <2>3, <1>0
    <3>2. P(n - 1)
      BY <3>1
    <3>3. f[n] = IF s[n] \in keys THEN Append(f[n - 1], s[n]) ELSE f[n - 1]
      BY <1>3, <3>1, <2>3 DEF OnlyStep
    <3>4. Seen(n) = Seen(n - 1) \cup {s[n]}
      <4>1. 1 .. n = (1 .. n - 1) \cup {n}
        BY <3>1, <1>0
      <4>. QED  BY <4>1
    <3>5. s[n] \in T
      BY <3>1, <1>0
    <3>6. IsInjective(s) => s[n] \notin Seen(n - 1)
      BY <3>1, <1>0 DEF IsInjective
    <3>7. P(n)
      <4>1. CASE s[n] \in keys
        <5>1. f[n] = Append(f[n - 1], s[n])
          BY <3>3, <4>1
        <5>2. /\ ToSet(f[n]) = ToSet(f[n - 1]) \cup {s[n]}
              /\ IsInjective(f[n - 1]) /\ s[n] \notin ToSet(f[n - 1]) => IsInjective(f[n])
          BY <5>1, <3>2, <3>5, AppendElements DEF P
        <5>3. f[n] \in Seq(T)
          BY <5>1, <3>2, <3>5 DEF P
        <5>. QED  BY <5>2, <5>3, <3>2, <3>4, <3>6, <4>1 DEF P
      <4>2. CASE s[n] \notin keys
        BY <4>2, <3>2, <3>3, <3>4 DEF P
      <4>. QED  BY <4>1, <4>2
    <3>. QED  BY <3>7
  <2>. QED  BY <2>2, <2>3
<1>5. P(Len(s))
    BY <1>4, <1>0
<1>6. Seen(Len(s)) = ToSet(s)
    BY <1>0 DEF ToSet
<1>. QED  BY <1>2, <1>5, <1>6 DEF P

LEMMA WithoutElements ==
    ASSUME NEW T, NEW s \in Seq(T), NEW keys
    PROVE  /\ Without(s, keys) \in Seq(T) /\ ToSet(Without(s, keys)) = ToSet(s) \ keys
           /\ IsInjective(s) => IsInjective(Without(s, keys))
    BY OnlyElements DEF Without

----------------------------------------------------------------------------
(* The policy.                                                             *)

\* A policy has every key once.
Policies == [probation : Seq(Keys), protected : Seq(Keys)]

Sound(p) ==
    /\ p \in Policies
    /\ IsInjective(p.probation) /\ IsInjective(p.protected)
    /\ ToSet(p.probation) \cap ToSet(p.protected) = {}

LEMMA ByValueElements ==
    ASSUME NEW p, Sound(p)
    PROVE  ByValue(p) \in Seq(Keys) /\ IsInjective(ByValue(p)) /\ ToSet(ByValue(p)) = Resident(p)
<1>1. p.probation \in Seq(Keys) /\ p.protected \in Seq(Keys)
    BY DEF Sound, Policies
<1>. QED  BY <1>1, ConcatElements DEF ByValue, Resident, Sound

\* A hit moves keys and loses none.
LEMMA TouchIsSound ==
    ASSUME NEW p, Sound(p), NEW k \in Resident(p)
    PROVE  Sound(Touch(p, k)) /\ Resident(Touch(p, k)) = Resident(p)
<1>. DEFINE a == Without(p.probation, {k})
            b == Without(p.protected, {k})
            c == Append(b, k)
            full == k \notin ToSet(p.protected) /\ Len(c) > ProtectedCap
<1>1. /\ p.probation \in Seq(Keys) /\ p.protected \in Seq(Keys) /\ k \in Keys
      /\ IsInjective(p.probation) /\ IsInjective(p.protected)
      /\ ToSet(p.probation) \cap ToSet(p.protected) = {}
      /\ k \in ToSet(p.probation) \cup ToSet(p.protected)
    BY DEF Sound, Policies, Resident, ToSet
<1>2. /\ a \in Seq(Keys) /\ ToSet(a) = ToSet(p.probation) \ {k} /\ IsInjective(a)
      /\ b \in Seq(Keys) /\ ToSet(b) = ToSet(p.protected) \ {k} /\ IsInjective(b)
    BY <1>1, WithoutElements
<1>3. Touch(p, k) = [probation |-> a \o (IF full THEN <<Head(c)>> ELSE << >>),
                     protected |-> IF full THEN Tail(c) ELSE c]
    BY DEF Touch
<1>. HIDE DEF a, b
<1>4. /\ c \in Seq(Keys) /\ c # << >> /\ ToSet(c) = ToSet(b) \cup {k} /\ IsInjective(c)
    BY <1>1, <1>2, AppendElements
<1>. HIDE DEF c
<1>5. CASE full
  <2>1. /\ Tail(c) \in Seq(Keys) /\ Head(c) \in Keys /\ ToSet(c) = ToSet(Tail(c)) \cup {Head(c)}
        /\ IsInjective(Tail(c)) /\ Head(c) \notin ToSet(Tail(c))
    BY <1>4, TailElements
  <2>2. ToSet(a) \cap ToSet(c) = {}
    BY <1>1, <1>2, <1>4
  <2>3. a \o <<Head(c)>> = Append(a, Head(c)) /\ Append(a, Head(c)) \in Seq(Keys)
    BY <1>2, <2>1
  <2>4. /\ ToSet(Append(a, Head(c))) = ToSet(a) \cup {Head(c)}
        /\ IsInjective(Append(a, Head(c)))
    BY <1>2, <2>1, <2>2, AppendElements
  <2>5. Touch(p, k) = [probation |-> Append(a, Head(c)), protected |-> Tail(c)]
    BY <1>3, <1>5, <2>3
  <2>6. Sound(Touch(p, k))
    BY <2>1, <2>2, <2>3, <2>4, <2>5 DEF Sound, Policies
  <2>7. Resident(Touch(p, k)) = ToSet(a) \cup ToSet(c)
    BY <2>1, <2>4, <2>5 DEF Resident
  <2>. QED  BY <2>6, <2>7, <1>1, <1>2, <1>4 DEF Resident
<1>6. CASE ~full
  <2>1. a \o << >> = a
    BY <1>2
  <2>2. Touch(p, k) = [probation |-> a, protected |-> c]
    BY <1>3, <1>6, <2>1
  <2>3. Sound(Touch(p, k))
    BY <2>2, <1>1, <1>2, <1>4 DEF Sound, Policies
  <2>4. Resident(Touch(p, k)) = ToSet(a) \cup ToSet(c)
    BY <2>2 DEF Resident
  <2>. QED  BY <2>3, <2>4, <1>1, <1>2, <1>4 DEF Resident
<1>. QED  BY <1>5, <1>6

LEMMA WithoutIsSound ==
    ASSUME NEW p, Sound(p), NEW keys
    PROVE  Sound(WithoutKeys(p, keys)) /\ Resident(WithoutKeys(p, keys)) = Resident(p) \ keys
<1>1. /\ p.probation \in Seq(Keys) /\ p.protected \in Seq(Keys)
      /\ IsInjective(p.probation) /\ IsInjective(p.protected)
      /\ ToSet(p.probation) \cap ToSet(p.protected) = {}
    BY DEF Sound, Policies
<1>. DEFINE a == Without(p.probation, keys)
            b == Without(p.protected, keys)
<1>2. /\ a \in Seq(Keys) /\ ToSet(a) = ToSet(p.probation) \ keys /\ IsInjective(a)
      /\ b \in Seq(Keys) /\ ToSet(b) = ToSet(p.protected) \ keys /\ IsInjective(b)
    BY <1>1, WithoutElements
<1>3. WithoutKeys(p, keys) = [probation |-> a, protected |-> b]
    BY DEF WithoutKeys
<1>. HIDE DEF a, b
<1>. QED  BY <1>1, <1>2, <1>3 DEF Sound, Policies, Resident

\* Admitting a key evicts nothing while there is room.
LEMMA AdmitIsSound ==
    ASSUME NEW p, Sound(p), NEW k \in Keys, k \notin Resident(p), Len(ByValue(p)) < Capacity,
           Capacity \in Nat
    PROVE  /\ AdmitVictims(p) = << >>
           /\ Sound(Admit(p, k)) /\ Resident(Admit(p, k)) = Resident(p) \cup {k}
<1>1. AdmitVictims(p) = << >>
  <2>1. Len(ByValue(p)) \in Nat
    BY ByValueElements
  <2>. QED  BY <2>1 DEF AdmitVictims
<1>. DEFINE q == WithoutKeys(p, ToSet(AdmitVictims(p)))
<1>2. Sound(q) /\ Resident(q) = Resident(p)
  <2>1. ToSet(AdmitVictims(p)) = {}
    BY <1>1 DEF ToSet
  <2>2. Sound(q) /\ Resident(q) = Resident(p) \ ToSet(AdmitVictims(p))
    BY WithoutIsSound
  <2>. QED  BY <2>1, <2>2
<1>3. Admit(p, k) = [q EXCEPT !.probation = Append(@, k)]
    BY DEF Admit
<1>. HIDE DEF q
<1>4. /\ q.probation \in Seq(Keys) /\ q.protected \in Seq(Keys)
      /\ IsInjective(q.probation) /\ IsInjective(q.protected)
      /\ ToSet(q.probation) \cap ToSet(q.protected) = {}
      /\ q \in Policies
    BY <1>2 DEF Sound, Policies
<1>5. Admit(p, k).probation = Append(q.probation, k) /\ Admit(p, k).protected = q.protected
      /\ Admit(p, k) \in Policies
  <2>. DEFINE x == Append(q.probation, k)
  <2>1. x \in Seq(Keys)
    BY <1>4
  <2>2. Admit(p, k) = [q EXCEPT !.probation = x]
    BY <1>3
  <2>. HIDE DEF x
  <2>3. Admit(p, k).probation = x /\ Admit(p, k).protected = q.protected /\ Admit(p, k) \in Policies
    BY <1>4, <2>1, <2>2 DEF Policies
  <2>. QED  BY <2>3 DEF x
<1>6. /\ ToSet(Append(q.probation, k)) = ToSet(q.probation) \cup {k}
      /\ IsInjective(Append(q.probation, k))
    BY <1>2, <1>4, AppendElements DEF Resident
<1>. QED  BY <1>1, <1>2, <1>4, <1>5, <1>6 DEF Sound, Resident

\* Victims leave, or come back as the newest keys on probation.
LEMMA ReadmitIsSound ==
    ASSUME NEW p, Sound(p), NEW n \in Nat, n <= Len(ByValue(p)), NEW keys
    PROVE  LET victims == Victims(p, n)
               held == Only(victims, keys)
               leave == Without(victims, keys)
               q == Readmit(WithoutKeys(p, ToSet(victims)), held)
           IN  /\ victims \in Seq(Keys) /\ IsInjective(victims) /\ ToSet(victims) \subseteq Resident(p)
               /\ leave \in Seq(Keys) /\ IsInjective(leave)
               /\ ToSet(leave) = ToSet(victims) \ keys
               /\ Sound(q) /\ Resident(q) = Resident(p) \ ToSet(leave)
<1>. DEFINE victims == Victims(p, n)
            held == Only(victims, keys)
            leave == Without(victims, keys)
            rest == WithoutKeys(p, ToSet(victims))
            q == Readmit(rest, held)
<1>1. victims \in Seq(Keys) /\ IsInjective(victims) /\ ToSet(victims) \subseteq Resident(p)
    BY ByValueElements, PrefixElements DEF Victims
<1>. HIDE DEF victims
<1>2. /\ held \in Seq(Keys) /\ ToSet(held) = ToSet(victims) \cap keys /\ IsInjective(held)
    BY <1>1, OnlyElements
<1>3. /\ leave \in Seq(Keys) /\ ToSet(leave) = ToSet(victims) \ keys /\ IsInjective(leave)
    BY <1>1, WithoutElements
<1>4. Sound(rest) /\ Resident(rest) = Resident(p) \ ToSet(victims)
    BY WithoutIsSound
<1>. HIDE DEF held, leave, rest
<1>5. /\ rest.probation \in Seq(Keys) /\ rest.protected \in Seq(Keys)
      /\ IsInjective(rest.probation) /\ IsInjective(rest.protected)
      /\ ToSet(rest.probation) \cap ToSet(rest.protected) = {}
      /\ rest \in Policies
    BY <1>4 DEF Sound, Policies
<1>6. /\ q.probation = rest.probation \o held /\ q.protected = rest.protected
      /\ q \in Policies
  <2>1. rest.probation \o held \in Seq(Keys)
    BY <1>2, <1>5
  <2>2. \A x \in Seq(Keys) : /\ [rest EXCEPT !.probation = x].probation = x
                            /\ [rest EXCEPT !.probation = x].protected = rest.protected
                            /\ [rest EXCEPT !.probation = x] \in Policies
    BY <1>5 DEF Policies
  <2>. QED  BY <2>1, <2>2 DEF Readmit
<1>7. /\ ToSet(rest.probation \o held) = ToSet(rest.probation) \cup ToSet(held)
      /\ IsInjective(rest.probation \o held)
  <2>1. ToSet(rest.probation) \cap ToSet(held) = {}
    BY <1>2, <1>4 DEF Resident
  <2>. QED  BY <2>1, <1>2, <1>5, ConcatElements
<1>. HIDE DEF q
<1>8. Sound(q)
    BY <1>2, <1>4, <1>5, <1>6, <1>7 DEF Sound, Resident
<1>9. Resident(q) = Resident(p) \ ToSet(leave)
    BY <1>1, <1>2, <1>3, <1>4, <1>6, <1>7 DEF Resident
<1>. QED  BY <1>1, <1>3, <1>8, <1>9 DEF q, rest, held, leave, victims

----------------------------------------------------------------------------
(* Where slots are.                                                        *)

Claim == [key : Keys, slot : Slots]
Entry == [key : Keys, slot : Slots, event : Nat \cup {Never}, age : Nat]
Write == [key : Keys, slot : Slots \cup {None}]
Copy == [key : Keys, slot : Slots, after : Nat]

Types ==
    /\ Sound(policy)
    /\ slotOf \in [Keys -> Slots \cup {None}]
    /\ free \in Seq(Slots) /\ pending \in Seq(Keys)
    /\ toRetract \in Seq(Claim) /\ retracting \in Seq(Claim)
    /\ inflight \in Seq(Entry) /\ landing \in Seq(Entry) /\ still \in Seq(Entry)
    /\ tick \in {"out", "retract", "land", "abandon"}
    /\ compute \in Seq(Write) /\ copies \in Seq(Copy)
    /\ retractEv \in [Slots -> Nat]
    /\ env \in Environments

\* What the scheduler holds when.
Phases ==
    /\ tick = "out" => landing = << >> /\ still = << >>
    /\ tick # "retract" => retracting = << >>
    /\ tick = "retract" => still = << >>
    /\ tick = "abandon" => landing # << >>

\* The five places of a slot.
FreeSlots == ToSet(free)
QueuedSlots == ToSet(SlotsIn(toRetract))
TakenSlots == ToSet(SlotsIn(retracting))
ClaimedSlots == {slotOf[k] : k \in Keys} \ {None}
GivenUp == IF tick = "abandon" THEN {Head(landing).slot} ELSE {}

Apart(F, Q, T, C, G) ==
    /\ F \cap Q = {} /\ F \cap T = {} /\ F \cap C = {} /\ F \cap G = {}
    /\ Q \cap T = {} /\ Q \cap C = {} /\ Q \cap G = {}
    /\ T \cap C = {} /\ T \cap G = {} /\ C \cap G = {}
    /\ F \cup Q \cup T \cup C \cup G = Slots

ClaimsDiffer == \A j, k \in Keys : slotOf[j] = slotOf[k] /\ slotOf[j] # None => j = k

SlotsOK ==
    /\ Resident(policy) = {k \in Keys : slotOf[k] # None}
    /\ IsInjective(free) /\ IsInjective(SlotsIn(toRetract)) /\ IsInjective(SlotsIn(retracting))
    /\ ClaimsDiffer
    /\ Apart(FreeSlots, QueuedSlots, TakenSlots, ClaimedSlots, GivenUp)

\* The entries the scheduler has still to look at.
Waiting == IF tick = "abandon" THEN Tail(landing) ELSE landing

\* Entries whose keys have, by the claims, the slots of the entries; entries of
\* different keys.
AreHeld(claims, l) == \A e \in ToSet(l) : claims[e.key] = e.slot
KeysOf(l) == [i \in DOMAIN l |-> l[i].key]

FollowedIn(claims, l, m, n) ==
    /\ AreHeld(claims, l) /\ AreHeld(claims, m) /\ AreHeld(claims, n)
    /\ IsInjective(KeysOf(l)) /\ IsInjective(KeysOf(m)) /\ IsInjective(KeysOf(n))
    /\ ToSet(KeysOf(l)) \cap ToSet(KeysOf(m)) = {}
    /\ ToSet(KeysOf(l)) \cap ToSet(KeysOf(n)) = {}
    /\ ToSet(KeysOf(m)) \cap ToSet(KeysOf(n)) = {}

\* If no key is evicted during a tick, every entry is for a key that still has
\* the slot, and for another key than every other entry.
Followed == FollowedIn(slotOf, inflight, Waiting, still)

\* If no copy is lost, none is abandoned.
AreMade(l) == \A e \in ToSet(l) : e.event # Never
InTime == \A e \in ToSet(landing) : e.event = 0 \/ e.age < MaxAge
NothingLost == AreMade(inflight) /\ AreMade(landing) /\ AreMade(still) /\ InTime

HInv ==
    /\ Types /\ Phases /\ SlotsOK
    /\ ~env.racing => Followed
    /\ ~env.lossy => NothingLost

\* Losses and races do not come together.
Separate == \A e \in Environments : ~(e.lossy /\ e.racing)

LEMMA RoomToPlace ==
    ASSUME Types, SlotsOK, free # << >>
    PROVE  Len(ByValue(policy)) < Capacity /\ Capacity \in Nat \ {0}
<1>. DEFINE bv == ByValue(policy)
            s == Last(free)
            f == [i \in 1 .. Len(bv) |-> slotOf[bv[i]]]
<1>1. bv \in Seq(Keys) /\ IsInjective(bv) /\ ToSet(bv) = Resident(policy)
    BY ByValueElements DEF Types
<1>2. s \in FreeSlots /\ s \in Slots
  <2>1. free \in Seq(Slots)
    BY DEF Types
  <2>2. s \in Slots /\ ToSet(free) = ToSet(Front(free)) \cup {s}
    BY <2>1, FrontElements
  <2>. QED  BY <2>2 DEF FreeSlots
<1>3. Capacity \in Nat \ {0}
    BY ExpertAssumption
<1>. HIDE DEF bv, s
<1>4. Len(bv) \in Nat /\ DOMAIN bv = 1 .. Len(bv)
    BY <1>1
<1>5. \A i \in 1 .. Len(bv) : bv[i] \in Keys /\ slotOf[bv[i]] # None
    BY <1>1, <1>4 DEF SlotsOK, ToSet
<1>6. \A i \in 1 .. Len(bv) : slotOf[bv[i]] \in Slots \ {s}
    BY <1>2, <1>5 DEF SlotsOK, Apart, ClaimedSlots, Types
<1>7. f \in [1 .. Len(bv) -> Slots \ {s}]
    BY <1>6
<1>8. \A i, j \in 1 .. Len(bv) : f[i] = f[j] => i = j
    BY <1>1, <1>4, <1>5 DEF SlotsOK, ClaimsDiffer, IsInjective
<1>. HIDE DEF f
<1>9. IsFiniteSet(Slots \ {s}) /\ Cardinality(Slots \ {s}) = Capacity - 1
  <2>1. IsFiniteSet(Slots) /\ Cardinality(Slots) = Capacity
    BY <1>3, FS_Interval DEF Slots
  <2>. QED  BY <2>1, <1>2, FS_RemoveElement
<1>10. IsFiniteSet(1 .. Len(bv)) /\ Cardinality(1 .. Len(bv)) = Len(bv)
    BY <1>4, FS_Interval
<1>11. ~(Capacity - 1 < Len(bv))
    BY <1>7, <1>8, <1>9, <1>10, FS_PigeonHole
<1>. QED  BY <1>3, <1>4, <1>11 DEF bv

\* What Place does when there is a slot: nobody is evicted.
LEMMA PlaceIs ==
    ASSUME Types, SlotsOK, NEW k \in Keys, k \notin Resident(policy), CanPlace, Place(k)
    PROVE  /\ Sound(policy') /\ Resident(policy') = Resident(policy) \cup {k}
           /\ toRetract' = toRetract
           /\ Last(free) \in Slots /\ slotOf[k] = None /\ slotOf' = [slotOf EXCEPT ![k] = Last(free)]
           /\ free' = Front(free) /\ free # << >>
           /\ retractEv' = [retractEv EXCEPT ![Last(free)] = 0]
           /\ \/ /\ copies' = Append(copies, [key |-> k, slot |-> Last(free), after |-> retractEv[Last(free)]])
                 /\ inflight' = Append(inflight, [key |-> k, slot |-> Last(free),
                                                 event |-> Len(copies) + 1, age |-> 0])
              \/ /\ env.lossy /\ copies' = copies
                 /\ inflight' = Append(inflight, [key |-> k, slot |-> Last(free),
                                                 event |-> Never, age |-> 0])
<1>1. free # << >> /\ Len(ByValue(policy)) < Capacity /\ Capacity \in Nat
    BY RoomToPlace DEF CanPlace
<1>2. Sound(policy)
    BY DEF Types
<1>3. /\ AdmitVictims(policy) = << >>
      /\ Sound(policy') /\ Resident(policy') = Resident(policy) \cup {k}
    BY <1>1, <1>2, AdmitIsSound DEF Place
<1>4. Retractions(<< >>) = << >> /\ Unclaim(<< >>) = slotOf
  <2>1. << >> \in Seq(Keys) /\ ToSet(<< >>) = {}
    BY DEF ToSet
  <2>2. \A keys : /\ Only(<< >>, keys) \in Seq(Keys)
                  /\ ToSet(Only(<< >>, keys)) = ToSet(<< >>) \cap keys
    BY <2>1, OnlyElements
  <2>3. \A c \in Seq(Keys) : ToSet(c) = {} => c = << >>
    <3>1. ASSUME NEW c \in Seq(Keys), c # << >> PROVE ToSet(c) # {}
      <4>1. 1 \in DOMAIN c
        BY <3>1
      <4>. QED  BY <4>1 DEF ToSet
    <3>. QED  BY <3>1
  <2>4. Claimed(<< >>) = << >>
    BY <2>1, <2>2, <2>3 DEF Claimed
  <2>. QED  BY <2>1, <2>4 DEF Retractions, Unclaim, Types
<1>5. toRetract \o << >> = toRetract
    BY DEF Types
<1>6. Last(free) \in Slots
    BY <1>1, FrontElements DEF Types
<1>7. slotOf[k] = None
    BY DEF SlotsOK
<1>8. Len(Append(copies, [key |-> k, slot |-> Last(free), after |-> Fence(Last(free))])) = Len(copies) + 1
    BY DEF Types
<1>. QED  BY <1>1, <1>3, <1>4, <1>5, <1>6, <1>7, <1>8 DEF Place, Fence

\* The keys and the slots of a list change as the list does.
LEMMA ListParts ==
    ASSUME NEW T, \A x \in T : x.key \in Keys /\ x.slot \in Slots,
           NEW l \in Seq(T)
    PROVE  /\ KeysOf(l) \in Seq(Keys) /\ SlotsIn(l) \in Seq(Slots)
           /\ Len(KeysOf(l)) = Len(l) /\ Len(SlotsIn(l)) = Len(l)
           /\ ToSet(KeysOf(l)) = {x.key : x \in ToSet(l)}
           /\ ToSet(SlotsIn(l)) = {x.slot : x \in ToSet(l)}
           /\ ToSet(l) \subseteq T
<1>1. DOMAIN l = 1 .. Len(l) /\ Len(l) \in Nat /\ \A i \in 1 .. Len(l) : l[i] \in T
    OBVIOUS
<1>2. KeysOf(l) \in [1 .. Len(l) -> Keys] /\ SlotsIn(l) \in [1 .. Len(l) -> Slots]
    BY <1>1 DEF KeysOf, SlotsIn
<1>3. KeysOf(l) \in Seq(Keys) /\ SlotsIn(l) \in Seq(Slots)
    BY <1>1, <1>2
<1>4. Len(KeysOf(l)) = Len(l) /\ Len(SlotsIn(l)) = Len(l)
    BY <1>1, <1>2, <1>3
<1>5. ToSet(KeysOf(l)) = {x.key : x \in ToSet(l)} /\ ToSet(SlotsIn(l)) = {x.slot : x \in ToSet(l)}
    BY <1>1 DEF KeysOf, SlotsIn, ToSet
<1>6. ToSet(l) \subseteq T
    BY <1>1 DEF ToSet
<1>. QED  BY <1>3, <1>4, <1>5, <1>6

LEMMA ListAppend ==
    ASSUME NEW T, \A x \in T : x.key \in Keys /\ x.slot \in Slots,
           NEW l \in Seq(T), NEW e \in T
    PROVE  /\ KeysOf(Append(l, e)) = Append(KeysOf(l), e.key)
           /\ SlotsIn(Append(l, e)) = Append(SlotsIn(l), e.slot)
<1>1. DOMAIN l = 1 .. Len(l) /\ Len(l) \in Nat
    OBVIOUS
<1>2. /\ Append(l, e) \in Seq(T) /\ Len(Append(l, e)) = Len(l) + 1
      /\ DOMAIN Append(l, e) = 1 .. Len(l) + 1
      /\ \A i \in 1 .. Len(l) + 1 : Append(l, e)[i] = IF i = Len(l) + 1 THEN e ELSE l[i]
    BY <1>1
<1>3. /\ KeysOf(l) \in Seq(Keys) /\ SlotsIn(l) \in Seq(Slots)
      /\ Len(KeysOf(l)) = Len(l) /\ Len(SlotsIn(l)) = Len(l)
      /\ \A i \in 1 .. Len(l) : KeysOf(l)[i] = l[i].key /\ SlotsIn(l)[i] = l[i].slot
    BY <1>1, ListParts DEF KeysOf, SlotsIn
<1>4. /\ KeysOf(Append(l, e)) \in Seq(Keys) /\ SlotsIn(Append(l, e)) \in Seq(Slots)
      /\ Len(KeysOf(Append(l, e))) = Len(l) + 1 /\ Len(SlotsIn(Append(l, e))) = Len(l) + 1
      /\ \A i \in 1 .. Len(l) + 1 : /\ KeysOf(Append(l, e))[i] = Append(l, e)[i].key
                                   /\ SlotsIn(Append(l, e))[i] = Append(l, e)[i].slot
    BY <1>2, ListParts DEF KeysOf, SlotsIn
<1>5. e.key \in Keys /\ e.slot \in Slots
    OBVIOUS
<1>6. KeysOf(Append(l, e)) = Append(KeysOf(l), e.key)
  <2>. DEFINE a == KeysOf(Append(l, e))
              b == Append(KeysOf(l), e.key)
  <2>1. /\ b \in Seq(Keys) /\ Len(b) = Len(l) + 1
        /\ \A i \in 1 .. Len(l) + 1 : b[i] = IF i = Len(l) + 1 THEN e.key ELSE l[i].key
    BY <1>1, <1>3, <1>5
  <2>2. \A i \in 1 .. Len(a) : a[i] = b[i]
    BY <1>1, <1>2, <1>4, <2>1
  <2>. HIDE DEF a, b
  <2>. QED  BY <1>4, <2>1, <2>2, SeqEqual DEF a, b
<1>7. SlotsIn(Append(l, e)) = Append(SlotsIn(l), e.slot)
  <2>. DEFINE a == SlotsIn(Append(l, e))
              b == Append(SlotsIn(l), e.slot)
  <2>1. /\ b \in Seq(Slots) /\ Len(b) = Len(l) + 1
        /\ \A i \in 1 .. Len(l) + 1 : b[i] = IF i = Len(l) + 1 THEN e.slot ELSE l[i].slot
    BY <1>1, <1>3, <1>5
  <2>2. \A i \in 1 .. Len(a) : a[i] = b[i]
    BY <1>1, <1>2, <1>4, <2>1
  <2>. HIDE DEF a, b
  <2>. QED  BY <1>4, <2>1, <2>2, SeqEqual DEF a, b
<1>. QED  BY <1>6, <1>7

LEMMA ListConcat ==
    ASSUME NEW T, \A x \in T : x.key \in Keys /\ x.slot \in Slots,
           NEW l \in Seq(T), NEW m \in Seq(T)
    PROVE  /\ KeysOf(l \o m) = KeysOf(l) \o KeysOf(m)
           /\ SlotsIn(l \o m) = SlotsIn(l) \o SlotsIn(m)
<1>1. DOMAIN l = 1 .. Len(l) /\ Len(l) \in Nat /\ DOMAIN m = 1 .. Len(m) /\ Len(m) \in Nat
    OBVIOUS
<1>2. /\ l \o m \in Seq(T) /\ Len(l \o m) = Len(l) + Len(m)
      /\ DOMAIN (l \o m) = 1 .. Len(l) + Len(m)
      /\ \A i \in 1 .. Len(l) + Len(m) : (l \o m)[i] = IF i <= Len(l) THEN l[i] ELSE m[i - Len(l)]
    BY <1>1
<1>3. /\ KeysOf(l) \in Seq(Keys) /\ SlotsIn(l) \in Seq(Slots)
      /\ Len(KeysOf(l)) = Len(l) /\ Len(SlotsIn(l)) = Len(l)
      /\ \A i \in 1 .. Len(l) : KeysOf(l)[i] = l[i].key /\ SlotsIn(l)[i] = l[i].slot
    BY <1>1, ListParts DEF KeysOf, SlotsIn
<1>4. /\ KeysOf(m) \in Seq(Keys) /\ SlotsIn(m) \in Seq(Slots)
      /\ Len(KeysOf(m)) = Len(m) /\ Len(SlotsIn(m)) = Len(m)
      /\ \A i \in 1 .. Len(m) : KeysOf(m)[i] = m[i].key /\ SlotsIn(m)[i] = m[i].slot
    BY <1>1, ListParts DEF KeysOf, SlotsIn
<1>5. /\ KeysOf(l \o m) \in Seq(Keys) /\ SlotsIn(l \o m) \in Seq(Slots)
      /\ Len(KeysOf(l \o m)) = Len(l) + Len(m) /\ Len(SlotsIn(l \o m)) = Len(l) + Len(m)
      /\ \A i \in 1 .. Len(l) + Len(m) : /\ KeysOf(l \o m)[i] = (l \o m)[i].key
                                        /\ SlotsIn(l \o m)[i] = (l \o m)[i].slot
    BY <1>2, ListParts DEF KeysOf, SlotsIn
<1>6. \A i \in 1 .. Len(l) + Len(m) : i <= Len(l) \/ i - Len(l) \in 1 .. Len(m)
    BY <1>1
<1>7. KeysOf(l \o m) = KeysOf(l) \o KeysOf(m)
  <2>. DEFINE a == KeysOf(l \o m)
              b == KeysOf(l) \o KeysOf(m)
  <2>0. KeysOf(l) \in Seq(Keys) /\ KeysOf(m) \in Seq(Keys) /\ Len(KeysOf(l)) = Len(l) /\ Len(KeysOf(m)) = Len(m)
    BY <1>3, <1>4
  <2>1. /\ b \in Seq(Keys) /\ Len(b) = Len(KeysOf(l)) + Len(KeysOf(m))
        /\ \A i \in 1 .. Len(KeysOf(l)) + Len(KeysOf(m)) :
              b[i] = IF i <= Len(KeysOf(l)) THEN KeysOf(l)[i] ELSE KeysOf(m)[i - Len(KeysOf(l))]
    BY <2>0, ConcatProperties
  <2>2. \A i \in 1 .. Len(a) : a[i] = b[i]
    <3>1. ASSUME NEW i \in 1 .. Len(l) + Len(m) PROVE a[i] = b[i]
      <4>1. CASE i <= Len(l)
        <5>1. i \in 1 .. Len(l)
          BY <4>1, <1>1
        <5>. QED  BY <5>1, <4>1, <1>2, <1>3, <1>5, <2>0, <2>1
      <4>2. CASE ~(i <= Len(l))
        <5>1. i - Len(l) \in 1 .. Len(m)
          BY <4>2, <1>6
        <5>. QED  BY <5>1, <4>2, <1>2, <1>4, <1>5, <2>0, <2>1
      <4>. QED  BY <4>1, <4>2
    <3>. QED  BY <3>1, <1>5
  <2>. HIDE DEF a, b
  <2>. QED  BY <1>5, <2>0, <2>1, <2>2, SeqEqual DEF a, b
<1>8. SlotsIn(l \o m) = SlotsIn(l) \o SlotsIn(m)
  <2>. DEFINE a == SlotsIn(l \o m)
              b == SlotsIn(l) \o SlotsIn(m)
  <2>0. SlotsIn(l) \in Seq(Slots) /\ SlotsIn(m) \in Seq(Slots) /\ Len(SlotsIn(l)) = Len(l) /\ Len(SlotsIn(m)) = Len(m)
    BY <1>3, <1>4
  <2>1. /\ b \in Seq(Slots) /\ Len(b) = Len(SlotsIn(l)) + Len(SlotsIn(m))
        /\ \A i \in 1 .. Len(SlotsIn(l)) + Len(SlotsIn(m)) :
              b[i] = IF i <= Len(SlotsIn(l)) THEN SlotsIn(l)[i] ELSE SlotsIn(m)[i - Len(SlotsIn(l))]
    BY <2>0, ConcatProperties
  <2>2. \A i \in 1 .. Len(a) : a[i] = b[i]
    <3>1. ASSUME NEW i \in 1 .. Len(l) + Len(m) PROVE a[i] = b[i]
      <4>1. CASE i <= Len(l)
        <5>1. i \in 1 .. Len(l)
          BY <4>1, <1>1
        <5>. QED  BY <5>1, <4>1, <1>2, <1>3, <1>5, <2>0, <2>1
      <4>2. CASE ~(i <= Len(l))
        <5>1. i - Len(l) \in 1 .. Len(m)
          BY <4>2, <1>6
        <5>. QED  BY <5>1, <4>2, <1>2, <1>4, <1>5, <2>0, <2>1
      <4>. QED  BY <4>1, <4>2
    <3>. QED  BY <3>1, <1>5
  <2>. HIDE DEF a, b
  <2>. QED  BY <1>5, <2>0, <2>1, <2>2, SeqEqual DEF a, b
<1>. QED  BY <1>7, <1>8

LEMMA ListTail ==
    ASSUME NEW T, \A x \in T : x.key \in Keys /\ x.slot \in Slots,
           NEW l \in Seq(T), l # << >>
    PROVE  /\ KeysOf(l) # << >> /\ KeysOf(Tail(l)) = Tail(KeysOf(l)) /\ Head(KeysOf(l)) = Head(l).key
<1>1. /\ DOMAIN l = 1 .. Len(l) /\ Len(l) \in Nat \ {0} /\ Head(l) = l[1] /\ 1 \in DOMAIN l
      /\ Tail(l) \in Seq(T) /\ DOMAIN Tail(l) = 1 .. Len(l) - 1
      /\ \A i \in DOMAIN Tail(l) : Tail(l)[i] = l[i + 1] /\ i + 1 \in DOMAIN l
    BY TailElements
<1>2. /\ KeysOf(l) \in Seq(Keys) /\ Len(KeysOf(l)) = Len(l)
      /\ \A i \in 1 .. Len(l) : KeysOf(l)[i] = l[i].key
    BY <1>1, ListParts DEF KeysOf
<1>3. KeysOf(l) # << >>
    BY <1>1, <1>2
<1>4. /\ Tail(KeysOf(l)) \in Seq(Keys) /\ Head(KeysOf(l)) = KeysOf(l)[1]
      /\ DOMAIN Tail(KeysOf(l)) = 1 .. Len(l) - 1
      /\ \A i \in DOMAIN Tail(KeysOf(l)) : Tail(KeysOf(l))[i] = KeysOf(l)[i + 1]
    BY <1>2, <1>3, TailElements
<1>5. KeysOf(Tail(l)) = [i \in 1 .. Len(l) - 1 |-> l[i + 1].key]
    BY <1>1 DEF KeysOf
<1>6. Tail(KeysOf(l)) = [i \in 1 .. Len(l) - 1 |-> l[i + 1].key]
  <2>1. \A i \in 1 .. Len(l) - 1 : Tail(KeysOf(l))[i] = l[i + 1].key
    <3>1. ASSUME NEW i \in 1 .. Len(l) - 1 PROVE Tail(KeysOf(l))[i] = l[i + 1].key
      <4>1. i + 1 \in 1 .. Len(l)
        BY <1>1
      <4>. QED  BY <4>1, <1>2, <1>4
    <3>. QED  BY <3>1
  <2>2. \A u \in Seq(Keys) : u = [i \in DOMAIN u |-> u[i]]
    OBVIOUS
  <2>3. Tail(KeysOf(l)) = [i \in 1 .. Len(l) - 1 |-> Tail(KeysOf(l))[i]]
    BY <2>2, <1>4
  <2>. QED  BY <2>1, <2>3
<1>. QED  BY <1>1, <1>2, <1>3, <1>4, <1>5, <1>6

LEMMA ElementsHaveSlots ==
    /\ \A x \in Entry : x.key \in Keys /\ x.slot \in Slots /\ x.slot # None
    /\ \A x \in Claim : x.key \in Keys /\ x.slot \in Slots
<1>1. None \notin Slots
    BY ExpertAssumption DEF None, Slots
<1>. QED  BY <1>1 DEF Entry, Claim

\* Followed entries stay so when an entry is added for a key without a slot, ...
LEMMA FollowedPlace ==
    ASSUME NEW c \in [Keys -> Slots \cup {None}],
           NEW l \in Seq(Entry), NEW m \in Seq(Entry), NEW n \in Seq(Entry),
           FollowedIn(c, l, m, n), NEW e \in Entry, c[e.key] = None
    PROVE  FollowedIn([c EXCEPT ![e.key] = e.slot], Append(l, e), m, n)
<1>. DEFINE d == [c EXCEPT ![e.key] = e.slot]
<1>1. ASSUME NEW x \in ToSet(l) \cup ToSet(m) \cup ToSet(n)
      PROVE  x \in Entry /\ c[x.key] = x.slot /\ x.key # e.key /\ d[x.key] = x.slot
  <2>1. x \in Entry
    BY DEF ToSet
  <2>2. c[x.key] = x.slot
    BY DEF FollowedIn, AreHeld
  <2>3. x.slot # None /\ x.key \in Keys
    BY <2>1, ElementsHaveSlots
  <2>. QED  BY <2>1, <2>2, <2>3
<1>2. e.key \in Keys /\ d[e.key] = e.slot
    BY ElementsHaveSlots
<1>. HIDE DEF d
<1>3. ToSet(Append(l, e)) = ToSet(l) \cup {e} /\ Append(l, e) \in Seq(Entry)
    BY AppendElements
<1>4. AreHeld(d, Append(l, e)) /\ AreHeld(d, m) /\ AreHeld(d, n)
    BY <1>1, <1>2, <1>3 DEF AreHeld
<1>5. /\ KeysOf(l) \in Seq(Keys) /\ ToSet(KeysOf(l)) = {x.key : x \in ToSet(l)}
      /\ ToSet(KeysOf(m)) = {x.key : x \in ToSet(m)}
      /\ ToSet(KeysOf(n)) = {x.key : x \in ToSet(n)}
    BY ElementsHaveSlots, ListParts
<1>6. e.key \notin ToSet(KeysOf(l)) \cup ToSet(KeysOf(m)) \cup ToSet(KeysOf(n))
    BY <1>1, <1>5
<1>7. KeysOf(Append(l, e)) = Append(KeysOf(l), e.key)
    BY ElementsHaveSlots, ListAppend
<1>8. /\ ToSet(KeysOf(Append(l, e))) = ToSet(KeysOf(l)) \cup {e.key}
      /\ IsInjective(KeysOf(Append(l, e)))
  <2>1. IsInjective(KeysOf(l))
    BY DEF FollowedIn
  <2>2. KeysOf(l) \in Seq(Keys) /\ e.key \in Keys
    BY <1>2, <1>5
  <2>3. /\ ToSet(Append(KeysOf(l), e.key)) = ToSet(KeysOf(l)) \cup {e.key}
        /\ IsInjective(KeysOf(l)) /\ e.key \notin ToSet(KeysOf(l))
              => IsInjective(Append(KeysOf(l), e.key))
    BY <2>2, AppendElements
  <2>. QED  BY <2>1, <2>3, <1>6, <1>7
<1>9. FollowedIn(d, Append(l, e), m, n)
    BY <1>4, <1>6, <1>8 DEF FollowedIn
<1>. QED  BY <1>9 DEF d

\* ... when an entry leaves, ...
LEMMA FollowedDrop ==
    ASSUME NEW c, NEW l \in Seq(Entry), NEW m \in Seq(Entry), NEW n \in Seq(Entry),
           FollowedIn(c, l, m, n), m # << >>
    PROVE  /\ FollowedIn(c, l, Tail(m), n)
           /\ Head(m).key \notin ToSet(KeysOf(l)) \cup ToSet(KeysOf(Tail(m))) \cup ToSet(KeysOf(n))
<1>1. ToSet(m) = ToSet(Tail(m)) \cup {Head(m)}
    BY TailElements
<1>2. /\ KeysOf(m) \in Seq(Keys) /\ KeysOf(m) # << >>
      /\ KeysOf(Tail(m)) = Tail(KeysOf(m)) /\ Head(KeysOf(m)) = Head(m).key
    BY ElementsHaveSlots, ListParts, ListTail
<1>3. /\ ToSet(KeysOf(m)) = ToSet(KeysOf(Tail(m))) \cup {Head(m).key}
      /\ IsInjective(KeysOf(m)) => /\ IsInjective(KeysOf(Tail(m)))
                                   /\ Head(m).key \notin ToSet(KeysOf(Tail(m)))
  <2>1. KeysOf(m) \in Seq(Keys) /\ KeysOf(m) # << >>
    BY <1>2
  <2>2. /\ ToSet(KeysOf(m)) = ToSet(Tail(KeysOf(m))) \cup {Head(KeysOf(m))}
        /\ IsInjective(KeysOf(m)) => /\ IsInjective(Tail(KeysOf(m)))
                                     /\ Head(KeysOf(m)) \notin ToSet(Tail(KeysOf(m)))
    BY <2>1, TailElements
  <2>. QED  BY <2>2, <1>2
<1>. QED  BY <1>1, <1>3 DEF FollowedIn, AreHeld

\* ... when it goes to the end of another list, ...
LEMMA FollowedMove ==
    ASSUME NEW c \in [Keys -> Slots \cup {None}],
           NEW l \in Seq(Entry), NEW m \in Seq(Entry), NEW n \in Seq(Entry),
           FollowedIn(c, l, m, n), m # << >>,
           NEW e \in Entry, e.key = Head(m).key, e.slot = Head(m).slot
    PROVE  FollowedIn(c, l, Tail(m), Append(n, e))
<1>1. FollowedIn(c, l, Tail(m), n)
    BY FollowedDrop
<1>2. e.key \notin ToSet(KeysOf(l)) \cup ToSet(KeysOf(Tail(m))) \cup ToSet(KeysOf(n))
    BY FollowedDrop
<1>3. c[e.key] = e.slot
  <2>1. Head(m) \in ToSet(m)
    BY TailElements
  <2>. QED  BY <2>1 DEF FollowedIn, AreHeld
<1>4. ToSet(Append(n, e)) = ToSet(n) \cup {e}
    BY AppendElements
<1>5. KeysOf(n) \in Seq(Keys) /\ e.key \in Keys
    BY ElementsHaveSlots, ListParts
<1>6. KeysOf(Append(n, e)) = Append(KeysOf(n), e.key)
    BY ElementsHaveSlots, ListAppend
<1>7. /\ ToSet(KeysOf(Append(n, e))) = ToSet(KeysOf(n)) \cup {e.key}
      /\ IsInjective(KeysOf(Append(n, e)))
  <2>1. IsInjective(KeysOf(n))
    BY DEF FollowedIn
  <2>. QED  BY <2>1, <1>2, <1>5, <1>6, AppendElements
<1>. QED  BY <1>1, <1>2, <1>3, <1>4, <1>7 DEF FollowedIn, AreHeld

\* ... when two lists are joined, ...
LEMMA FollowedJoin ==
    ASSUME NEW c, NEW l \in Seq(Entry), NEW n \in Seq(Entry), FollowedIn(c, l, << >>, n)
    PROVE  FollowedIn(c, l \o n, << >>, << >>)
<1>1. ToSet(l \o n) = ToSet(l) \cup ToSet(n)
    BY ConcatElements
<1>2. KeysOf(l) \in Seq(Keys) /\ KeysOf(n) \in Seq(Keys)
    BY ElementsHaveSlots, ListParts
<1>3. KeysOf(l \o n) = KeysOf(l) \o KeysOf(n)
    BY ElementsHaveSlots, ListConcat
<1>4. /\ IsInjective(KeysOf(l)) /\ IsInjective(KeysOf(n))
      /\ ToSet(KeysOf(l)) \cap ToSet(KeysOf(n)) = {}
    BY DEF FollowedIn
<1>5. IsInjective(KeysOf(l \o n))
    BY <1>2, <1>3, <1>4, ConcatElements
<1>6. ToSet(KeysOf(<< >>)) = {} /\ IsInjective(KeysOf(<< >>)) /\ AreHeld(c, << >>)
    BY DEF ToSet, KeysOf, IsInjective, AreHeld
<1>. QED  BY <1>1, <1>5, <1>6 DEF FollowedIn, AreHeld

\* ... when a list is taken as a whole, ...
LEMMA FollowedTaken ==
    ASSUME NEW c, NEW l, FollowedIn(c, l, << >>, << >>)
    PROVE  FollowedIn(c, << >>, l, << >>)
    BY DEF FollowedIn

\* ... when the claims of other keys change, ...
LEMMA FollowedClaims ==
    ASSUME NEW c, NEW d, NEW l \in Seq(Entry), NEW m \in Seq(Entry), NEW n \in Seq(Entry),
           FollowedIn(c, l, m, n),
           \A k \in ToSet(KeysOf(l)) \cup ToSet(KeysOf(m)) \cup ToSet(KeysOf(n)) : d[k] = c[k]
    PROVE  FollowedIn(d, l, m, n)
<1>1. /\ ToSet(KeysOf(l)) = {x.key : x \in ToSet(l)}
      /\ ToSet(KeysOf(m)) = {x.key : x \in ToSet(m)}
      /\ ToSet(KeysOf(n)) = {x.key : x \in ToSet(n)}
    BY ElementsHaveSlots, ListParts
<1>. QED  BY <1>1 DEF FollowedIn, AreHeld

\* ... and when events come nearer.
LEMMA SoonerIs ==
    ASSUME NEW l \in Seq(Entry)
    PROVE  /\ Sooner(l) \in Seq(Entry) /\ DOMAIN Sooner(l) = DOMAIN l /\ KeysOf(Sooner(l)) = KeysOf(l)
           /\ Len(Sooner(l)) = Len(l)
           /\ \A i \in DOMAIN l :
                 /\ Sooner(l)[i].key = l[i].key /\ Sooner(l)[i].slot = l[i].slot
                 /\ Sooner(l)[i].age = l[i].age
                 /\ Sooner(l)[i].event = OneLess(l[i].event)
<1>1. DOMAIN l = 1 .. Len(l) /\ Len(l) \in Nat /\ \A i \in 1 .. Len(l) : l[i] \in Entry
    OBVIOUS
<1>2. \A x \in Nat \cup {Never} : OneLess(x) \in Nat \cup {Never}
    BY DEF OneLess, Never
<1>3. ASSUME NEW e \in Entry
      PROVE  /\ [e EXCEPT !.event = OneLess(@)] \in Entry
             /\ [e EXCEPT !.event = OneLess(@)].key = e.key /\ [e EXCEPT !.event = OneLess(@)].slot = e.slot
             /\ [e EXCEPT !.event = OneLess(@)].age = e.age
             /\ [e EXCEPT !.event = OneLess(@)].event = OneLess(e.event)
    BY <1>2 DEF Entry
<1>4. /\ DOMAIN Sooner(l) = 1 .. Len(l)
      /\ \A i \in 1 .. Len(l) :
           /\ Sooner(l)[i] \in Entry /\ Sooner(l)[i].key = l[i].key /\ Sooner(l)[i].slot = l[i].slot
           /\ Sooner(l)[i].age = l[i].age /\ Sooner(l)[i].event = OneLess(l[i].event)
    BY <1>1, <1>3 DEF Sooner
<1>5. Sooner(l) \in Seq(Entry) /\ Len(Sooner(l)) = Len(l)
  <2>1. Sooner(l) \in [1 .. Len(l) -> Entry]
    BY <1>1, <1>3 DEF Sooner
  <2>. QED  BY <2>1, <1>1
<1>6. KeysOf(Sooner(l)) = KeysOf(l)
    BY <1>1, <1>4 DEF KeysOf
<1>. QED  BY <1>1, <1>4, <1>5, <1>6

LEMMA SoonerTail ==
    ASSUME NEW l \in Seq(Entry), l # << >>
    PROVE  /\ Tail(Sooner(l)) = Sooner(Tail(l)) /\ Tail(l) \in Seq(Entry)
           /\ Head(Sooner(l)).slot = Head(l).slot
<1>1. /\ Tail(l) \in Seq(Entry) /\ DOMAIN Tail(l) = 1 .. Len(l) - 1
      /\ \A i \in DOMAIN Tail(l) : Tail(l)[i] = l[i + 1] /\ i + 1 \in DOMAIN l
      /\ Len(l) \in Nat \ {0} /\ Head(l) = l[1] /\ 1 \in DOMAIN l
    BY TailElements
<1>2. /\ Sooner(l) \in Seq(Entry) /\ Len(Sooner(l)) = Len(l) /\ Sooner(l)[1].slot = l[1].slot
    BY <1>1, SoonerIs
<1>3. Sooner(l) # << >>
    BY <1>1, <1>2
<1>4. /\ Tail(Sooner(l)) \in Seq(Entry) /\ Head(Sooner(l)) = Sooner(l)[1]
      /\ DOMAIN Tail(Sooner(l)) = 1 .. Len(l) - 1
      /\ \A i \in DOMAIN Tail(Sooner(l)) : Tail(Sooner(l))[i] = Sooner(l)[i + 1]
    BY <1>2, <1>3, TailElements
<1>5. Tail(Sooner(l)) = [i \in 1 .. Len(l) - 1 |-> Sooner(l)[i + 1]]
  <2>1. \A u \in Seq(Entry) : u = [i \in DOMAIN u |-> u[i]]
    OBVIOUS
  <2>2. Tail(Sooner(l)) = [i \in 1 .. Len(l) - 1 |-> Tail(Sooner(l))[i]]
    BY <1>4, <2>1
  <2>. QED  BY <1>4, <2>2
<1>6. \A i \in 1 .. Len(l) - 1 : Sooner(l)[i + 1] = Sooner(Tail(l))[i]
    BY <1>1 DEF Sooner
<1>7. Sooner(Tail(l)) = [i \in 1 .. Len(l) - 1 |-> Sooner(Tail(l))[i]]
    BY <1>1 DEF Sooner
<1>. QED  BY <1>1, <1>2, <1>4, <1>5, <1>6, <1>7

LEMMA FollowedSooner ==
    ASSUME NEW c, NEW l \in Seq(Entry), NEW m \in Seq(Entry), NEW n \in Seq(Entry),
           FollowedIn(c, l, m, n)
    PROVE  FollowedIn(c, Sooner(l), Sooner(m), Sooner(n))
<1>1. KeysOf(Sooner(l)) = KeysOf(l) /\ KeysOf(Sooner(m)) = KeysOf(m) /\ KeysOf(Sooner(n)) = KeysOf(n)
    BY SoonerIs
<1>2. ASSUME NEW x \in Seq(Entry), AreHeld(c, x) PROVE AreHeld(c, Sooner(x))
    BY <1>2, SoonerIs DEF AreHeld, ToSet
<1>. QED  BY <1>1, <1>2 DEF FollowedIn

----------------------------------------------------------------------------
(* Steps.                                                                  *)

\* Steps that move no slot and no entry.
LEMMA SlotsQuiet ==
    ASSUME HInv, Sound(policy'), Resident(policy') = Resident(policy), pending' \in Seq(Keys),
           compute' \in Seq(Write), copies' \in Seq(Copy), retractEv' \in [Slots -> Nat],
           UNCHANGED <<slotOf, free, toRetract, retracting, inflight, landing, still, tick, env>>
    PROVE  HInv'
<1>1. Types'
    BY DEF HInv, Types
<1>2. Phases'
    BY DEF HInv, Phases
<1>3. SlotsOK'
    BY DEF HInv, SlotsOK, ClaimsDiffer, FreeSlots, QueuedSlots, TakenSlots, ClaimedSlots, GivenUp
<1>4. ~env'.racing => Followed'
    BY DEF HInv, Followed, Waiting
<1>5. ~env'.lossy => NothingLost'
    BY DEF HInv, NothingLost, InTime
<1>. QED  BY <1>1, <1>2, <1>3, <1>4, <1>5 DEF HInv

LEMMA DeferIs ==
    ASSUME pending \in Seq(Keys), NEW k \in Keys
    PROVE  Defer(k) \in Seq(Keys)
<1>1. CASE Len(pending) >= PendingCap
  <2>1. Len(pending) # 0
    BY <1>1, ExpertAssumption
  <2>2. Tail(pending) \in Seq(Keys)
    BY <2>1
  <2>. QED  BY <2>2, <1>1 DEF Defer
<1>2. CASE ~(Len(pending) >= PendingCap)
    BY <1>2 DEF Defer
<1>. QED  BY <1>1, <1>2

\* A key is given a slot.
LEMMA SlotsPlace ==
    ASSUME HInv, NEW k \in Keys, k \notin Resident(policy), CanPlace, Place(k),
           pending' \in Seq(Keys),
           UNCHANGED <<retracting, landing, still, tick, env, compute>>
    PROVE  HInv'
<1>. DEFINE s == Last(free)
<1>0. Types /\ SlotsOK
    BY DEF HInv
<1>1. /\ Sound(policy') /\ Resident(policy') = Resident(policy) \cup {k}
      /\ toRetract' = toRetract /\ s \in Slots /\ slotOf[k] = None
      /\ slotOf' = [slotOf EXCEPT ![k] = s] /\ free' = Front(free) /\ free # << >>
      /\ retractEv' = [retractEv EXCEPT ![s] = 0]
    BY <1>0, PlaceIs
<1>2. PICK e \in Entry : /\ e.key = k /\ e.slot = s /\ e.age = 0 /\ inflight' = Append(inflight, e)
                         /\ e.event = Never => env.lossy
                         /\ copies' \in Seq(Copy)
  <2>1. copies \in Seq(Copy) /\ Len(copies) + 1 \in Nat
    BY <1>0 DEF Types
  <2>2. \/ /\ copies' = Append(copies, [key |-> k, slot |-> s, after |-> retractEv[s]])
           /\ inflight' = Append(inflight, [key |-> k, slot |-> s, event |-> Len(copies) + 1, age |-> 0])
        \/ /\ env.lossy /\ copies' = copies
           /\ inflight' = Append(inflight, [key |-> k, slot |-> s, event |-> Never, age |-> 0])
    BY <1>0, PlaceIs
  <2>. DEFINE a == [key |-> k, slot |-> s, event |-> Len(copies) + 1, age |-> 0]
              b == [key |-> k, slot |-> s, event |-> Never, age |-> 0]
  <2>3. a \in Entry /\ a.key = k /\ a.slot = s /\ a.age = 0 /\ a.event # Never
    BY <2>1, <1>1 DEF Entry, Never
  <2>4. b \in Entry /\ b.key = k /\ b.slot = s /\ b.age = 0
    BY <1>1 DEF Entry
  <2>5. [key |-> k, slot |-> s, after |-> retractEv[s]] \in Copy
    BY <1>0, <1>1 DEF Types, Copy
  <2>6. Append(copies, [key |-> k, slot |-> s, after |-> retractEv[s]]) \in Seq(Copy)
    BY <2>1, <2>5
  <2>. HIDE DEF a, b, s
  <2>. QED  BY <2>1, <2>2, <2>3, <2>4, <2>6 DEF a, b
<1>. HIDE DEF s
<1>3. /\ Front(free) \in Seq(Slots) /\ ToSet(free) = ToSet(Front(free)) \cup {s}
      /\ IsInjective(Front(free)) /\ s \notin ToSet(Front(free))
  <2>1. free \in Seq(Slots) /\ free # << >> /\ IsInjective(free)
    BY <1>0, <1>1 DEF Types, SlotsOK
  <2>. QED  BY <2>1, FrontElements DEF s
<1>4. s # None
    BY <1>1, ElementsHaveSlots, <1>2
<1>5. Types'
  <2>1. Append(inflight, e) \in Seq(Entry)
    BY <1>0 DEF Types
  <2>2. slotOf' \in [Keys -> Slots \cup {None}] /\ retractEv' \in [Slots -> Nat]
    BY <1>0, <1>1 DEF Types
  <2>. QED  BY <1>0, <1>1, <1>2, <1>3, <2>1, <2>2 DEF Types
<1>6. Phases'
    BY DEF HInv, Phases
<1>7. ClaimedSlots' = ClaimedSlots \cup {s}
  <2>1. \A j \in Keys : slotOf'[j] = IF j = k THEN s ELSE slotOf[j]
    BY <1>0, <1>1 DEF Types
  <2>. QED  BY <2>1, <1>1, <1>4 DEF ClaimedSlots
<1>8. SlotsOK'
  <2>1. Resident(policy') = {j \in Keys : slotOf'[j] # None}
    <3>1. \A j \in Keys : slotOf'[j] = IF j = k THEN s ELSE slotOf[j]
      BY <1>0, <1>1 DEF Types
    <3>. QED  BY <3>1, <1>0, <1>1, <1>4 DEF SlotsOK
  <2>2. ClaimsDiffer'
    <3>1. \A j \in Keys : slotOf'[j] = IF j = k THEN s ELSE slotOf[j]
      BY <1>0, <1>1 DEF Types
    <3>2. s \notin ClaimedSlots
      BY <1>0, <1>3 DEF SlotsOK, Apart, FreeSlots
    <3>3. \A j \in Keys : slotOf[j] # s
      BY <3>2, <1>4 DEF ClaimedSlots
    <3>. QED  BY <3>1, <3>3, <1>0 DEF SlotsOK, ClaimsDiffer
  <2>3. FreeSlots' = FreeSlots \ {s} /\ s \in FreeSlots
    BY <1>1, <1>3 DEF FreeSlots
  <2>4. QueuedSlots' = QueuedSlots /\ TakenSlots' = TakenSlots /\ GivenUp' = GivenUp
    BY <1>1 DEF QueuedSlots, TakenSlots, GivenUp
  <2>5. Apart(FreeSlots, QueuedSlots, TakenSlots, ClaimedSlots, GivenUp)'
    BY <2>3, <2>4, <1>0, <1>7 DEF SlotsOK, Apart
  <2>6. IsInjective(free') /\ IsInjective(SlotsIn(toRetract)') /\ IsInjective(SlotsIn(retracting)')
    BY <1>0, <1>1, <1>3 DEF SlotsOK
  <2>. QED  BY <2>1, <2>2, <2>5, <2>6 DEF SlotsOK
<1>9. ~env'.racing => Followed'
  <2>1. SUFFICES ASSUME ~env.racing PROVE Followed'
    OBVIOUS
  <2>2. /\ FollowedIn(slotOf, inflight, Waiting, still)
        /\ inflight \in Seq(Entry) /\ Waiting \in Seq(Entry) /\ still \in Seq(Entry)
    BY <1>0, <2>1 DEF HInv, Followed, Waiting, Types, Phases
  <2>3. FollowedIn([slotOf EXCEPT ![e.key] = e.slot], Append(inflight, e), Waiting, still)
    BY <2>2, <1>0, <1>1, <1>2, FollowedPlace DEF Types
  <2>4. Waiting' = Waiting
    BY DEF Waiting
  <2>. QED  BY <2>3, <2>4, <1>1, <1>2 DEF Followed
<1>10. ~env'.lossy => NothingLost'
  <2>1. ToSet(Append(inflight, e)) = ToSet(inflight) \cup {e}
    BY <1>0, AppendElements DEF Types
  <2>. QED  BY <2>1, <1>2 DEF HInv, NothingLost, AreMade, InTime
<1>. QED  BY <1>5, <1>6, <1>8, <1>9, <1>10 DEF HInv

LEMMA HitKeeps ==
    ASSUME HInv, NEW k \in Keys, Hit(k)
    PROVE  HInv'
<1>1. Sound(policy) /\ k \in Resident(policy) /\ policy' = Touch(policy, k)
    BY DEF HInv, Types, Hit
<1>2. Sound(policy') /\ Resident(policy') = Resident(policy)
    BY <1>1, TouchIsSound
<1>3. UNCHANGED <<slotOf, pending, free, toRetract, retracting, inflight, landing, still, tick,
                  compute, copies, retractEv, env>>
    BY DEF Hit, shared, scheduler, device
<1>. QED  BY <1>2, <1>3, SlotsQuiet DEF HInv, Types

LEMMA MissKeeps ==
    ASSUME HInv, NEW k \in Keys, Miss(k)
    PROVE  HInv'
<1>1. CASE CanPlace
  <2>1. k \notin Resident(policy) /\ Place(k) /\ pending' = pending
    BY <1>1 DEF Miss
  <2>2. UNCHANGED <<retracting, landing, still, tick, env, compute>>
    BY DEF Miss, scheduler
  <2>3. pending' \in Seq(Keys)
    BY <2>1 DEF HInv, Types
  <2>. QED  BY <1>1, <2>1, <2>2, <2>3, SlotsPlace
<1>2. CASE ~CanPlace
  <2>1. pending' = Defer(k) /\ UNCHANGED <<policy, slotOf, shared, copies>>
    BY <1>2 DEF Miss
  <2>2. UNCHANGED <<scheduler, compute, table, slab, env>>
    BY DEF Miss
  <2>3. pending' \in Seq(Keys)
    BY <2>1, DeferIs DEF HInv, Types
  <2>. QED  BY <2>1, <2>2, <2>3, SlotsQuiet DEF HInv, Types, shared, scheduler
<1>. QED  BY <1>1, <1>2

LEMMA WakeKeeps ==
    ASSUME HInv, Wake
    PROVE  HInv'
    BY SlotsQuiet DEF HInv, Types, Wake, host, shared, scheduler, device

LEMMA PlacePendingKeeps ==
    ASSUME HInv, PlacePending
    PROVE  HInv'
<1>1. pending \in Seq(Keys) /\ pending # << >> /\ pending' = Front(pending)
    BY DEF HInv, Types, PlacePending
<1>2. pending' \in Seq(Keys) /\ Last(pending) \in Keys
    BY <1>1, FrontElements
<1>3. UNCHANGED <<retracting, landing, still, tick, env, compute>>
    BY DEF PlacePending, scheduler
<1>4. CASE Last(pending) \in Resident(policy)
    BY <1>2, <1>3, <1>4, SlotsQuiet DEF HInv, Types, PlacePending, shared
<1>5. CASE Last(pending) \notin Resident(policy)
  <2>1. CanPlace /\ Place(Last(pending))
    BY <1>5 DEF PlacePending
  <2>. QED  BY <1>2, <1>3, <1>5, <2>1, SlotsPlace
<1>. QED  BY <1>4, <1>5

\* The claims of some keys become retractions.
LEMMA RetractionsAre ==
    ASSUME slotOf \in [Keys -> Slots \cup {None}], ClaimsDiffer,
           NEW ks \in Seq(Keys), IsInjective(ks)
    PROVE  /\ Retractions(ks) \in Seq(Claim) /\ IsInjective(SlotsIn(Retractions(ks)))
           /\ ToSet(Retractions(ks)) =
                 {[key |-> k, slot |-> slotOf[k]] : k \in {j \in ToSet(ks) : slotOf[j] # None}}
           /\ ToSet(SlotsIn(Retractions(ks))) = {slotOf[k] : k \in ToSet(ks)} \ {None}
           /\ \A k \in Keys : Unclaim(ks)[k] = IF k \in ToSet(ks) THEN None ELSE slotOf[k]
           /\ Unclaim(ks) \in [Keys -> Slots \cup {None}]
<1>. DEFINE c == Claimed(ks)
            r == Retractions(ks)
<1>1. /\ c \in Seq(Keys) /\ IsInjective(c)
      /\ ToSet(c) = ToSet(ks) \cap {k \in Keys : slotOf[k] # None}
    BY OnlyElements DEF Claimed
<1>2. r = [i \in DOMAIN c |-> [key |-> c[i], slot |-> slotOf[c[i]]]]
    BY DEF Retractions
<1>. HIDE DEF c, r
<1>3. DOMAIN c = 1 .. Len(c) /\ Len(c) \in Nat
    BY <1>1
<1>4. \A i \in 1 .. Len(c) : c[i] \in Keys /\ slotOf[c[i]] \in Slots /\ c[i] \in ToSet(c)
    BY <1>1, <1>3 DEF ToSet
<1>5. /\ DOMAIN r = 1 .. Len(c)
      /\ \A i \in 1 .. Len(c) : r[i] \in Claim /\ r[i].key = c[i] /\ r[i].slot = slotOf[c[i]]
                              /\ r[i] = [key |-> c[i], slot |-> slotOf[c[i]]]
    BY <1>2, <1>3, <1>4 DEF Claim
<1>6. r \in Seq(Claim)
  <2>1. r \in [1 .. Len(c) -> Claim]
    BY <1>2, <1>3, <1>5
  <2>. QED  BY <2>1, <1>3
<1>7. ToSet(ks) \subseteq Keys
    BY DEF ToSet
<1>8. ToSet(r) = {[key |-> k, slot |-> slotOf[k]] : k \in ToSet(c)}
    BY <1>3, <1>5 DEF ToSet
<1>9. ToSet(c) = {j \in ToSet(ks) : slotOf[j] # None}
    BY <1>1, <1>7
<1>10. /\ DOMAIN SlotsIn(r) = 1 .. Len(c)
       /\ \A i \in 1 .. Len(c) : SlotsIn(r)[i] = slotOf[c[i]]
    BY <1>5 DEF SlotsIn
<1>11. IsInjective(SlotsIn(r))
    BY <1>1, <1>3, <1>4, <1>10 DEF IsInjective, ClaimsDiffer
<1>12. ToSet(SlotsIn(r)) = {slotOf[k] : k \in ToSet(c)}
    BY <1>3, <1>10 DEF ToSet
<1>13. /\ \A k \in Keys : Unclaim(ks)[k] = IF k \in ToSet(ks) THEN None ELSE slotOf[k]
       /\ Unclaim(ks) \in [Keys -> Slots \cup {None}]
    BY DEF Unclaim
<1>. QED  BY <1>6, <1>8, <1>9, <1>11, <1>12, <1>13 DEF r

\* What a turn of the manager that evicts does.
LEMMA ReclaimIs ==
    ASSUME Types, SlotsOK, Reclaim
    PROVE  \E ks \in Seq(Keys) :
              /\ IsInjective(ks) /\ ToSet(ks) \subseteq Resident(policy)
              /\ ToSet(ks) \cap InflightKeys = {}
              /\ Sound(policy') /\ Resident(policy') = Resident(policy) \ ToSet(ks)
              /\ toRetract' = toRetract \o Retractions(ks)
              /\ slotOf' = Unclaim(ks)
<1>. DEFINE size == Len(ByValue(policy))
            n == IF Shortage < size THEN Shortage ELSE size
            m == IF Shortage > 0 THEN n ELSE 0
            victims == Victims(policy, m)
            leave == Without(victims, InflightKeys)
<1>1. size \in Nat /\ ByValue(policy) \in Seq(Keys) /\ Sound(policy)
    BY ByValueElements DEF Types
<1>2. Shortage \in Int
  <2>1. Wanted \in Nat
    BY ExpertAssumption DEF Wanted, Types
  <2>2. Len(free) \in Nat /\ Len(toRetract) \in Nat
    BY DEF Types
  <2>. QED  BY <2>1, <2>2 DEF Shortage
<1>3. m \in Nat /\ m <= size
    BY <1>1, <1>2
<1>4. victims = IF Shortage > 0 THEN Victims(policy, n) ELSE << >>
  <2>1. SubSeq(ByValue(policy), 1, 0) = << >>
    BY <1>1
  <2>. QED  BY <2>1 DEF Victims
<1>5. /\ policy' = Readmit(WithoutKeys(policy, ToSet(victims)), Only(victims, InflightKeys))
      /\ toRetract' = toRetract \o Retractions(leave)
      /\ slotOf' = Unclaim(leave)
    BY <1>4 DEF Reclaim
<1>. HIDE DEF m, n, size
<1>6. /\ victims \in Seq(Keys) /\ IsInjective(victims) /\ ToSet(victims) \subseteq Resident(policy)
      /\ leave \in Seq(Keys) /\ IsInjective(leave)
      /\ ToSet(leave) = ToSet(victims) \ InflightKeys
      /\ Sound(policy') /\ Resident(policy') = Resident(policy) \ ToSet(leave)
    BY <1>1, <1>3, <1>5, ReadmitIsSound DEF size
<1>. QED  BY <1>5, <1>6

LEMMA ReclaimKeeps ==
    ASSUME HInv, Reclaim
    PROVE  HInv'
<1>0. Types /\ SlotsOK /\ Phases
    BY DEF HInv
<1>1. PICK ks \in Seq(Keys) :
              /\ IsInjective(ks) /\ ToSet(ks) \subseteq Resident(policy)
              /\ ToSet(ks) \cap InflightKeys = {}
              /\ Sound(policy') /\ Resident(policy') = Resident(policy) \ ToSet(ks)
              /\ toRetract' = toRetract \o Retractions(ks)
              /\ slotOf' = Unclaim(ks)
    BY <1>0, ReclaimIs
<1>. DEFINE r == Retractions(ks)
            L == {slotOf[k] : k \in ToSet(ks)} \ {None}
<1>2. UNCHANGED <<pending, free, inflight, retractEv, tick, retracting, landing, still,
                  compute, copies, env>>
    BY DEF Reclaim, scheduler, device
<1>3. slotOf \in [Keys -> Slots \cup {None}] /\ ClaimsDiffer
    BY <1>0 DEF Types, SlotsOK
<1>4. /\ r \in Seq(Claim) /\ IsInjective(SlotsIn(r)) /\ ToSet(SlotsIn(r)) = L
      /\ \A k \in Keys : slotOf'[k] = IF k \in ToSet(ks) THEN None ELSE slotOf[k]
      /\ slotOf' \in [Keys -> Slots \cup {None}]
    BY <1>1, <1>3, RetractionsAre
<1>. HIDE DEF r
<1>5. toRetract' = toRetract \o r /\ toRetract \in Seq(Claim)
    BY <1>0, <1>1 DEF Types, r
<1>6. SlotsIn(toRetract)' = SlotsIn(toRetract) \o SlotsIn(r)
    BY <1>4, <1>5, ElementsHaveSlots, ListConcat
<1>7. ToSet(ks) \subseteq Keys /\ L \subseteq ClaimedSlots
    BY DEF ToSet, ClaimedSlots
<1>8. SlotsIn(toRetract) \in Seq(Slots) /\ SlotsIn(r) \in Seq(Slots)
    BY <1>4, <1>5, ElementsHaveSlots, ListParts
<1>9. QueuedSlots' = QueuedSlots \cup L /\ IsInjective(SlotsIn(toRetract)')
  <2>1. QueuedSlots \cap L = {} /\ IsInjective(SlotsIn(toRetract))
    BY <1>0, <1>7 DEF SlotsOK, Apart
  <2>2. /\ ToSet(SlotsIn(toRetract) \o SlotsIn(r)) = ToSet(SlotsIn(toRetract)) \cup ToSet(SlotsIn(r))
        /\ IsInjective(SlotsIn(toRetract)) /\ IsInjective(SlotsIn(r))
              /\ ToSet(SlotsIn(toRetract)) \cap ToSet(SlotsIn(r)) = {}
           => IsInjective(SlotsIn(toRetract) \o SlotsIn(r))
    BY <1>8, ConcatElements
  <2>. QED  BY <2>1, <2>2, <1>4, <1>6 DEF QueuedSlots
<1>10. ClaimedSlots' = ClaimedSlots \ L
    BY <1>3, <1>4, <1>7 DEF ClaimedSlots, ClaimsDiffer
<1>11. Types'
  <2>1. toRetract' \in Seq(Claim)
    BY <1>4, <1>5
  <2>. QED  BY <2>1, <1>0, <1>1, <1>2, <1>4 DEF Types
<1>12. Phases'
    BY <1>0, <1>2 DEF Phases
<1>13. SlotsOK'
  <2>1. Resident(policy)' = {k \in Keys : slotOf'[k] # None}
    BY <1>0, <1>1, <1>4 DEF SlotsOK
  <2>2. ClaimsDiffer'
    BY <1>3, <1>4 DEF ClaimsDiffer
  <2>3. FreeSlots' = FreeSlots /\ TakenSlots' = TakenSlots /\ GivenUp' = GivenUp
    BY <1>2 DEF FreeSlots, TakenSlots, GivenUp
  <2>4. Apart(FreeSlots, QueuedSlots \cup L, TakenSlots, ClaimedSlots \ L, GivenUp)
    BY <1>0, <1>7 DEF SlotsOK, Apart
  <2>5. Apart(FreeSlots, QueuedSlots, TakenSlots, ClaimedSlots, GivenUp)'
    BY <2>3, <2>4, <1>9, <1>10
  <2>6. IsInjective(free') /\ IsInjective(SlotsIn(retracting)')
    BY <1>0, <1>2 DEF SlotsOK
  <2>. QED  BY <2>1, <2>2, <2>5, <2>6, <1>9 DEF SlotsOK
<1>14. ~env'.racing => Followed'
  <2>1. SUFFICES ASSUME ~env.racing PROVE Followed'
    BY <1>2
  <2>2. tick = "out" /\ landing = << >> /\ still = << >>
    BY <2>1, <1>0 DEF Reclaim, Serial, Phases
  <2>3. FollowedIn(slotOf, inflight, << >>, << >>)
    BY <2>1, <2>2 DEF HInv, Followed, Waiting
  <2>4. ToSet(KeysOf(inflight)) = InflightKeys /\ ToSet(KeysOf(<< >>)) = {}
    BY DEF ToSet, KeysOf, InflightKeys
  <2>5. ToSet(KeysOf(inflight)) \subseteq Keys
    <3>1. KeysOf(inflight) \in Seq(Keys)
      BY <1>0, ElementsHaveSlots, ListParts DEF Types
    <3>. QED  BY <3>1 DEF ToSet
  <2>6. \A k \in ToSet(KeysOf(inflight)) \cup ToSet(KeysOf(<< >>)) \cup ToSet(KeysOf(<< >>)) :
           slotOf'[k] = slotOf[k]
    BY <2>4, <2>5, <1>1, <1>4
  <2>7. inflight \in Seq(Entry) /\ << >> \in Seq(Entry)
    BY <1>0 DEF Types
  <2>8. FollowedIn(slotOf', inflight, << >>, << >>)
    BY <2>3, <2>6, <2>7, FollowedClaims
  <2>. QED  BY <2>2, <2>8, <1>2 DEF Followed, Waiting
<1>15. ~env'.lossy => NothingLost'
    BY <1>2 DEF HInv, NothingLost, InTime
<1>. QED  BY <1>11, <1>12, <1>13, <1>14, <1>15 DEF HInv

LEMMA EmptyParts ==
    /\ << >> \in Seq(Claim) /\ << >> \in Seq(Entry)
    /\ ToSet(SlotsIn(<< >>)) = {} /\ IsInjective(SlotsIn(<< >>)) /\ AreMade(<< >>)
    BY DEF ToSet, SlotsIn, IsInjective, AreMade

LEMMA BeginTickKeeps ==
    ASSUME HInv, BeginTick
    PROVE  HInv'
<1>0. /\ Types /\ SlotsOK /\ Phases /\ tick = "out" /\ tick' = "retract"
      /\ landing = << >> /\ still = << >> /\ retracting = << >>
    BY DEF HInv, BeginTick, Phases
<1>1. /\ retracting' = toRetract /\ toRetract' = << >> /\ landing' = inflight /\ inflight' = << >>
      /\ UNCHANGED <<policy, slotOf, pending, free, retractEv, still, compute, copies, env>>
    BY DEF BeginTick, host, device
<1>2. Types'
    BY <1>0, <1>1, EmptyParts DEF Types
<1>3. Phases'
    BY <1>0, <1>1 DEF Phases
<1>4. SlotsOK'
  <2>1. TakenSlots' = QueuedSlots /\ QueuedSlots' = {} /\ TakenSlots = {}
        /\ GivenUp' = {} /\ GivenUp = {}
    BY <1>0, <1>1, EmptyParts DEF TakenSlots, QueuedSlots, GivenUp
  <2>2. FreeSlots' = FreeSlots /\ ClaimedSlots' = ClaimedSlots
    BY <1>1 DEF FreeSlots, ClaimedSlots
  <2>3. Apart(FreeSlots, QueuedSlots, TakenSlots, ClaimedSlots, GivenUp)'
    BY <1>0, <2>1, <2>2 DEF SlotsOK, Apart
  <2>. QED  BY <1>0, <1>1, <2>3, EmptyParts DEF SlotsOK, ClaimsDiffer
<1>5. ~env'.racing => Followed'
    BY <1>0, <1>1, FollowedTaken DEF HInv, Followed, Waiting
<1>6. ~env'.lossy => NothingLost'
  <2>1. SUFFICES ASSUME ~env.lossy PROVE NothingLost'
    BY <1>1
  <2>2. env.patience \in 0 .. MaxAge /\ MaxAge \in Nat
    BY <1>0, ExpertAssumption DEF Types, AnyEnvironment
  <2>3. ASSUME NEW e \in ToSet(inflight) PROVE e.event = 0 \/ e.age < MaxAge
    <3>1. LandsInTime(e) /\ e.event # Never /\ e \in Entry
      BY <2>1, <1>0, <2>3 DEF HInv, NothingLost, AreMade, BeginTick, ToSet, Types
    <3>2. e.age \in Nat
      BY <3>1 DEF Entry
    <3>. QED  BY <3>1, <3>2, <2>2 DEF LandsInTime
  <2>. QED  BY <2>1, <2>3, <1>0, <1>1, EmptyParts DEF HInv, NothingLost, InTime
<1>. QED  BY <1>2, <1>3, <1>4, <1>5, <1>6 DEF HInv

\* What a tick's retractions do.
LEMMA TableWritesAre ==
    ASSUME retracting \in Seq(Claim)
    PROVE  /\ TableWrites \in Seq(Write) /\ DOMAIN TableWrites = DOMAIN retracting
           /\ Len(TableWrites) = Len(retracting)
           /\ \A i \in DOMAIN retracting : /\ TableWrites[i].key = retracting[i].key
                                           /\ TableWrites[i].slot = None
<1>1. DOMAIN retracting = 1 .. Len(retracting) /\ Len(retracting) \in Nat
    OBVIOUS
<1>2. \A i \in 1 .. Len(retracting) : retracting[i].key \in Keys
    BY ElementsHaveSlots, <1>1
<1>3. TableWrites \in [1 .. Len(retracting) -> Write]
    BY <1>1, <1>2 DEF TableWrites, Write
<1>4. TableWrites \in Seq(Write) /\ Len(TableWrites) = Len(retracting)
    BY <1>1, <1>3
<1>. QED  BY <1>4 DEF TableWrites

LEMMA RetractKeeps ==
    ASSUME HInv, Retract
    PROVE  HInv'
<1>0. /\ Types /\ SlotsOK /\ Phases /\ tick = "retract" /\ tick' = "land" /\ still = << >>
    BY DEF HInv, Retract, Phases
<1>1. /\ retracting' = << >>
      /\ free' = free \o SlotsIn(retracting)
      /\ compute' = compute \o TableWrites
      /\ retractEv' = [s \in Slots |-> IF s \in ToSet(SlotsIn(retracting)) THEN Len(compute')
                                       ELSE retractEv[s]]
      /\ UNCHANGED <<policy, slotOf, pending, toRetract, inflight, landing, still, copies, env>>
    BY DEF Retract, host, SlotsIn
<1>2. retracting \in Seq(Claim) /\ free \in Seq(Slots) /\ SlotsIn(retracting) \in Seq(Slots)
    BY <1>0, ElementsHaveSlots, ListParts DEF Types
<1>3. /\ ToSet(free \o SlotsIn(retracting)) = ToSet(free) \cup ToSet(SlotsIn(retracting))
      /\ IsInjective(free \o SlotsIn(retracting))
  <2>1. /\ IsInjective(free) /\ IsInjective(SlotsIn(retracting))
        /\ ToSet(free) \cap ToSet(SlotsIn(retracting)) = {}
    BY <1>0 DEF SlotsOK, Apart, FreeSlots, TakenSlots
  <2>. QED  BY <2>1, <1>2, ConcatElements
<1>4. Types'
  <2>1. compute' \in Seq(Write) /\ Len(compute') \in Nat
    <3>1. compute \in Seq(Write) /\ TableWrites \in Seq(Write)
      BY <1>0, <1>2, TableWritesAre DEF Types
    <3>. QED  BY <3>1, <1>1
  <2>2. free' \in Seq(Slots)
    BY <1>1, <1>2
  <2>3. retractEv' \in [Slots -> Nat]
    BY <1>0, <1>1, <2>1 DEF Types
  <2>. QED  BY <2>1, <2>2, <2>3, <1>0, <1>1, EmptyParts DEF Types
<1>5. Phases'
    BY <1>0, <1>1 DEF Phases
<1>6. SlotsOK'
  <2>1. FreeSlots' = FreeSlots \cup TakenSlots /\ TakenSlots' = {} /\ GivenUp' = {} /\ GivenUp = {}
    BY <1>0, <1>1, <1>3, EmptyParts DEF FreeSlots, TakenSlots, GivenUp
  <2>2. QueuedSlots' = QueuedSlots /\ ClaimedSlots' = ClaimedSlots
    BY <1>1 DEF QueuedSlots, ClaimedSlots
  <2>3. Apart(FreeSlots, QueuedSlots, TakenSlots, ClaimedSlots, GivenUp)'
    BY <1>0, <2>1, <2>2 DEF SlotsOK, Apart
  <2>. QED  BY <1>0, <1>1, <1>3, <2>3, EmptyParts DEF SlotsOK, ClaimsDiffer
<1>7. ~env'.racing => Followed'
    BY <1>0, <1>1 DEF HInv, Followed, Waiting
<1>8. ~env'.lossy => NothingLost'
    BY <1>1 DEF HInv, NothingLost, InTime
<1>. QED  BY <1>4, <1>5, <1>6, <1>7, <1>8 DEF HInv

\* Steps of the scheduler that move an entry only.
LEMMA SlotsLand ==
    ASSUME HInv, tick = "land", tick' = "land", landing # << >>,
           landing' = Tail(landing), still' \in Seq(Entry), compute' \in Seq(Write),
           ~env.racing => FollowedIn(slotOf, inflight, Tail(landing), still'),
           ~env.lossy => AreMade(still'),
           UNCHANGED <<host, shared, retracting, copies, env>>
    PROVE  HInv'
<1>0. Types /\ SlotsOK /\ Phases
    BY DEF HInv
<1>1. UNCHANGED <<policy, slotOf, pending, free, toRetract, inflight, retractEv, retracting, copies, env>>
    BY DEF host, shared
<1>2. landing \in Seq(Entry) /\ Tail(landing) \in Seq(Entry)
      /\ ToSet(Tail(landing)) \subseteq ToSet(landing)
    BY <1>0, TailElements DEF Types
<1>3. Types'
    BY <1>0, <1>1, <1>2 DEF Types
<1>4. Phases'
    BY <1>0, <1>1 DEF Phases
<1>5. SlotsOK'
    BY <1>0, <1>1 DEF SlotsOK, ClaimsDiffer, FreeSlots, QueuedSlots, TakenSlots, ClaimedSlots, GivenUp
<1>6. ~env'.racing => Followed'
    BY <1>1 DEF Followed, Waiting
<1>7. ~env'.lossy => NothingLost'
    BY <1>1, <1>2 DEF HInv, NothingLost, InTime, AreMade
<1>. QED  BY <1>3, <1>4, <1>5, <1>6, <1>7 DEF HInv

LEMMA PublishKeeps ==
    ASSUME HInv, Publish
    PROVE  HInv'
<1>0. /\ Types /\ tick = "land" /\ tick' = "land" /\ landing # << >> /\ landing' = Tail(landing)
      /\ UNCHANGED <<host, shared, retracting, copies, env>> /\ still' = still
    BY DEF HInv, Publish
<1>1. /\ inflight \in Seq(Entry) /\ landing \in Seq(Entry) /\ still \in Seq(Entry)
      /\ compute \in Seq(Write) /\ Head(landing) \in Entry
    BY <1>0, TailElements DEF Types
<1>2. compute' \in Seq(Write)
  <2>1. [key |-> Head(landing).key, slot |-> Head(landing).slot] \in Write
    BY <1>1 DEF Entry, Write
  <2>. QED  BY <1>1, <2>1 DEF Publish
<1>3. ~env.racing => FollowedIn(slotOf, inflight, Tail(landing), still)
    BY <1>0, <1>1, FollowedDrop DEF HInv, Followed, Waiting
<1>4. ~env.lossy => AreMade(still)
    BY DEF HInv, NothingLost
<1>. QED  BY <1>0, <1>1, <1>2, <1>3, <1>4, SlotsLand

\* An entry that waits one more tick.
Older(e) == [e EXCEPT !.age = @ + 1]

LEMMA OlderIs ==
    ASSUME NEW e \in Entry
    PROVE  /\ Older(e) \in Entry /\ Older(e).key = e.key /\ Older(e).slot = e.slot
           /\ Older(e).event = e.event /\ Older(e).age = e.age + 1
    BY DEF Older, Entry

LEMMA KeepWaitingKeeps ==
    ASSUME HInv, KeepWaiting
    PROVE  HInv'
<1>0. /\ Types /\ tick = "land" /\ tick' = "land" /\ landing # << >> /\ landing' = Tail(landing)
      /\ UNCHANGED <<host, shared, retracting, device, env>>
      /\ still' = Append(still, Older(Head(landing)))
    BY DEF HInv, KeepWaiting, Older
<1>1. /\ slotOf \in [Keys -> Slots \cup {None}]
      /\ inflight \in Seq(Entry) /\ landing \in Seq(Entry) /\ still \in Seq(Entry)
      /\ compute \in Seq(Write) /\ Head(landing) \in Entry /\ Head(landing) \in ToSet(landing)
    BY <1>0, TailElements DEF Types
<1>2. /\ Older(Head(landing)) \in Entry /\ Older(Head(landing)).key = Head(landing).key
      /\ Older(Head(landing)).slot = Head(landing).slot
      /\ Older(Head(landing)).event = Head(landing).event
    BY <1>1, OlderIs
<1>3. still' \in Seq(Entry) /\ ToSet(still') = ToSet(still) \cup {Older(Head(landing))}
    BY <1>0, <1>1, <1>2, AppendElements
<1>4. ~env.racing => FollowedIn(slotOf, inflight, Tail(landing), still')
  <2>1. ~env.racing => FollowedIn(slotOf, inflight, landing, still)
    BY <1>0 DEF HInv, Followed, Waiting
  <2>. QED  BY <2>1, <1>0, <1>1, <1>2, FollowedMove
<1>5. ~env.lossy => AreMade(still')
    BY <1>1, <1>2, <1>3 DEF HInv, NothingLost, AreMade
<1>6. UNCHANGED <<compute, copies>>
    BY <1>0 DEF device
<1>. QED  BY <1>0, <1>1, <1>3, <1>4, <1>5, <1>6, SlotsLand

LEMMA AbandonKeeps ==
    ASSUME HInv, Separate, Abandon
    PROVE  HInv'
<1>. DEFINE e == Head(landing)
<1>0. /\ Types /\ SlotsOK /\ Phases /\ tick = "land" /\ tick' = "abandon" /\ landing # << >>
      /\ ~Landed(e) /\ e.age >= MaxAge
      /\ UNCHANGED <<pending, free, toRetract, inflight, retractEv, retracting, landing, still,
                     compute, copies, env>>
    BY DEF HInv, Abandon, shared, device
<1>1. /\ inflight \in Seq(Entry) /\ landing \in Seq(Entry) /\ still \in Seq(Entry)
      /\ e \in Entry /\ e \in ToSet(landing) /\ slotOf \in [Keys -> Slots \cup {None}]
    BY <1>0, TailElements DEF Types
<1>2. e.key \in Keys /\ e.slot \in Slots /\ e.slot # None /\ e.age \in Nat
    BY <1>1, ElementsHaveSlots DEF Entry
<1>3. env.lossy /\ ~env.racing
  <2>1. env.lossy
    BY <1>0, <1>1, <1>2, ExpertAssumption DEF HInv, NothingLost, InTime, Landed
  <2>. QED  BY <2>1, <1>0 DEF Separate, Types
<1>4. FollowedIn(slotOf, inflight, landing, still)
    BY <1>0, <1>3 DEF HInv, Followed, Waiting
<1>5. slotOf[e.key] = e.slot
    BY <1>1, <1>4 DEF FollowedIn, AreHeld
<1>6. slotOf' = [slotOf EXCEPT ![e.key] = None] /\ policy' = WithoutKeys(policy, {e.key})
    BY <1>5 DEF Abandon, StillHeld
<1>. HIDE DEF e
<1>7. \A k \in Keys : slotOf'[k] = IF k = e.key THEN None ELSE slotOf[k]
    BY <1>1, <1>6
<1>8. Sound(policy') /\ Resident(policy') = Resident(policy) \ {e.key}
    BY <1>0, <1>6, WithoutIsSound DEF Types
<1>9. Types'
    BY <1>0, <1>1, <1>6, <1>8 DEF Types
<1>10. Phases'
    BY <1>0 DEF Phases
<1>11. SlotsOK'
  <2>1. Resident(policy)' = {k \in Keys : slotOf'[k] # None}
    BY <1>0, <1>7, <1>8 DEF SlotsOK
  <2>2. ClaimsDiffer'
    BY <1>0, <1>7 DEF SlotsOK, ClaimsDiffer
  <2>3. ClaimedSlots' = ClaimedSlots \ {e.slot} /\ e.slot \in ClaimedSlots
    <3>1. e.slot \in ClaimedSlots
      BY <1>2, <1>5 DEF ClaimedSlots
    <3>. QED  BY <3>1, <1>0, <1>2, <1>5, <1>7 DEF SlotsOK, ClaimsDiffer, ClaimedSlots
  <2>4. GivenUp = {} /\ GivenUp' = {e.slot}
    BY <1>0 DEF GivenUp, e
  <2>5. FreeSlots' = FreeSlots /\ QueuedSlots' = QueuedSlots /\ TakenSlots' = TakenSlots
    BY <1>0 DEF FreeSlots, QueuedSlots, TakenSlots
  <2>6. Apart(FreeSlots, QueuedSlots, TakenSlots, ClaimedSlots, GivenUp)'
    BY <1>0, <2>3, <2>4, <2>5 DEF SlotsOK, Apart
  <2>. QED  BY <1>0, <2>1, <2>2, <2>6 DEF SlotsOK
<1>12. Followed'
  <2>1. /\ FollowedIn(slotOf, inflight, Tail(landing), still)
        /\ e.key \notin ToSet(KeysOf(inflight)) \cup ToSet(KeysOf(Tail(landing))) \cup ToSet(KeysOf(still))
    BY <1>0, <1>1, <1>4, FollowedDrop DEF e
  <2>2. Tail(landing) \in Seq(Entry)
    BY <1>0, <1>1
  <2>3. /\ KeysOf(inflight) \in Seq(Keys) /\ KeysOf(Tail(landing)) \in Seq(Keys)
        /\ KeysOf(still) \in Seq(Keys)
    BY <1>1, <2>2, ElementsHaveSlots, ListParts
  <2>4. \A k \in ToSet(KeysOf(inflight)) \cup ToSet(KeysOf(Tail(landing))) \cup ToSet(KeysOf(still)) :
           slotOf'[k] = slotOf[k]
    BY <2>1, <2>3, <1>7 DEF ToSet
  <2>5. FollowedIn(slotOf', inflight, Tail(landing), still)
    BY <2>1, <2>2, <2>4, <1>1, FollowedClaims
  <2>. QED  BY <2>5, <1>0 DEF Followed, Waiting
<1>. QED  BY <1>0, <1>3, <1>9, <1>10, <1>11, <1>12 DEF HInv

LEMMA FreeAbandonedKeeps ==
    ASSUME HInv, FreeAbandoned
    PROVE  HInv'
<1>. DEFINE s == Head(landing).slot
<1>0. /\ Types /\ SlotsOK /\ Phases /\ tick = "abandon" /\ tick' = "land" /\ landing # << >>
      /\ free' = Append(free, s) /\ landing' = Tail(landing)
      /\ UNCHANGED <<policy, slotOf, pending, toRetract, inflight, retractEv, retracting, still,
                     compute, copies, env>>
    BY DEF HInv, FreeAbandoned, Phases, host, device
<1>1. /\ landing \in Seq(Entry) /\ Tail(landing) \in Seq(Entry) /\ Head(landing) \in Entry
      /\ ToSet(Tail(landing)) \subseteq ToSet(landing) /\ free \in Seq(Slots)
    BY <1>0, TailElements DEF Types
<1>2. s \in Slots
    BY <1>1 DEF Entry
<1>3. GivenUp = {s} /\ GivenUp' = {}
    BY <1>0 DEF GivenUp
<1>. HIDE DEF s
<1>4. /\ Append(free, s) \in Seq(Slots) /\ ToSet(Append(free, s)) = ToSet(free) \cup {s}
      /\ IsInjective(Append(free, s))
  <2>1. s \notin ToSet(free) /\ IsInjective(free)
    BY <1>0, <1>3 DEF SlotsOK, Apart, FreeSlots
  <2>. QED  BY <2>1, <1>1, <1>2, AppendElements
<1>5. Types'
    BY <1>0, <1>1, <1>4 DEF Types
<1>6. Phases'
    BY <1>0 DEF Phases
<1>7. SlotsOK'
  <2>1. FreeSlots' = FreeSlots \cup {s}
    BY <1>0, <1>4 DEF FreeSlots
  <2>2. QueuedSlots' = QueuedSlots /\ ClaimedSlots' = ClaimedSlots /\ TakenSlots' = TakenSlots
    BY <1>0 DEF QueuedSlots, ClaimedSlots, TakenSlots
  <2>3. Apart(FreeSlots, QueuedSlots, TakenSlots, ClaimedSlots, GivenUp)'
    BY <1>0, <1>3, <2>1, <2>2 DEF SlotsOK, Apart
  <2>. QED  BY <1>0, <1>4, <2>3 DEF SlotsOK, ClaimsDiffer
<1>8. ~env'.racing => Followed'
    BY <1>0 DEF HInv, Followed, Waiting
<1>9. ~env'.lossy => NothingLost'
    BY <1>0, <1>1 DEF HInv, NothingLost, InTime, AreMade
<1>. QED  BY <1>5, <1>6, <1>7, <1>8, <1>9 DEF HInv

LEMMA EndTickKeeps ==
    ASSUME HInv, EndTick
    PROVE  HInv'
<1>0. /\ Types /\ SlotsOK /\ Phases /\ tick = "land" /\ tick' = "out" /\ landing = << >>
      /\ inflight' = inflight \o still /\ still' = << >>
      /\ UNCHANGED <<policy, slotOf, pending, free, toRetract, retractEv, retracting, landing,
                     compute, copies, env>>
    BY DEF HInv, EndTick, host, device
<1>1. /\ inflight \in Seq(Entry) /\ still \in Seq(Entry) /\ inflight \o still \in Seq(Entry)
      /\ ToSet(inflight \o still) = ToSet(inflight) \cup ToSet(still)
    BY <1>0, ConcatElements DEF Types
<1>2. Types'
    BY <1>0, <1>1, EmptyParts DEF Types
<1>3. Phases'
    BY <1>0 DEF Phases
<1>4. SlotsOK'
    BY <1>0 DEF SlotsOK, ClaimsDiffer, FreeSlots, QueuedSlots, TakenSlots, ClaimedSlots, GivenUp
<1>5. ~env'.racing => Followed'
  <2>1. ~env.racing => FollowedIn(slotOf, inflight, << >>, still)
    BY <1>0 DEF HInv, Followed, Waiting
  <2>2. ~env.racing => FollowedIn(slotOf, inflight \o still, << >>, << >>)
    BY <2>1, <1>1, FollowedJoin
  <2>. QED  BY <2>2, <1>0 DEF Followed, Waiting
<1>6. ~env'.lossy => NothingLost'
    BY <1>0, <1>1, EmptyParts DEF HInv, NothingLost, InTime, AreMade
<1>. QED  BY <1>2, <1>3, <1>4, <1>5, <1>6 DEF HInv

\* What the compute stream does to the copies that wait for it.
LEMMA WriteTableIs ==
    ASSUME Types, WriteTable
    PROVE  /\ compute # << >> /\ compute' = Tail(compute) /\ compute' \in Seq(Write)
           /\ copies' \in Seq(Copy) /\ DOMAIN copies' = DOMAIN copies
           /\ \A n \in DOMAIN copies : /\ copies'[n].key = copies[n].key
                                       /\ copies'[n].slot = copies[n].slot
                                       /\ copies'[n].after = OneLess(copies[n].after)
           /\ retractEv' \in [Slots -> Nat]
           /\ \A s \in Slots : retractEv'[s] = OneLess(retractEv[s])
<1>1. compute # << >> /\ compute' = Tail(compute) /\ compute' \in Seq(Write)
  <2>1. compute \in Seq(Write) /\ compute # << >> /\ compute' = Tail(compute)
    BY DEF Types, WriteTable
  <2>. QED  BY <2>1, TailElements
<1>2. \A x \in Nat : OneLess(x) \in Nat
    BY DEF OneLess
<1>3. copies \in Seq(Copy) /\ DOMAIN copies = 1 .. Len(copies) /\ Len(copies) \in Nat
    BY DEF Types
<1>4. \A n \in 1 .. Len(copies) : copies[n] \in Copy
    BY <1>3
<1>5. ASSUME NEW c \in Copy
      PROVE  /\ [c EXCEPT !.after = OneLess(@)] \in Copy
             /\ [c EXCEPT !.after = OneLess(@)].key = c.key
             /\ [c EXCEPT !.after = OneLess(@)].slot = c.slot
             /\ [c EXCEPT !.after = OneLess(@)].after = OneLess(c.after)
    BY <1>2 DEF Copy
<1>6. copies' = [n \in 1 .. Len(copies) |-> [copies[n] EXCEPT !.after = OneLess(@)]]
    BY <1>3 DEF WriteTable
<1>7. copies' \in [1 .. Len(copies) -> Copy]
    BY <1>4, <1>5, <1>6
<1>8. copies' \in Seq(Copy)
    BY <1>3, <1>7
<1>9. \A n \in 1 .. Len(copies) : /\ copies'[n].key = copies[n].key
                                  /\ copies'[n].slot = copies[n].slot
                                  /\ copies'[n].after = OneLess(copies[n].after)
    BY <1>4, <1>5, <1>6
<1>10. /\ retractEv' \in [Slots -> Nat]
       /\ \A s \in Slots : retractEv'[s] = OneLess(retractEv[s])
    BY <1>2 DEF Types, WriteTable
<1>. QED  BY <1>1, <1>3, <1>7, <1>8, <1>9, <1>10

LEMMA WriteTableKeeps ==
    ASSUME HInv, WriteTable
    PROVE  HInv'
<1>1. compute' \in Seq(Write) /\ copies' \in Seq(Copy) /\ retractEv' \in [Slots -> Nat]
    BY WriteTableIs DEF HInv
<1>2. UNCHANGED <<policy, slotOf, pending, free, toRetract, retracting, inflight, landing, still, tick, env>>
    BY DEF WriteTable, host, scheduler
<1>. QED  BY <1>1, <1>2, SlotsQuiet DEF HInv, Types

LEMMA BeginCopyKeeps ==
    ASSUME HInv, BeginCopy
    PROVE  HInv'
    BY SlotsQuiet DEF HInv, Types, BeginCopy, host, shared, scheduler

LEMMA EndCopyKeeps ==
    ASSUME HInv, EndCopy
    PROVE  HInv'
<1>0. /\ Types /\ SlotsOK /\ Phases /\ copies # << >> /\ copies' = Tail(copies)
      /\ inflight' = Sooner(inflight) /\ landing' = Sooner(landing) /\ still' = Sooner(still)
      /\ UNCHANGED <<policy, slotOf, pending, free, toRetract, retractEv, tick, retracting,
                     compute, env>>
    BY DEF HInv, EndCopy, CopyReady, host
<1>1. /\ inflight \in Seq(Entry) /\ landing \in Seq(Entry) /\ still \in Seq(Entry)
      /\ Sooner(inflight) \in Seq(Entry) /\ Sooner(landing) \in Seq(Entry) /\ Sooner(still) \in Seq(Entry)
      /\ copies' \in Seq(Copy)
    BY <1>0, SoonerIs, TailElements DEF Types
<1>2. ASSUME NEW l \in Seq(Entry) PROVE l = << >> <=> Sooner(l) = << >>
  <2>1. Len(Sooner(l)) = Len(l) /\ Sooner(l) \in Seq(Entry)
    BY SoonerIs
  <2>. QED  BY <2>1
<1>3. landing # << >> => /\ Tail(Sooner(landing)) = Sooner(Tail(landing)) /\ Tail(landing) \in Seq(Entry)
                         /\ Head(Sooner(landing)).slot = Head(landing).slot
    BY <1>1, SoonerTail
<1>4. Types'
    BY <1>0, <1>1 DEF Types
<1>5. Phases'
    BY <1>0, <1>1, <1>2 DEF Phases
<1>6. SlotsOK'
  <2>1. GivenUp' = GivenUp
    BY <1>0, <1>3 DEF GivenUp, Phases
  <2>2. FreeSlots' = FreeSlots /\ QueuedSlots' = QueuedSlots /\ TakenSlots' = TakenSlots
        /\ ClaimedSlots' = ClaimedSlots
    BY <1>0 DEF FreeSlots, QueuedSlots, TakenSlots, ClaimedSlots
  <2>. QED  BY <1>0, <2>1, <2>2 DEF SlotsOK, ClaimsDiffer
<1>7. ~env'.racing => Followed'
  <2>1. SUFFICES ASSUME ~env.racing PROVE Followed'
    BY <1>0
  <2>2. Waiting \in Seq(Entry) /\ Waiting' = Sooner(Waiting)
    BY <1>0, <1>1, <1>3 DEF Waiting, Phases
  <2>3. FollowedIn(slotOf, Sooner(inflight), Sooner(Waiting), Sooner(still))
    BY <2>1, <2>2, <1>1, FollowedSooner DEF HInv, Followed
  <2>. QED  BY <2>2, <2>3, <1>0 DEF Followed
<1>8. ~env'.lossy => NothingLost'
  <2>1. SUFFICES ASSUME ~env.lossy PROVE NothingLost'
    BY <1>0
  <2>2. ASSUME NEW l \in Seq(Entry), NEW e \in ToSet(Sooner(l))
        PROVE  \E x \in ToSet(l) : x \in Entry /\ e.age = x.age /\ e.event = OneLess(x.event)
    BY SoonerIs DEF ToSet
  <2>3. \A x \in Nat \cup {Never} : (x # Never => OneLess(x) # Never) /\ (x = 0 => OneLess(x) = 0)
    BY DEF OneLess, Never
  <2>4. \A x \in Entry : x.event \in Nat \cup {Never}
    BY DEF Entry
  <2>5. \A l \in Seq(Entry) : AreMade(l) => AreMade(Sooner(l))
    BY <2>2, <2>3, <2>4 DEF AreMade
  <2>6. InTime'
    <3>1. ASSUME NEW e \in ToSet(Sooner(landing)) PROVE e.event = 0 \/ e.age < MaxAge
      <4>1. PICK x \in ToSet(landing) : x \in Entry /\ e.age = x.age /\ e.event = OneLess(x.event)
        BY <1>1, <2>2
      <4>2. x.event = 0 \/ x.age < MaxAge
        BY <2>1, <4>1 DEF HInv, NothingLost, InTime
      <4>. QED  BY <4>1, <4>2, <2>3, <2>4
    <3>. QED  BY <3>1, <1>0 DEF InTime
  <2>. QED  BY <2>1, <2>5, <2>6, <1>0, <1>1 DEF HInv, NothingLost
<1>. QED  BY <1>4, <1>5, <1>6, <1>7, <1>8 DEF HInv

LEMMA HInit ==
    ASSUME Init
    PROVE  HInv
<1>0. Capacity \in Nat \ {0} /\ free = [i \in 1 .. Capacity |-> i - 1]
    BY ExpertAssumption DEF Init
<1>1. policy = [probation |-> << >>, protected |-> << >>]
    BY DEF Init, EmptyPolicy
<1>2. ToSet(<< >>) = {} /\ IsInjective(<< >>)
    BY DEF ToSet, IsInjective
<1>3. Sound(policy) /\ Resident(policy) = {}
  <2>1. policy \in Policies
    BY <1>1 DEF Policies
  <2>. QED  BY <2>1, <1>1, <1>2 DEF Sound, Resident
<1>4. free \in Seq(Slots) /\ IsInjective(free) /\ ToSet(free) = Slots
  <2>1. \A i \in 1 .. Capacity : free[i] = i - 1 /\ i - 1 \in Slots
    BY <1>0 DEF Slots
  <2>2. free \in [1 .. Capacity -> Slots] /\ DOMAIN free = 1 .. Capacity
    BY <1>0, <2>1
  <2>3. free \in Seq(Slots)
    BY <1>0, <2>2
  <2>4. IsInjective(free)
    BY <1>0, <2>1, <2>2 DEF IsInjective
  <2>5. ASSUME NEW s \in Slots PROVE s \in ToSet(free)
    <3>1. s + 1 \in 1 .. Capacity /\ (s + 1) - 1 = s
      BY <1>0 DEF Slots
    <3>. QED  BY <3>1, <2>1, <2>2 DEF ToSet
  <2>6. ToSet(free) \subseteq Slots
    BY <2>1, <2>2 DEF ToSet
  <2>. QED  BY <2>3, <2>4, <2>5, <2>6
<1>5. \A k \in Keys : slotOf[k] = None
    BY DEF Init
<1>6. Types
    BY <1>3, <1>4 DEF Init, Types
<1>7. Phases
    BY DEF Init, Phases
<1>8. SlotsOK
  <2>1. FreeSlots = Slots /\ QueuedSlots = {} /\ TakenSlots = {} /\ ClaimedSlots = {} /\ GivenUp = {}
    BY <1>4, <1>5, EmptyParts
       DEF Init, FreeSlots, QueuedSlots, TakenSlots, ClaimedSlots, GivenUp
  <2>2. Apart(FreeSlots, QueuedSlots, TakenSlots, ClaimedSlots, GivenUp)
    BY <2>1 DEF Apart
  <2>. QED  BY <2>2, <1>3, <1>4, <1>5, EmptyParts DEF Init, SlotsOK, ClaimsDiffer
<1>9. Followed
  <2>1. KeysOf(<< >>) = << >>
    BY DEF KeysOf
  <2>. QED  BY <2>1, <1>2 DEF Init, Followed, FollowedIn, AreHeld, Waiting
<1>10. NothingLost
    BY EmptyParts, <1>2 DEF Init, NothingLost, InTime
<1>. QED  BY <1>6, <1>7, <1>8, <1>9, <1>10 DEF HInv

LEMMA HStep ==
    ASSUME HInv, Separate, [Next]_vars
    PROVE  HInv'
<1>1. CASE Manager
    BY <1>1, HitKeeps, MissKeeps, WakeKeeps, PlacePendingKeeps, ReclaimKeeps DEF Manager
<1>2. CASE Tick
    BY <1>2, BeginTickKeeps, RetractKeeps, PublishKeeps, KeepWaitingKeeps, AbandonKeeps,
       FreeAbandonedKeeps, EndTickKeeps DEF Tick
<1>3. CASE Device
    BY <1>3, WriteTableKeeps, BeginCopyKeeps, EndCopyKeeps DEF Device
<1>4. CASE UNCHANGED vars
    BY <1>4, SlotsQuiet DEF HInv, Types, vars, host, shared, scheduler, device
<1>. QED  BY <1>1, <1>2, <1>3, <1>4 DEF Next

\* A slot that is in a sequence without repetitions is there once.
LEMMA OnePosition ==
    ASSUME NEW l \in Seq(Slots), IsInjective(l), NEW s \in Slots
    PROVE  Cardinality(Positions(s, l)) = IF s \in ToSet(l) THEN 1 ELSE 0
<1>1. CASE s \in ToSet(l)
  <2>1. PICK i \in DOMAIN l : l[i] = s
    BY <1>1 DEF ToSet
  <2>2. Positions(s, l) = {i}
    BY <2>1 DEF Positions, IsInjective
  <2>. QED  BY <1>1, <2>2, FS_Singleton
<1>2. CASE s \notin ToSet(l)
  <2>1. Positions(s, l) = {}
    BY <1>2 DEF Positions, ToSet
  <2>. QED  BY <1>2, <2>1, FS_EmptySet
<1>. QED  BY <1>1, <1>2

LEMMA HolderFromSlots ==
    ASSUME HInv
    PROVE  EverySlotHasOneHolder
<1>0. Types /\ SlotsOK /\ Apart(FreeSlots, QueuedSlots, TakenSlots, ClaimedSlots, GivenUp)
    BY DEF HInv, SlotsOK
<1>1. /\ free \in Seq(Slots) /\ SlotsIn(toRetract) \in Seq(Slots) /\ SlotsIn(retracting) \in Seq(Slots)
      /\ IsInjective(free) /\ IsInjective(SlotsIn(toRetract)) /\ IsInjective(SlotsIn(retracting))
    BY <1>0, ElementsHaveSlots, ListParts DEF Types, SlotsOK
<1>2. ASSUME NEW s \in Slots
      PROVE  1 = Cardinality(Positions(s, free))
                 + Cardinality(Positions(s, SlotsIn(toRetract)))
                 + Cardinality(Positions(s, SlotsIn(retracting)))
                 + Cardinality({k \in Keys : slotOf[k] = s})
                 + IF tick = "abandon" /\ Head(landing).slot = s THEN 1 ELSE 0
  <2>. DEFINE f == IF s \in FreeSlots THEN 1 ELSE 0
              q == IF s \in QueuedSlots THEN 1 ELSE 0
              t == IF s \in TakenSlots THEN 1 ELSE 0
              c == IF s \in ClaimedSlots THEN 1 ELSE 0
              g == IF s \in GivenUp THEN 1 ELSE 0
  <2>1. /\ Cardinality(Positions(s, free)) = f
        /\ Cardinality(Positions(s, SlotsIn(toRetract))) = q
        /\ Cardinality(Positions(s, SlotsIn(retracting))) = t
    BY <1>1, OnePosition DEF FreeSlots, QueuedSlots, TakenSlots
  <2>2. Cardinality({k \in Keys : slotOf[k] = s}) = c
    <3>1. s # None
      BY ExpertAssumption DEF Slots, None
    <3>2. CASE s \in ClaimedSlots
      <4>1. PICK k \in Keys : slotOf[k] = s
        BY <3>2 DEF ClaimedSlots
      <4>2. {j \in Keys : slotOf[j] = s} = {k}
        BY <3>1, <4>1, <1>0 DEF SlotsOK, ClaimsDiffer
      <4>. QED  BY <3>2, <4>2, FS_Singleton
    <3>3. CASE s \notin ClaimedSlots
      <4>1. {j \in Keys : slotOf[j] = s} = {}
        BY <3>1, <3>3 DEF ClaimedSlots
      <4>. QED  BY <3>3, <4>1, FS_EmptySet
    <3>. QED  BY <3>2, <3>3
  <2>3. (IF tick = "abandon" /\ Head(landing).slot = s THEN 1 ELSE 0) = g
    BY DEF GivenUp
  <2>4. 1 = f + q + t + c + g
    BY <1>0 DEF Apart
  <2>. HIDE DEF f, q, t, c, g
  <2>. QED  BY <2>1, <2>2, <2>3, <2>4
<1>3. Resident(policy) = {k \in Keys : slotOf[k] # None}
    BY <1>0 DEF SlotsOK
<1>. QED  BY <1>2, <1>3 DEF EverySlotHasOneHolder

LEMMA HolderInvariant ==
    ASSUME Separate
    PROVE  Spec => []HInv
<1>1. Init => HInv
    BY HInit
<1>2. HInv /\ [Next]_vars => HInv'
    BY HStep
<1>. QED  BY <1>1, <1>2, PTL DEF Spec

\* _free, the claims (_slot_of_key), _to_retract, the list a tick took and the
\* slot it gives up have every slot once, and the policy's keys are those that
\* hold one: neither thread can hand a slot to two experts or lose it.
THEOREM SlotsHaveOneHolder ==
    ASSUME Separate
    PROVE  Spec => []EverySlotHasOneHolder
    BY HolderInvariant, HolderFromSlots, PTL

----------------------------------------------------------------------------
(* What the table will say.                                                *)

WritesOf(c, k) == {i \in DOMAIN c : c[i].key = k}

\* Coming, of a table and the writes left.
ComingIn(t, c, k) == IF WritesOf(c, k) = {} THEN t[k] ELSE c[Max(WritesOf(c, k))].slot

\* The last write counts.
IsLast(c, k, m) ==
    m \in DOMAIN c /\ c[m].key = k /\ \A i \in DOMAIN c : c[i].key = k => i <= m

LEMMA LastWrite ==
    ASSUME NEW t, NEW c \in Seq(Write), NEW k, NEW m, IsLast(c, k, m)
    PROVE  ComingIn(t, c, k) = c[m].slot
<1>1. WritesOf(c, k) # {} /\ m \in WritesOf(c, k) /\ \A i \in WritesOf(c, k) : m >= i
    BY DEF WritesOf, IsLast
<1>2. \A i, j \in DOMAIN c : i >= j /\ j >= i => i = j
    OBVIOUS
<1>3. WritesOf(c, k) \subseteq DOMAIN c
    BY DEF WritesOf
<1>4. Max(WritesOf(c, k)) = m
    BY <1>1, <1>2, <1>3 DEF Max
<1>. QED  BY <1>1, <1>4 DEF ComingIn

LEMMA SomeWrite ==
    ASSUME NEW c \in Seq(Write), NEW k, WritesOf(c, k) # {}
    PROVE  \E m \in DOMAIN c : IsLast(c, k, m)
<1>1. /\ WritesOf(c, k) \in SUBSET Nat /\ Len(c) \in Nat
      /\ \A n \in WritesOf(c, k) : n <= Len(c)
    BY DEF WritesOf
<1>2. PICK m \in WritesOf(c, k) : \A i \in WritesOf(c, k) : i <= m
    BY <1>1, Greatest
<1>. QED  BY <1>2 DEF WritesOf, IsLast

LEMMA ComingAppend ==
    ASSUME NEW t, NEW c \in Seq(Write), NEW w \in Write, NEW k
    PROVE  ComingIn(t, Append(c, w), k) = IF w.key = k THEN w.slot ELSE ComingIn(t, c, k)
<1>. DEFINE d == Append(c, w)
<1>1. /\ d \in Seq(Write) /\ DOMAIN c = 1 .. Len(c) /\ DOMAIN d = 1 .. Len(c) + 1 /\ Len(c) \in Nat
      /\ d[Len(c) + 1] = w /\ \A i \in 1 .. Len(c) : d[i] = c[i]
    OBVIOUS
<1>. HIDE DEF d
<1>2. CASE w.key = k
  <2>1. IsLast(d, k, Len(c) + 1)
    BY <1>1, <1>2 DEF IsLast
  <2>2. ComingIn(t, d, k) = d[Len(c) + 1].slot
    BY <1>1, <2>1, LastWrite
  <2>. QED  BY <2>2, <1>1, <1>2 DEF d
<1>3. CASE w.key # k
  <2>1. WritesOf(d, k) = WritesOf(c, k)
    BY <1>1, <1>3 DEF WritesOf
  <2>2. CASE WritesOf(c, k) = {}
    BY <2>1, <2>2, <1>3 DEF ComingIn, d
  <2>3. CASE WritesOf(c, k) # {}
    <3>1. PICK m \in DOMAIN c : IsLast(c, k, m)
      BY <2>3, SomeWrite
    <3>2. ComingIn(t, c, k) = c[m].slot
      BY <3>1, LastWrite
    <3>3. d[m] = c[m] /\ IsLast(d, k, m)
      BY <3>1, <1>1, <1>3 DEF IsLast
    <3>4. ComingIn(t, d, k) = d[m].slot
      BY <3>1, <3>3, <1>1, LastWrite
    <3>. QED  BY <3>2, <3>3, <3>4, <1>3 DEF d
  <2>. QED  BY <2>2, <2>3
<1>. QED  BY <1>2, <1>3

\* Writes that take keys out of the table.
LEMMA ComingRetract ==
    ASSUME NEW t, NEW c \in Seq(Write), NEW w \in Seq(Write), \A i \in DOMAIN w : w[i].slot = None,
           NEW k
    PROVE  ComingIn(t, c \o w, k) = IF \E i \in DOMAIN w : w[i].key = k THEN None
                                    ELSE ComingIn(t, c, k)
<1>. DEFINE d == c \o w
<1>1. /\ d \in Seq(Write) /\ DOMAIN c = 1 .. Len(c) /\ DOMAIN w = 1 .. Len(w)
      /\ DOMAIN d = 1 .. Len(c) + Len(w) /\ Len(c) \in Nat /\ Len(w) \in Nat
      /\ \A i \in 1 .. Len(c) + Len(w) : d[i] = IF i <= Len(c) THEN c[i] ELSE w[i - Len(c)]
    OBVIOUS
<1>. HIDE DEF d
<1>2. ASSUME NEW i \in DOMAIN d, ~(i <= Len(c)) PROVE i - Len(c) \in DOMAIN w /\ d[i] = w[i - Len(c)]
    BY <1>1, <1>2
<1>3. CASE \E i \in DOMAIN w : w[i].key = k
  <2>1. PICK i \in DOMAIN w : w[i].key = k
    BY <1>3
  <2>2. Len(c) + i \in DOMAIN d /\ d[Len(c) + i] = w[i] /\ ~(Len(c) + i <= Len(c))
    BY <1>1
  <2>3. WritesOf(d, k) # {}
    BY <2>1, <2>2 DEF WritesOf
  <2>4. PICK m \in DOMAIN d : IsLast(d, k, m)
    BY <2>3, <1>1, SomeWrite
  <2>5. Len(c) + i <= m
    BY <2>1, <2>2, <2>4 DEF IsLast
  <2>6. ~(m <= Len(c))
    BY <2>5, <1>1
  <2>7. d[m].slot = None
    BY <2>6, <1>2
  <2>8. ComingIn(t, d, k) = None
    BY <2>4, <2>7, <1>1, LastWrite
  <2>. QED  BY <2>8, <1>3 DEF d
<1>4. CASE ~ \E i \in DOMAIN w : w[i].key = k
  <2>1. \A i \in DOMAIN d : d[i].key = k => i \in DOMAIN c /\ d[i] = c[i]
    BY <1>1, <1>2, <1>4
  <2>2. \A i \in DOMAIN c : i \in DOMAIN d /\ d[i] = c[i]
    BY <1>1
  <2>3. WritesOf(d, k) = WritesOf(c, k)
    BY <2>1, <2>2 DEF WritesOf
  <2>4. CASE WritesOf(c, k) = {}
    BY <2>3, <2>4, <1>4 DEF ComingIn, d
  <2>5. CASE WritesOf(c, k) # {}
    <3>1. PICK m \in DOMAIN c : IsLast(c, k, m)
      BY <2>5, SomeWrite
    <3>2. ComingIn(t, c, k) = c[m].slot
      BY <3>1, LastWrite
    <3>3. d[m] = c[m] /\ IsLast(d, k, m)
      BY <3>1, <2>1, <2>2 DEF IsLast
    <3>4. ComingIn(t, d, k) = d[m].slot
      BY <3>1, <3>3, <1>1, LastWrite
    <3>. QED  BY <3>2, <3>3, <3>4, <1>4 DEF d
  <2>. QED  BY <2>4, <2>5
<1>. QED  BY <1>3, <1>4

\* The next write.
LEMMA ComingTail ==
    ASSUME NEW t, DOMAIN t = Keys, NEW c \in Seq(Write), c # << >>, NEW k \in Keys
    PROVE  ComingIn([t EXCEPT ![Head(c).key] = Head(c).slot], Tail(c), k) = ComingIn(t, c, k)
<1>. DEFINE d == Tail(c)
            u == [t EXCEPT ![Head(c).key] = Head(c).slot]
<1>1. /\ d \in Seq(Write) /\ Head(c) = c[1] /\ 1 \in DOMAIN c /\ Len(c) \in Nat \ {0}
      /\ DOMAIN d = 1 .. Len(c) - 1 /\ DOMAIN c = 1 .. Len(c)
      /\ \A i \in DOMAIN d : d[i] = c[i + 1] /\ i + 1 \in DOMAIN c
      /\ \A i \in DOMAIN c : i # 1 => i - 1 \in DOMAIN d /\ c[i] = d[i - 1]
    BY TailElements
<1>2. u[k] = IF k = Head(c).key THEN Head(c).slot ELSE t[k]
    OBVIOUS
<1>. HIDE DEF d, u
<1>3. CASE WritesOf(d, k) # {}
  <2>1. PICK m \in DOMAIN d : IsLast(d, k, m)
    BY <1>1, <1>3, SomeWrite
  <2>2. ComingIn(u, d, k) = d[m].slot
    BY <1>1, <2>1, LastWrite
  <2>3. m + 1 \in DOMAIN c /\ c[m + 1] = d[m] /\ d[m].key = k
    BY <1>1, <2>1 DEF IsLast
  <2>4. ASSUME NEW i \in DOMAIN c, c[i].key = k PROVE i <= m + 1
    <3>1. CASE i = 1
      BY <3>1, <1>1
    <3>2. CASE i # 1
      <4>1. i - 1 \in DOMAIN d /\ d[i - 1].key = k
        BY <3>2, <2>4, <1>1
      <4>2. i - 1 <= m
        BY <4>1, <2>1 DEF IsLast
      <4>. QED  BY <4>2, <1>1
    <3>. QED  BY <3>1, <3>2
  <2>5. IsLast(c, k, m + 1)
    BY <2>3, <2>4 DEF IsLast
  <2>6. ComingIn(t, c, k) = c[m + 1].slot
    BY <2>5, LastWrite
  <2>. QED  BY <2>2, <2>3, <2>6 DEF d, u
<1>4. CASE WritesOf(d, k) = {}
  <2>1. \A i \in DOMAIN c : c[i].key = k => i = 1
    BY <1>1, <1>4 DEF WritesOf
  <2>2. ComingIn(u, d, k) = u[k]
    BY <1>4 DEF ComingIn
  <2>3. CASE k = Head(c).key
    <3>1. IsLast(c, k, 1)
      BY <2>1, <2>3, <1>1 DEF IsLast
    <3>2. ComingIn(t, c, k) = c[1].slot
      BY <3>1, LastWrite
    <3>. QED  BY <3>2, <2>2, <2>3, <1>1, <1>2 DEF d, u
  <2>4. CASE k # Head(c).key
    <3>1. WritesOf(c, k) = {}
      BY <2>1, <2>4, <1>1 DEF WritesOf
    <3>. QED  BY <3>1, <2>2, <2>4, <1>2 DEF ComingIn, d, u
  <2>. QED  BY <2>3, <2>4
<1>. QED  BY <1>3, <1>4

----------------------------------------------------------------------------
(* Host and device agree.                                                  *)

Soon(k) == ComingIn(table, compute, k)

Listed(l, k, s) == \E e \in ToSet(l) : e.key = k /\ e.slot = s
Going(l, k, s) == \E x \in ToSet(l) : x.key = k /\ x.slot = s

NothingDangles ==
    \A k \in Keys : Soon(k) # None =>
        slotOf[k] = Soon(k) \/ Going(toRetract, k, Soon(k)) \/ Going(retracting, k, Soon(k))

ClaimsAreReadable ==
    \A k \in Keys : slotOf[k] # None =>
        \/ Soon(k) = slotOf[k] \/ Listed(inflight, k, slotOf[k])
        \/ Listed(landing, k, slotOf[k]) \/ Listed(still, k, slotOf[k])

\* A key that has a slot again while its retraction waits has its copy under
\* way, so that it will be published after the retraction.
Returning ==
    /\ \A x \in ToSet(toRetract) : slotOf[x.key] # None => Listed(inflight, x.key, slotOf[x.key])
    /\ \A x \in ToSet(retracting) : slotOf[x.key] # None =>
          Listed(inflight, x.key, slotOf[x.key]) \/ Listed(landing, x.key, slotOf[x.key])

\* If no key is evicted during a tick, what is followed is not published yet.
NotYetIn(l) == \A e \in ToSet(l) : Soon(e.key) # e.slot
NotYet == NotYetIn(inflight) /\ NotYetIn(Waiting) /\ NotYetIn(still)

AInv ==
    /\ table \in [Keys -> Slots \cup {None}]
    /\ NothingDangles /\ ClaimsAreReadable /\ Returning
    /\ ~env.racing => NotYet

LEMMA AgreeQuiet ==
    ASSUME AInv, UNCHANGED <<slotOf, toRetract, retracting, inflight, landing, still, tick,
                             compute, table, env>>
    PROVE  AInv'
<1>1. \A k : Soon(k)' = Soon(k)
    BY DEF Soon
<1>2. Waiting' = Waiting
    BY DEF Waiting
<1>3. NothingDangles'
    BY <1>1 DEF AInv, NothingDangles
<1>4. ClaimsAreReadable'
    BY <1>1 DEF AInv, ClaimsAreReadable
<1>5. Returning'
    BY DEF AInv, Returning
<1>6. ~env'.racing => NotYet'
    BY <1>1, <1>2 DEF AInv, NotYet, NotYetIn
<1>. QED  BY <1>3, <1>4, <1>5, <1>6 DEF AInv

LEMMA AgreePlace ==
    ASSUME HInv, AInv, NEW k \in Keys, k \notin Resident(policy), CanPlace, Place(k),
           UNCHANGED <<retracting, landing, still, tick, env, compute, table>>
    PROVE  AInv'
<1>. DEFINE s == Last(free)
<1>0. Types /\ SlotsOK
    BY DEF HInv
<1>1. /\ toRetract' = toRetract /\ s \in Slots /\ slotOf[k] = None
      /\ slotOf' = [slotOf EXCEPT ![k] = s] /\ free # << >>
    BY <1>0, PlaceIs
<1>2. PICK e \in Entry : e.key = k /\ e.slot = s /\ inflight' = Append(inflight, e)
  <2>1. Len(copies) + 1 \in Nat
    BY <1>0 DEF Types
  <2>2. \/ inflight' = Append(inflight, [key |-> k, slot |-> s, event |-> Len(copies) + 1, age |-> 0])
        \/ inflight' = Append(inflight, [key |-> k, slot |-> s, event |-> Never, age |-> 0])
    BY <1>0, PlaceIs
  <2>. DEFINE a == [key |-> k, slot |-> s, event |-> Len(copies) + 1, age |-> 0]
              b == [key |-> k, slot |-> s, event |-> Never, age |-> 0]
  <2>3. a \in Entry /\ a.key = k /\ a.slot = s /\ b \in Entry /\ b.key = k /\ b.slot = s
    BY <2>1, <1>1 DEF Entry
  <2>. HIDE DEF a, b, s
  <2>. QED  BY <2>2, <2>3 DEF a, b
<1>3. s \in FreeSlots
  <2>1. free \in Seq(Slots) /\ free # << >>
    BY <1>0, <1>1 DEF Types
  <2>2. ToSet(free) = ToSet(Front(free)) \cup {s}
    BY <2>1, FrontElements
  <2>. QED  BY <2>2 DEF FreeSlots
<1>. HIDE DEF s
<1>4. s # None
    BY <1>2, ElementsHaveSlots
<1>5. ToSet(inflight') = ToSet(inflight) \cup {e}
    BY <1>0, <1>2, AppendElements DEF Types
<1>6. \A j \in Keys : slotOf'[j] = IF j = k THEN s ELSE slotOf[j]
    BY <1>0, <1>1 DEF Types
<1>7. \A j : Soon(j)' = Soon(j)
    BY DEF Soon
<1>8. toRetract \in Seq(Claim) /\ retracting \in Seq(Claim)
    BY <1>0 DEF Types
<1>9. \A x \in ToSet(toRetract) \cup ToSet(retracting) : x.slot # s /\ x.key \in Keys
  <2>1. /\ ToSet(SlotsIn(toRetract)) = {x.slot : x \in ToSet(toRetract)} /\ ToSet(toRetract) \subseteq Claim
        /\ ToSet(SlotsIn(retracting)) = {x.slot : x \in ToSet(retracting)} /\ ToSet(retracting) \subseteq Claim
    BY <1>8, ElementsHaveSlots, ListParts
  <2>2. s \notin QueuedSlots \cup TakenSlots
    BY <1>0, <1>3 DEF SlotsOK, Apart
  <2>. QED  BY <2>1, <2>2, ElementsHaveSlots DEF QueuedSlots, TakenSlots
<1>10. NothingDangles'
    BY <1>1, <1>6, <1>7 DEF AInv, NothingDangles
<1>11. ClaimsAreReadable'
    BY <1>2, <1>5, <1>6, <1>7 DEF AInv, ClaimsAreReadable, Listed
<1>12. Returning'
    BY <1>1, <1>2, <1>5, <1>6, <1>9 DEF AInv, Returning, Listed
<1>13. ~env'.racing => NotYet'
  <2>1. Soon(k) # s
    BY <1>1, <1>4, <1>9 DEF AInv, NothingDangles, Going
  <2>2. Waiting' = Waiting
    BY DEF Waiting
  <2>. QED  BY <2>1, <2>2, <1>2, <1>5, <1>7 DEF AInv, NotYet, NotYetIn
<1>. QED  BY <1>6, <1>1, <1>10, <1>11, <1>12, <1>13 DEF AInv

LEMMA AgreeReclaim ==
    ASSUME HInv, AInv, Reclaim
    PROVE  AInv'
<1>0. Types /\ SlotsOK
    BY DEF HInv
<1>1. PICK ks \in Seq(Keys) :
              /\ IsInjective(ks)
              /\ toRetract' = toRetract \o Retractions(ks)
              /\ slotOf' = Unclaim(ks)
    BY <1>0, ReclaimIs
<1>2. UNCHANGED <<inflight, tick, retracting, landing, still, compute, table, env>>
    BY DEF Reclaim, scheduler, device
<1>. DEFINE r == Retractions(ks)
<1>3. /\ r \in Seq(Claim)
      /\ ToSet(r) = {[key |-> k, slot |-> slotOf[k]] : k \in {j \in ToSet(ks) : slotOf[j] # None}}
      /\ \A k \in Keys : slotOf'[k] = IF k \in ToSet(ks) THEN None ELSE slotOf[k]
    BY <1>0, <1>1, RetractionsAre DEF Types, SlotsOK
<1>. HIDE DEF r
<1>4. ToSet(toRetract') = ToSet(toRetract) \cup ToSet(r)
    BY <1>0, <1>1, <1>3, ConcatElements DEF Types, r
<1>5. \A k : Soon(k)' = Soon(k)
    BY <1>2 DEF Soon
<1>6. ToSet(ks) \subseteq Keys /\ ToSet(toRetract) \subseteq Claim /\ ToSet(retracting) \subseteq Claim
    BY <1>0 DEF ToSet, Types
<1>7. NothingDangles'
  <2>1. ASSUME NEW k \in Keys, Soon(k) # None
        PROVE  slotOf'[k] = Soon(k) \/ Going(toRetract', k, Soon(k)) \/ Going(retracting, k, Soon(k))
    <3>1. CASE k \in ToSet(ks) /\ slotOf[k] = Soon(k)
      <4>1. [key |-> k, slot |-> slotOf[k]] \in ToSet(r)
        BY <2>1, <3>1, <1>3
      <4>. QED  BY <4>1, <3>1, <1>4 DEF Going
    <3>2. CASE k \notin ToSet(ks) /\ slotOf[k] = Soon(k)
      BY <3>2, <1>3
    <3>3. CASE slotOf[k] # Soon(k)
      BY <2>1, <3>3, <1>4 DEF AInv, NothingDangles, Going
    <3>. QED  BY <3>1, <3>2, <3>3
  <2>. QED  BY <2>1, <1>2, <1>5 DEF NothingDangles
<1>8. ClaimsAreReadable'
    BY <1>2, <1>3, <1>5 DEF AInv, ClaimsAreReadable
<1>9. Returning'
  <2>1. ASSUME NEW x \in ToSet(toRetract'), slotOf'[x.key] # None
        PROVE  Listed(inflight, x.key, slotOf'[x.key])
    <3>1. x \notin ToSet(r)
      BY <2>1, <1>3, <1>6
    <3>2. x \in ToSet(toRetract) /\ x.key \in Keys
      BY <2>1, <3>1, <1>4, <1>6, ElementsHaveSlots
    <3>3. slotOf'[x.key] = slotOf[x.key]
      BY <2>1, <3>2, <1>3
    <3>. QED  BY <2>1, <3>2, <3>3 DEF AInv, Returning
  <2>2. ASSUME NEW x \in ToSet(retracting), slotOf'[x.key] # None
        PROVE  Listed(inflight, x.key, slotOf'[x.key]) \/ Listed(landing, x.key, slotOf'[x.key])
    <3>1. x.key \in Keys
      BY <1>6, ElementsHaveSlots
    <3>2. slotOf'[x.key] = slotOf[x.key]
      BY <2>2, <3>1, <1>3
    <3>. QED  BY <2>2, <3>2 DEF AInv, Returning
  <2>. QED  BY <2>1, <2>2, <1>2 DEF Returning
<1>10. ~env'.racing => NotYet'
    BY <1>2, <1>5 DEF AInv, NotYet, NotYetIn, Waiting
<1>. QED  BY <1>2, <1>7, <1>8, <1>9, <1>10 DEF AInv

LEMMA EmptyListed ==
    ASSUME NEW k, NEW s
    PROVE  ~Listed(<< >>, k, s) /\ ~Going(<< >>, k, s) /\ ToSet(<< >>) = {}
    BY DEF Listed, Going, ToSet

LEMMA AgreeBeginTick ==
    ASSUME HInv, AInv, BeginTick
    PROVE  AInv'
<1>0. /\ tick = "out" /\ tick' = "retract" /\ landing = << >> /\ still = << >> /\ retracting = << >>
    BY DEF HInv, BeginTick, Phases
<1>1. /\ retracting' = toRetract /\ toRetract' = << >> /\ landing' = inflight /\ inflight' = << >>
      /\ UNCHANGED <<slotOf, still, compute, table, env>>
    BY DEF BeginTick, host, device
<1>2. \A k : Soon(k)' = Soon(k)
    BY <1>1 DEF Soon
<1>3. NothingDangles'
    BY <1>0, <1>1, <1>2, EmptyListed DEF AInv, NothingDangles
<1>4. ClaimsAreReadable'
    BY <1>0, <1>1, <1>2, EmptyListed DEF AInv, ClaimsAreReadable
<1>5. Returning'
    BY <1>0, <1>1, EmptyListed DEF AInv, Returning
<1>6. ~env'.racing => NotYet'
    BY <1>0, <1>1, <1>2, EmptyListed DEF AInv, NotYet, NotYetIn, Waiting
<1>. QED  BY <1>1, <1>3, <1>4, <1>5, <1>6 DEF AInv

LEMMA AgreeRetract ==
    ASSUME HInv, AInv, Retract
    PROVE  AInv'
<1>0. Types /\ tick = "retract" /\ tick' = "land"
    BY DEF HInv, Retract
<1>1. /\ retracting' = << >> /\ compute' = compute \o TableWrites
      /\ UNCHANGED <<slotOf, toRetract, inflight, landing, still, table, env>>
    BY DEF Retract, host
<1>2. retracting \in Seq(Claim) /\ compute \in Seq(Write)
    BY <1>0 DEF Types
<1>3. /\ TableWrites \in Seq(Write) /\ DOMAIN TableWrites = DOMAIN retracting
      /\ \A i \in DOMAIN retracting : /\ TableWrites[i].key = retracting[i].key
                                      /\ TableWrites[i].slot = None
    BY <1>2, TableWritesAre
<1>4. \A k : Soon(k)' = IF \E x \in ToSet(retracting) : x.key = k THEN None ELSE Soon(k)
  <2>1. \A k : ComingIn(table, compute \o TableWrites, k) =
                  IF \E i \in DOMAIN TableWrites : TableWrites[i].key = k THEN None
                  ELSE ComingIn(table, compute, k)
    BY <1>2, <1>3, ComingRetract
  <2>2. \A k : (\E i \in DOMAIN TableWrites : TableWrites[i].key = k)
                 <=> (\E x \in ToSet(retracting) : x.key = k)
    BY <1>3 DEF ToSet
  <2>. QED  BY <2>1, <2>2, <1>1 DEF Soon
<1>5. NothingDangles'
    BY <1>1, <1>4 DEF AInv, NothingDangles, Going
<1>6. ClaimsAreReadable'
    BY <1>1, <1>4 DEF AInv, ClaimsAreReadable, Returning
<1>7. Returning'
    BY <1>1, EmptyListed DEF AInv, Returning
<1>8. ~env'.racing => NotYet'
  <2>1. \A l \in Seq(Entry) : \A e \in ToSet(l) : e.slot # None
    BY ElementsHaveSlots DEF ToSet
  <2>2. inflight \in Seq(Entry) /\ landing \in Seq(Entry) /\ still \in Seq(Entry)
    BY <1>0 DEF Types
  <2>. QED  BY <2>1, <2>2, <1>0, <1>1, <1>4 DEF AInv, NotYet, NotYetIn, Waiting
<1>. QED  BY <1>1, <1>5, <1>6, <1>7, <1>8 DEF AInv

LEMMA AgreePublish ==
    ASSUME HInv, AInv, Publish
    PROVE  AInv'
<1>. DEFINE e == Head(landing)
<1>0. /\ Types /\ tick = "land" /\ tick' = "land" /\ landing # << >> /\ landing' = Tail(landing)
      /\ retracting = << >>
      /\ UNCHANGED <<slotOf, toRetract, retracting, inflight, still, table, env>>
    BY DEF HInv, Publish, host, shared, Phases
<1>1. /\ inflight \in Seq(Entry) /\ landing \in Seq(Entry) /\ still \in Seq(Entry)
      /\ Tail(landing) \in Seq(Entry)
      /\ compute \in Seq(Write) /\ e \in Entry /\ ToSet(landing) = ToSet(Tail(landing)) \cup {e}
      /\ slotOf \in [Keys -> Slots \cup {None}]
    BY <1>0, TailElements DEF Types
<1>2. \A k : Soon(k)' = IF slotOf[e.key] = e.slot /\ k = e.key THEN e.slot ELSE Soon(k)
  <2>. DEFINE w == [key |-> e.key, slot |-> e.slot]
  <2>1. w \in Write /\ w.key = e.key /\ w.slot = e.slot
    BY <1>1 DEF Entry, Write
  <2>2. compute' = IF slotOf[e.key] = e.slot THEN Append(compute, w) ELSE compute
    BY DEF Publish, StillHeld
  <2>. HIDE DEF w
  <2>3. \A k : ComingIn(table, Append(compute, w), k) =
                  IF w.key = k THEN w.slot ELSE ComingIn(table, compute, k)
    BY <1>1, <2>1, ComingAppend
  <2>4. \A k : Soon(k)' = ComingIn(table, compute', k)
    BY <1>0 DEF Soon
  <2>. HIDE DEF e
  <2>. QED  BY <2>1, <2>2, <2>3, <2>4 DEF Soon
<1>3. ~env.racing => /\ e.key \notin ToSet(KeysOf(inflight)) \cup ToSet(KeysOf(Tail(landing)))
                                      \cup ToSet(KeysOf(still))
    BY <1>0, <1>1, FollowedDrop DEF HInv, Followed, Waiting
<1>. HIDE DEF e
<1>4. NothingDangles'
    BY <1>0, <1>2 DEF AInv, NothingDangles
<1>5. ClaimsAreReadable'
    BY <1>0, <1>1, <1>2 DEF AInv, ClaimsAreReadable, Listed
<1>6. Returning'
    BY <1>0, EmptyListed DEF AInv, Returning
<1>7. ~env'.racing => NotYet'
  <2>1. /\ ToSet(KeysOf(inflight)) = {x.key : x \in ToSet(inflight)}
        /\ ToSet(KeysOf(Tail(landing))) = {x.key : x \in ToSet(Tail(landing))}
        /\ ToSet(KeysOf(still)) = {x.key : x \in ToSet(still)}
    BY <1>1, ElementsHaveSlots, ListParts
  <2>. QED  BY <2>1, <1>0, <1>1, <1>2, <1>3 DEF AInv, NotYet, NotYetIn, Waiting
<1>. QED  BY <1>0, <1>4, <1>5, <1>6, <1>7 DEF AInv

LEMMA AgreeKeepWaiting ==
    ASSUME HInv, AInv, KeepWaiting
    PROVE  AInv'
<1>. DEFINE e == Head(landing)
<1>0. /\ Types /\ tick = "land" /\ tick' = "land" /\ landing # << >> /\ landing' = Tail(landing)
      /\ still' = Append(still, Older(e)) /\ retracting = << >>
      /\ UNCHANGED <<slotOf, toRetract, retracting, inflight, compute, table, env>>
    BY DEF HInv, KeepWaiting, host, shared, device, Phases, Older
<1>1. /\ inflight \in Seq(Entry) /\ landing \in Seq(Entry) /\ still \in Seq(Entry)
      /\ e \in Entry /\ ToSet(landing) = ToSet(Tail(landing)) \cup {e}
    BY <1>0, TailElements DEF Types
<1>. HIDE DEF e
<1>2. /\ Older(e) \in Entry /\ Older(e).key = e.key /\ Older(e).slot = e.slot
      /\ ToSet(still') = ToSet(still) \cup {Older(e)}
    BY <1>0, <1>1, OlderIs, AppendElements
<1>3. \A k : Soon(k)' = Soon(k)
    BY <1>0 DEF Soon
<1>4. NothingDangles'
    BY <1>0, <1>3 DEF AInv, NothingDangles
<1>5. ClaimsAreReadable'
    BY <1>0, <1>1, <1>2, <1>3 DEF AInv, ClaimsAreReadable, Listed
<1>6. Returning'
    BY <1>0, EmptyListed DEF AInv, Returning
<1>7. ~env'.racing => NotYet'
    BY <1>0, <1>1, <1>2, <1>3 DEF AInv, NotYet, NotYetIn, Waiting
<1>. QED  BY <1>0, <1>4, <1>5, <1>6, <1>7 DEF AInv

LEMMA AgreeAbandon ==
    ASSUME HInv, AInv, Separate, Abandon
    PROVE  AInv'
<1>. DEFINE e == Head(landing)
<1>0. /\ Types /\ tick = "land" /\ tick' = "abandon" /\ landing # << >> /\ retracting = << >>
      /\ ~Landed(e) /\ e.age >= MaxAge
      /\ UNCHANGED <<toRetract, retracting, inflight, landing, still, compute, table, env>>
    BY DEF HInv, Abandon, shared, device, Phases
<1>1. /\ landing \in Seq(Entry) /\ e \in Entry /\ e \in ToSet(landing)
      /\ ToSet(landing) = ToSet(Tail(landing)) \cup {e} /\ slotOf \in [Keys -> Slots \cup {None}]
    BY <1>0, TailElements DEF Types
<1>2. e.key \in Keys /\ e.age \in Nat
    BY <1>1, ElementsHaveSlots DEF Entry
<1>3. ~env.racing
  <2>1. env.lossy
    BY <1>0, <1>1, <1>2, ExpertAssumption DEF HInv, NothingLost, InTime, Landed
  <2>. QED  BY <2>1, <1>0 DEF Separate, Types
<1>4. Soon(e.key) # e.slot
    BY <1>0, <1>1, <1>3 DEF AInv, NotYet, NotYetIn, Waiting
<1>5. slotOf[e.key] = e.slot => \A k \in Keys : slotOf'[k] = IF k = e.key THEN None ELSE slotOf[k]
    BY <1>1 DEF Abandon, StillHeld
<1>6. slotOf[e.key] # e.slot => slotOf' = slotOf
    BY DEF Abandon, StillHeld
<1>. HIDE DEF e
<1>7. \A k \in Keys : slotOf'[k] = slotOf[k] \/ (slotOf'[k] = None /\ k = e.key /\ slotOf[k] = e.slot)
    BY <1>5, <1>6
<1>8. \A k : Soon(k)' = Soon(k)
    BY <1>0 DEF Soon
<1>9. NothingDangles'
    BY <1>0, <1>4, <1>7, <1>8 DEF AInv, NothingDangles
<1>10. ClaimsAreReadable'
    BY <1>0, <1>7, <1>8 DEF AInv, ClaimsAreReadable
<1>11. Returning'
  <2>1. ToSet(toRetract) \subseteq Claim
    BY <1>0 DEF Types, ToSet
  <2>2. \A x \in ToSet(toRetract) : x.key \in Keys
    BY <2>1, ElementsHaveSlots
  <2>. QED  BY <2>2, <1>0, <1>7, EmptyListed DEF AInv, Returning
<1>12. ~env'.racing => NotYet'
    BY <1>0, <1>1, <1>8 DEF AInv, NotYet, NotYetIn, Waiting
<1>. QED  BY <1>0, <1>9, <1>10, <1>11, <1>12 DEF AInv

LEMMA AgreeFreeAbandoned ==
    ASSUME HInv, AInv, FreeAbandoned
    PROVE  AInv'
<1>. DEFINE e == Head(landing)
<1>0. /\ Types /\ SlotsOK /\ tick = "abandon" /\ tick' = "land" /\ landing # << >>
      /\ retracting = << >> /\ landing' = Tail(landing)
      /\ UNCHANGED <<slotOf, toRetract, retracting, inflight, still, compute, table, env>>
    BY DEF HInv, FreeAbandoned, host, device, Phases
<1>1. landing \in Seq(Entry) /\ ToSet(landing) = ToSet(Tail(landing)) \cup {e}
    BY <1>0, TailElements DEF Types
<1>2. \A k \in Keys : slotOf[k] # None => slotOf[k] # e.slot
  <2>1. GivenUp = {e.slot}
    BY <1>0 DEF GivenUp
  <2>2. e.slot \notin ClaimedSlots
    BY <2>1, <1>0 DEF SlotsOK, Apart
  <2>. QED  BY <2>2 DEF ClaimedSlots
<1>. HIDE DEF e
<1>3. \A k : Soon(k)' = Soon(k)
    BY <1>0 DEF Soon
<1>4. NothingDangles'
    BY <1>0, <1>3 DEF AInv, NothingDangles
<1>5. ClaimsAreReadable'
    BY <1>0, <1>1, <1>2, <1>3 DEF AInv, ClaimsAreReadable, Listed
<1>6. Returning'
    BY <1>0, EmptyListed DEF AInv, Returning
<1>7. ~env'.racing => NotYet'
    BY <1>0, <1>3 DEF AInv, NotYet, NotYetIn, Waiting
<1>. QED  BY <1>0, <1>4, <1>5, <1>6, <1>7 DEF AInv

LEMMA AgreeEndTick ==
    ASSUME HInv, AInv, EndTick
    PROVE  AInv'
<1>0. /\ Types /\ tick = "land" /\ tick' = "out" /\ landing = << >> /\ retracting = << >>
      /\ inflight' = inflight \o still /\ still' = << >>
      /\ UNCHANGED <<slotOf, toRetract, retracting, landing, compute, table, env>>
    BY DEF HInv, EndTick, host, device, Phases
<1>1. ToSet(inflight') = ToSet(inflight) \cup ToSet(still)
    BY <1>0, ConcatElements DEF Types
<1>2. \A k : Soon(k)' = Soon(k)
    BY <1>0 DEF Soon
<1>3. NothingDangles'
    BY <1>0, <1>2 DEF AInv, NothingDangles
<1>4. ClaimsAreReadable'
    BY <1>0, <1>1, <1>2 DEF AInv, ClaimsAreReadable, Listed
<1>5. Returning'
    BY <1>0, <1>1, EmptyListed DEF AInv, Returning, Listed
<1>6. ~env'.racing => NotYet'
    BY <1>0, <1>1, <1>2, EmptyListed DEF AInv, NotYet, NotYetIn, Waiting
<1>. QED  BY <1>0, <1>3, <1>4, <1>5, <1>6 DEF AInv

LEMMA AgreeWriteTable ==
    ASSUME HInv, AInv, WriteTable
    PROVE  AInv'
<1>0. /\ compute \in Seq(Write) /\ compute # << >> /\ table \in [Keys -> Slots \cup {None}]
      /\ table' = [table EXCEPT ![Head(compute).key] = Head(compute).slot]
      /\ compute' = Tail(compute)
      /\ UNCHANGED <<slotOf, toRetract, retracting, inflight, landing, still, tick, env>>
    BY DEF HInv, AInv, Types, WriteTable, host, scheduler
<1>1. \A k \in Keys : Soon(k)' = Soon(k)
  <2>1. \A k \in Keys : ComingIn([table EXCEPT ![Head(compute).key] = Head(compute).slot],
                                 Tail(compute), k) = ComingIn(table, compute, k)
    BY <1>0, ComingTail
  <2>. QED  BY <2>1, <1>0 DEF Soon
<1>2. table' \in [Keys -> Slots \cup {None}]
  <2>1. Head(compute) \in Write
    BY <1>0, TailElements
  <2>. QED  BY <2>1, <1>0 DEF Write
<1>3. Waiting' = Waiting
    BY <1>0 DEF Waiting
<1>4. NothingDangles'
    BY <1>0, <1>1 DEF AInv, NothingDangles
<1>5. ClaimsAreReadable'
    BY <1>0, <1>1 DEF AInv, ClaimsAreReadable
<1>6. Returning'
    BY <1>0 DEF AInv, Returning
<1>7. ~env'.racing => NotYet'
  <2>1. /\ inflight \in Seq(Entry) /\ still \in Seq(Entry) /\ Waiting \in Seq(Entry)
    <3>1. landing \in Seq(Entry) /\ (tick = "abandon" => landing # << >>)
      BY DEF HInv, Types, Phases
    <3>. QED  BY <3>1 DEF HInv, Types, Waiting
  <2>2. \A l \in Seq(Entry) : \A e \in ToSet(l) : e.key \in Keys
    BY ElementsHaveSlots DEF ToSet
  <2>. QED  BY <2>1, <2>2, <1>0, <1>1, <1>3 DEF AInv, NotYet, NotYetIn
<1>. QED  BY <1>2, <1>4, <1>5, <1>6, <1>7 DEF AInv

LEMMA AgreeEndCopy ==
    ASSUME HInv, AInv, EndCopy
    PROVE  AInv'
<1>0. /\ Types /\ Phases
      /\ inflight' = Sooner(inflight) /\ landing' = Sooner(landing) /\ still' = Sooner(still)
      /\ UNCHANGED <<slotOf, toRetract, retracting, tick, compute, table, env>>
    BY DEF HInv, EndCopy, host
<1>1. /\ inflight \in Seq(Entry) /\ landing \in Seq(Entry) /\ still \in Seq(Entry)
    BY <1>0 DEF Types
<1>2. ASSUME NEW l \in Seq(Entry)
      PROVE  /\ \A x \in ToSet(l) : \E e \in ToSet(Sooner(l)) : e.key = x.key /\ e.slot = x.slot
             /\ \A e \in ToSet(Sooner(l)) : \E x \in ToSet(l) : e.key = x.key /\ e.slot = x.slot
    BY SoonerIs DEF ToSet
<1>3. \A k : Soon(k)' = Soon(k)
    BY <1>0 DEF Soon
<1>4. \A l \in Seq(Entry) : \A k, s : Listed(l, k, s) => Listed(Sooner(l), k, s)
    BY <1>2 DEF Listed
<1>5. NothingDangles'
    BY <1>0, <1>3 DEF AInv, NothingDangles
<1>6. ClaimsAreReadable'
    BY <1>0, <1>1, <1>3, <1>4 DEF AInv, ClaimsAreReadable
<1>7. Returning'
    BY <1>0, <1>1, <1>4 DEF AInv, Returning
<1>8. ~env'.racing => NotYet'
  <2>1. SUFFICES ASSUME ~env.racing PROVE NotYet'
    BY <1>0
  <2>2. Waiting \in Seq(Entry) /\ Waiting' = Sooner(Waiting)
    BY <1>0, <1>1, SoonerTail DEF Waiting, Phases
  <2>3. \A l \in Seq(Entry) : NotYetIn(l) => NotYetIn(Sooner(l))
    BY <1>2 DEF NotYetIn
  <2>4. NotYetIn(Sooner(inflight)) /\ NotYetIn(Sooner(Waiting)) /\ NotYetIn(Sooner(still))
    BY <2>1, <2>2, <2>3, <1>1 DEF AInv, NotYet
  <2>. QED  BY <2>2, <2>4, <1>0, <1>3 DEF NotYet, NotYetIn
<1>. QED  BY <1>0, <1>5, <1>6, <1>7, <1>8 DEF AInv

LEMMA AgreeInit ==
    ASSUME Init
    PROVE  AInv
<1>1. \A k \in Keys : Soon(k) = None /\ slotOf[k] = None
    BY DEF Init, Soon, ComingIn, WritesOf
<1>. QED  BY <1>1, EmptyListed
          DEF Init, AInv, NothingDangles, ClaimsAreReadable, Returning, NotYet, NotYetIn, Waiting

LEMMA AgreeStep ==
    ASSUME HInv, AInv, Separate, [Next]_vars
    PROVE  AInv'
<1>1. ASSUME NEW k \in Keys, Hit(k) PROVE AInv'
    BY <1>1, AgreeQuiet DEF Hit, shared, scheduler, device
<1>2. ASSUME NEW k \in Keys, Miss(k) PROVE AInv'
  <2>1. CASE CanPlace
    BY <1>2, <2>1, AgreePlace DEF Miss, scheduler
  <2>2. CASE ~CanPlace
    BY <1>2, <2>2, AgreeQuiet DEF Miss, shared, scheduler
  <2>. QED  BY <2>1, <2>2
<1>3. ASSUME Wake PROVE AInv'
    BY <1>3, AgreeQuiet DEF Wake, host, shared, scheduler, device
<1>4. ASSUME PlacePending PROVE AInv'
  <2>1. Last(pending) \in Keys
    <3>1. pending \in Seq(Keys) /\ pending # << >>
      BY <1>4 DEF HInv, Types, PlacePending
    <3>. QED  BY <3>1, FrontElements
  <2>2. CASE Last(pending) \in Resident(policy)
    BY <1>4, <2>2, AgreeQuiet DEF PlacePending, shared, scheduler
  <2>3. CASE Last(pending) \notin Resident(policy)
    BY <1>4, <2>1, <2>3, AgreePlace DEF PlacePending, scheduler
  <2>. QED  BY <2>2, <2>3
<1>5. CASE Manager
    BY <1>1, <1>2, <1>3, <1>4, <1>5, AgreeReclaim DEF Manager
<1>6. CASE Tick
    BY <1>6, AgreeBeginTick, AgreeRetract, AgreePublish, AgreeKeepWaiting, AgreeAbandon,
       AgreeFreeAbandoned, AgreeEndTick DEF Tick
<1>7. ASSUME BeginCopy PROVE AInv'
    BY <1>7, AgreeQuiet DEF BeginCopy, host, shared, scheduler
<1>8. CASE Device
    BY <1>7, <1>8, AgreeWriteTable, AgreeEndCopy DEF Device
<1>9. CASE UNCHANGED vars
    BY <1>9, AgreeQuiet DEF vars, host, shared, scheduler, device
<1>. QED  BY <1>5, <1>6, <1>8, <1>9 DEF Next

LEMMA FollowsFromAgree ==
    ASSUME HInv, AInv
    PROVE  TableFollowsClaims
<1>1. \A k \in Keys : Coming(k) = Soon(k)
    BY DEF Coming, Soon, ComingIn, WritesOf
<1>2. ASSUME NEW k \in Keys, NEW s, NEW l \in Seq(Claim), Going(l, k, s)
      PROVE  [key |-> k, slot |-> s] \in ToSet(l)
  <2>1. PICK x \in ToSet(l) : x.key = k /\ x.slot = s
    BY <1>2 DEF Going
  <2>2. x \in Claim
    BY DEF ToSet
  <2>3. x = [key |-> x.key, slot |-> x.slot]
    BY <2>2 DEF Claim
  <2>. QED  BY <2>1, <2>3
<1>3. toRetract \in Seq(Claim) /\ retracting \in Seq(Claim)
    BY DEF HInv, Types
<1>4. ASSUME NEW k \in Keys, Soon(k) # None
      PROVE  \/ slotOf[k] = Soon(k)
             \/ [key |-> k, slot |-> Soon(k)] \in ToSet(toRetract) \cup ToSet(retracting)
    BY <1>2, <1>3, <1>4 DEF AInv, NothingDangles
<1>5. ASSUME NEW k \in Keys, slotOf[k] # None
      PROVE  \/ Soon(k) = slotOf[k]
             \/ \E e \in ToSet(inflight) \cup ToSet(landing) \cup ToSet(still) :
                   e.key = k /\ e.slot = slotOf[k]
    BY <1>5 DEF AInv, ClaimsAreReadable, Listed
<1>. QED  BY <1>1, <1>4, <1>5 DEF TableFollowsClaims

LEMMA AgreeInvariant ==
    ASSUME Separate
    PROVE  Spec => [](HInv /\ AInv)
<1>1. Init => HInv /\ AInv
    BY HInit, AgreeInit
<1>2. HInv /\ AInv /\ [Next]_vars => (HInv /\ AInv)'
    BY HStep, AgreeStep
<1>. QED  BY <1>1, <1>2, PTL DEF Spec

\* What slot_of says or will say is what the host has claimed, or is queued for
\* retraction; and a resident key can be read or has its copy followed: the
\* retractions and publications of apply_pending, in the order of the compute
\* stream, leave neither dangling entries nor residents nobody can read.
THEOREM HostAndDeviceAgree ==
    ASSUME Separate
    PROVE  Spec => []TableFollowsClaims
    BY AgreeInvariant, FollowsFromAgree, PTL

----------------------------------------------------------------------------
(* What the kernels read.                                                  *)

\* After j writes the table may name slot s for key k: write j says so, or the
\* table as it is.  The reference ends with a later write for the key.
RefersIn(t, c, j, k, s) ==
    \/ j = 0 /\ t[k] = s
    \/ j \in DOMAIN c /\ c[j].key = k /\ c[j].slot = s

RewrittenIn(c, j, k, n) == \E i \in DOMAIN c : j < i /\ i <= n /\ c[i].key = k

LEMMA RefersAppend ==
    ASSUME NEW t, NEW c \in Seq(Write), NEW w \in Write, NEW j \in Nat, NEW k, NEW s
    PROVE  /\ RefersIn(t, Append(c, w), j, k, s) => RefersIn(t, c, j, k, s) \/ (w.key = k /\ w.slot = s)
           /\ \A n : RewrittenIn(c, j, k, n) => RewrittenIn(Append(c, w), j, k, n)
<1>. DEFINE d == Append(c, w)
<1>1. /\ DOMAIN c = 1 .. Len(c) /\ DOMAIN d = 1 .. Len(c) + 1 /\ Len(c) \in Nat
      /\ d[Len(c) + 1] = w /\ \A i \in 1 .. Len(c) : d[i] = c[i]
    OBVIOUS
<1>. HIDE DEF d
<1>2. \A i \in DOMAIN c : i \in DOMAIN d /\ d[i] = c[i]
    BY <1>1
<1>3. \A i \in DOMAIN d : (i \in DOMAIN c /\ d[i] = c[i]) \/ d[i] = w
    BY <1>1
<1>4. RefersIn(t, d, j, k, s) => RefersIn(t, c, j, k, s) \/ (w.key = k /\ w.slot = s)
    BY <1>3 DEF RefersIn
<1>5. \A n : RewrittenIn(c, j, k, n) => RewrittenIn(d, j, k, n)
    BY <1>2 DEF RewrittenIn
<1>. QED  BY <1>4, <1>5 DEF d

LEMMA RefersRetract ==
    ASSUME NEW t, NEW c \in Seq(Write), NEW w \in Seq(Write), \A i \in DOMAIN w : w[i].slot = None,
           NEW j \in Nat, NEW k, NEW s, s # None
    PROVE  /\ RefersIn(t, c \o w, j, k, s) => RefersIn(t, c, j, k, s)
           /\ \A n : RewrittenIn(c, j, k, n) => RewrittenIn(c \o w, j, k, n)
           /\ RewrittenIn(c, j, k, Len(c)) => RewrittenIn(c \o w, j, k, Len(c \o w))
           /\ RefersIn(t, c, j, k, s) /\ (\E i \in DOMAIN w : w[i].key = k)
                 => RewrittenIn(c \o w, j, k, Len(c \o w))
<1>. DEFINE d == c \o w
<1>1. /\ DOMAIN c = 1 .. Len(c) /\ DOMAIN w = 1 .. Len(w)
      /\ DOMAIN d = 1 .. Len(c) + Len(w) /\ Len(c) \in Nat /\ Len(w) \in Nat
      /\ Len(d) = Len(c) + Len(w)
      /\ \A i \in 1 .. Len(c) + Len(w) : d[i] = IF i <= Len(c) THEN c[i] ELSE w[i - Len(c)]
    OBVIOUS
<1>. HIDE DEF d
<1>2. \A i \in DOMAIN c : i \in DOMAIN d /\ d[i] = c[i] /\ i <= Len(d)
    BY <1>1
<1>3. \A i \in DOMAIN d : (i \in DOMAIN c /\ d[i] = c[i]) \/ d[i].slot = None
  <2>1. ASSUME NEW i \in DOMAIN d, ~(i <= Len(c)) PROVE i - Len(c) \in DOMAIN w /\ d[i] = w[i - Len(c)]
    BY <1>1, <2>1
  <2>2. ASSUME NEW i \in DOMAIN d, i <= Len(c) PROVE i \in DOMAIN c /\ d[i] = c[i]
    BY <1>1, <2>2
  <2>. QED  BY <2>1, <2>2
<1>4. RefersIn(t, d, j, k, s) => RefersIn(t, c, j, k, s)
    BY <1>3 DEF RefersIn
<1>5. \A n : RewrittenIn(c, j, k, n) => RewrittenIn(d, j, k, n)
    BY <1>2 DEF RewrittenIn
<1>6. RewrittenIn(c, j, k, Len(c)) => RewrittenIn(d, j, k, Len(d))
    BY <1>2 DEF RewrittenIn
<1>7. ASSUME RefersIn(t, c, j, k, s), NEW i \in DOMAIN w, w[i].key = k
      PROVE  RewrittenIn(d, j, k, Len(d))
  <2>1. j <= Len(c)
    BY <1>1, <1>7 DEF RefersIn
  <2>2. Len(c) + i \in DOMAIN d /\ d[Len(c) + i] = w[i] /\ j < Len(c) + i /\ Len(c) + i <= Len(d)
    BY <2>1, <1>1
  <2>. QED  BY <2>2, <1>7 DEF RewrittenIn
<1>. QED  BY <1>4, <1>5, <1>6, <1>7 DEF d

LEMMA RefersLast ==
    ASSUME NEW t, NEW c \in Seq(Write), NEW j \in Nat, NEW k, NEW s,
           RefersIn(t, c, j, k, s), ~RewrittenIn(c, j, k, Len(c))
    PROVE  ComingIn(t, c, k) = s
<1>1. DOMAIN c = 1 .. Len(c) /\ Len(c) \in Nat
    OBVIOUS
<1>2. \A i \in DOMAIN c : c[i].key = k => i <= j
    BY <1>1 DEF RewrittenIn
<1>3. CASE j \in DOMAIN c /\ c[j].key = k /\ c[j].slot = s
  <2>1. IsLast(c, k, j)
    BY <1>2, <1>3 DEF IsLast
  <2>. QED  BY <2>1, <1>3, LastWrite
<1>4. CASE j = 0 /\ t[k] = s
  <2>1. WritesOf(c, k) = {}
    BY <1>1, <1>2, <1>4 DEF WritesOf
  <2>. QED  BY <2>1, <1>4 DEF ComingIn
<1>. QED  BY <1>3, <1>4 DEF RefersIn

LEMMA RefersTail ==
    ASSUME NEW t, DOMAIN t = Keys, NEW c \in Seq(Write), c # << >>,
           NEW j \in Nat, NEW k \in Keys, NEW s,
           RefersIn([t EXCEPT ![Head(c).key] = Head(c).slot], Tail(c), j, k, s)
    PROVE  \E i \in Nat : /\ RefersIn(t, c, i, k, s)
                          /\ \A n \in Nat : RewrittenIn(c, i, k, n) => RewrittenIn(Tail(c), j, k, OneLess(n))
<1>. DEFINE d == Tail(c)
            u == [t EXCEPT ![Head(c).key] = Head(c).slot]
<1>1. /\ Head(c) = c[1] /\ 1 \in DOMAIN c /\ Len(c) \in Nat \ {0}
      /\ DOMAIN d = 1 .. Len(c) - 1 /\ DOMAIN c = 1 .. Len(c)
      /\ \A i \in DOMAIN d : d[i] = c[i + 1] /\ i + 1 \in DOMAIN c
      /\ \A i \in DOMAIN c : i # 1 => i - 1 \in DOMAIN d /\ c[i] = d[i - 1]
    BY TailElements
<1>2. u[k] = IF k = Head(c).key THEN Head(c).slot ELSE t[k]
    OBVIOUS
<1>3. RefersIn(u, d, j, k, s)
    OBVIOUS
<1>. HIDE DEF d, u
<1>4. ASSUME NEW i \in Nat, NEW n \in Nat, RewrittenIn(c, i, k, n), i = j + 1 \/ (i = 0 /\ j = 0 /\ c[1].key # k)
      PROVE  RewrittenIn(d, j, k, OneLess(n))
  <2>1. PICK m \in DOMAIN c : i < m /\ m <= n /\ c[m].key = k
    BY <1>4 DEF RewrittenIn
  <2>2. m # 1
    BY <2>1, <1>4
  <2>3. m - 1 \in DOMAIN d /\ d[m - 1].key = k
    BY <2>1, <2>2, <1>1
  <2>4. m \in Nat /\ n > 0
    BY <2>1, <1>1
  <2>5. m - 1 <= OneLess(n)
    BY <2>1, <2>4 DEF OneLess
  <2>6. j < m - 1
    BY <2>1, <2>2, <2>4, <1>1, <1>4
  <2>. QED  BY <2>3, <2>5, <2>6 DEF RewrittenIn
<1>5. CASE j \in DOMAIN d /\ d[j].key = k /\ d[j].slot = s
  <2>1. j + 1 \in Nat /\ RefersIn(t, c, j + 1, k, s)
    BY <1>1, <1>5 DEF RefersIn
  <2>. QED  BY <2>1, <1>4 DEF d
<1>6. CASE j = 0 /\ u[k] = s /\ k = c[1].key
  <2>1. RefersIn(t, c, 1, k, s)
    BY <1>1, <1>2, <1>6 DEF RefersIn
  <2>2. 1 \in Nat /\ 1 = j + 1
    BY <1>6
  <2>. QED  BY <2>1, <2>2, <1>4 DEF d
<1>7. CASE j = 0 /\ u[k] = s /\ k # c[1].key
  <2>1. RefersIn(t, c, 0, k, s)
    BY <1>1, <1>2, <1>7 DEF RefersIn
  <2>. QED  BY <2>1, <1>4, <1>7 DEF d
<1>. QED  BY <1>3, <1>5, <1>6, <1>7 DEF RefersIn

Refers(j, k, s) == RefersIn(table, compute, j, k, s)
Rewritten(j, k, n) == RewrittenIn(compute, j, k, n)

\* Whatever is or will be referred to has the right bytes.
Fits == \A s \in Slots, k \in Keys, j \in Nat : Refers(j, k, s) => slab[s] = k

\* A copy waits until no reference for another key is left to its slot, ...
CopiesWait ==
    \A m \in DOMAIN copies, k \in Keys, j \in Nat :
        k # copies[m].key /\ Refers(j, k, copies[m].slot) => Rewritten(j, k, copies[m].after)

\* ... which the event of a free slot tells.
FreeIsFenced ==
    \A s \in FreeSlots, k \in Keys, j \in Nat : Refers(j, k, s) => Rewritten(j, k, retractEv[s])

\* The event of an entry is that of its copy, the last one into its slot; the
\* slot has the bytes when it has happened.
Arrives(e) ==
    /\ e.event = 0 => slab[e.slot] = e.key
    /\ e.event \notin {0, Never} =>
          e.event \in DOMAIN copies /\ copies[e.event].key = e.key /\ copies[e.event].slot = e.slot
    /\ e.event # Never => \A n \in DOMAIN copies : n > e.event => copies[n].slot # e.slot
Arrive(l) == \A e \in ToSet(l) : Arrives(e)

\* What may be given up was never referred to.
Unread(l) == \A e \in ToSet(l), k \in Keys, j \in Nat : ~Refers(j, k, e.slot)

BInv ==
    /\ slab \in [Slots -> Keys \cup {Torn}]
    /\ Fits /\ CopiesWait /\ FreeIsFenced
    /\ Arrive(inflight) /\ Arrive(Waiting) /\ Arrive(still)
    /\ env.lossy => Unread(landing) /\ Unread(still)
    /\ tick = "abandon" => env.lossy

\* In this behaviour no key is evicted during a tick, and if copies get lost a
\* tick begins with a drained compute stream.
Orderly == ~env.racing /\ (env.lossy => MaxLag = 0)

LEMMA BytesQuiet ==
    ASSUME BInv, FreeSlots' \subseteq FreeSlots,
           \A s \in FreeSlots' : retractEv'[s] = retractEv[s],
           UNCHANGED <<inflight, landing, still, tick, compute, copies, table, slab, env>>
    PROVE  BInv'
<1>1. \A j, k, s : Refers(j, k, s)' = Refers(j, k, s) /\ Rewritten(j, k, s)' = Rewritten(j, k, s)
    BY DEF Refers, Rewritten
<1>2. Waiting' = Waiting
    BY DEF Waiting
<1>3. Fits' /\ CopiesWait'
    BY <1>1 DEF BInv, Fits, CopiesWait
<1>4. FreeIsFenced'
    BY <1>1 DEF BInv, FreeIsFenced
<1>5. Arrive(inflight)' /\ Arrive(Waiting)' /\ Arrive(still)'
    BY <1>2 DEF BInv, Arrive, Arrives
<1>6. env'.lossy => Unread(landing)' /\ Unread(still)'
    BY <1>1 DEF BInv, Unread
<1>. QED  BY <1>3, <1>4, <1>5, <1>6 DEF BInv

LEMMA WaitingIs ==
    ASSUME HInv
    PROVE  Waiting \in Seq(Entry)
<1>1. landing \in Seq(Entry) /\ (tick = "abandon" => landing # << >>)
    BY DEF HInv, Types, Phases
<1>. QED  BY <1>1 DEF Waiting

LEMMA OrderlyIs ==
    ASSUME Types, Orderly
    PROVE  ~env.racing /\ (env.lossy => MaxLag = 0)
    BY DEF Orderly

LEMMA BytesPlace ==
    ASSUME HInv, BInv, Orderly, NEW k \in Keys, k \notin Resident(policy), CanPlace, Place(k),
           UNCHANGED <<retracting, landing, still, tick, env, compute, table, slab>>
    PROVE  BInv'
<1>. DEFINE s == Last(free)
            fence == retractEv[s]
<1>0. Types /\ SlotsOK /\ ~env.racing
    BY OrderlyIs DEF HInv
<1>1. /\ s \in Slots /\ slotOf[k] = None
      /\ free' = Front(free) /\ free # << >>
      /\ retractEv' = [retractEv EXCEPT ![s] = 0]
      /\ \/ /\ copies' = Append(copies, [key |-> k, slot |-> s, after |-> fence])
            /\ inflight' = Append(inflight, [key |-> k, slot |-> s, event |-> Len(copies) + 1, age |-> 0])
         \/ /\ env.lossy /\ copies' = copies
            /\ inflight' = Append(inflight, [key |-> k, slot |-> s, event |-> Never, age |-> 0])
    BY <1>0, PlaceIs
<1>2. /\ copies \in Seq(Copy) /\ DOMAIN copies = 1 .. Len(copies) /\ Len(copies) \in Nat
      /\ inflight \in Seq(Entry) /\ landing \in Seq(Entry) /\ still \in Seq(Entry)
      /\ retractEv \in [Slots -> Nat]
    BY <1>0 DEF Types
<1>3. /\ ToSet(free) = ToSet(Front(free)) \cup {s} /\ s \notin ToSet(Front(free))
  <2>1. free \in Seq(Slots) /\ free # << >> /\ IsInjective(free)
    BY <1>0, <1>1 DEF Types, SlotsOK
  <2>. QED  BY <2>1, FrontElements
<1>4. s \in FreeSlots
    BY <1>3 DEF FreeSlots
<1>. HIDE DEF s, fence
<1>5. FreeSlots' \subseteq FreeSlots /\ \A x \in FreeSlots' : x # s
    BY <1>1, <1>3 DEF FreeSlots
<1>6. \A x \in FreeSlots' : retractEv'[x] = retractEv[x]
    BY <1>1, <1>2, <1>5
<1>7. \A j, i, n : Refers(j, i, n)' = Refers(j, i, n) /\ Rewritten(j, i, n)' = Rewritten(j, i, n)
    BY DEF Refers, Rewritten
<1>8. Waiting' = Waiting
    BY DEF Waiting
<1>9. Fits'
    BY <1>7 DEF BInv, Fits
<1>10. FreeIsFenced'
    BY <1>5, <1>6, <1>7 DEF BInv, FreeIsFenced
<1>11. env'.lossy => Unread(landing)' /\ Unread(still)'
    BY <1>7 DEF BInv, Unread
<1>12. Waiting \in Seq(Entry)
  <2>1. tick = "abandon" => landing # << >>
    BY DEF HInv, Phases
  <2>. QED  BY <1>2, <2>1 DEF Waiting
<1>13. \A e \in ToSet(inflight) \cup ToSet(Waiting) \cup ToSet(still) : e \in Entry /\ e.slot # s
  <2>1. ASSUME NEW e \in ToSet(inflight) \cup ToSet(Waiting) \cup ToSet(still)
        PROVE  e \in Entry /\ e.slot # s
    <3>1. e \in Entry
      BY <1>2, <1>12 DEF ToSet
    <3>2. slotOf[e.key] = e.slot
      BY <1>0 DEF HInv, Followed, FollowedIn, AreHeld
    <3>3. e.slot \in ClaimedSlots
      BY <3>1, <3>2, ElementsHaveSlots DEF ClaimedSlots
    <3>. QED  BY <3>1, <3>3, <1>0, <1>4 DEF SlotsOK, Apart
  <2>. QED  BY <2>1
<1>14. CASE /\ copies' = Append(copies, [key |-> k, slot |-> s, after |-> fence])
            /\ inflight' = Append(inflight, [key |-> k, slot |-> s, event |-> Len(copies) + 1, age |-> 0])
  <2>1. PICK c \in Copy : /\ c.key = k /\ c.slot = s /\ c.after = retractEv[s]
                          /\ copies' = Append(copies, c)
    <3>. DEFINE x == [key |-> k, slot |-> s, after |-> fence]
    <3>1. x \in Copy /\ x.key = k /\ x.slot = s /\ x.after = retractEv[s]
      BY <1>1, <1>2 DEF Copy, fence
    <3>. HIDE DEF x
    <3>. QED  BY <3>1, <1>14 DEF x
  <2>2. PICK e \in Entry : /\ e.key = k /\ e.slot = s /\ e.event = Len(copies) + 1
                           /\ inflight' = Append(inflight, e)
    <3>. DEFINE x == [key |-> k, slot |-> s, event |-> Len(copies) + 1, age |-> 0]
    <3>1. x \in Entry /\ x.key = k /\ x.slot = s /\ x.event = Len(copies) + 1
      BY <1>1, <1>2 DEF Entry
    <3>. HIDE DEF x
    <3>. QED  BY <3>1, <1>14 DEF x
  <2>4. /\ DOMAIN copies' = 1 .. Len(copies) + 1 /\ copies'[Len(copies) + 1] = c
        /\ \A n \in DOMAIN copies : n \in DOMAIN copies' /\ copies'[n] = copies[n]
        /\ \A n \in DOMAIN copies' : n \in DOMAIN copies \/ n = Len(copies) + 1
    BY <1>2, <2>1
  <2>5. CopiesWait'
    <3>1. \A i \in Keys, j \in Nat : Refers(j, i, s) => Rewritten(j, i, retractEv[s])
      BY <1>1, <1>4 DEF BInv, FreeIsFenced
    <3>2. ASSUME NEW m \in DOMAIN copies', NEW i \in Keys, NEW j \in Nat,
                 i # copies'[m].key, Refers(j, i, copies'[m].slot)
          PROVE  Rewritten(j, i, copies'[m].after)
      BY <2>1, <2>4, <3>1, <3>2 DEF BInv, CopiesWait
    <3>. QED  BY <3>2, <1>7 DEF CopiesWait
  <2>6. Arrives(e)'
    <3>1. e.event # 0 /\ e.event # Never /\ e.event \in DOMAIN copies'
      BY <1>2, <2>2, <2>4 DEF Never
    <3>2. \A n \in DOMAIN copies' : ~(n > e.event)
      BY <1>2, <2>2, <2>4
    <3>. QED  BY <3>1, <3>2, <2>1, <2>2, <2>4 DEF Arrives
  <2>7. ASSUME NEW x \in ToSet(inflight) \cup ToSet(Waiting) \cup ToSet(still) PROVE Arrives(x)'
    <3>1. x.slot # s /\ Arrives(x)
      BY <1>13 DEF BInv, Arrive
    <3>2. x.event \notin {0, Never} =>
             x.event \in DOMAIN copies' /\ copies'[x.event].key = x.key /\ copies'[x.event].slot = x.slot
      BY <2>4, <3>1 DEF Arrives
    <3>3. x.event # Never => \A n \in DOMAIN copies' : n > x.event => copies'[n].slot # x.slot
      BY <2>1, <2>4, <3>1 DEF Arrives
    <3>. QED  BY <3>1, <3>2, <3>3 DEF Arrives
  <2>8. ToSet(inflight') = ToSet(inflight) \cup {e}
    BY <1>2, <2>2, AppendElements
  <2>9. Arrive(inflight)' /\ Arrive(Waiting)' /\ Arrive(still)'
    BY <1>8, <2>6, <2>7, <2>8 DEF Arrive
  <2>. QED  BY <1>9, <1>10, <1>11, <2>5, <2>9 DEF BInv
<1>15. CASE /\ copies' = copies
            /\ inflight' = Append(inflight, [key |-> k, slot |-> s, event |-> Never, age |-> 0])
  <2>1. PICK e \in Entry : e.event = Never /\ inflight' = Append(inflight, e)
    <3>. DEFINE x == [key |-> k, slot |-> s, event |-> Never, age |-> 0]
    <3>1. x \in Entry /\ x.event = Never
      BY <1>1 DEF Entry
    <3>. HIDE DEF x
    <3>. QED  BY <3>1, <1>15 DEF x
  <2>2. ToSet(inflight') = ToSet(inflight) \cup {e}
    BY <1>2, <2>1, AppendElements
  <2>3. Arrives(e)'
    BY <2>1 DEF Arrives, Never
  <2>4. \A x : Arrives(x) => Arrives(x)'
    BY <1>15 DEF Arrives
  <2>5. Arrive(inflight)' /\ Arrive(Waiting)' /\ Arrive(still)'
    BY <1>8, <2>2, <2>3, <2>4 DEF BInv, Arrive
  <2>6. CopiesWait'
    BY <1>7, <1>15 DEF BInv, CopiesWait
  <2>. QED  BY <1>9, <1>10, <1>11, <2>5, <2>6 DEF BInv
<1>. QED  BY <1>1, <1>14, <1>15

LEMMA BytesBeginTick ==
    ASSUME HInv, AInv, BInv, Orderly, BeginTick
    PROVE  BInv'
<1>0. /\ Types /\ SlotsOK /\ ~env.racing /\ (env.lossy => MaxLag = 0)
      /\ tick = "out" /\ tick' = "retract" /\ landing = << >> /\ still = << >>
    BY OrderlyIs DEF HInv, BeginTick, Phases
<1>1. /\ landing' = inflight /\ inflight' = << >> /\ Len(compute) <= MaxLag
      /\ UNCHANGED <<free, retractEv, still, compute, copies, table, slab, env>>
    BY DEF BeginTick, device
<1>2. \A j, k, s : Refers(j, k, s)' = Refers(j, k, s) /\ Rewritten(j, k, s)' = Rewritten(j, k, s)
    BY <1>1 DEF Refers, Rewritten
<1>3. Fits' /\ CopiesWait'
    BY <1>1, <1>2 DEF BInv, Fits, CopiesWait
<1>4. FreeIsFenced'
    BY <1>1, <1>2 DEF BInv, FreeIsFenced, FreeSlots
<1>5. Arrive(inflight)' /\ Arrive(Waiting)' /\ Arrive(still)'
  <2>1. \A e : Arrives(e) => Arrives(e)'
    BY <1>1 DEF Arrives
  <2>. QED  BY <2>1, <1>0, <1>1, EmptyListed DEF BInv, Arrive, Waiting
<1>6. env'.lossy => Unread(landing)' /\ Unread(still)'
  <2>1. SUFFICES ASSUME env.lossy PROVE Unread(landing)' /\ Unread(still)'
    BY <1>1
  <2>2. compute = << >>
    BY <2>1, <1>0, <1>1 DEF Types
  <2>3. ASSUME NEW e \in ToSet(inflight), NEW k \in Keys, NEW j \in Nat, Refers(j, k, e.slot)
        PROVE  FALSE
    <3>1. e \in Entry
      BY <1>0 DEF Types, ToSet
    <3>2. e.slot # None /\ e.key \in Keys
      BY <3>1, ElementsHaveSlots
    <3>3. Soon(k) = e.slot
      BY <2>2, <2>3 DEF Refers, RefersIn, Soon, ComingIn, WritesOf
    <3>4. slotOf[e.key] = e.slot /\ Soon(e.key) # e.slot
      BY <1>0 DEF HInv, Followed, FollowedIn, AreHeld, AInv, NotYet, NotYetIn
    <3>5. e.slot \in ClaimedSlots
      BY <3>2, <3>4 DEF ClaimedSlots
    <3>6. \A l \in Seq(Claim) : Going(l, k, e.slot) => e.slot \in ToSet(SlotsIn(l))
      BY ElementsHaveSlots, ListParts DEF Going
    <3>7. toRetract \in Seq(Claim) /\ retracting \in Seq(Claim)
      BY <1>0 DEF Types
    <3>8. ~Going(toRetract, k, e.slot) /\ ~Going(retracting, k, e.slot)
      BY <3>5, <3>6, <3>7, <1>0 DEF SlotsOK, Apart, QueuedSlots, TakenSlots
    <3>9. slotOf[k] = e.slot
      BY <3>2, <3>3, <3>8 DEF AInv, NothingDangles
    <3>10. k = e.key
      BY <3>2, <3>4, <3>9, <1>0 DEF SlotsOK, ClaimsDiffer
    <3>. QED  BY <3>3, <3>4, <3>10
  <2>. QED  BY <2>3, <1>0, <1>1, <1>2, EmptyListed DEF Unread
<1>. QED  BY <1>0, <1>1, <1>3, <1>4, <1>5, <1>6 DEF BInv

LEMMA BytesRetract ==
    ASSUME HInv, AInv, BInv, Retract
    PROVE  BInv'
<1>0. Types /\ SlotsOK /\ tick = "retract" /\ tick' = "land"
    BY DEF HInv, Retract
<1>1. /\ free' = free \o SlotsIn(retracting)
      /\ compute' = compute \o TableWrites
      /\ retractEv' = [s \in Slots |-> IF s \in ToSet(SlotsIn(retracting)) THEN Len(compute')
                                       ELSE retractEv[s]]
      /\ UNCHANGED <<inflight, landing, still, copies, table, slab, env>>
    BY DEF Retract, SlotsIn
<1>2. /\ retracting \in Seq(Claim) /\ compute \in Seq(Write)
      /\ free \in Seq(Slots) /\ SlotsIn(retracting) \in Seq(Slots)
    BY <1>0, ElementsHaveSlots, ListParts DEF Types
<1>3. /\ TableWrites \in Seq(Write) /\ DOMAIN TableWrites = DOMAIN retracting
      /\ \A i \in DOMAIN retracting : /\ TableWrites[i].key = retracting[i].key
                                      /\ TableWrites[i].slot = None
    BY <1>2, TableWritesAre
<1>4. FreeSlots' = FreeSlots \cup TakenSlots
    BY <1>1, <1>2, ConcatElements DEF FreeSlots, TakenSlots
<1>5. Slots \cap {None} = {}
    BY ExpertAssumption DEF Slots, None
<1>6. ASSUME NEW j \in Nat, NEW k \in Keys, NEW s \in Slots
      PROVE  /\ Refers(j, k, s)' => Refers(j, k, s)
             /\ \A n : Rewritten(j, k, n) => Rewritten(j, k, n)'
             /\ Rewritten(j, k, Len(compute)) => RewrittenIn(compute', j, k, Len(compute'))
             /\ Refers(j, k, s) /\ (\E x \in ToSet(retracting) : x.key = k)
                   => RewrittenIn(compute', j, k, Len(compute'))
  <2>1. s # None
    BY <1>5
  <2>2. /\ RefersIn(table, compute \o TableWrites, j, k, s) => RefersIn(table, compute, j, k, s)
        /\ \A n : RewrittenIn(compute, j, k, n) => RewrittenIn(compute \o TableWrites, j, k, n)
        /\ RewrittenIn(compute, j, k, Len(compute))
              => RewrittenIn(compute \o TableWrites, j, k, Len(compute \o TableWrites))
        /\ RefersIn(table, compute, j, k, s) /\ (\E i \in DOMAIN TableWrites : TableWrites[i].key = k)
              => RewrittenIn(compute \o TableWrites, j, k, Len(compute \o TableWrites))
    BY <2>1, <1>2, <1>3, RefersRetract
  <2>3. (\E x \in ToSet(retracting) : x.key = k) => \E i \in DOMAIN TableWrites : TableWrites[i].key = k
    BY <1>3 DEF ToSet
  <2>4. Refers(j, k, s)' <=> RefersIn(table, compute \o TableWrites, j, k, s)
    BY <1>1 DEF Refers
  <2>5. compute' = compute \o TableWrites
    BY <1>1
  <2>6. \A n : Rewritten(j, k, n)' <=> RewrittenIn(compute', j, k, n)
    BY DEF Rewritten
  <2>. QED  BY <2>2, <2>3, <2>4, <2>5, <2>6 DEF Refers, Rewritten
<1>7. Fits'
    BY <1>1, <1>6 DEF BInv, Fits
<1>8. CopiesWait'
  <2>1. \A m \in DOMAIN copies : copies[m].slot \in Slots
    <3>1. \A m \in DOMAIN copies : copies[m] \in Copy
      BY <1>0 DEF Types
    <3>. QED  BY <3>1 DEF Copy
  <2>. QED  BY <2>1, <1>1, <1>6 DEF BInv, CopiesWait
<1>9. FreeIsFenced'
  <2>1. ASSUME NEW s \in TakenSlots, NEW k \in Keys, NEW j \in Nat, Refers(j, k, s)
        PROVE  RewrittenIn(compute', j, k, Len(compute'))
    <3>1. s \in Slots /\ s # None
      BY <1>0, <1>5 DEF SlotsOK, Apart
    <3>2. CASE Rewritten(j, k, Len(compute))
      BY <3>1, <3>2, <1>6
    <3>3. CASE ~Rewritten(j, k, Len(compute))
      <4>1. Soon(k) = s
        BY <2>1, <3>3, <1>2, RefersLast DEF Refers, Rewritten, Soon
      <4>2. s \notin ClaimedSlots /\ s \notin QueuedSlots
        BY <1>0 DEF SlotsOK, Apart
      <4>3. slotOf[k] # s
        BY <3>1, <4>2 DEF ClaimedSlots
      <4>4. ~Going(toRetract, k, s)
        <5>1. toRetract \in Seq(Claim)
          BY <1>0 DEF Types
        <5>. QED  BY <5>1, <4>2, ElementsHaveSlots, ListParts DEF Going, QueuedSlots
      <4>5. Going(retracting, k, s)
        BY <3>1, <4>1, <4>3, <4>4 DEF AInv, NothingDangles
      <4>6. \E x \in ToSet(retracting) : x.key = k
        BY <4>5 DEF Going
      <4>. QED  BY <2>1, <3>1, <4>6, <1>6
    <3>. QED  BY <3>2, <3>3
  <2>2. ASSUME NEW s \in FreeSlots \cup TakenSlots, NEW k \in Keys, NEW j \in Nat, Refers(j, k, s)'
        PROVE  RewrittenIn(compute', j, k, retractEv'[s])
    <3>1. s \in Slots
      BY <1>0 DEF SlotsOK, Apart
    <3>2. Refers(j, k, s)
      BY <2>2, <3>1, <1>6
    <3>3. CASE s \in TakenSlots
      <4>1. retractEv'[s] = Len(compute')
        BY <3>1, <3>3, <1>1 DEF TakenSlots
      <4>. QED  BY <2>1, <3>2, <3>3, <4>1
    <3>4. CASE s \notin TakenSlots
      <4>1. retractEv'[s] = retractEv[s] /\ s \in FreeSlots
        BY <3>1, <3>4, <1>1 DEF TakenSlots
      <4>2. Rewritten(j, k, retractEv[s])
        BY <3>2, <4>1 DEF BInv, FreeIsFenced
      <4>3. RewrittenIn(compute', j, k, retractEv[s])
        BY <3>1, <4>2, <1>6 DEF Rewritten
      <4>. QED  BY <4>1, <4>3
    <3>. QED  BY <3>3, <3>4
  <2>. QED  BY <2>2, <1>4 DEF FreeIsFenced, Rewritten
<1>10. Arrive(inflight)' /\ Arrive(Waiting)' /\ Arrive(still)'
  <2>1. \A e : Arrives(e) => Arrives(e)'
    BY <1>1 DEF Arrives
  <2>2. Waiting' = Waiting
    BY <1>0, <1>1 DEF Waiting
  <2>. QED  BY <2>1, <2>2, <1>1 DEF BInv, Arrive
<1>11. env'.lossy => Unread(landing)' /\ Unread(still)'
  <2>1. \A l \in Seq(Entry) : \A e \in ToSet(l) : e.slot \in Slots
    BY ElementsHaveSlots DEF ToSet
  <2>2. landing \in Seq(Entry) /\ still \in Seq(Entry)
    BY <1>0 DEF Types
  <2>. QED  BY <2>1, <2>2, <1>1, <1>6 DEF BInv, Unread
<1>. QED  BY <1>0, <1>1, <1>7, <1>8, <1>9, <1>10, <1>11 DEF BInv

LEMMA BytesPublish ==
    ASSUME HInv, BInv, Orderly, Publish
    PROVE  BInv'
<1>0. /\ Types /\ SlotsOK /\ ~env.racing /\ tick = "land" /\ tick' = "land" /\ landing # << >>
      /\ landing' = Tail(landing) /\ Landed(Head(landing))
      /\ UNCHANGED <<slotOf, free, retractEv, inflight, still, copies, table, slab, env>>
    BY OrderlyIs DEF HInv, Publish, host, shared
<1>1. PICK e \in Entry : e = Head(landing)
  <2>1. landing \in Seq(Entry)
    BY <1>0 DEF Types
  <2>. QED  BY <2>1, <1>0
<1>2. /\ inflight \in Seq(Entry) /\ landing \in Seq(Entry) /\ still \in Seq(Entry)
      /\ Tail(landing) \in Seq(Entry) /\ ToSet(landing) = ToSet(Tail(landing)) \cup {e}
      /\ compute \in Seq(Write) /\ slotOf \in [Keys -> Slots \cup {None}]
    BY <1>0, <1>1, TailElements DEF Types
<1>3. e.key \in Keys /\ e.slot \in Slots /\ e.slot # None /\ e.event = 0
    BY <1>0, <1>1, ElementsHaveSlots DEF Landed
<1>4. slotOf[e.key] = e.slot /\ e.slot \in ClaimedSlots
  <2>1. slotOf[e.key] = e.slot
    BY <1>0, <1>2 DEF HInv, Followed, FollowedIn, AreHeld, Waiting
  <2>. QED  BY <2>1, <1>3 DEF ClaimedSlots
<1>5. PICK w \in Write : w.key = e.key /\ w.slot = e.slot /\ compute' = Append(compute, w)
  <2>. DEFINE x == [key |-> e.key, slot |-> e.slot]
  <2>1. x \in Write /\ x.key = e.key /\ x.slot = e.slot
    BY <1>3 DEF Write
  <2>2. compute' = Append(compute, x)
    BY <1>1, <1>4 DEF Publish, StillHeld
  <2>. HIDE DEF x
  <2>. QED  BY <2>1, <2>2
<1>6. ASSUME NEW j \in Nat, NEW k, NEW s
      PROVE  /\ Refers(j, k, s)' => Refers(j, k, s) \/ (k = e.key /\ s = e.slot)
             /\ \A n : Rewritten(j, k, n) => Rewritten(j, k, n)'
  <2>1. /\ RefersIn(table, Append(compute, w), j, k, s)
              => RefersIn(table, compute, j, k, s) \/ (w.key = k /\ w.slot = s)
        /\ \A n : RewrittenIn(compute, j, k, n) => RewrittenIn(Append(compute, w), j, k, n)
    BY <1>2, RefersAppend
  <2>. QED  BY <2>1, <1>0, <1>5 DEF Refers, Rewritten
<1>7. Arrives(e)
    BY <1>0, <1>2 DEF BInv, Arrive, Waiting
<1>8. Fits'
  <2>1. slab[e.slot] = e.key
    BY <1>3, <1>7 DEF Arrives
  <2>. QED  BY <2>1, <1>0, <1>6 DEF BInv, Fits
<1>9. CopiesWait'
  <2>1. \A m \in DOMAIN copies : copies[m].slot # e.slot
    <3>1. \A n \in DOMAIN copies : n > 0
      BY <1>0 DEF Types
    <3>. QED  BY <3>1, <1>3, <1>7 DEF Arrives, Never
  <2>. QED  BY <2>1, <1>0, <1>6 DEF BInv, CopiesWait
<1>10. FreeIsFenced'
  <2>1. \A s \in FreeSlots : s # e.slot
    BY <1>0, <1>4 DEF SlotsOK, Apart
  <2>. QED  BY <2>1, <1>0, <1>6 DEF BInv, FreeIsFenced, FreeSlots
<1>11. Arrive(inflight)' /\ Arrive(Waiting)' /\ Arrive(still)'
  <2>1. \A x : Arrives(x) => Arrives(x)'
    BY <1>0 DEF Arrives
  <2>. QED  BY <2>1, <1>0, <1>2 DEF BInv, Arrive, Waiting
<1>12. env'.lossy => Unread(landing)' /\ Unread(still)'
  <2>1. SUFFICES ASSUME env.lossy PROVE Unread(landing)' /\ Unread(still)'
    BY <1>0
  <2>2. FollowedIn(slotOf, inflight, landing, still)
    BY <1>0 DEF HInv, Followed, Waiting
  <2>3. e.key \notin ToSet(KeysOf(inflight)) \cup ToSet(KeysOf(Tail(landing))) \cup ToSet(KeysOf(still))
    BY <2>2, <1>0, <1>1, <1>2, FollowedDrop
  <2>4. /\ ToSet(KeysOf(Tail(landing))) = {x.key : x \in ToSet(Tail(landing))}
        /\ ToSet(KeysOf(still)) = {x.key : x \in ToSet(still)}
    BY <1>2, ElementsHaveSlots, ListParts
  <2>5. ASSUME NEW x \in ToSet(Tail(landing)) \cup ToSet(still) PROVE x.slot # e.slot
    <3>1. x.key # e.key
      BY <2>3, <2>4
    <3>2. slotOf[x.key] = x.slot
      BY <2>2, <1>2 DEF FollowedIn, AreHeld
    <3>3. x \in Entry
      BY <1>2 DEF ToSet
    <3>4. x.key \in Keys
      BY <3>3, ElementsHaveSlots
    <3>. QED  BY <3>1, <3>2, <3>4, <1>0, <1>3, <1>4 DEF SlotsOK, ClaimsDiffer
  <2>. QED  BY <2>1, <2>5, <1>0, <1>2, <1>6 DEF BInv, Unread
<1>. QED  BY <1>0, <1>8, <1>9, <1>10, <1>11, <1>12 DEF BInv

LEMMA BytesKeepWaiting ==
    ASSUME HInv, BInv, KeepWaiting
    PROVE  BInv'
<1>0. /\ Types /\ tick = "land" /\ tick' = "land" /\ landing # << >> /\ landing' = Tail(landing)
      /\ still' = Append(still, Older(Head(landing)))
      /\ UNCHANGED <<free, retractEv, inflight, compute, copies, table, slab, env>>
    BY DEF HInv, KeepWaiting, shared, device, Older
<1>1. PICK e \in Entry : e = Head(landing)
  <2>1. landing \in Seq(Entry)
    BY <1>0 DEF Types
  <2>. QED  BY <2>1, <1>0
<1>2. PICK o \in Entry : o = Older(e) /\ o.key = e.key /\ o.slot = e.slot /\ o.event = e.event
    BY <1>1, OlderIs
<1>3. /\ still \in Seq(Entry) /\ landing \in Seq(Entry)
      /\ ToSet(landing) = ToSet(Tail(landing)) \cup {e}
      /\ ToSet(still') = ToSet(still) \cup {o}
    BY <1>0, <1>1, <1>2, TailElements, AppendElements DEF Types
<1>4. \A j, k, s : Refers(j, k, s)' = Refers(j, k, s) /\ Rewritten(j, k, s)' = Rewritten(j, k, s)
    BY <1>0 DEF Refers, Rewritten
<1>5. Fits' /\ CopiesWait'
    BY <1>0, <1>4 DEF BInv, Fits, CopiesWait
<1>6. FreeIsFenced'
    BY <1>0, <1>4 DEF BInv, FreeIsFenced, FreeSlots
<1>7. Arrive(inflight)' /\ Arrive(Waiting)' /\ Arrive(still)'
  <2>1. \A x : Arrives(x) => Arrives(x)'
    BY <1>0 DEF Arrives
  <2>2. Arrives(e)
    BY <1>0, <1>3 DEF BInv, Arrive, Waiting
  <2>3. Arrives(o)
    BY <2>2, <1>2 DEF Arrives
  <2>. QED  BY <2>1, <2>3, <1>0, <1>3 DEF BInv, Arrive, Waiting
<1>8. env'.lossy => Unread(landing)' /\ Unread(still)'
    BY <1>0, <1>2, <1>3, <1>4 DEF BInv, Unread
<1>. QED  BY <1>0, <1>5, <1>6, <1>7, <1>8 DEF BInv

LEMMA BytesAbandon ==
    ASSUME HInv, BInv, Abandon
    PROVE  BInv'
<1>0. /\ Types /\ tick = "land" /\ tick' = "abandon" /\ landing # << >>
      /\ ~Landed(Head(landing)) /\ Head(landing).age >= MaxAge
      /\ UNCHANGED <<free, retractEv, inflight, landing, still, compute, copies, table, slab, env>>
    BY DEF HInv, Abandon, shared, device
<1>1. PICK e \in Entry : e = Head(landing)
  <2>1. landing \in Seq(Entry)
    BY <1>0 DEF Types
  <2>. QED  BY <2>1, <1>0
<1>2. ToSet(landing) = ToSet(Tail(landing)) \cup {e}
    BY <1>0, <1>1, TailElements DEF Types
<1>3. env.lossy
  <2>1. e.age \in Nat
    BY DEF Entry
  <2>. QED  BY <2>1, <1>0, <1>1, <1>2, ExpertAssumption DEF HInv, NothingLost, InTime, Landed
<1>4. \A j, k, s : Refers(j, k, s)' = Refers(j, k, s) /\ Rewritten(j, k, s)' = Rewritten(j, k, s)
    BY <1>0 DEF Refers, Rewritten
<1>5. Fits' /\ CopiesWait'
    BY <1>0, <1>4 DEF BInv, Fits, CopiesWait
<1>6. FreeIsFenced'
    BY <1>0, <1>4 DEF BInv, FreeIsFenced, FreeSlots
<1>7. Arrive(inflight)' /\ Arrive(Waiting)' /\ Arrive(still)'
  <2>1. \A x : Arrives(x) => Arrives(x)'
    BY <1>0 DEF Arrives
  <2>. QED  BY <2>1, <1>0, <1>2 DEF BInv, Arrive, Waiting
<1>8. env'.lossy => Unread(landing)' /\ Unread(still)'
    BY <1>0, <1>4 DEF BInv, Unread
<1>. QED  BY <1>0, <1>3, <1>5, <1>6, <1>7, <1>8 DEF BInv

LEMMA BytesFreeAbandoned ==
    ASSUME HInv, BInv, FreeAbandoned
    PROVE  BInv'
<1>0. /\ Types /\ SlotsOK /\ tick = "abandon" /\ tick' = "land" /\ landing # << >>
      /\ landing' = Tail(landing) /\ free' = Append(free, Head(landing).slot)
      /\ UNCHANGED <<retractEv, inflight, still, compute, copies, table, slab, env>>
    BY DEF HInv, FreeAbandoned, device, Phases
<1>1. PICK e \in Entry : e = Head(landing)
  <2>1. landing \in Seq(Entry)
    BY <1>0 DEF Types
  <2>. QED  BY <2>1, <1>0
<1>2. ToSet(landing) = ToSet(Tail(landing)) \cup {e}
    BY <1>0, <1>1, TailElements DEF Types
<1>3. FreeSlots' = FreeSlots \cup {e.slot}
  <2>1. free \in Seq(Slots) /\ e.slot \in Slots
    BY <1>0, ElementsHaveSlots DEF Types
  <2>2. ToSet(Append(free, e.slot)) = ToSet(free) \cup {e.slot}
    BY <2>1, AppendElements
  <2>. QED  BY <2>2, <1>0, <1>1 DEF FreeSlots
<1>4. \A j, k, s : Refers(j, k, s)' = Refers(j, k, s) /\ Rewritten(j, k, s)' = Rewritten(j, k, s)
    BY <1>0 DEF Refers, Rewritten
<1>5. Fits' /\ CopiesWait'
    BY <1>0, <1>4 DEF BInv, Fits, CopiesWait
<1>6. env.lossy /\ Unread(landing) /\ Unread(still)
    BY <1>0 DEF BInv
<1>7. FreeIsFenced'
  <2>1. \A k \in Keys, j \in Nat : ~Refers(j, k, e.slot)
    BY <1>2, <1>6 DEF Unread
  <2>. QED  BY <2>1, <1>0, <1>3, <1>4 DEF BInv, FreeIsFenced
<1>8. Arrive(inflight)' /\ Arrive(Waiting)' /\ Arrive(still)'
  <2>1. \A x : Arrives(x) => Arrives(x)'
    BY <1>0 DEF Arrives
  <2>. QED  BY <2>1, <1>0 DEF BInv, Arrive, Waiting
<1>9. Unread(landing)' /\ Unread(still)'
    BY <1>0, <1>2, <1>4, <1>6 DEF Unread
<1>. QED  BY <1>0, <1>5, <1>7, <1>8, <1>9 DEF BInv

LEMMA BytesEndTick ==
    ASSUME HInv, BInv, EndTick
    PROVE  BInv'
<1>0. /\ Types /\ tick = "land" /\ tick' = "out" /\ landing = << >>
      /\ inflight' = inflight \o still /\ still' = << >>
      /\ UNCHANGED <<free, retractEv, landing, compute, copies, table, slab, env>>
    BY DEF HInv, EndTick, host, device
<1>1. ToSet(inflight') = ToSet(inflight) \cup ToSet(still)
    BY <1>0, ConcatElements DEF Types
<1>2. \A j, k, s : Refers(j, k, s)' = Refers(j, k, s) /\ Rewritten(j, k, s)' = Rewritten(j, k, s)
    BY <1>0 DEF Refers, Rewritten
<1>3. Fits' /\ CopiesWait'
    BY <1>0, <1>2 DEF BInv, Fits, CopiesWait
<1>4. FreeIsFenced'
    BY <1>0, <1>2 DEF BInv, FreeIsFenced, FreeSlots
<1>5. Arrive(inflight)' /\ Arrive(Waiting)' /\ Arrive(still)'
  <2>1. \A x : Arrives(x) => Arrives(x)'
    BY <1>0 DEF Arrives
  <2>. QED  BY <2>1, <1>0, <1>1, EmptyListed DEF BInv, Arrive, Waiting
<1>6. env'.lossy => Unread(landing)' /\ Unread(still)'
    BY <1>0, <1>2, EmptyListed DEF BInv, Unread
<1>. QED  BY <1>0, <1>3, <1>4, <1>5, <1>6 DEF BInv

LEMMA BytesWriteTable ==
    ASSUME HInv, AInv, BInv, WriteTable
    PROVE  BInv'
<1>0. /\ Types /\ table \in [Keys -> Slots \cup {None}] /\ compute \in Seq(Write) /\ compute # << >>
      /\ table' = [table EXCEPT ![Head(compute).key] = Head(compute).slot]
      /\ compute' = Tail(compute)
      /\ UNCHANGED <<free, inflight, landing, still, tick, slab, env>>
    BY DEF HInv, AInv, Types, WriteTable, host, scheduler
<1>1. /\ DOMAIN copies' = DOMAIN copies
      /\ \A n \in DOMAIN copies : /\ copies'[n].key = copies[n].key
                                  /\ copies'[n].slot = copies[n].slot
                                  /\ copies'[n].after = OneLess(copies[n].after)
      /\ \A s \in Slots : retractEv'[s] = OneLess(retractEv[s])
    BY <1>0, WriteTableIs
<1>2. ASSUME NEW j \in Nat, NEW k \in Keys, NEW s, Refers(j, k, s)'
      PROVE  \E i \in Nat : /\ Refers(i, k, s)
                            /\ \A n \in Nat : Rewritten(i, k, n) => RewrittenIn(compute', j, k, OneLess(n))
  <2>1. RefersIn([table EXCEPT ![Head(compute).key] = Head(compute).slot], Tail(compute), j, k, s)
    BY <1>0, <1>2 DEF Refers
  <2>2. DOMAIN table = Keys
    BY <1>0
  <2>3. \E i \in Nat : /\ RefersIn(table, compute, i, k, s)
                       /\ \A n \in Nat : RewrittenIn(compute, i, k, n)
                              => RewrittenIn(Tail(compute), j, k, OneLess(n))
    BY <2>1, <2>2, <1>0, RefersTail
  <2>. QED  BY <2>3, <1>0 DEF Refers, Rewritten
<1>3. Fits'
    BY <1>0, <1>2 DEF BInv, Fits
<1>4. CopiesWait'
  <2>1. ASSUME NEW m \in DOMAIN copies', NEW k \in Keys, NEW j \in Nat,
               k # copies'[m].key, RefersIn(table', compute', j, k, copies'[m].slot)
        PROVE  RewrittenIn(compute', j, k, copies'[m].after)
    <3>1. m \in DOMAIN copies /\ copies[m] \in Copy
      BY <1>0, <1>1 DEF Types
    <3>2. copies[m].after \in Nat
      BY <3>1 DEF Copy
    <3>3. \E s : s = copies[m].slot /\ s = copies'[m].slot
      BY <3>1, <1>1
    <3>4. PICK s : s = copies[m].slot /\ s = copies'[m].slot
      BY <3>3
    <3>5. Refers(j, k, s)'
      BY <2>1, <3>4 DEF Refers
    <3>6. PICK i \in Nat : /\ Refers(i, k, s)
                           /\ \A n \in Nat : Rewritten(i, k, n) => RewrittenIn(compute', j, k, OneLess(n))
      BY <3>5, <1>2
    <3>7. k # copies[m].key
      BY <2>1, <3>1, <1>1
    <3>8. Rewritten(i, k, copies[m].after)
      BY <3>1, <3>4, <3>6, <3>7 DEF BInv, CopiesWait
    <3>. QED  BY <3>1, <3>2, <3>6, <3>8, <1>1
  <2>. QED  BY <2>1 DEF CopiesWait, Rewritten, Refers
<1>5. FreeIsFenced'
  <2>1. FreeSlots' = FreeSlots /\ FreeSlots \subseteq Slots
    BY <1>0 DEF HInv, SlotsOK, Apart, FreeSlots
  <2>2. ASSUME NEW s \in FreeSlots, NEW k \in Keys, NEW j \in Nat, Refers(j, k, s)'
        PROVE  RewrittenIn(compute', j, k, retractEv'[s])
    <3>1. PICK i \in Nat : /\ Refers(i, k, s)
                           /\ \A n \in Nat : Rewritten(i, k, n) => RewrittenIn(compute', j, k, OneLess(n))
      BY <2>2, <1>2
    <3>2. Rewritten(i, k, retractEv[s])
      BY <3>1 DEF BInv, FreeIsFenced
    <3>3. retractEv[s] \in Nat /\ retractEv'[s] = OneLess(retractEv[s])
      BY <2>1, <1>0, <1>1 DEF Types
    <3>. QED  BY <3>1, <3>2, <3>3
  <2>. QED  BY <2>1, <2>2 DEF FreeIsFenced, Rewritten
<1>6. Arrive(inflight)' /\ Arrive(Waiting)' /\ Arrive(still)'
  <2>1. \A x : Arrives(x) => Arrives(x)'
    BY <1>0, <1>1 DEF Arrives
  <2>2. Waiting' = Waiting
    BY <1>0 DEF Waiting
  <2>. QED  BY <2>1, <2>2, <1>0 DEF BInv, Arrive
<1>7. env'.lossy => Unread(landing)' /\ Unread(still)'
    BY <1>0, <1>2 DEF BInv, Unread
<1>. QED  BY <1>0, <1>3, <1>4, <1>5, <1>6, <1>7 DEF BInv

\* The copy at the head writes a row nothing refers to, unless for its own key;
\* and no copy that has arrived is in that row.
LEMMA HeadCopyIsAlone ==
    ASSUME Types, BInv, CopyReady
    PROVE  /\ 1 \in DOMAIN copies /\ Head(copies) = copies[1]
           /\ copies[1].slot \in Slots /\ copies[1].key \in Keys
           /\ \A k \in Keys, j \in Nat : Refers(j, k, copies[1].slot) => k = copies[1].key
           /\ \A e : Arrives(e) /\ e.event = 0 => e.slot # copies[1].slot
<1>1. copies \in Seq(Copy) /\ copies # << >>
    BY DEF Types, CopyReady
<1>2. /\ 1 \in DOMAIN copies /\ Head(copies) = copies[1] /\ copies[1] \in Copy
    BY <1>1, TailElements
<1>3. copies[1].after = 0
    BY <1>2 DEF CopyReady
<1>4. ASSUME NEW k \in Keys, NEW j \in Nat, Refers(j, k, copies[1].slot), k # copies[1].key
      PROVE  FALSE
  <2>1. Rewritten(j, k, 0)
    BY <1>2, <1>3, <1>4 DEF BInv, CopiesWait
  <2>2. \A i \in DOMAIN compute : i \in Nat /\ ~(j < i /\ i <= 0)
    BY DEF Types
  <2>. QED  BY <2>1, <2>2 DEF Rewritten, RewrittenIn
<1>5. \A e : Arrives(e) /\ e.event = 0 => e.slot # copies[1].slot
    BY <1>2 DEF Arrives, Never
<1>. QED  BY <1>2, <1>4, <1>5 DEF Copy

LEMMA BytesBeginCopy ==
    ASSUME HInv, BInv, BeginCopy
    PROVE  BInv'
<1>0. /\ Types /\ CopyReady /\ slab[Head(copies).slot] \notin {Torn, Head(copies).key}
      /\ slab' = [slab EXCEPT ![Head(copies).slot] = Torn]
      /\ UNCHANGED <<free, retractEv, inflight, landing, still, tick, compute, copies, table, env>>
    BY DEF HInv, BeginCopy, shared, scheduler
<1>1. PICK c : /\ c = copies[1] /\ c = Head(copies) /\ c.slot \in Slots /\ c.key \in Keys
               /\ \A k \in Keys, j \in Nat : Refers(j, k, c.slot) => k = c.key
               /\ \A e : Arrives(e) /\ e.event = 0 => e.slot # c.slot
    BY <1>0, HeadCopyIsAlone
<1>2. slab \in [Slots -> Keys \cup {Torn}] /\ slab' = [slab EXCEPT ![c.slot] = Torn]
    BY <1>0, <1>1 DEF BInv
<1>3. \A s \in Slots : slab'[s] = IF s = c.slot THEN Torn ELSE slab[s]
    BY <1>2
<1>4. \A j, k, s : Refers(j, k, s)' = Refers(j, k, s) /\ Rewritten(j, k, s)' = Rewritten(j, k, s)
    BY <1>0 DEF Refers, Rewritten
<1>5. \A k \in Keys, j \in Nat : ~Refers(j, k, c.slot)
  <2>1. slab[c.slot] # c.key
    BY <1>0, <1>1
  <2>. QED  BY <2>1, <1>1 DEF BInv, Fits
<1>6. Fits'
    BY <1>3, <1>4, <1>5 DEF BInv, Fits
<1>7. CopiesWait'
    BY <1>0, <1>4 DEF BInv, CopiesWait
<1>8. FreeIsFenced'
    BY <1>0, <1>4 DEF BInv, FreeIsFenced, FreeSlots
<1>9. ASSUME NEW e \in Entry, Arrives(e) PROVE Arrives(e)'
  <2>1. e.event = 0 => slab'[e.slot] = e.key
    BY <1>1, <1>3, <1>9, ElementsHaveSlots DEF Arrives
  <2>. QED  BY <2>1, <1>0, <1>9 DEF Arrives
<1>10. Arrive(inflight)' /\ Arrive(Waiting)' /\ Arrive(still)'
  <2>1. /\ ToSet(inflight) \subseteq Entry /\ ToSet(Waiting) \subseteq Entry /\ ToSet(still) \subseteq Entry
    BY WaitingIs DEF HInv, Types, ToSet
  <2>2. Waiting' = Waiting
    BY <1>0 DEF Waiting
  <2>. QED  BY <2>1, <2>2, <1>0, <1>9 DEF BInv, Arrive
<1>11. env'.lossy => Unread(landing)' /\ Unread(still)'
    BY <1>0, <1>4 DEF BInv, Unread
<1>. QED  BY <1>0, <1>2, <1>6, <1>7, <1>8, <1>10, <1>11 DEF BInv

LEMMA BytesEndCopy ==
    ASSUME HInv, BInv, EndCopy
    PROVE  BInv'
<1>0. /\ Types /\ CopyReady
      /\ slab' = [slab EXCEPT ![Head(copies).slot] = Head(copies).key]
      /\ copies' = Tail(copies)
      /\ inflight' = Sooner(inflight) /\ landing' = Sooner(landing) /\ still' = Sooner(still)
      /\ UNCHANGED <<free, retractEv, tick, compute, table, env>>
    BY DEF HInv, EndCopy
<1>1. PICK c : /\ c = copies[1] /\ c = Head(copies) /\ c.slot \in Slots /\ c.key \in Keys
               /\ \A k \in Keys, j \in Nat : Refers(j, k, c.slot) => k = c.key
               /\ \A e : Arrives(e) /\ e.event = 0 => e.slot # c.slot
    BY <1>0, HeadCopyIsAlone
<1>2. slab \in [Slots -> Keys \cup {Torn}] /\ slab' = [slab EXCEPT ![c.slot] = c.key]
    BY <1>0, <1>1 DEF BInv
<1>3. \A s \in Slots : slab'[s] = IF s = c.slot THEN c.key ELSE slab[s]
    BY <1>2
<1>4. \A j, k, s : Refers(j, k, s)' = Refers(j, k, s) /\ Rewritten(j, k, s)' = Rewritten(j, k, s)
    BY <1>0 DEF Refers, Rewritten
<1>5. /\ \A n \in DOMAIN copies' : copies'[n] = copies[n + 1] /\ n + 1 \in DOMAIN copies
      /\ \A n \in DOMAIN copies : n # 1 => n - 1 \in DOMAIN copies' /\ copies[n] = copies'[n - 1]
      /\ DOMAIN copies \subseteq Nat \ {0} /\ DOMAIN copies' \subseteq Nat \ {0}
  <2>1. copies \in Seq(Copy) /\ copies # << >>
    BY <1>0 DEF Types, CopyReady
  <2>. QED  BY <2>1, <1>0, TailElements
<1>6. Fits'
    BY <1>1, <1>3, <1>4 DEF BInv, Fits
<1>7. CopiesWait'
    BY <1>4, <1>5 DEF BInv, CopiesWait
<1>8. FreeIsFenced'
    BY <1>0, <1>4 DEF BInv, FreeIsFenced, FreeSlots
<1>9. ASSUME NEW x \in Entry, NEW e \in Entry, Arrives(x),
             e.key = x.key, e.slot = x.slot, e.event = OneLess(x.event)
      PROVE  Arrives(e)'
  <2>0. x.slot \in Slots /\ x.event \in Nat \cup {Never}
    BY DEF Entry
  <2>1. CASE x.event = Never
    <3>1. e.event = Never
      BY <2>1, <1>9 DEF OneLess, Never
    <3>. QED  BY <3>1 DEF Arrives, Never
  <2>2. CASE x.event = 0
    <3>1. e.event = 0 /\ x.slot # c.slot
      BY <2>2, <1>1, <1>9 DEF OneLess
    <3>2. slab'[e.slot] = e.key
      BY <2>0, <2>2, <3>1, <1>3, <1>9 DEF Arrives
    <3>3. \A n \in DOMAIN copies' : copies'[n].slot # e.slot
      <4>1. \A n \in DOMAIN copies : n > 0 /\ copies[n].slot # x.slot
        BY <2>2, <1>5, <1>9 DEF Arrives, Never
      <4>. QED  BY <4>1, <1>5, <1>9
    <3>. QED  BY <3>1, <3>2, <3>3 DEF Arrives
  <2>3. CASE x.event \in Nat \ {0}
    <3>1. /\ x.event \in DOMAIN copies /\ copies[x.event].key = x.key /\ copies[x.event].slot = x.slot
          /\ \A n \in DOMAIN copies : n > x.event => copies[n].slot # x.slot
      BY <2>3, <1>9 DEF Arrives, Never
    <3>2. e.event = x.event - 1 /\ e.event \in Nat
      BY <2>3, <1>9 DEF OneLess
    <3>3. \A n \in DOMAIN copies' : n > e.event => copies'[n].slot # e.slot
      <4>1. ASSUME NEW n \in DOMAIN copies', n > e.event PROVE copies'[n].slot # e.slot
        <5>1. n + 1 > x.event /\ n + 1 \in DOMAIN copies
          BY <2>3, <3>2, <4>1, <1>5
        <5>. QED  BY <3>1, <5>1, <1>5, <1>9
      <4>. QED  BY <4>1
    <3>4. e.event = 0 => slab'[e.slot] = e.key
      <4>1. SUFFICES ASSUME e.event = 0 PROVE slab'[e.slot] = e.key
        OBVIOUS
      <4>2. x.event = 1
        BY <2>3, <3>2, <4>1
      <4>. QED  BY <2>0, <3>1, <4>2, <1>1, <1>3, <1>9
    <3>5. e.event # 0 => /\ e.event \in DOMAIN copies' /\ copies'[e.event].key = e.key
                         /\ copies'[e.event].slot = e.slot
      <4>1. SUFFICES ASSUME e.event # 0
                     PROVE  /\ e.event \in DOMAIN copies' /\ copies'[e.event].key = e.key
                            /\ copies'[e.event].slot = e.slot
        OBVIOUS
      <4>2. x.event # 1
        BY <3>2, <4>1
      <4>. QED  BY <3>1, <3>2, <4>2, <1>5, <1>9
    <3>. QED  BY <3>3, <3>4, <3>5 DEF Arrives
  <2>. QED  BY <2>0, <2>1, <2>2, <2>3
<1>10. ASSUME NEW l \in Seq(Entry), Arrive(l), NEW e \in ToSet(Sooner(l)) PROVE Arrives(e)'
  <2>1. PICK i \in DOMAIN l : e = Sooner(l)[i] /\ i \in DOMAIN Sooner(l)
    BY SoonerIs DEF ToSet
  <2>2. Sooner(l)[i].key = l[i].key /\ Sooner(l)[i].slot = l[i].slot
        /\ Sooner(l)[i].event = OneLess(l[i].event)
    BY SoonerIs
  <2>3. l[i] \in Entry /\ l[i] \in ToSet(l)
    BY DEF ToSet
  <2>4. e \in Entry
    <3>1. Sooner(l) \in Seq(Entry)
      BY SoonerIs
    <3>. QED  BY <2>1, <3>1
  <2>5. Arrives(l[i])
    BY <2>3, <1>10 DEF Arrive
  <2>. QED  BY <2>1, <2>2, <2>3, <2>4, <2>5, <1>9
<1>11. Arrive(inflight)' /\ Arrive(Waiting)' /\ Arrive(still)'
  <2>1. /\ inflight \in Seq(Entry) /\ Waiting \in Seq(Entry) /\ still \in Seq(Entry)
    BY <1>0, WaitingIs DEF HInv, Types
  <2>2. Waiting' = Sooner(Waiting)
    BY <1>0, SoonerTail DEF HInv, Phases, Types, Waiting
  <2>. QED  BY <2>1, <2>2, <1>0, <1>10 DEF BInv, Arrive
<1>12. env'.lossy => Unread(landing)' /\ Unread(still)'
  <2>1. ASSUME NEW l \in Seq(Entry), Unread(l), NEW e \in ToSet(Sooner(l)), NEW k \in Keys, NEW j \in Nat
        PROVE  ~Refers(j, k, e.slot)
    <3>1. \E x \in ToSet(l) : x.slot = e.slot
      BY SoonerIs DEF ToSet
    <3>. QED  BY <2>1, <3>1 DEF Unread
  <2>2. landing \in Seq(Entry) /\ still \in Seq(Entry)
    BY <1>0 DEF Types
  <2>. QED  BY <2>1, <2>2, <1>0, <1>4 DEF BInv, Unread
<1>. QED  BY <1>0, <1>1, <1>2, <1>6, <1>7, <1>8, <1>11, <1>12 DEF BInv

LEMMA BytesInit ==
    ASSUME Init
    PROVE  BInv
<1>1. \A j \in Nat, k \in Keys, s \in Slots : ~Refers(j, k, s)
  <2>1. \A s \in Slots : s # None
    BY ExpertAssumption DEF Slots, None
  <2>. QED  BY <2>1 DEF Init, Refers, RefersIn
<1>2. FreeSlots \subseteq Slots
    BY HInit DEF HInv, SlotsOK, Apart
<1>3. Fits /\ FreeIsFenced
    BY <1>1, <1>2 DEF Fits, FreeIsFenced
<1>4. CopiesWait
    BY DEF Init, CopiesWait
<1>5. Arrive(inflight) /\ Arrive(Waiting) /\ Arrive(still) /\ Unread(landing) /\ Unread(still)
    BY EmptyListed DEF Init, Arrive, Unread, Waiting
<1>. QED  BY <1>3, <1>4, <1>5 DEF Init, BInv

LEMMA BytesStep ==
    ASSUME HInv, AInv, BInv, Orderly, [Next]_vars
    PROVE  BInv'
<1>1. ASSUME NEW k \in Keys, Hit(k) PROVE BInv'
    BY <1>1, BytesQuiet DEF Hit, shared, scheduler, device, FreeSlots
<1>2. ASSUME NEW k \in Keys, Miss(k) PROVE BInv'
  <2>1. CASE CanPlace
    BY <1>2, <2>1, BytesPlace DEF Miss, scheduler
  <2>2. CASE ~CanPlace
    BY <1>2, <2>2, BytesQuiet DEF Miss, shared, scheduler, FreeSlots
  <2>. QED  BY <2>1, <2>2
<1>3. ASSUME Wake PROVE BInv'
    BY <1>3, BytesQuiet DEF Wake, shared, scheduler, device, FreeSlots
<1>4. ASSUME PlacePending PROVE BInv'
  <2>1. Last(pending) \in Keys
    <3>1. pending \in Seq(Keys) /\ pending # << >>
      BY <1>4 DEF HInv, Types, PlacePending
    <3>. QED  BY <3>1, FrontElements
  <2>2. CASE Last(pending) \in Resident(policy)
    BY <1>4, <2>2, BytesQuiet DEF PlacePending, shared, scheduler, FreeSlots
  <2>3. CASE Last(pending) \notin Resident(policy)
    BY <1>4, <2>1, <2>3, BytesPlace DEF PlacePending, scheduler
  <2>. QED  BY <2>2, <2>3
<1>5. ASSUME Reclaim PROVE BInv'
    BY <1>5, BytesQuiet DEF Reclaim, scheduler, device, FreeSlots
<1>6. CASE Manager
    BY <1>1, <1>2, <1>3, <1>4, <1>5, <1>6 DEF Manager
<1>7. CASE Tick
    BY <1>7, BytesBeginTick, BytesRetract, BytesPublish, BytesKeepWaiting, BytesAbandon,
       BytesFreeAbandoned, BytesEndTick DEF Tick
<1>8. CASE Device
    BY <1>8, BytesWriteTable, BytesBeginCopy, BytesEndCopy DEF Device
<1>9. CASE UNCHANGED vars
    BY <1>9, BytesQuiet DEF vars, shared, scheduler, device, FreeSlots
<1>. QED  BY <1>6, <1>7, <1>8, <1>9 DEF Next

LEMMA HonestFromBytes ==
    ASSUME AInv, BInv
    PROVE  TableNeverOverReports
<1>1. ASSUME NEW k \in Keys, table[k] # None PROVE slab[table[k]] = k
  <2>1. table[k] \in Slots
    BY <1>1 DEF AInv
  <2>2. Refers(0, k, table[k])
    BY DEF Refers, RefersIn
  <2>. QED  BY <2>1, <2>2 DEF BInv, Fits
<1>. QED  BY <1>1 DEF TableNeverOverReports

LEMMA EnvironmentStays ==
    ASSUME [Next]_vars
    PROVE  Orderly' <=> Orderly
<1>1. env' = env
    BY DEF vars, Next, Manager, Hit, Miss, Wake, PlacePending, Reclaim,
       Tick, BeginTick, Retract, Publish, KeepWaiting, Abandon, FreeAbandoned, EndTick,
       Device, WriteTable, BeginCopy, EndCopy
<1>. QED  BY <1>1 DEF Orderly

\* A kernel never reads another expert's bytes: whenever slot_of names a slot, the
\* slab row has that expert's bytes, however late copies land and however far the
\* streams lag, because a slot is refilled after the retraction's event only
\* and published after its copy's.  It is a theorem about the orderly behaviours
\* of any cache, next to which there may be others.
THEOREM TableIsHonest ==
    ASSUME Separate
    PROVE  Spec => [](Orderly => TableNeverOverReports)
<1>. DEFINE Bytes == Orderly => BInv
<1>1. Init => HInv /\ AInv /\ Bytes
    BY HInit, AgreeInit, BytesInit
<1>2. HInv /\ AInv /\ Bytes /\ [Next]_vars => (HInv /\ AInv /\ Bytes)'
  <2>. SUFFICES ASSUME HInv, AInv, Bytes, [Next]_vars
                PROVE  HInv' /\ AInv' /\ (Orderly' => BInv')
    OBVIOUS
  <2>1. HInv' /\ AInv'
    BY HStep, AgreeStep
  <2>2. Orderly' => BInv'
    BY EnvironmentStays, BytesStep
  <2>. QED  BY <2>1, <2>2
<1>3. HInv /\ AInv /\ Bytes => (Orderly => TableNeverOverReports)
    BY HonestFromBytes
<1>. QED  BY <1>1, <1>2, <1>3, PTL DEF Spec
=============================================================================
