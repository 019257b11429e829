------------------------- MODULE RequestState_proofs -------------------------
(***************************************************************************)
(* Four proofs about RequestState: a forced token is never written into the *)
(* row of a request that has given its row back; recurrent slots follow the *)
(* requests that hold them; the cells the model reads are the text sent; and *)
(* the gates follow the text, bound the reasoning and hold the end back.   *)
(*                                                                         *)
(* Inv.  A request can be released while a batch with it is in flight, and *)
(* the commit of that batch looks at its gate again.  The gate was freed with *)
(* the request; the commit arms a new one, and a new one has counted nothing *)
(* and demands nothing.  There is no second such commit: who is released is *)
(* not launched again.                                                     *)
(*                                                                         *)
(* SlotInv.  Who is in a batch was given a slot before the launch (Batched), *)
(* slots in use and free slots are disjoint and cover all rows (SlotsOwned), *)
(* and a slot has the forwards of its holder alone, as many as its chunks and *)
(* tokens left say (Progress, StateOwned).                                 *)
(*                                                                         *)
(* TextInv.  A row is the text sent, followed by what was sampled in the one *)
(* or two batches not yet committed (CellsRunAhead), as long as no override *)
(* can fall between the two: in the normal loop, and for requests without a *)
(* reasoning gate in either loop (Steady).                                 *)
(*                                                                         *)
(* GateInv.  The gates of a running request follow its text (FollowsText,  *)
(* ToolFollows).  The reasoning gate has counted every token while there is *)
(* budget, and once that is spent the text can only grow by the delimiter  *)
(* (Bounded).                                                              *)
(*                                                                         *)
(* EosInv.  An end of turn sampled for a bounded reasoner was sampled under *)
(* a gate that had let go (EndsLetGo), but for the tokens sampled before the *)
(* gate was armed: the first, and under the overlap loop the second.       *)
(***************************************************************************)
EXTENDS RequestState, SequenceTheorems, FiniteSetTheorems, NaturalsInduction, WellFoundedInduction,
        TLAPS

----------------------------------------------------------------------------
(* The gates.  What a gate is matched against is the end of the text: a    *)
(* window as wide as the longest pattern matches what the whole text does  *)
(* (WindowIsEnough), so one token at a time it follows the text.           *)

\* The last n elements of a sequence.
IsEnd(w, s) ==
    /\ Len(w) <= Len(s)
    /\ \A i \in 1 .. Len(w) : w[i] = s[Len(s) - Len(w) + i]

\* LastOf is the end of the sequence, as long as asked for or the sequence itself.
LEMMA LastOfIs ==
    ASSUME NEW S, NEW s \in Seq(S), NEW n \in Nat
    PROVE  /\ LastOf(s, n) \in Seq(S) /\ IsEnd(LastOf(s, n), s)
           /\ Len(LastOf(s, n)) = IF Len(s) > n THEN n ELSE Len(s)
<1>1. Len(s) \in Nat /\ \A i \in 1 .. Len(s) : s[i] \in S
    OBVIOUS
<1>. DEFINE w == LastOf(s, n)
<1>2. CASE Len(s) > n
  <2>. DEFINE m == Len(s) - n + 1
  <2>1. m \in Int /\ m \in 1 .. Len(s) + 1 /\ Len(s) - m + 1 = n
    BY <1>1, <1>2
  <2>2. w = SubSeq(s, m, Len(s))
    BY <1>2 DEF LastOf
  <2>. HIDE DEF w, m
  <2>3. \A i \in m .. Len(s) : s[i] \in S
    BY <1>1, <2>1
  <2>4. /\ w \in Seq(S) /\ Len(w) = (IF m <= Len(s) THEN Len(s) - m + 1 ELSE 0)
        /\ \A i \in 1 .. Len(s) - m + 1 : w[i] = s[m + i - 1]
    BY <1>1, <2>1, <2>2, <2>3, SubSeqProperties
  <2>5. Len(w) = n
    BY <1>1, <2>1, <2>4
  <2>6. \A i \in 1 .. Len(w) : w[i] = s[Len(s) - Len(w) + i]
    BY <1>1, <2>1, <2>4, <2>5 DEF m
  <2>7. Len(w) <= Len(s)
    BY <1>1, <1>2, <2>5
  <2>. QED  BY <1>2, <2>4, <2>5, <2>6, <2>7 DEF w, IsEnd
<1>3. CASE ~(Len(s) > n)
  <2>1. w = s
    BY <1>3, SubSeqFull DEF LastOf
  <2>. HIDE DEF w
  <2>2. IsEnd(s, s)
    BY <1>1 DEF IsEnd
  <2>. QED  BY <1>3, <2>1, <2>2 DEF w
<1>. QED  BY <1>2, <1>3

\* A place counted from the end.
LEMMA PlaceFromEnd ==
    ASSUME NEW a \in Nat, NEW b \in Nat, a <= b, NEW i \in 1 .. a
    PROVE  b - a + i \in 1 .. b
OBVIOUS

\* The end of an end.
LEMMA EndOfEnd ==
    ASSUME NEW S, NEW s \in Seq(S), NEW w \in Seq(S), NEW x \in Seq(S), IsEnd(w, s)
    PROVE  /\ IsEnd(x, w) => IsEnd(x, s)
           /\ IsEnd(x, s) /\ Len(x) <= Len(w) => IsEnd(x, w)
<1>1. Len(s) \in Nat /\ Len(w) \in Nat /\ Len(x) \in Nat /\ Len(w) <= Len(s)
    BY DEF IsEnd
<1>2. \A i \in 1 .. Len(x) : Len(x) <= Len(w) =>
          w[Len(w) - Len(x) + i] = s[Len(s) - Len(x) + i]
  <2>1. ASSUME NEW i \in 1 .. Len(x), Len(x) <= Len(w)
        PROVE  w[Len(w) - Len(x) + i] = s[Len(s) - Len(x) + i]
    <3>1. PICK j \in 1 .. Len(w) : j = Len(w) - Len(x) + i
      BY <1>1, <2>1, PlaceFromEnd
    <3>2. w[j] = s[Len(s) - Len(w) + j]
      BY DEF IsEnd
    <3>3. Len(s) - Len(w) + j = Len(s) - Len(x) + i
      BY <1>1, <3>1
    <3>. QED  BY <3>1, <3>2, <3>3
  <2>. QED  BY <2>1
<1>. QED  BY <1>1, <1>2 DEF IsEnd

\* Two ends of the same length are equal.
LEMMA EndIsOne ==
    ASSUME NEW S, NEW s, NEW w \in Seq(S), NEW x \in Seq(S), IsEnd(w, s), IsEnd(x, s), Len(w) = Len(x)
    PROVE  w = x
<1>1. \A i \in 1 .. Len(w) : w[i] = x[i]
    BY DEF IsEnd
<1>. QED  BY <1>1, SeqEqual

\* IsSuffix, place by place.
LEMMA SuffixIs ==
    ASSUME NEW h, NEW w, Len(h) \in Nat, Len(w) \in Nat
    PROVE  IsSuffix(h, w) <=>
              Len(h) <= Len(w) /\ \A i \in 1 .. Len(h) : h[i] = w[Len(w) - Len(h) + i]
<1>. DEFINE a == Len(h)  b == Len(w)  rh == Reverse(h)  rw == Reverse(w)
<1>1. rh = [i \in 1 .. a |-> h[(a - i) + 1]] /\ rw = [i \in 1 .. b |-> w[(b - i) + 1]]
    BY DEF Reverse
<1>2. a \in Nat /\ b \in Nat
    OBVIOUS
<1>. HIDE DEF a, b, rh, rw
<1>3. Len(rh) = a /\ Len(rw) = b
    BY <1>1, <1>2
<1>4. IsSuffix(h, w) <=> a <= b /\ SubSeq(rh, 1, a) = SubSeq(rw, 1, a)
    BY <1>3 DEF IsSuffix, IsPrefix, rh, rw
<1>5. CASE a <= b
  <2>. DEFINE S == {rh[i] : i \in 1 .. a} \cup {rw[i] : i \in 1 .. b}
              x == SubSeq(rh, 1, a)  y == SubSeq(rw, 1, a)
  <2>1. (\A i \in 1 .. a : rh[i] \in S) /\ (\A i \in 1 .. a : rw[i] \in S)
    BY <1>2, <1>5
  <2>. HIDE DEF S
  <2>2. x \in Seq(S) /\ Len(x) = (IF 1 <= a THEN a - 1 + 1 ELSE 0)
        /\ \A i \in 1 .. a - 1 + 1 : x[i] = rh[1 + i - 1]
    BY <1>2, <2>1, SubSeqProperties
  <2>3. y \in Seq(S) /\ Len(y) = (IF 1 <= a THEN a - 1 + 1 ELSE 0)
        /\ \A i \in 1 .. a - 1 + 1 : y[i] = rw[1 + i - 1]
    BY <1>2, <2>1, SubSeqProperties
  <2>. HIDE DEF x, y
  <2>4. Len(x) = a /\ Len(y) = a /\ \A i \in 1 .. a : x[i] = rh[i] /\ y[i] = rw[i]
    BY <1>2, <2>2, <2>3
  <2>5. x = y <=> \A i \in 1 .. a : rh[i] = rw[i]
    BY <2>2, <2>3, <2>4, SeqEqual
  <2>6. \A i \in 1 .. a : rh[i] = h[(a - i) + 1] /\ rw[i] = w[(b - i) + 1]
    BY <1>1, <1>2, <1>5
  <2>7. (\A i \in 1 .. a : h[(a - i) + 1] = w[(b - i) + 1]) <=> \A i \in 1 .. a : h[i] = w[b - a + i]
    <3>1. ASSUME \A i \in 1 .. a : h[(a - i) + 1] = w[(b - i) + 1], NEW i \in 1 .. a
          PROVE  h[i] = w[b - a + i]
      <4>1. PICK j \in 1 .. a : j = (a - i) + 1
        BY <1>2
      <4>2. (a - j) + 1 = i /\ (b - j) + 1 = b - a + i
        BY <1>2, <4>1
      <4>3. h[(a - j) + 1] = w[(b - j) + 1]
        BY <3>1
      <4>. QED  BY <4>2, <4>3
    <3>2. ASSUME \A i \in 1 .. a : h[i] = w[b - a + i], NEW i \in 1 .. a
          PROVE  h[(a - i) + 1] = w[(b - i) + 1]
      <4>1. PICK j \in 1 .. a : j = (a - i) + 1
        BY <1>2
      <4>2. b - a + j = (b - i) + 1
        BY <1>2, <4>1
      <4>3. h[j] = w[b - a + j]
        BY <3>2
      <4>. QED  BY <4>1, <4>2, <4>3
    <3>. QED  BY <3>1, <3>2
  <2>8. x = y <=> \A i \in 1 .. a : h[i] = w[b - a + i]
    BY <2>5, <2>6, <2>7
  <2>. QED  BY <1>4, <1>5, <2>8 DEF a, b, x, y
<1>. QED  BY <1>4, <1>5 DEF a, b

\* A suffix of an end is a suffix, if the end is long enough.
LEMMA SuffixOfEnd ==
    ASSUME NEW S, NEW s \in Seq(S), NEW w \in Seq(S), NEW h, Len(h) \in Nat, IsEnd(w, s)
    PROVE  /\ IsSuffix(h, w) => IsSuffix(h, s)
           /\ IsSuffix(h, s) /\ Len(h) <= Len(w) => IsSuffix(h, w)
<1>1. Len(s) \in Nat /\ Len(w) \in Nat /\ Len(w) <= Len(s)
    BY DEF IsEnd
<1>2. ASSUME NEW i \in 1 .. Len(h), Len(h) <= Len(w)
      PROVE  w[Len(w) - Len(h) + i] = s[Len(s) - Len(h) + i]
  <2>1. PICK j \in 1 .. Len(w) : j = Len(w) - Len(h) + i
    BY <1>1, <1>2, PlaceFromEnd
  <2>2. w[j] = s[Len(s) - Len(w) + j]
    BY DEF IsEnd
  <2>3. Len(s) - Len(w) + j = Len(s) - Len(h) + i
    BY <1>1, <2>1
  <2>. QED  BY <2>1, <2>2, <2>3
<1>3. IsSuffix(h, w) <=> Len(h) <= Len(w) /\ \A i \in 1 .. Len(h) : h[i] = w[Len(w) - Len(h) + i]
    BY <1>1, SuffixIs
<1>4. IsSuffix(h, s) <=> Len(h) <= Len(s) /\ \A i \in 1 .. Len(h) : h[i] = s[Len(s) - Len(h) + i]
    BY <1>1, SuffixIs
<1>. QED  BY <1>1, <1>2, <1>3, <1>4

PatternWidth(p) == Len(p.head) + (IF p.tail = << >> THEN 0 ELSE Len(p.tail) + p.gap)
IsPattern(p) == Len(p.head) \in Nat /\ Len(p.tail) \in Nat /\ p.gap \in Nat
ArePatterns(P) == IsFiniteSet(P) /\ \A p \in P : IsPattern(p)

\* The front of a sequence, place by place.
LEMMA FrontIs ==
    ASSUME NEW S, NEW s \in Seq(S), NEW n \in 0 .. Len(s)
    PROVE  /\ SubSeq(s, 1, n) \in Seq(S) /\ Len(SubSeq(s, 1, n)) = n
           /\ \A i \in 1 .. n : SubSeq(s, 1, n)[i] = s[i]
<1>1. n \in Nat /\ Len(s) \in Nat /\ n <= Len(s) /\ \A i \in 1 .. n : s[i] \in S
    OBVIOUS
<1>. DEFINE t == SubSeq(s, 1, n)
<1>2. /\ t \in Seq(S) /\ Len(t) = (IF 1 <= n THEN n - 1 + 1 ELSE 0)
      /\ \A i \in 1 .. n - 1 + 1 : t[i] = s[1 + i - 1]
    BY <1>1, SubSeqProperties
<1>. HIDE DEF t
<1>3. Len(t) = n /\ \A i \in 1 .. n : t[i] = s[i]
    BY <1>1, <1>2
<1>. QED  BY <1>2, <1>3 DEF t

\* What is left of an end when both lose as much at their end.
LEMMA EndsOfFronts ==
    ASSUME NEW S, NEW s \in Seq(S), NEW w \in Seq(S), IsEnd(w, s), NEW k \in 0 .. Len(w)
    PROVE  IsEnd(SubSeq(w, 1, Len(w) - k), SubSeq(s, 1, Len(s) - k))
<1>. DEFINE a == Len(w)  b == Len(s)  x == SubSeq(w, 1, a - k)  y == SubSeq(s, 1, b - k)
<1>1. a \in Nat /\ b \in Nat /\ a <= b /\ k \in Nat /\ k <= a
    BY DEF IsEnd
<1>2. a - k \in 0 .. a /\ b - k \in 0 .. b
  <2>. HIDE DEF a, b
  <2>. QED  BY <1>1
<1>3. Len(x) = a - k /\ \A i \in 1 .. a - k : x[i] = w[i]
    BY <1>2, FrontIs
<1>4. Len(y) = b - k /\ \A i \in 1 .. b - k : y[i] = s[i]
    BY <1>2, FrontIs
<1>5. \A i \in 1 .. a : w[i] = s[b - a + i]
    BY DEF IsEnd
<1>. HIDE DEF a, b, x, y
<1>6. ASSUME NEW i \in 1 .. a - k PROVE x[i] = y[b - k - (a - k) + i]
  <2>1. i \in 1 .. a /\ b - k - (a - k) + i = b - a + i /\ b - a + i \in 1 .. b - k
    BY <1>1
  <2>. QED  BY <1>3, <1>4, <1>5, <2>1
<1>7. Len(x) <= Len(y)
    BY <1>1, <1>3, <1>4
<1>. QED  BY <1>3, <1>4, <1>6, <1>7 DEF IsEnd, a, b, x, y

\* A pattern matches a long enough end exactly if it matches the whole.
LEMMA MatchesAtEnd ==
    ASSUME NEW S, NEW s \in Seq(S), NEW w \in Seq(S), IsEnd(w, s),
           NEW p, IsPattern(p), Len(w) = Len(s) \/ PatternWidth(p) <= Len(w)
    PROVE  Matches(w, p) <=> Matches(s, p)
<1>1. CASE Len(w) = Len(s)
  <2>1. IsEnd(s, s)
    <3>1. Len(s) \in Nat /\ \A i \in 1 .. Len(s) : Len(s) - Len(s) + i = i
      OBVIOUS
    <3>. QED  BY <3>1 DEF IsEnd
  <2>. QED  BY <1>1, <2>1, EndIsOne
<1>2. CASE PatternWidth(p) <= Len(w)
  <2>. DEFINE a == Len(w)  b == Len(s)  h == Len(p.head)  t == Len(p.tail)
  <2>1. a \in Nat /\ b \in Nat /\ a <= b /\ h \in Nat /\ t \in Nat /\ p.gap \in Nat
    BY DEF IsPattern, IsEnd
  <2>2. CASE p.tail = << >>
    <3>1. h <= a
      <4>. HIDE DEF a, h
      <4>. QED  BY <1>2, <2>1, <2>2 DEF PatternWidth, a, h
    <3>2. IsSuffix(p.head, w) <=> IsSuffix(p.head, s)
      BY <3>1, <2>1, SuffixOfEnd
    <3>. QED  BY <2>2, <3>2 DEF Matches
  <2>3. CASE p.tail # << >>
    <3>1. h + (t + p.gap) <= a
      <4>. HIDE DEF a, h, t
      <4>. QED  BY <1>2, <2>3 DEF PatternWidth, a, h, t
    <3>2. t <= a
      <4>. HIDE DEF a, h, t
      <4>. QED  BY <2>1, <3>1
    <3>3. IsSuffix(p.tail, w) <=> IsSuffix(p.tail, s)
      BY <3>2, <2>1, SuffixOfEnd
    <3>4. ASSUME NEW g \in 0 .. p.gap
          PROVE  /\ a - t - g >= 0 /\ b - t - g >= 0
                 /\ IsSuffix(p.head, SubSeq(w, 1, a - t - g))
                       <=> IsSuffix(p.head, SubSeq(s, 1, b - t - g))
      <4>1. PICK k \in 0 .. a : k = t + g
        <5>. HIDE DEF a, h, t
        <5>. QED  BY <2>1, <3>1
      <4>2. a - t - g = a - k /\ b - t - g = b - k /\ h <= a - k /\ a - k \in 0 .. a /\ b - k \in 0 .. b
        <5>. HIDE DEF a, b, h, t
        <5>. QED  BY <2>1, <3>1, <4>1
      <4>. DEFINE x == SubSeq(w, 1, a - k)  y == SubSeq(s, 1, b - k)
      <4>3. IsEnd(x, y)
        BY EndsOfFronts
      <4>4. x \in Seq(S) /\ y \in Seq(S) /\ Len(x) = a - k
        BY <4>2, FrontIs
      <4>. HIDE DEF x, y
      <4>5. IsSuffix(p.head, x) <=> IsSuffix(p.head, y)
        BY <2>1, <4>2, <4>3, <4>4, SuffixOfEnd
      <4>6. a - t - g >= 0 /\ b - t - g >= 0
        <5>. HIDE DEF a, b, h, t
        <5>. QED  BY <2>1, <4>1, <4>2
      <4>. QED  BY <4>2, <4>5, <4>6 DEF x, y
    <3>. QED  BY <2>3, <3>3, <3>4 DEF Matches
  <2>. QED  BY <2>2, <2>3
<1>. QED  BY <1>1, <1>2

\* A set of numbers has a least one.
LEMMA Least ==
    ASSUME NEW S \in SUBSET Nat, S # {}
    PROVE  \E n \in S : \A m \in S : n <= m
<1>1. PICK n \in S : \A m \in S : ~(<<m, n>> \in OpToRel(<, Nat))
    BY NatLessThanWellFounded, WFMin
<1>2. \A m \in S : ~(m < n)
    BY <1>1, Zenon DEF OpToRel
<1>3. \A m \in S : n <= m
    BY <1>2
<1>. QED  BY <1>3

\* What is left of a finite set without one of its elements.
LEMMA OneLess ==
    ASSUME NEW S, IsFiniteSet(S), NEW x \in S
    PROVE  IsFiniteSet(S \ {x}) /\ Cardinality(S \ {x}) = Cardinality(S) - 1
           /\ Cardinality(S) \in Nat \ {0}
<1>1. Cardinality(S) \in Nat /\ Cardinality(S \ {x}) = Cardinality(S) - 1 /\ IsFiniteSet(S \ {x})
    BY FS_CardinalityType, FS_RemoveElement
<1>2. Cardinality(S) # 0
    BY FS_EmptySet
<1>. QED  BY <1>1, <1>2

\* What holds of the empty set, and of every set of which it holds without some
\* element, holds of a finite set.
LEMMA FiniteInduction ==
    ASSUME NEW S, IsFiniteSet(S), NEW G, {} \in G,
           \A s \in SUBSET S : \A x \in s : s \ {x} \in G => s \in G
    PROVE  S \in G
<1>. DEFINE B == {n \in Nat : \E s \in SUBSET S : Cardinality(s) = n /\ s \notin G}
<1>1. ASSUME B # {} PROVE FALSE
  <2>1. PICK n \in B : \A m \in B : n <= m
    BY <1>1, Least
  <2>2. PICK s \in SUBSET S : Cardinality(s) = n /\ s \notin G
    BY <2>1
  <2>3. PICK x \in s : TRUE
    BY <2>2
  <2>4. IsFiniteSet(s)
    BY FS_Subset
  <2>5. Cardinality(s \ {x}) = n - 1 /\ n \in Nat \ {0}
    BY <2>2, <2>3, <2>4, OneLess
  <2>6. n - 1 \notin B /\ n - 1 \in Nat
    <3>1. n - 1 \in Nat /\ ~(n <= n - 1)
      BY <2>5
    <3>. QED  BY <2>1, <3>1
  <2>. QED  BY <2>2, <2>3, <2>5, <2>6
<1>. QED  BY <1>1, FS_CardinalityType

\* A finite set of naturals has an upper bound.
LEMMA HasBound ==
    ASSUME NEW S, IsFiniteSet(S), S \subseteq Nat
    PROVE  \E n \in Nat : \A x \in S : x <= n
<1>. DEFINE G == {s \in SUBSET S : \E n \in Nat : \A x \in s : x <= n}
<1>1. {} \in G
    BY 0 \in Nat
<1>2. ASSUME NEW s \in SUBSET S, NEW x \in s, s \ {x} \in G PROVE s \in G
  <2>1. PICK n \in Nat : \A y \in s \ {x} : y <= n
    BY <1>2
  <2>2. x \in Nat
    OBVIOUS
  <2>3. PICK m \in Nat : n <= m /\ x <= m
    BY <2>2
  <2>4. ASSUME NEW y \in s PROVE y <= m
    BY <2>1, <2>3
  <2>. QED  BY <2>4
<1>3. S \in G
  <2>. HIDE DEF G
  <2>. QED  BY <1>1, <1>2, FiniteInduction
<1>. QED  BY <1>3

\* The width of a set of patterns covers each of them.
LEMMA WidthCovers ==
    ASSUME NEW P, ArePatterns(P), P # {}
    PROVE  Width(P) \in Nat /\ \A p \in P : PatternWidth(p) <= Width(P)
<1>. DEFINE W == {PatternWidth(p) : p \in P}
<1>1. \A p \in P : PatternWidth(p) \in Nat
    BY DEF ArePatterns, IsPattern, PatternWidth
<1>2. Width(P) = CHOOSE n \in W : \A p \in P : PatternWidth(p) <= n
    BY DEF Width, PatternWidth
<1>3. IsFiniteSet(W)
  <2>1. PICK f : f = [p \in P |-> PatternWidth(p)]
    OBVIOUS
  <2>2. f \in Surjection(P, W)
    BY <2>1 DEF Surjection
  <2>. HIDE DEF W
  <2>. QED  BY <2>2, FS_Surjection DEF ArePatterns
<1>4. W \subseteq Nat /\ W # {} /\ \A p \in P : PatternWidth(p) \in W
    BY <1>1
<1>. HIDE DEF W
<1>5. PICK b \in Nat : \A x \in W : x <= b
    BY <1>3, <1>4, HasBound
<1>. DEFINE D == {b - x : x \in W}
<1>6. D \in SUBSET Nat /\ D # {}
  <2>1. \A x \in W : b - x \in Nat
    BY <1>4, <1>5
  <2>. QED  BY <1>4, <2>1
<1>7. PICK d \in D : \A m \in D : d <= m
  <2>. HIDE DEF D
  <2>. QED  BY <1>6, Least
<1>8. PICK n \in W : d = b - n
    OBVIOUS
<1>9. \A x \in W : x <= n
  <2>1. ASSUME NEW x \in W PROVE x <= n
    <3>1. b - n <= b - x
      BY <1>7, <1>8
    <3>. QED  BY <1>4, <3>1
  <2>. QED  BY <2>1
<1>. HIDE DEF D
<1>10. Width(P) \in W /\ \A p \in P : PatternWidth(p) <= Width(P)
    BY <1>2, <1>4, <1>9
<1>. QED  BY <1>4, <1>10

\* A window as wide as all patterns is all of the text that matching them needs.
LEMMA WindowIsEnough ==
    ASSUME NEW S, NEW s \in Seq(S), NEW Q, ArePatterns(Q), NEW P \in SUBSET Q
    PROVE  MatchesOne(LastOf(s, Width(Q)), P) <=> MatchesOne(s, P)
<1>1. ASSUME NEW p \in P PROVE Matches(LastOf(s, Width(Q)), p) <=> Matches(s, p)
  <2>1. Width(Q) \in Nat /\ PatternWidth(p) <= Width(Q) /\ IsPattern(p)
    BY WidthCovers DEF ArePatterns
  <2>. DEFINE w == LastOf(s, Width(Q))
  <2>2. w \in Seq(S) /\ IsEnd(w, s) /\ Len(w) = IF Len(s) > Width(Q) THEN Width(Q) ELSE Len(s)
    BY <2>1, LastOfIs
  <2>. HIDE DEF w
  <2>3. Len(w) = Len(s) \/ PatternWidth(p) <= Len(w)
    BY <2>1, <2>2
  <2>. QED  BY <2>1, <2>2, <2>3, MatchesAtEnd DEF w
<1>. QED  BY <1>1 DEF MatchesOne

\* A window moves with the text.
LEMMA WindowMoves ==
    ASSUME NEW S, NEW s \in Seq(S), NEW e \in S, NEW n \in Nat
    PROVE  LastOf(Append(LastOf(s, n), e), n) = LastOf(Append(s, e), n)
<1>. DEFINE w == LastOf(s, n)  a == Append(w, e)  b == Append(s, e)
<1>1. w \in Seq(S) /\ IsEnd(w, s) /\ Len(w) = IF Len(s) > n THEN n ELSE Len(s)
    BY LastOfIs
<1>. HIDE DEF w
<1>2. /\ a \in Seq(S) /\ Len(a) = Len(w) + 1 /\ a[Len(w) + 1] = e
      /\ \A i \in 1 .. Len(w) : a[i] = w[i]
    BY <1>1, AppendProperties
<1>3. /\ b \in Seq(S) /\ Len(b) = Len(s) + 1 /\ b[Len(s) + 1] = e
      /\ \A i \in 1 .. Len(s) : b[i] = s[i]
    BY AppendProperties
<1>. HIDE DEF a, b
<1>4. Len(w) \in Nat /\ Len(s) \in Nat /\ Len(w) <= Len(s)
    BY <1>1 DEF IsEnd
<1>5. IsEnd(a, b)
  <2>1. ASSUME NEW i \in 1 .. Len(a) PROVE a[i] = b[Len(b) - Len(a) + i]
    <3>1. CASE i = Len(w) + 1
      BY <1>2, <1>3, <1>4, <3>1
    <3>2. CASE i # Len(w) + 1
      <4>1. i \in 1 .. Len(w) /\ Len(b) - Len(a) + i = Len(s) - Len(w) + i
        BY <1>2, <1>3, <1>4, <3>2
      <4>2. Len(s) - Len(w) + i \in 1 .. Len(s)
        BY <1>4, <4>1, PlaceFromEnd
      <4>3. w[i] = s[Len(s) - Len(w) + i]
        BY <1>1, <4>1 DEF IsEnd
      <4>. QED  BY <1>2, <1>3, <4>1, <4>2, <4>3
    <3>. QED  BY <3>1, <3>2
  <2>2. Len(a) <= Len(b)
    BY <1>2, <1>3, <1>4
  <2>. QED  BY <2>1, <2>2 DEF IsEnd
<1>. DEFINE x == LastOf(a, n)  y == LastOf(b, n)
<1>6. x \in Seq(S) /\ IsEnd(x, a) /\ Len(x) = IF Len(a) > n THEN n ELSE Len(a)
    BY <1>2, LastOfIs
<1>7. y \in Seq(S) /\ IsEnd(y, b) /\ Len(y) = IF Len(b) > n THEN n ELSE Len(b)
    BY <1>3, LastOfIs
<1>. HIDE DEF x, y
<1>8. IsEnd(x, b)
    BY <1>2, <1>3, <1>5, <1>6, EndOfEnd
<1>9. Len(x) = Len(y)
    BY <1>1, <1>2, <1>3, <1>4, <1>6, <1>7
<1>10. x = y
    BY <1>6, <1>7, <1>8, <1>9, EndIsOne
<1>. QED  BY <1>10 DEF w, a, b, x, y

Released == [at |-> "released"]

ArmedGates(S) ==
    [at : {"armed"}, budget : Int, count : Nat, window : Seq(S), forcing : 0 .. Len(Close),
     spoken : Seq(S), loop : BOOLEAN]

\* An armed gate knows the end of a text that does not end the reasoning, and how
\* much of the delimiter stands there if it is being forced.
FollowsText(g, S, text) ==
    /\ g \in ArmedGates(S)
    /\ g.window = LastOf(text, Width(Ends))
    /\ ~Reasoned(text)
    /\ g.forcing > 0 => IsSuffix(SubSeq(Close, 1, g.forcing - 1), text)

\* The closing delimiter is not empty.
LEMMA CloseLength == Len(Close) \in Nat \ {0}
BY GatesAssumption

\* What ends a reasoning block is a finite set of patterns of some width.
LEMMA EndsArePatterns == ArePatterns(Ends) /\ Ends # {} /\ Width(Ends) \in Nat
<1>1. IsPattern(Exactly(Close))
    BY CloseLength DEF Exactly, IsPattern
<1>2. \A p \in Releases : IsPattern(p)
    BY ReleasesAssumption DEF IsPattern
<1>3. IsFiniteSet(Ends)
    BY ReleasesAssumption, FS_AddElement DEF Ends
<1>4. ArePatterns(Ends) /\ Ends # {}
    BY <1>1, <1>2, <1>3 DEF ArePatterns, Ends
<1>. QED  BY <1>4, WidthCovers

\* A sequence with one element more.
LEMMA OneTokenMore ==
    ASSUME NEW S, NEW s \in Seq(S), NEW e \in S
    PROVE  /\ Append(s, e) \in Seq(S) /\ Len(Append(s, e)) = Len(s) + 1
           /\ Append(s, e)[Len(s) + 1] = e /\ \A i \in 1 .. Len(s) : Append(s, e)[i] = s[i]
           /\ \A n \in 0 .. Len(s) : SubSeq(Append(s, e), 1, n) = SubSeq(s, 1, n)
           /\ SubSeq(Append(s, e), 1, Len(s) + 1) = Append(s, e)
<1>. DEFINE t == Append(s, e)
<1>1. /\ t \in Seq(S) /\ Len(t) = Len(s) + 1 /\ t[Len(s) + 1] = e
      /\ \A i \in 1 .. Len(s) : t[i] = s[i]
    BY AppendProperties
<1>2. Len(s) \in Nat
    OBVIOUS
<1>. HIDE DEF t
<1>3. ASSUME NEW n \in 0 .. Len(s) PROVE SubSeq(t, 1, n) = SubSeq(s, 1, n)
  <2>1. n \in 0 .. Len(t) /\ n \in Nat /\ \A i \in 1 .. n : i \in 1 .. Len(s)
    BY <1>1, <1>2
  <2>. DEFINE x == SubSeq(t, 1, n)  y == SubSeq(s, 1, n)
  <2>2. x \in Seq(S) /\ Len(x) = n /\ \A i \in 1 .. n : x[i] = t[i]
    BY <1>1, <2>1, FrontIs
  <2>3. y \in Seq(S) /\ Len(y) = n /\ \A i \in 1 .. n : y[i] = s[i]
    BY FrontIs
  <2>. HIDE DEF x, y
  <2>4. x = y
    BY <1>1, <2>1, <2>2, <2>3, SeqEqual
  <2>. QED  BY <2>4 DEF x, y
<1>4. SubSeq(t, 1, Len(s) + 1) = t
    BY <1>1, SubSeqFull
<1>. QED  BY <1>1, <1>3, <1>4 DEF t

\* The reasoning is over once it is over, or when the last token ends it.
LEMMA ReasonedOneMore ==
    ASSUME NEW S, NEW s \in Seq(S), NEW e \in S
    PROVE  Reasoned(Append(s, e)) <=> Reasoned(s) \/ MatchesOne(Append(s, e), Ends)
<1>. DEFINE t == Append(s, e)  l == Len(s)
<1>1. l \in Nat
    OBVIOUS
<1>2. Len(t) = l + 1 /\ SubSeq(t, 1, l + 1) = t /\ \A n \in 0 .. l : SubSeq(t, 1, n) = SubSeq(s, 1, n)
    BY OneTokenMore
<1>. HIDE DEF t
<1>3. Reasoned(s) <=> \E n \in 1 .. l : MatchesOne(SubSeq(s, 1, n), Ends)
    BY DEF Reasoned
<1>4. Reasoned(t) <=> \E n \in 1 .. l + 1 : MatchesOne(SubSeq(t, 1, n), Ends)
    BY <1>2 DEF Reasoned
<1>. HIDE DEF l
<1>5. 1 .. l + 1 = (1 .. l) \cup {l + 1} /\ 1 .. l \subseteq 0 .. l
    BY <1>1
<1>6. \A n \in 1 .. l : SubSeq(t, 1, n) = SubSeq(s, 1, n)
    BY <1>2, <1>5
<1>7. Reasoned(t) <=> (\E n \in 1 .. l : MatchesOne(SubSeq(t, 1, n), Ends)) \/ MatchesOne(t, Ends)
    BY <1>2, <1>4, <1>5
<1>. QED  BY <1>3, <1>6, <1>7 DEF t

\* One more token of what a text ends with.
LEMMA SuffixOneMore ==
    ASSUME NEW S, NEW c \in Seq(S), NEW s \in Seq(S), NEW k \in 1 .. Len(c),
           IsSuffix(SubSeq(c, 1, k - 1), s)
    PROVE  IsSuffix(SubSeq(c, 1, k), Append(s, c[k]))
<1>. DEFINE a == SubSeq(c, 1, k - 1)  b == SubSeq(c, 1, k)  t == Append(s, c[k])
<1>1. k \in Nat /\ k - 1 \in 0 .. Len(c) /\ k \in 0 .. Len(c) /\ Len(s) \in Nat /\ c[k] \in S /\ k >= 1
    OBVIOUS
<1>2. a \in Seq(S) /\ Len(a) = k - 1 /\ \A i \in 1 .. k - 1 : a[i] = c[i]
    BY <1>1, FrontIs
<1>3. b \in Seq(S) /\ Len(b) = k /\ \A i \in 1 .. k : b[i] = c[i]
    BY <1>1, FrontIs
<1>4. /\ t \in Seq(S) /\ Len(t) = Len(s) + 1 /\ t[Len(s) + 1] = c[k]
      /\ \A i \in 1 .. Len(s) : t[i] = s[i]
    BY <1>1, AppendProperties
<1>. HIDE DEF a, b, t
<1>5. k - 1 <= Len(s) /\ \A i \in 1 .. k - 1 : a[i] = s[Len(s) - (k - 1) + i]
  <2>1. IsSuffix(a, s)
    BY DEF a
  <2>2. Len(a) \in Nat
    BY <1>1, <1>2
  <2>3. Len(a) <= Len(s) /\ \A i \in 1 .. Len(a) : a[i] = s[Len(s) - Len(a) + i]
    BY <1>1, <2>1, <2>2, SuffixIs
  <2>. QED  BY <1>2, <2>3
<1>6. ASSUME NEW i \in 1 .. k PROVE b[i] = t[Len(t) - k + i]
  <2>1. CASE i = k
    <3>1. Len(t) - k + k = Len(s) + 1
      BY <1>1, <1>4
    <3>. QED  BY <1>3, <1>4, <2>1, <3>1
  <2>2. CASE i # k
    <3>1. i \in 1 .. k - 1 /\ Len(t) - k + i = Len(s) - (k - 1) + i
      BY <1>1, <1>4, <2>2
    <3>2. Len(s) - (k - 1) + i \in 1 .. Len(s)
      BY <1>1, <1>5, <3>1, PlaceFromEnd
    <3>. QED  BY <1>2, <1>3, <1>4, <1>5, <3>1, <3>2
  <2>. QED  BY <2>1, <2>2
<1>7. k <= Len(t) /\ Len(t) \in Nat
    BY <1>1, <1>4, <1>5
<1>8. IsSuffix(b, t)
    BY <1>1, <1>3, <1>6, <1>7, SuffixIs
<1>. QED  BY <1>8 DEF b, t

\* Where the delimiter goes on: at one of its tokens, behind those before it.
LEMMA ForceBaseFollows ==
    ASSUME NEW S, Close \in Seq(S), NEW text \in Seq(S), NEW g, FollowsText(g, S, text)
    PROVE  /\ ForceBase(g) \in 1 .. Len(Close)
           /\ IsSuffix(SubSeq(Close, 1, ForceBase(g) - 1), text)
           /\ g.forcing > 0 => ForceBase(g) = g.forcing
<1>1. g.forcing \in 0 .. Len(Close) /\ g.window \in Seq(S) /\ Len(Close) \in Nat \ {0}
    BY CloseLength DEF FollowsText, ArmedGates
<1>2. CASE g.forcing > 0
    BY <1>1, <1>2 DEF ForceBase, FollowsText
<1>3. CASE ~(g.forcing > 0)
  <2>. DEFINE said == {k \in 0 .. Len(Close) - 1 : IsSuffix(SubSeq(Close, 1, k), g.window)}
              unsaid == {Len(Close) - k : k \in said}
  <2>1. 0 \in said
    <3>1. SubSeq(Close, 1, 0) \in Seq(S) /\ Len(SubSeq(Close, 1, 0)) = 0
      <4>1. 0 \in 0 .. Len(Close)
        BY <1>1
      <4>. QED  BY <4>1, FrontIs
    <3>2. Len(g.window) \in Nat
      BY <1>1
    <3>3. IsSuffix(SubSeq(Close, 1, 0), g.window)
      <4>. DEFINE h == SubSeq(Close, 1, 0)  w == g.window
      <4>1. Len(h) = 0 /\ Len(w) \in Nat
        BY <3>1, <3>2
      <4>. HIDE DEF h, w
      <4>2. Len(h) <= Len(w) /\ \A i \in 1 .. Len(h) : h[i] = w[Len(w) - Len(h) + i]
        BY <4>1
      <4>3. IsSuffix(h, w)
        BY <4>1, <4>2, SuffixIs
      <4>. QED  BY <4>3 DEF h, w
    <3>. QED  BY <1>1, <3>3
  <2>2. unsaid \in SUBSET Nat /\ unsaid # {}
    <3>1. \A k \in said : Len(Close) - k \in Nat
      BY <1>1
    <3>. HIDE DEF said
    <3>. QED  BY <2>1, <3>1
  <2>3. PICK m \in unsaid : \A x \in unsaid : m <= x
    <3>. HIDE DEF unsaid
    <3>. QED  BY <2>2, Least
  <2>4. said \subseteq 0 .. Len(Close) - 1
    OBVIOUS
  <2>5. \E k \in said : \A j \in said : j <= k
    <3>. HIDE DEF said
    <3>1. PICK k \in said : m = Len(Close) - k
      OBVIOUS
    <3>2. ASSUME NEW j \in said PROVE j <= k
      <4>1. Len(Close) - k <= Len(Close) - j
        BY <2>3, <3>1
      <4>2. j \in Int /\ k \in Int /\ Len(Close) \in Int
        BY <1>1, <2>4
      <4>. QED  BY <4>1, <4>2
    <3>. QED  BY <3>2
  <2>6. ForceBase(g) = 1 + CHOOSE k \in said : \A j \in said : j <= k
    BY <1>3 DEF ForceBase
  <2>7. PICK k \in said : ForceBase(g) = 1 + k
    <3>. HIDE DEF said
    <3>. QED  BY <2>5, <2>6
  <2>8. k \in 0 .. Len(Close) - 1 /\ IsSuffix(SubSeq(Close, 1, k), g.window)
    OBVIOUS
  <2>9. k \in 0 .. Len(Close) /\ Len(SubSeq(Close, 1, k)) = k /\ k \in Nat
    <3>1. k \in 0 .. Len(Close) /\ k \in Nat
      BY <1>1, <2>8
    <3>. QED  BY <3>1, FrontIs
  <2>10. IsEnd(g.window, text)
    BY EndsArePatterns, LastOfIs DEF FollowsText
  <2>11. IsSuffix(SubSeq(Close, 1, k), text)
    <3>. DEFINE h == SubSeq(Close, 1, k)
    <3>1. Len(h) \in Nat /\ IsSuffix(h, g.window)
      BY <2>8, <2>9
    <3>. HIDE DEF h
    <3>2. IsSuffix(h, text)
      BY <1>1, <2>10, <3>1, SuffixOfEnd
    <3>. QED  BY <3>2 DEF h
  <2>12. ForceBase(g) - 1 = k /\ ForceBase(g) \in 1 .. Len(Close)
    BY <1>1, <2>7, <2>8
  <2>. QED  BY <1>3, <2>11, <2>12
<1>. QED  BY <1>2, <1>3

Forces(g, token) == Spent(g) /\ token = ForcedNext(g)
SeesLoop(g, token) == ~Forces(g, token) /\ ~g.loop /\ Loops(Append(g.spoken, token))

\* What a commit makes of a gate that stays armed.
MovedGate(g, token) ==
    [at |-> "armed",
     budget |-> IF SeesLoop(g, token) /\ g.count + 1 < g.budget THEN g.count + 1 ELSE g.budget,
     count |-> IF Forces(g, token) THEN g.count ELSE g.count + 1,
     window |-> LastOf(Append(g.window, token), Width(Ends)),
     forcing |-> IF Forces(g, token) THEN ForceBase(g) + 1 ELSE 0,
     spoken |-> IF Forces(g, token) THEN g.spoken ELSE Append(g.spoken, token),
     loop |-> g.loop \/ SeesLoop(g, token)]

\* CommitThink in one expression: the gate lets go, or it moves on.
LEMMA CommitIs ==
    ASSUME NEW S, NEW g \in ArmedGates(S), NEW token
    PROVE  CommitThink(g, token) =
              IF \/ MatchesOne(LastOf(Append(g.window, token), Width(Ends)), Ends)
                 \/ Forces(g, token) /\ ForceBase(g) + 1 > Len(Close)
              THEN Released ELSE MovedGate(g, token)
<1>. DEFINE forced == Spent(g) /\ token = ForcedNext(g)
            said == Append(g.spoken, token)
            loops == ~forced /\ ~g.loop /\ Loops(said)
            window == LastOf(Append(g.window, token), Width(Ends))
            forcing == IF forced THEN ForceBase(g) + 1 ELSE 0
            spoken == IF forced THEN g.spoken ELSE said
            count == IF forced THEN g.count ELSE g.count + 1
            budget == IF loops /\ g.count + 1 < g.budget THEN g.count + 1 ELSE g.budget
            over == g.loop \/ loops
            moved == [g EXCEPT !.window = window, !.forcing = forcing, !.spoken = spoken,
                               !.count = count, !.loop = over, !.budget = budget]
            new == [at |-> "armed", budget |-> budget, count |-> count, window |-> window,
                    forcing |-> forcing, spoken |-> spoken, loop |-> over]
<1>1. CommitThink(g, token)
          = IF MatchesOne(moved.window, Ends) \/ moved.forcing > Len(Close)
            THEN Released ELSE moved
    BY DEF CommitThink, Released
<1>2. g = [at |-> "armed", budget |-> g.budget, count |-> g.count, window |-> g.window,
           forcing |-> g.forcing, spoken |-> g.spoken, loop |-> g.loop]
    BY DEF ArmedGates
<1>3. new = MovedGate(g, token)
    BY DEF MovedGate, Forces, SeesLoop
<1>4. forced <=> Forces(g, token)
    BY DEF Forces
<1>5. Len(Close) \in Nat \ {0}
    BY CloseLength
<1>6. forcing > Len(Close) <=> forced /\ ForceBase(g) + 1 > Len(Close)
  <2>. HIDE DEF forced
  <2>. QED  BY <1>5
<1>. HIDE DEF forced, said, loops, window, forcing, spoken, count, budget, over
<1>7. moved = new
  <2>1. moved \in [at : {"armed"}, budget : {budget}, count : {count}, window : {window},
                   forcing : {forcing}, spoken : {spoken}, loop : {over}]
    BY DEF ArmedGates
  <2>. HIDE DEF moved
  <2>. QED  BY <2>1
<1>8. moved.window = window /\ moved.forcing = forcing
    BY <1>7
<1>. HIDE DEF moved, new
<1>9. CommitThink(g, token)
          = IF MatchesOne(window, Ends) \/ (Forces(g, token) /\ ForceBase(g) + 1 > Len(Close))
            THEN Released ELSE MovedGate(g, token)
    BY <1>1, <1>3, <1>4, <1>6, <1>7, <1>8
<1>. QED  BY <1>9 DEF window

\* A whole delimiter ends the reasoning.
LEMMA CloseEnds ==
    ASSUME NEW s, IsSuffix(Close, s)
    PROVE  MatchesOne(s, Ends)
<1>1. Exactly(Close) \in Ends /\ Matches(s, Exactly(Close))
    BY DEF Ends, Matches, Exactly
<1>. QED  BY <1>1 DEF MatchesOne

\* A gate that follows the text is released by the token that ends the reasoning,
\* or follows the text with the token.
LEMMA GateStep ==
    ASSUME NEW S, Close \in Seq(S), NEW text \in Seq(S), NEW g, FollowsText(g, S, text),
           NEW token \in S
    PROVE  \/ CommitThink(g, token) = Released /\ Reasoned(Append(text, token))
           \/ /\ CommitThink(g, token) = MovedGate(g, token)
              /\ FollowsText(MovedGate(g, token), S, Append(text, token))
<1>. DEFINE new == Append(text, token)  base == ForceBase(g)  window == LastOf(new, Width(Ends))
            forced == Forces(g, token)
<1>1. g \in ArmedGates(S) /\ g.window = LastOf(text, Width(Ends)) /\ ~Reasoned(text)
    BY DEF FollowsText
<1>2. new \in Seq(S)
    BY AppendProperties
<1>3. LastOf(Append(g.window, token), Width(Ends)) = window
    BY <1>1, EndsArePatterns, WindowMoves
<1>4. window \in Seq(S)
    BY <1>2, EndsArePatterns, LastOfIs
<1>5. Reasoned(new) <=> MatchesOne(new, Ends)
    BY <1>1, ReasonedOneMore
<1>6. MatchesOne(window, Ends) <=> MatchesOne(new, Ends)
    BY <1>2, EndsArePatterns, WindowIsEnough
<1>7. base \in 1 .. Len(Close) /\ IsSuffix(SubSeq(Close, 1, base - 1), text)
    BY ForceBaseFollows
<1>8. Len(Close) \in Nat \ {0}
    BY CloseLength
<1>9. forced => IsSuffix(SubSeq(Close, 1, base), new)
  <2>1. IsSuffix(SubSeq(Close, 1, base), Append(text, Close[base]))
    BY <1>7, SuffixOneMore
  <2>2. forced => token = Close[base]
    BY DEF Forces, ForcedNext
  <2>. QED  BY <2>1, <2>2
<1>10. CommitThink(g, token) =
          IF MatchesOne(window, Ends) \/ (forced /\ base + 1 > Len(Close))
          THEN Released ELSE MovedGate(g, token)
    BY <1>1, <1>3, CommitIs
<1>11. ASSUME forced, base + 1 > Len(Close) PROVE MatchesOne(new, Ends)
  <2>1. base = Len(Close)
    <3>. HIDE DEF base
    <3>. QED  BY <1>7, <1>8, <1>11
  <2>2. SubSeq(Close, 1, base) = Close
    BY <2>1, SubSeqFull
  <2>3. IsSuffix(Close, new)
    BY <1>9, <1>11, <2>2
  <2>. HIDE DEF new
  <2>. QED  BY <2>3, CloseEnds
<1>12. ASSUME ~(forced /\ base + 1 > Len(Close)), ~MatchesOne(new, Ends)
       PROVE  FollowsText(MovedGate(g, token), S, new)
  <2>. DEFINE m == MovedGate(g, token)
  <2>1. /\ m.window = window /\ m.forcing = IF forced THEN base + 1 ELSE 0
    BY <1>3 DEF MovedGate
  <2>2. m \in ArmedGates(S)
    <3>1. g.budget \in Int /\ g.count \in Nat /\ g.spoken \in Seq(S) /\ g.loop \in BOOLEAN
      BY <1>1 DEF ArmedGates
    <3>2. Append(g.spoken, token) \in Seq(S)
      BY <3>1, AppendProperties
    <3>3. m.forcing \in 0 .. Len(Close)
      <4>. HIDE DEF base, forced, m
      <4>. QED  BY <1>7, <1>8, <1>12, <2>1
    <3>4. m.budget \in Int
      <4>1. m.budget \in {g.count + 1, g.budget}
        BY DEF MovedGate
      <4>. HIDE DEF m
      <4>. QED  BY <3>1, <4>1
    <3>5. m.count \in Nat
      <4>1. m.count \in {g.count + 1, g.count}
        BY DEF MovedGate
      <4>. HIDE DEF m
      <4>. QED  BY <3>1, <4>1
    <3>6. m.spoken \in Seq(S)
      <4>1. m.spoken \in {g.spoken, Append(g.spoken, token)}
        BY DEF MovedGate
      <4>. HIDE DEF m
      <4>. QED  BY <3>1, <3>2, <4>1
    <3>7. m.loop \in BOOLEAN
      BY DEF MovedGate
    <3>8. m = [at |-> "armed", budget |-> m.budget, count |-> m.count, window |-> m.window,
               forcing |-> m.forcing, spoken |-> m.spoken, loop |-> m.loop]
      BY DEF MovedGate
    <3>. HIDE DEF m
    <3>. QED  BY <1>4, <2>1, <3>3, <3>4, <3>5, <3>6, <3>7, <3>8 DEF ArmedGates
  <2>3. m.forcing > 0 => IsSuffix(SubSeq(Close, 1, m.forcing - 1), new)
    <3>1. ASSUME m.forcing > 0 PROVE IsSuffix(SubSeq(Close, 1, m.forcing - 1), new)
      <4>1. forced /\ m.forcing - 1 = base
        <5>. HIDE DEF base, forced, m
        <5>. QED  BY <1>7, <2>1, <3>1
      <4>. HIDE DEF m, new, base, forced
      <4>. QED  BY <1>9, <4>1
    <3>. QED  BY <3>1
  <2>. HIDE DEF m, new, window
  <2>4. FollowsText(m, S, new)
    BY <1>5, <1>12, <2>1, <2>2, <2>3 DEF FollowsText, window
  <2>. QED  BY <2>4 DEF m
<1>. HIDE DEF new, window, forced, base
<1>13. \/ CommitThink(g, token) = Released /\ Reasoned(new)
       \/ /\ CommitThink(g, token) = MovedGate(g, token)
          /\ FollowsText(MovedGate(g, token), S, new)
    BY <1>5, <1>6, <1>10, <1>11, <1>12
<1>. QED  BY <1>13 DEF new

\* Until the budget is spent the gate counts every token; from then on the text
\* grows by the delimiter only.
Bounded(g, text, limit) ==
    /\ g.count <= Len(text) /\ g.spoken = SubSeq(text, 1, g.count)
    /\ Len(text) <= g.count + (IF g.forcing = 0 THEN 0 ELSE g.forcing - 1)
    /\ g.forcing > 0 \/ g.loop => Spent(g)
    /\ g.budget <= limit
    /\ \A n \in 1 .. g.count :
          n < g.count \/ ~Spent(g) => n < limit /\ ~Loops(SubSeq(text, 1, n))

\* What stands before the last tokens of a text, as many as the delimiter has,
\* has not spent the budget.
LEMMA BoundedSays ==
    ASSUME NEW S, NEW text \in Seq(S), NEW g, FollowsText(g, S, text), NEW limit \in Int,
           Bounded(g, text, limit), NEW n \in 1 .. Len(text) - Len(Close)
    PROVE  n < limit /\ ~Loops(SubSeq(text, 1, n))
<1>1. g.count \in Nat /\ g.forcing \in 0 .. Len(Close) /\ Len(Close) \in Nat \ {0} /\ Len(text) \in Nat
    BY CloseLength DEF FollowsText, ArmedGates
<1>2. Len(text) <= g.count + (IF g.forcing = 0 THEN 0 ELSE g.forcing - 1)
    BY DEF Bounded
<1>3. n \in 1 .. g.count /\ n < g.count
    BY <1>1, <1>2
<1>. QED  BY <1>3 DEF Bounded

\* A token that obeys the gate keeps it so.
LEMMA BoundedStep ==
    ASSUME NEW S, Close \in Seq(S), NEW text \in Seq(S), NEW g, FollowsText(g, S, text),
           NEW limit \in Int, Bounded(g, text, limit),
           NEW token \in S, Spent(g) => token = ForcedNext(g)
    PROVE  Bounded(MovedGate(g, token), Append(text, token), limit)
<1>. DEFINE m == MovedGate(g, token)  new == Append(text, token)  base == ForceBase(g)  l == Len(text)
<1>1. /\ g.at = "armed" /\ g.budget \in Int /\ g.count \in Nat /\ g.forcing \in 0 .. Len(Close)
      /\ g.loop \in BOOLEAN /\ Len(Close) \in Nat /\ l \in Nat
    BY CloseLength DEF FollowsText, ArmedGates
<1>2. /\ g.count <= l /\ g.spoken = SubSeq(text, 1, g.count)
      /\ l <= g.count + (IF g.forcing = 0 THEN 0 ELSE g.forcing - 1)
      /\ g.forcing > 0 \/ g.loop => Spent(g)
      /\ g.budget <= limit
    BY DEF Bounded
<1>3. \A n \in 1 .. g.count :
          n < g.count \/ ~Spent(g) => n < limit /\ ~Loops(SubSeq(text, 1, n))
    BY DEF Bounded
<1>4. /\ Len(new) = l + 1 /\ SubSeq(new, 1, l + 1) = new
      /\ \A n \in 0 .. l : SubSeq(new, 1, n) = SubSeq(text, 1, n)
    BY OneTokenMore
<1>5. base \in 1 .. Len(Close) /\ (g.forcing > 0 => base = g.forcing)
    BY ForceBaseFollows
<1>6. Spent(g) <=> g.count >= g.budget
    BY <1>1 DEF Spent
<1>7. Spent(m) <=> m.count >= m.budget
    BY DEF Spent, MovedGate
<1>8. CASE Spent(g)
  <2>1. Forces(g, token) /\ ~SeesLoop(g, token)
    BY <1>8 DEF Forces, SeesLoop
  <2>2. /\ m.count = g.count /\ m.spoken = g.spoken /\ m.budget = g.budget
        /\ m.forcing = base + 1 /\ m.loop = g.loop
    BY <1>1, <2>1 DEF MovedGate
  <2>. HIDE DEF m, new, base, l
  <2>3. Spent(m)
    BY <1>6, <1>7, <1>8, <2>2
  <2>4. m.count <= Len(new) /\ Len(new) <= m.count + (IF m.forcing = 0 THEN 0 ELSE m.forcing - 1)
    BY <1>1, <1>2, <1>4, <1>5, <2>2, SMTT(30)
  <2>5. m.spoken = SubSeq(new, 1, m.count)
    <3>1. g.count \in 0 .. l
      BY <1>1, <1>2
    <3>. QED  BY <1>2, <1>4, <2>2, <3>1
  <2>6. ASSUME NEW n \in 1 .. m.count, n < m.count \/ ~Spent(m)
        PROVE  n < limit /\ ~Loops(SubSeq(new, 1, n))
    <3>1. n \in 1 .. g.count /\ n < g.count /\ n \in 0 .. l
      BY <1>1, <1>2, <2>2, <2>3, <2>6
    <3>. QED  BY <1>3, <1>4, <3>1
  <2>7. m.budget <= limit
    BY <1>2, <2>2
  <2>8. Bounded(m, new, limit)
    BY <2>3, <2>4, <2>5, <2>6, <2>7 DEF Bounded
  <2>. QED  BY <2>8 DEF m, new
<1>9. CASE ~Spent(g)
  <2>1. ~Forces(g, token) /\ g.forcing = 0 /\ g.loop = FALSE /\ g.count = l /\ g.count < g.budget
    <3>1. g.forcing = 0 /\ g.loop = FALSE
      BY <1>1, <1>2, <1>9
    <3>2. g.count = l
      <4>. HIDE DEF l
      <4>. QED  BY <1>1, <1>2, <3>1
    <3>3. g.count < g.budget
      BY <1>1, <1>6, <1>9
    <3>. QED  BY <1>9, <3>1, <3>2, <3>3 DEF Forces
  <2>2. SubSeq(text, 1, l) = text
    BY SubSeqFull
  <2>3. Append(g.spoken, token) = new
    BY <1>2, <2>1, <2>2
  <2>4. SeesLoop(g, token) <=> Loops(new)
    BY <2>1, <2>3 DEF SeesLoop
  <2>5. /\ m.count = g.count + 1 /\ m.spoken = new /\ m.forcing = 0
        /\ m.loop = (g.loop \/ SeesLoop(g, token))
        /\ m.budget = IF SeesLoop(g, token) /\ g.count + 1 < g.budget THEN g.count + 1 ELSE g.budget
    BY <2>1, <2>3 DEF MovedGate
  <2>. HIDE DEF m, new, base, l
  <2>6. m.budget <= g.budget /\ (Loops(new) => m.count >= m.budget)
    BY <1>1, <2>4, <2>5
  <2>7. m.loop => Spent(m)
    BY <1>7, <2>1, <2>4, <2>5, <2>6
  <2>8. m.count <= Len(new) /\ Len(new) <= m.count + (IF m.forcing = 0 THEN 0 ELSE m.forcing - 1)
    BY <1>1, <1>4, <2>1, <2>5
  <2>9. m.spoken = SubSeq(new, 1, m.count)
    BY <1>4, <2>1, <2>5
  <2>10. m.budget <= limit
    <3>1. m.budget \in Int
      BY <1>1, <2>5
    <3>. QED  BY <1>1, <1>2, <2>6, <3>1
  <2>11. ASSUME NEW n \in 1 .. m.count, n < m.count \/ ~Spent(m)
         PROVE  n < limit /\ ~Loops(SubSeq(new, 1, n))
    <3>1. CASE n = m.count
      <4>1. ~Spent(m) /\ ~Loops(new) /\ SubSeq(new, 1, n) = new
        BY <1>1, <1>4, <1>7, <2>1, <2>5, <2>6, <2>11, <3>1
      <4>2. m.count < m.budget
        <5>1. m.budget \in Int /\ m.count \in Int
          BY <1>1, <2>5
        <5>. QED  BY <1>7, <4>1, <5>1
      <4>3. n < limit
        BY <1>1, <2>5, <2>10, <3>1, <4>2
      <4>. QED  BY <4>1, <4>3
    <3>2. CASE n # m.count
      <4>1. n \in 1 .. g.count /\ n \in 0 .. l
        BY <1>1, <2>1, <2>5, <2>11, <3>2
      <4>. QED  BY <1>3, <1>4, <1>9, <4>1
    <3>. QED  BY <3>1, <3>2
  <2>12. m.forcing > 0 => Spent(m)
    BY <2>5
  <2>13. Bounded(m, new, limit)
    BY <2>7, <2>8, <2>9, <2>10, <2>11, <2>12 DEF Bounded
  <2>. QED  BY <2>13 DEF m, new
<1>. QED  BY <1>8, <1>9

\* A gate that was armed this moment follows the empty text.
LEMMA ArmFollows ==
    ASSUME NEW S, NEW b \in Int, NEW n \in Nat
    PROVE  /\ EffectiveBudget(b, n) \in Int
           /\ FollowsText(ArmThink(b, n), S, << >>)
           /\ Bounded(ArmThink(b, n), << >>, EffectiveBudget(b, n))
<1>. DEFINE g == ArmThink(b, n)  limit == EffectiveBudget(b, n)
<1>1. limit \in Int
  <2>1. Len(Close) \in Nat /\ DefaultBudget \in Nat /\ Unbounded \in Nat
    BY GatesAssumption
  <2>2. (n * 3) \div 4 \in Int
    OBVIOUS
  <2>. QED  BY <2>1, <2>2 DEF EffectiveBudget
<1>2. g = [at |-> "armed", budget |-> limit, count |-> 0, window |-> << >>, forcing |-> 0,
           spoken |-> << >>, loop |-> FALSE]
    BY DEF ArmThink
<1>3. << >> \in Seq(S) /\ Len(<< >>) = 0
    OBVIOUS
<1>. HIDE DEF g, limit
<1>4. LastOf(<< >>, Width(Ends)) = << >>
  <2>1. LastOf(<< >>, Width(Ends)) = SubSeq(<< >>, 1, 0)
    BY <1>3, EndsArePatterns DEF LastOf
  <2>. QED  BY <2>1, SubSeqEmpty
<1>5. ~Reasoned(<< >>)
    BY <1>3 DEF Reasoned
<1>6. g \in ArmedGates(S)
    BY <1>1, <1>2, <1>3, CloseLength DEF ArmedGates
<1>7. FollowsText(g, S, << >>)
    BY <1>2, <1>4, <1>5, <1>6 DEF FollowsText
<1>8. Bounded(g, << >>, limit)
  <2>1. SubSeq(<< >>, 1, 0) = << >>
    BY SubSeqEmpty
  <2>2. limit <= limit
    BY <1>1
  <2>. QED  BY <1>2, <1>3, <2>1, <2>2 DEF Bounded
<1>. QED  BY <1>1, <1>7, <1>8 DEF g, limit

\* A call is open if the last token opens it, or if it was and the token does not close it.
LEMMA OpenOneMore ==
    ASSUME NEW S, NEW s \in Seq(S), NEW e \in S
    PROVE  OpenCall(Append(s, e)) <=>
              \/ MatchesOne(Append(s, e), Openers)
              \/ OpenCall(s) /\ ~MatchesOne(Append(s, e), Closers)
<1>. DEFINE t == Append(s, e)  l == Len(s)
            O(n) == MatchesOne(SubSeq(s, 1, n), Openers)
            C(n) == MatchesOne(SubSeq(s, 1, n), Closers)
            o == MatchesOne(t, Openers)  c == MatchesOne(t, Closers)
<1>1. l \in Nat
    OBVIOUS
<1>2. Len(t) = l + 1 /\ SubSeq(t, 1, l + 1) = t /\ \A n \in 0 .. l : SubSeq(t, 1, n) = SubSeq(s, 1, n)
    BY OneTokenMore
<1>3. OpenCall(s) <=> \E n \in 1 .. l : O(n) /\ \A m \in n + 1 .. l : ~C(m)
    BY DEF OpenCall
<1>4. OpenCall(t) <=> \E n \in 1 .. l + 1 :
          /\ MatchesOne(SubSeq(t, 1, n), Openers)
          /\ \A m \in n + 1 .. l + 1 : ~MatchesOne(SubSeq(t, 1, m), Closers)
    BY <1>2 DEF OpenCall
<1>5. /\ \A n \in 1 .. l : MatchesOne(SubSeq(t, 1, n), Openers) = O(n)
      /\ \A n \in 1 .. l : MatchesOne(SubSeq(t, 1, n), Closers) = C(n)
      /\ MatchesOne(SubSeq(t, 1, l + 1), Openers) = o /\ MatchesOne(SubSeq(t, 1, l + 1), Closers) = c
  <2>1. \A n \in 1 .. l : n \in 0 .. l
    BY <1>1
  <2>. HIDE DEF t, l
  <2>2. \A n \in 1 .. l : SubSeq(t, 1, n) = SubSeq(s, 1, n)
    BY <1>2, <2>1
  <2>. QED  BY <1>2, <2>2
<1>. HIDE DEF t, l, O, C, o, c
<1>6. OpenCall(t) <=> \E n \in 1 .. l + 1 :
          /\ IF n = l + 1 THEN o ELSE O(n)
          /\ \A m \in n + 1 .. l + 1 : ~(IF m = l + 1 THEN c ELSE C(m))
  <2>1. \A n \in 1 .. l + 1 : MatchesOne(SubSeq(t, 1, n), Openers) = IF n = l + 1 THEN o ELSE O(n)
    <3>1. ASSUME NEW n \in 1 .. l + 1
          PROVE  MatchesOne(SubSeq(t, 1, n), Openers) = IF n = l + 1 THEN o ELSE O(n)
      <4>1. n = l + 1 \/ n \in 1 .. l
        BY <1>1
      <4>. QED  BY <1>1, <1>5, <4>1
    <3>. QED  BY <3>1
  <2>2. \A n \in 1 .. l + 1 : MatchesOne(SubSeq(t, 1, n), Closers) = IF n = l + 1 THEN c ELSE C(n)
    <3>1. ASSUME NEW n \in 1 .. l + 1
          PROVE  MatchesOne(SubSeq(t, 1, n), Closers) = IF n = l + 1 THEN c ELSE C(n)
      <4>1. n = l + 1 \/ n \in 1 .. l
        BY <1>1
      <4>. QED  BY <1>1, <1>5, <4>1
    <3>. QED  BY <3>1
  <2>3. \A n \in 1 .. l + 1 : \A m \in n + 1 .. l + 1 : m \in 1 .. l + 1
    BY <1>1
  <2>. QED  BY <1>4, <2>1, <2>2, <2>3
<1>7. ASSUME OpenCall(t) PROVE o \/ (OpenCall(s) /\ ~c)
  <2>1. PICK n \in 1 .. l + 1 :
          /\ IF n = l + 1 THEN o ELSE O(n)
          /\ \A m \in n + 1 .. l + 1 : ~(IF m = l + 1 THEN c ELSE C(m))
    BY <1>6, <1>7
  <2>2. CASE n # l + 1
    <3>1. n \in 1 .. l /\ O(n) /\ l + 1 \in n + 1 .. l + 1
      BY <1>1, <2>1, <2>2
    <3>2. ~c
      BY <2>1, <3>1
    <3>3. ASSUME NEW m \in n + 1 .. l PROVE ~C(m)
      <4>1. m \in n + 1 .. l + 1 /\ m # l + 1
        BY <1>1, <3>1
      <4>. QED  BY <2>1, <4>1
    <3>. QED  BY <1>3, <3>1, <3>2, <3>3
  <2>. QED  BY <2>1, <2>2
<1>8. ASSUME o PROVE OpenCall(t)
  <2>1. l + 1 \in 1 .. l + 1 /\ (l + 1) + 1 .. l + 1 = {}
    BY <1>1
  <2>. QED  BY <1>6, <1>8, <2>1
<1>9. ASSUME OpenCall(s), ~c PROVE OpenCall(t)
  <2>1. PICK n \in 1 .. l : O(n) /\ \A m \in n + 1 .. l : ~C(m)
    BY <1>3, <1>9
  <2>2. n \in 1 .. l + 1 /\ n # l + 1
    BY <1>1
  <2>3. ASSUME NEW m \in n + 1 .. l + 1 PROVE ~(IF m = l + 1 THEN c ELSE C(m))
    <3>1. m = l + 1 \/ m \in n + 1 .. l
      BY <1>1
    <3>. QED  BY <1>9, <2>1, <3>1
  <2>. QED  BY <1>6, <2>1, <2>2, <2>3
<1>. QED  BY <1>7, <1>8, <1>9 DEF t, o, c

\* An ungated tool gate follows the text.
ToolFollows(g, S, text) ==
    /\ g \in [at : {"armed"}, inside : BOOLEAN, count : Nat, window : Seq(S),
              closers : {{}}, inThink : {FALSE}]
    /\ g.window = LastOf(text, Width(Openers \cup Closers))
    /\ g.inside <=> OpenCall(text)

\* The openers and the closers together are a finite set of patterns.
LEMMA ToolPatterns == ArePatterns(Openers \cup Closers)
<1>1. IsFiniteSet(Openers) /\ IsFiniteSet(Closers)
    BY ToolsAssumption
<1>2. IsFiniteSet(Openers \cup Closers)
    BY <1>1, FS_Union
<1>. QED  BY <1>2, ToolsAssumption DEF ArePatterns, IsPattern

\* A tool gate that was just armed follows the empty text.
LEMMA ToolArmed ==
    ASSUME NEW S, Openers # {}
    PROVE  ToolFollows(ArmTool({}), S, << >>)
<1>1. Width(Openers \cup Closers) \in Nat
    BY ToolPatterns, WidthCovers
<1>2. << >> \in Seq(S) /\ Len(<< >>) = 0
    OBVIOUS
<1>3. LastOf(<< >>, Width(Openers \cup Closers)) = << >>
  <2>1. LastOf(<< >>, Width(Openers \cup Closers)) = SubSeq(<< >>, 1, 0)
    BY <1>1, <1>2 DEF LastOf
  <2>. QED  BY <2>1, SubSeqEmpty
<1>4. ~OpenCall(<< >>)
    BY <1>2 DEF OpenCall
<1>. QED  BY <1>2, <1>3, <1>4 DEF ToolFollows, ArmTool

\* A tool gate that follows the text follows it after one more token, when no
\* opener and closer end there at once.
LEMMA ToolStep ==
    ASSUME NEW S, Openers # {}, NEW text \in Seq(S), NEW g, ToolFollows(g, S, text), NEW token \in S,
           ~(MatchesOne(Append(text, token), Openers) /\ MatchesOne(Append(text, token), Closers))
    PROVE  ToolFollows(CommitTool(g, token), S, Append(text, token))
<1>. DEFINE new == Append(text, token)  P == Openers \cup Closers  window == LastOf(new, Width(P))
            moved == [g EXCEPT !.window = window]
<1>1. /\ g \in [at : {"armed"}, inside : BOOLEAN, count : Nat, window : Seq(S), closers : {{}}, inThink : {FALSE}]
      /\ g.window = LastOf(text, Width(P)) /\ (g.inside <=> OpenCall(text))
    BY DEF ToolFollows
<1>2. ArePatterns(P) /\ Width(P) \in Nat
    BY ToolPatterns, WidthCovers
<1>3. new \in Seq(S)
    BY AppendProperties
<1>4. window \in Seq(S)
    BY <1>2, <1>3, LastOfIs
<1>5. LastOf(Append(g.window, token), Width(Openers \cup Closers \cup g.closers)) = window
  <2>1. LastOf(Append(g.window, token), Width(P)) = window
    BY <1>1, <1>2, WindowMoves
  <2>2. g.closers = {} /\ Openers \cup Closers \cup {} = P
    BY <1>1
  <2>. QED  BY <2>1, <2>2
<1>6. /\ MatchesOne(window, Openers) <=> MatchesOne(new, Openers)
      /\ MatchesOne(window, Closers) <=> MatchesOne(new, Closers)
    BY <1>2, <1>3, WindowIsEnough
<1>7. OpenCall(new) <=>
          MatchesOne(new, Openers) \/ (OpenCall(text) /\ ~MatchesOne(new, Closers))
    BY OpenOneMore
<1>8. g.at # "off" /\ ~g.inThink
    BY <1>1
<1>9. CommitTool(g, token) =
          IF g.inside THEN
             IF MatchesOne(window, Closers) THEN [moved EXCEPT !.inside = FALSE, !.count = 0]
             ELSE [moved EXCEPT !.count = @ + 1]
          ELSE [moved EXCEPT !.inside = MatchesOne(window, Openers)]
    BY <1>5, <1>8 DEF CommitTool
<1>. HIDE DEF window, new, P
<1>. DEFINE T == [at : {"armed"}, inside : BOOLEAN, count : Nat, window : {window},
                  closers : {{}}, inThink : {FALSE}]
<1>10. moved \in T /\ moved.inside = g.inside
    BY <1>1
<1>. HIDE DEF moved
<1>11. ASSUME NEW x \in T, x.inside <=> OpenCall(new) PROVE ToolFollows(x, S, new)
    BY <1>4, <1>11 DEF ToolFollows, window, P
<1>12. CASE g.inside
  <2>1. CASE MatchesOne(window, Closers)
    <3>. DEFINE x == [moved EXCEPT !.inside = FALSE, !.count = 0]
    <3>1. x \in T /\ x.inside = FALSE
      BY <1>10
    <3>. HIDE DEF x, T
    <3>2. ~OpenCall(new)
      BY <1>6, <1>7, <2>1 DEF new
    <3>3. ToolFollows(x, S, new)
      BY <1>11, <3>1, <3>2
    <3>. QED  BY <1>9, <1>12, <2>1, <3>3 DEF x, new
  <2>2. CASE ~MatchesOne(window, Closers)
    <3>. DEFINE x == [moved EXCEPT !.count = @ + 1]
    <3>1. x \in T /\ x.inside = moved.inside
      <4>1. PICK c \in Nat : c = moved.count + 1
        BY <1>10
      <4>2. [moved EXCEPT !.count = c] \in T /\ [moved EXCEPT !.count = c].inside = moved.inside
        BY <1>10
      <4>. QED  BY <4>1, <4>2
    <3>. HIDE DEF x, T
    <3>2. OpenCall(new) /\ x.inside
      BY <1>1, <1>6, <1>7, <1>10, <1>12, <2>2, <3>1
    <3>3. ToolFollows(x, S, new)
      BY <1>11, <3>1, <3>2
    <3>. QED  BY <1>9, <1>12, <2>2, <3>3 DEF x, new
  <2>. QED  BY <2>1, <2>2
<1>13. CASE ~g.inside
  <2>. DEFINE x == [moved EXCEPT !.inside = MatchesOne(window, Openers)]
  <2>1. x \in T /\ x.inside = MatchesOne(window, Openers)
    <3>1. MatchesOne(window, Openers) \in BOOLEAN
      BY DEF MatchesOne
    <3>. QED  BY <1>10, <3>1
  <2>. HIDE DEF x, T
  <2>2. x.inside <=> OpenCall(new)
    BY <1>1, <1>6, <1>7, <1>13, <2>1
  <2>3. ToolFollows(x, S, new)
    BY <1>11, <2>1, <2>2
  <2>. QED  BY <1>9, <1>13, <2>3 DEF x, new
<1>. QED  BY <1>12, <1>13

----------------------------------------------------------------------------
(* Released requests.                                                      *)


Done == {q \in Requests : stage[q] = "done"}

\* The two loops and their batches.
Shape ==
    /\ DOMAIN stage = Requests /\ DOMAIN think = Requests
    /\ overlap \in BOOLEAN
    /\ DOMAIN ongoing \subseteq Requests /\ DOMAIN last \subseteq Requests
    /\ pc = "receive" => DOMAIN ongoing = {}
    /\ ~overlap => DOMAIN last = {}

\* The released are in no batch of this iteration, and those of them who are in
\* the last one have no gate.
Gone ==
    \A q \in Done : q \notin DOMAIN ongoing /\ (q \in DOMAIN last => think[q] = Off)

Inv == Shape /\ Gone

USE GatesAssumption, RequestsAssumption

\* A budget allows for a token before the delimiter is forced (ThinkGate.arm).
LEMMA BudgetPositive ==
    ASSUME NEW asked \in Int, NEW maxTokens \in Nat
    PROVE  EffectiveBudget(asked, maxTokens) > 0
<1> DEFINE b == IF asked > 0 THEN asked ELSE DefaultBudget
           most == (maxTokens * 3) \div 4 - Len(Close)
<1>1. b > 0
    BY DEF GatesAssumption
<1>2. (IF most > 1 THEN most ELSE 1) > 0
    <2>1. most \in Int
        BY DEF GatesAssumption
    <2> HIDE DEF most
    <2> QED BY <2>1
<1>3. Unbounded > 0
    BY DEF GatesAssumption
<1> HIDE DEF b, most
<1>4. EffectiveBudget(asked, maxTokens) =
        IF asked < 0 THEN Unbounded
        ELSE IF b + Len(Close) < maxTokens THEN b
        ELSE IF most > 1 THEN most ELSE 1
    BY DEF EffectiveBudget, b, most
<1> QED BY <1>1, <1>2, <1>3, <1>4

\* A gate that is off, or was armed this moment, demands nothing.
LEMMA NothingForced ==
    ASSUME NEW q \in Requests, think[q] = Off
    PROVE  ~Spent(ArmedThink(q))
<1>1. EffectiveBudget(Budget[q], MaxTokens[q]) > 0
    <2>1. Budget[q] \in Int /\ MaxTokens[q] \in Nat
        BY DEF RequestsAssumption
    <2> QED BY <2>1, BudgetPositive
<1>2. CASE q \in Thinks
    <2>1. ArmedThink(q) = ArmThink(Budget[q], MaxTokens[q])
        BY <1>2 DEF ArmedThink, Off
    <2>2. /\ ArmThink(Budget[q], MaxTokens[q]).count = 0
          /\ ArmThink(Budget[q], MaxTokens[q]).budget = EffectiveBudget(Budget[q], MaxTokens[q])
        BY DEF ArmThink
    <2>3. ~(0 >= EffectiveBudget(Budget[q], MaxTokens[q]))
        <3>1. EffectiveBudget(Budget[q], MaxTokens[q]) \in Int
            BY DEF EffectiveBudget, GatesAssumption, RequestsAssumption
        <3> QED BY <1>1, <3>1
    <2> QED BY <2>1, <2>2, <2>3 DEF Spent
<1>3. CASE q \notin Thinks
    BY <1>3 DEF ArmedThink, Spent, Off
<1> QED BY <1>2, <1>3

\* Nothing is released or launched at first.
LEMMA InitInv == Init => Inv
BY DEF Init, Inv, Shape, Gone, Done, NoBatch, RequestsAssumption

\* Each action keeps the invariant.
LEMMA NextInv == Inv /\ [Next]_vars => Inv'
<1> SUFFICES ASSUME Inv, [Next]_vars PROVE Inv'
    OBVIOUS
<1> USE DEF Inv
<1>1. ASSUME NEW q \in Requests, Arrive(q) PROVE Inv'
    BY <1>1 DEF Arrive, Shape, Gone, Done, gates
<1>2. ASSUME NEW q \in Requests, Abort(q) PROVE Inv'
    BY <1>2 DEF Abort, Release, Freed, Shape, Gone, Done
<1>3. ASSUME NEW q \in Requests, Prefill(q) PROVE Inv'
    <2>1. Shape'
        BY <1>3 DEF Prefill, Shape, gates
    <2>2. /\ q \notin Done /\ Done' = Done /\ DOMAIN ongoing' = {q}
          /\ think' = think /\ last' = last
        BY <1>3 DEF Prefill, CanPrefill, Done, Shape, gates
    <2> QED BY <2>1, <2>2 DEF Gone
<1>4. ASSUME Decode PROVE Inv'
    <2>1. /\ DOMAIN ongoing' = Running /\ stage' = stage /\ think' = think
          /\ last' = last /\ overlap' = overlap /\ pc' = "commit"
        BY <1>4 DEF Decode, gates
    <2>2. Running \cap Done = {}  /\ Running \subseteq Requests
        BY DEF Running, Done
    <2> QED BY <2>1, <2>2 DEF Shape, Gone, Done
<1>5. ASSUME NothingToDo PROVE Inv'
    BY <1>5 DEF NothingToDo, Shape, Gone, Done, gates
<1>6. ASSUME Commit PROVE Inv'
    <2> DEFINE over == {q \in Sampling : Finished(q) /\ stage[q] # "done"}
               moved == [q \in Requests |-> IF q \in Sampling THEN MovedThink(q) ELSE think[q]]
    <2>1. /\ stage' = [q \in Requests |-> IF q \in over THEN "done" ELSE stage[q]]
          /\ think' = [q \in Requests |-> IF q \in over THEN Off ELSE moved[q]]
          /\ last' = (IF overlap THEN ongoing ELSE NoBatch)
          /\ ongoing' = NoBatch /\ overlap' = overlap
        BY <1>6 DEF Commit, Release, Freed
    <2> HIDE DEF over, moved
    <2>2. DOMAIN NoBatch = {}
        BY DEF NoBatch
    <2>3. Shape'
        BY <2>1, <2>2 DEF Shape
    <2>4. ASSUME NEW q \in Done' PROVE q \in DOMAIN last' => think'[q] = Off
        <3>1. CASE q \in over
            BY <2>1, <3>1 DEF Done
        <3>2. CASE q \in Done
            BY <2>1, <2>2, <3>2 DEF Gone
        <3> QED BY <2>1, <3>1, <3>2 DEF Done
    <2> QED BY <2>1, <2>2, <2>3, <2>4 DEF Gone
<1>7. CASE UNCHANGED vars
    BY <1>7 DEF vars, gates, Shape, Gone, Done
<1> QED BY <1>1, <1>2, <1>3, <1>4, <1>5, <1>6, <1>7 DEF Next

\* What a commit overrides belongs to a request that still has its row.
LEMMA InvOwnRows == Inv => OnlyOwnRows
<1> SUFFICES ASSUME Inv, NEW q \in Requests, stage[q] = "done", q \in Overridden
             PROVE  FALSE
    BY DEF OnlyOwnRows
<1>1. q \in DOMAIN Committed /\ Token(q) # Committed[q].token
    BY DEF Overridden, Sampling
<1>2. think[q] = Off
    BY <1>1 DEF Inv, Shape, Gone, Done, Committed
<1>3. Token(q) = Committed[q].token
    BY <1>2, NothingForced DEF Token
<1> QED BY <1>1, <1>3

\* The override of _process_last_data writes into rows of requests that are not
\* released: for any requests, budgets and patterns, in both loops.
THEOREM OverridesOwnRows == Spec => []OnlyOwnRows
<1>1. Init => Inv
    BY InitInv
<1>2. Inv /\ [Next]_vars => Inv'
    BY NextInv
<1>3. Inv => OnlyOwnRows
    BY InvOwnRows
<1> QED BY <1>1, <1>2, <1>3, PTL DEF Spec

----------------------------------------------------------------------------
(* Rows and recurrent slots.  The stack of free ones is taken from at its  *)
(* end and given back to in any order, so the proof needs what SetToSeq    *)
(* and Front do to a sequence without repetitions.  What the recurrent     *)
(* state holds is a count of forwards, which the prefill passes and the    *)
(* launches of a request count too.                                        *)

\* A finite set as a sequence: each element, once.
LEMMA Listing ==
    ASSUME NEW S, IsFiniteSet(S)
    PROVE  /\ SetToSeq(S) \in Seq(S)
           /\ ToSet(SetToSeq(S)) = S
           /\ IsInjective(SetToSeq(S))
           /\ Len(SetToSeq(S)) = Cardinality(S)
<1> DEFINE n == Cardinality(S)
<1>1. n \in Nat /\ ExistsBijection(1..n, S) BY FS_CardinalityType
<1>2. \E f \in [1..n -> S] : IsInjective(f)
    BY <1>1 DEF ExistsBijection, Bijection, Injection
<1>3. SetToSeq(S) \in [1..n -> S] /\ IsInjective(SetToSeq(S))
    BY <1>2 DEF SetToSeq
<1> DEFINE f == SetToSeq(S)
<1>4. f \in [1..n -> S] /\ f \in Injection(1..n, S) BY <1>3 DEF Injection
<1>5. IsFiniteSet(1..n) /\ Cardinality(1..n) = n BY <1>1, FS_Interval
<1> HIDE DEF f
<1>6. f \in Surjection(1..n, S) BY <1>4, <1>5, FS_Injection
<1>7. \A e \in S : \E i \in 1..n : f[i] = e BY <1>6 DEF Surjection
<1>8. ToSet(f) = S BY <1>4, <1>7 DEF ToSet
<1>9. f \in Seq(S) /\ Len(f) = n
    <2>1. f \in UNION {[1..m -> S] : m \in Nat} BY <1>1, <1>4
    <2>2. f \in Seq(S) BY <2>1, SeqDef
    <2>3. DOMAIN f = 1..Len(f) /\ DOMAIN f = 1..n /\ Len(f) \in Nat
        BY <1>4, <2>2, LenProperties
    <2>4. QED BY <2>2, <2>3, <1>1
<1>10. QED BY <1>3, <1>8, <1>9 DEF f

\* Two sequences without repetitions and without a common element, joined.
LEMMA JoinInjective ==
    ASSUME NEW S, NEW s \in Seq(S), NEW t \in Seq(S),
           IsInjective(s), IsInjective(t), ToSet(s) \cap ToSet(t) = {}
    PROVE  /\ s \o t \in Seq(S)
           /\ IsInjective(s \o t)
           /\ ToSet(s \o t) = ToSet(s) \cup ToSet(t)
<1>1. /\ s \o t \in Seq(S) /\ Len(s \o t) = Len(s) + Len(t)
      /\ \A i \in 1 .. Len(s) + Len(t) :
            (s \o t)[i] = IF i <= Len(s) THEN s[i] ELSE t[i - Len(s)]
    BY ConcatProperties
<1>2. /\ Len(s) \in Nat /\ Len(t) \in Nat
      /\ DOMAIN s = 1..Len(s) /\ DOMAIN t = 1..Len(t)
    BY LenProperties
<1> DEFINE u == s \o t
<1>3. DOMAIN u = 1..(Len(s) + Len(t)) BY <1>1, LenProperties
<1>4. \A i \in DOMAIN u :
        \/ i \in DOMAIN s /\ u[i] = s[i]
        \/ i - Len(s) \in DOMAIN t /\ u[i] = t[i - Len(s)] /\ i > Len(s)
    BY <1>1, <1>2, <1>3
<1>5. \A i \in DOMAIN s : i \in DOMAIN u /\ u[i] = s[i]
    BY <1>1, <1>2, <1>3
<1>6. \A i \in DOMAIN t : i + Len(s) \in DOMAIN u /\ u[i + Len(s)] = t[i]
    <2>1. ASSUME NEW i \in DOMAIN t PROVE i + Len(s) \in DOMAIN u /\ u[i + Len(s)] = t[i]
        <3>1. i + Len(s) \in 1..(Len(s) + Len(t)) /\ ~(i + Len(s) <= Len(s))
              /\ (i + Len(s)) - Len(s) = i
            BY <1>2
        <3>2. QED BY <3>1, <1>1, <1>3
    <2>2. QED BY <2>1
<1> HIDE DEF u
<1>7. \A i \in DOMAIN s, j \in DOMAIN t : s[i] # t[j] BY DEF ToSet
<1>8. IsInjective(u)
    <2>1. SUFFICES ASSUME NEW i \in DOMAIN u, NEW j \in DOMAIN u, u[i] = u[j] PROVE i = j
        BY DEF IsInjective
    <2>2. CASE i \in DOMAIN s /\ u[i] = s[i]
        <3>1. ~(j - Len(s) \in DOMAIN t /\ u[j] = t[j - Len(s)]) BY <2>1, <2>2, <1>7
        <3>2. j \in DOMAIN s /\ u[j] = s[j] BY <3>1, <1>4
        <3>3. QED BY <2>1, <2>2, <3>2 DEF IsInjective
    <2>3. CASE i - Len(s) \in DOMAIN t /\ u[i] = t[i - Len(s)]
        <3>1. ~(j \in DOMAIN s /\ u[j] = s[j]) BY <2>1, <2>3, <1>7
        <3>2. j - Len(s) \in DOMAIN t /\ u[j] = t[j - Len(s)] BY <3>1, <1>4
        <3>3. i - Len(s) = j - Len(s) BY <2>1, <2>3, <3>2 DEF IsInjective
        <3>4. QED BY <3>3, <1>2, <1>3
    <2>4. QED BY <2>2, <2>3, <1>4
<1>9. ToSet(u) = ToSet(s) \cup ToSet(t)
    <2>1. \A e \in ToSet(u) : e \in ToSet(s) \cup ToSet(t) BY <1>4 DEF ToSet
    <2>2. \A e \in ToSet(s) : e \in ToSet(u) BY <1>5 DEF ToSet
    <2>3. \A e \in ToSet(t) : e \in ToSet(u) BY <1>6 DEF ToSet
    <2>4. QED BY <2>1, <2>2, <2>3
<1>10. QED BY <1>1, <1>8, <1>9 DEF u

\* A sequence without repetitions loses its last element.
LEMMA FrontInjective ==
    ASSUME NEW S, NEW s \in Seq(S), s # << >>, IsInjective(s)
    PROVE  /\ Last(s) \in S /\ Last(s) \in ToSet(s)
           /\ Front(s) \in Seq(S)
           /\ IsInjective(Front(s))
           /\ ToSet(Front(s)) = ToSet(s) \ {Last(s)}
<1>1. /\ Len(s) \in Nat /\ Len(s) > 0 /\ DOMAIN s = 1..Len(s)
    BY LenProperties, EmptySeq
<1>2. Last(s) \in S /\ Last(s) \in ToSet(s)
    <2>1. Len(s) \in 1..Len(s) BY <1>1
    <2>2. QED BY <2>1, <1>1, ElementOfSeq DEF Last, ToSet
<1> DEFINE f == SubSeq(s, 1, Len(s) - 1)  m == Len(s) - 1
<1>3. f \in Seq(S) /\ Len(f) = m /\ \A i \in 1..m : f[i] = s[i]
    <2>1. \A i \in 1..m : s[i] \in S
        <3>1. \A i \in 1..m : i \in 1..Len(s) BY <1>1
        <3>2. QED BY <3>1, ElementOfSeq
    <2>2. m \in Int /\ 1 \in Int BY <1>1
    <2>3. /\ f \in Seq(S) /\ Len(f) = IF 1 <= m THEN m - 1 + 1 ELSE 0
          /\ \A i \in 1..(m - 1 + 1) : f[i] = s[1 + i - 1]
        BY <2>1, <2>2, SubSeqProperties
    <2>4. m \in Nat /\ m - 1 + 1 = m /\ \A i \in 1..m : 1 + i - 1 = i BY <1>1
    <2> HIDE DEF f, m
    <2>5. Len(f) = m BY <2>3, <2>4
    <2>6. \A i \in 1..m : f[i] = s[i] BY <2>3, <2>4
    <2>7. QED BY <2>3, <2>5, <2>6
<1>4. DOMAIN f = 1..m BY <1>3, LenProperties
<1> HIDE DEF f
<1>5. IsInjective(f)
    <2>1. \A i \in DOMAIN f : i \in DOMAIN s /\ f[i] = s[i] BY <1>1, <1>3, <1>4
    <2>2. QED BY <2>1 DEF IsInjective
<1>6. ToSet(f) = ToSet(s) \ {Last(s)}
    <2>1. ASSUME NEW i \in DOMAIN f PROVE f[i] \in ToSet(s) \ {Last(s)}
        <3>1. i \in DOMAIN s /\ Len(s) \in DOMAIN s /\ i # Len(s) /\ f[i] = s[i]
            BY <1>1, <1>3, <1>4
        <3>2. QED BY <3>1 DEF IsInjective, Last, ToSet
    <2>2. ASSUME NEW i \in DOMAIN s, s[i] # Last(s) PROVE s[i] \in ToSet(f)
        <3>1. i # Len(s) BY <2>2 DEF Last
        <3>2. i \in DOMAIN f /\ f[i] = s[i] BY <3>1, <1>1, <1>3, <1>4
        <3>3. QED BY <3>2 DEF ToSet
    <2>3. QED BY <2>1, <2>2 DEF ToSet
<1>7. QED BY <1>2, <1>3, <1>5, <1>6 DEF Front, f

\* A state that comes from one request's forwards, and one forward more.
LEMMA OneMore ==
    ASSUME NEW q, NEW n \in Nat
    PROVE  Append([i \in 1..n |-> q], q) = [i \in 1..(n + 1) |-> q]
<1> DEFINE s == [i \in 1..n |-> q]  t == [i \in 1..(n + 1) |-> q]
<1>1. s \in Seq({q}) /\ Len(s) = n
    <2>1. s \in [1..n -> {q}] OBVIOUS
    <2>2. QED BY <2>1, SeqDef
<1>2. t \in Seq({q}) /\ Len(t) = n + 1
    <2>1. t \in [1..(n + 1) -> {q}] OBVIOUS
    <2>2. QED BY <2>1, SeqDef
<1>3. Append(s, q) \in Seq({q}) /\ Len(Append(s, q)) = n + 1
    BY <1>1, AppendProperties
<1>4. \A i \in 1..(n + 1) : Append(s, q)[i] = q /\ t[i] = q
    <2>1. \A i \in 1..(n + 1) : Append(s, q)[i] \in {q} BY <1>3, ElementOfSeq
    <2>2. QED BY <2>1
<1> HIDE DEF s, t
<1>5. Append(s, q) = t BY <1>2, <1>3, <1>4, SeqEqual
<1>6. QED BY <1>5 DEF s, t

Stages == {"new", "waiting", "chunked", "running", "done"}

SlotType ==
    /\ stage \in [Requests -> Stages]
    /\ slot \in [Requests -> 0..Rows] /\ free \in Seq(1..Rows)
    /\ state \in [1..Rows -> Seq(Requests)]
    /\ left \in [Requests -> Nat] /\ launched \in [Requests -> Nat]

\* Where in its prefill passes and its launches a request is.
Progress ==
    \A q \in Requests :
        /\ stage[q] \in {"new", "waiting"} => left[q] = Chunks[q] /\ launched[q] = 0
        /\ stage[q] = "chunked" => left[q] \in 1..(Chunks[q] - 1) /\ launched[q] = 0
        /\ stage[q] = "running" => left[q] = 0 /\ launched[q] > 0

\* Who is in a batch had its slot when it was launched.
Batched == \A q \in DOMAIN last \cup DOMAIN ongoing : stage[q] \in {"chunked", "running", "done"}

\* Forwards of a request that went into its recurrent state.
Forwards(q) == (Chunks[q] - left[q]) + (IF launched[q] = 0 THEN 0 ELSE launched[q] - 1)

SlotsOwned ==
    /\ \A q \in Requests : q \in Holders <=> slot[q] # 0
    /\ \A p, q \in Holders : p # q => slot[p] # slot[q]
    /\ ToSet(free) = (1..Rows) \ {slot[q] : q \in Holders}
    /\ IsInjective(free)

StateOwned == \A q \in Holders : state[slot[q]] = [i \in 1 .. Forwards(q) |-> q]

SlotInv == Inv /\ SlotType /\ Progress /\ Batched /\ SlotsOwned /\ StateOwned

\* The invariant is stronger than the property the runs check.
LEMMA SlotInvImplies == SlotInv => SlotsFollowRequests
BY DEF SlotInv, SlotsOwned, StateOwned, Forwards, SlotsFollowRequests

\* At first all slots are free and each has been reset.
LEMMA InitSlotInv == Init => SlotInv
<1> SUFFICES ASSUME Init PROVE SlotInv OBVIOUS
<1> USE DEF Init
<1> DEFINE f == [i \in 1..Rows |-> i]
<1>1. f \in Seq(1..Rows) /\ ToSet(f) = 1..Rows /\ IsInjective(f)
    <2>1. f \in [1..Rows -> 1..Rows] /\ Rows \in Nat BY DEF RequestsAssumption
    <2>2. f \in Seq(1..Rows) BY <2>1, SeqDef
    <2>3. QED BY <2>2 DEF ToSet, IsInjective
<1>2. << >> \in Seq(Requests) OBVIOUS
<1>3. SlotType BY <1>1, <1>2 DEF SlotType, Stages, RequestsAssumption
<1>4. Progress BY DEF Progress
<1>5. Batched BY DEF Batched, NoBatch
<1>6. Holders = {} BY DEF Holders
<1>7. SlotsOwned BY <1>1, <1>6 DEF SlotsOwned
<1>8. StateOwned BY <1>6 DEF StateOwned
<1>9. QED BY <1>3, <1>4, <1>5, <1>7, <1>8, InitInv DEF SlotInv

\* A release gives back the slots of those who have one, each once.
LEMMA ReleaseSlots ==
    ASSUME SlotInv, NEW S \in SUBSET Requests, Release(S),
           UNCHANGED <<left, launched>>
    PROVE  SlotType' /\ Progress' /\ SlotsOwned' /\ StateOwned'
<1> USE DEF SlotInv
<1> DEFINE G == {slot[q] : q \in S} \ {0}
<1>1. /\ stage' = [q \in Requests |-> IF q \in S THEN "done" ELSE stage[q]]
      /\ free' = free \o SetToSeq(G)
      /\ slot' = [q \in Requests |-> IF q \in S THEN 0 ELSE slot[q]]
      /\ state' = state
    BY DEF Release, FreeSlots
<1>0. /\ Holders \subseteq Requests
      /\ \A q \in Requests : q \in Holders <=> slot[q] # 0
      /\ \A q \in Holders : slot[q] \in 1..Rows
    <2>1. Holders \subseteq Requests BY DEF Holders
    <2>2. \A q \in Requests : q \in Holders <=> slot[q] # 0 BY DEF SlotsOwned
    <2>3. \A q \in Requests : slot[q] \in 0..Rows BY DEF SlotType
    <2>4. QED BY <2>1, <2>2, <2>3 DEF RequestsAssumption
<1>2. G = {slot[q] : q \in S \cap Holders} /\ G \subseteq 1..Rows
    <2>1. G = {slot[q] : q \in S \cap Holders} BY <1>0
    <2>2. QED BY <2>1, <1>0
<1>3. IsFiniteSet(G)
    <2>1. IsFiniteSet(1..Rows) BY FS_Interval DEF RequestsAssumption
    <2>2. QED BY <1>2, <2>1, FS_Subset
<1> HIDE DEF G
<1>4. Holders' = Holders \ S BY <1>1 DEF Holders
<1>5. /\ SetToSeq(G) \in Seq(1..Rows) /\ ToSet(SetToSeq(G)) = G /\ IsInjective(SetToSeq(G))
    <2>1. SetToSeq(G) \in Seq(G) /\ ToSet(SetToSeq(G)) = G /\ IsInjective(SetToSeq(G))
        BY <1>3, Listing
    <2>2. QED BY <1>2, <2>1, SeqMonotonic
<1>6. ToSet(free) \cap G = {} BY <1>2 DEF SlotsOwned
<1>7. /\ free' \in Seq(1..Rows) /\ IsInjective(free')
      /\ ToSet(free') = ToSet(free) \cup G
    <2>1. free \in Seq(1..Rows) /\ IsInjective(free) BY DEF SlotType, SlotsOwned
    <2>2. QED BY <1>1, <1>5, <1>6, <2>1, JoinInjective
<1>8. SlotType' BY <1>1, <1>7 DEF SlotType, Stages, RequestsAssumption
<1>9. Progress' BY <1>1 DEF Progress
<1>10. SlotsOwned'
    <2>1. \A q \in Requests : q \in Holders' <=> slot'[q] # 0 BY <1>1, <1>4 DEF SlotsOwned
    <2>2. \A p, q \in Holders' : p # q => slot'[p] # slot'[q]
        BY <1>1, <1>4 DEF SlotsOwned, Holders
    <2>3. {slot'[q] : q \in Holders'} = {slot[q] : q \in Holders} \ G
        <3>1. \A q \in Holders' : q \in Holders /\ q \notin S /\ slot'[q] = slot[q]
            BY <1>0, <1>1, <1>4
        <3>2. \A p, q \in Holders : p # q => slot[p] # slot[q] BY DEF SlotsOwned
        <3>3. \A q \in Holders : slot[q] \notin G <=> q \notin S BY <1>2, <3>2
        <3>4. \A q \in Holders : q \notin S => q \in Holders' /\ slot'[q] = slot[q]
            BY <1>0, <1>1, <1>4
        <3>5. QED BY <3>1, <3>3, <3>4
    <2>4. {slot[q] : q \in Holders} \subseteq 1..Rows /\ G \subseteq {slot[q] : q \in Holders}
        BY <1>0, <1>2
    <2>5. ToSet(free') = (1..Rows) \ {slot'[q] : q \in Holders'}
        BY <1>7, <2>3, <2>4 DEF SlotsOwned
    <2>6. QED BY <2>1, <2>2, <2>5, <1>7 DEF SlotsOwned
<1>11. StateOwned'
    BY <1>1, <1>4 DEF StateOwned, Forwards, Holders
<1>12. QED BY <1>8, <1>9, <1>10, <1>11

\* A prefill pass takes the last free slot for a request that has none, and
\* adds one forward to the state in it, which it zeroed if it took it.
LEMMA PrefillSlots ==
    ASSUME SlotInv, NEW q \in Requests, Prefill(q)
    PROVE  SlotType' /\ Progress' /\ SlotsOwned' /\ StateOwned'
<1> USE DEF SlotInv
<1> DEFINE s == SlotFor(q)
<1>1. /\ stage[q] \in {"waiting", "chunked"}
      /\ stage[q] = "waiting" => free # << >>
      /\ slot' = [slot EXCEPT ![q] = s]
      /\ free' = IF slot[q] # 0 THEN free ELSE Front(free)
      /\ state' = [state EXCEPT ![s] = IF slot[q] # 0 THEN Append(state[s], q) ELSE <<q>>]
      /\ left' = [left EXCEPT ![q] = left[q] - 1]
    BY DEF Prefill, CanPrefill, EnsureSlot, TakeSlot
<1>2. \/ left[q] > 1 /\ stage' = [stage EXCEPT ![q] = "chunked"] /\ launched' = launched
      \/ left[q] = 1 /\ stage' = [stage EXCEPT ![q] = "running"]
            /\ launched' = [launched EXCEPT ![q] = 1]
    BY DEF Prefill
<1>3. /\ Holders \subseteq Requests
      /\ \A p \in Requests : p \in Holders <=> slot[p] # 0
      /\ \A p \in Holders : slot[p] \in 1..Rows
      /\ \A p, r \in Holders : p # r => slot[p] # slot[r]
    <2>1. Holders \subseteq Requests BY DEF Holders
    <2>2. \A p \in Requests : slot[p] \in 0..Rows BY DEF SlotType
    <2>3. QED BY <2>1, <2>2 DEF SlotsOwned, RequestsAssumption
<1>4. stage[q] = "chunked" <=> slot[q] # 0 BY <1>1, <1>3 DEF Holders
<1>5. /\ left[q] \in 1..Chunks[q] /\ launched[q] = 0 /\ Chunks[q] \in Nat \ {0}
      /\ slot[q] = 0 => left[q] = Chunks[q]
    BY <1>1, <1>4 DEF Progress, RequestsAssumption
<1>6. /\ s \in 1..Rows
      /\ slot[q] = 0 => /\ s \in ToSet(free) /\ Front(free) \in Seq(1..Rows)
                        /\ IsInjective(Front(free)) /\ ToSet(Front(free)) = ToSet(free) \ {s}
      /\ slot[q] # 0 => s = slot[q]
    <2>1. free \in Seq(1..Rows) /\ IsInjective(free) BY DEF SlotType, SlotsOwned
    <2>2. CASE slot[q] = 0
        <3>1. free # << >> /\ s = Last(free) BY <1>1, <1>4, <2>2 DEF SlotFor
        <3>2. /\ Last(free) \in 1..Rows /\ Last(free) \in ToSet(free)
              /\ Front(free) \in Seq(1..Rows) /\ IsInjective(Front(free))
              /\ ToSet(Front(free)) = ToSet(free) \ {Last(free)}
            BY <2>1, <3>1, FrontInjective
        <3> HIDE DEF s
        <3>3. QED BY <2>2, <3>1, <3>2
    <2>3. CASE slot[q] # 0
        BY <2>3, <1>3 DEF SlotFor
    <2>4. QED BY <2>2, <2>3
<1> HIDE DEF s
<1>7. Holders' = Holders \cup {q} BY <1>2 DEF Holders, SlotType
<1>8. \A p \in Holders \ {q} : slot[p] # s
    <2>1. CASE slot[q] = 0 BY <2>1, <1>6 DEF SlotsOwned
    <2>2. CASE slot[q] # 0 BY <2>2, <1>3, <1>6
    <2>3. QED BY <2>1, <2>2
<1>9. \A p \in Requests : slot'[p] = IF p = q THEN s ELSE slot[p]
    BY <1>1 DEF SlotType
<1>10. SlotType'
    <2>1. <<q>> \in Seq(Requests) OBVIOUS
    <2>2. Append(state[s], q) \in Seq(Requests) BY <1>6 DEF SlotType
    <2>3. state' \in [1..Rows -> Seq(Requests)] BY <1>1, <2>1, <2>2 DEF SlotType
    <2>4. slot' \in [Requests -> 0..Rows]
        BY <1>1, <1>6 DEF SlotType, RequestsAssumption
    <2>5. free' \in Seq(1..Rows) BY <1>1, <1>6 DEF SlotType
    <2>6. left' \in [Requests -> Nat]
        <3>1. left[q] - 1 \in Nat BY <1>5
        <3>2. left \in [Requests -> Nat] BY DEF SlotType
        <3>3. QED BY <3>1, <3>2, <1>1
    <2>7. stage' \in [Requests -> Stages] /\ launched' \in [Requests -> Nat]
        BY <1>2 DEF SlotType, Stages
    <2>8. QED BY <2>3, <2>4, <2>5, <2>6, <2>7 DEF SlotType
<1>11. Progress'
    <2>1. ASSUME NEW p \in Requests
          PROVE  /\ stage'[p] \in {"new", "waiting"} => left'[p] = Chunks[p] /\ launched'[p] = 0
                 /\ stage'[p] = "chunked" => left'[p] \in 1..(Chunks[p] - 1) /\ launched'[p] = 0
                 /\ stage'[p] = "running" => left'[p] = 0 /\ launched'[p] > 0
        <3>1. CASE p # q BY <3>1, <1>1, <1>2 DEF SlotType, Progress
        <3>2. CASE p = q
            <4>1. left'[q] = left[q] - 1 BY <1>1 DEF SlotType
            <4>2. CASE left[q] > 1
                <5>1. stage'[q] = "chunked" /\ launched'[q] = 0
                    <6>1. left[q] # 1 BY <4>2, <1>5
                    <6>2. DOMAIN stage = Requests BY DEF SlotType
                    <6>3. QED BY <6>1, <6>2, <1>2, <1>5
                <5>2. left[q] - 1 \in 1..(Chunks[q] - 1) BY <4>2, <1>5
                <5>3. QED BY <3>2, <4>1, <5>1, <5>2
            <4>3. CASE left[q] = 1
                <5>1. stage'[q] = "running" /\ launched'[q] = 1 BY <1>2, <4>3 DEF SlotType
                <5>2. QED BY <3>2, <4>1, <4>3, <5>1
            <4>4. QED BY <1>2, <4>2, <4>3
        <3>3. QED BY <3>1, <3>2
    <2>2. QED BY <2>1 DEF Progress
<1>12. SlotsOwned'
    <2>1. \A p \in Requests : p \in Holders' <=> slot'[p] # 0
        <3>1. s # 0 BY <1>6 DEF RequestsAssumption
        <3>2. QED BY <3>1, <1>3, <1>7, <1>9
    <2>2. \A p, r \in Holders' : p # r => slot'[p] # slot'[r]
        BY <1>3, <1>7, <1>8, <1>9
    <2>3. {slot'[p] : p \in Holders'} = {slot[p] : p \in Holders} \cup {s}
        <3>1. \A p \in Holders' : slot'[p] = s \/ (p \in Holders /\ slot'[p] = slot[p])
            BY <1>3, <1>7, <1>9
        <3>2. q \in Holders' /\ slot'[q] = s BY <1>7, <1>9
        <3>3. \A p \in Holders : p \in Holders' /\ slot'[p] = slot[p]
            BY <1>3, <1>6, <1>7, <1>9
        <3>4. QED BY <3>1, <3>2, <3>3
    <2>4. ToSet(free') = (1..Rows) \ {slot'[p] : p \in Holders'}
        <3>1. ToSet(free) = (1..Rows) \ {slot[p] : p \in Holders} BY DEF SlotsOwned
        <3>2. CASE slot[q] = 0
            <4>1. ToSet(free') = ToSet(free) \ {s} BY <3>2, <1>1, <1>6
            <4>2. QED BY <3>1, <4>1, <2>3
        <3>3. CASE slot[q] # 0
            <4>1. free' = free /\ s \in {slot[p] : p \in Holders} BY <3>3, <1>1, <1>3, <1>6
            <4>2. QED BY <3>1, <4>1, <2>3
        <3>4. QED BY <3>2, <3>3
    <2>5. IsInjective(free') BY <1>1, <1>6 DEF SlotsOwned
    <2>6. QED BY <2>1, <2>2, <2>4, <2>5 DEF SlotsOwned
<1>13. StateOwned'
    <2>1. ASSUME NEW p \in Holders'
          PROVE  state'[slot'[p]] = [i \in 1 .. Forwards(p)' |-> p]
        <3>1. CASE p # q
            <4>1. p \in Holders /\ slot'[p] = slot[p] /\ slot[p] # s BY <3>1, <1>3, <1>7, <1>8, <1>9
            <4>2. state'[slot[p]] = state[slot[p]] BY <4>1, <1>1, <1>3 DEF SlotType
            <4>3. Forwards(p)' = Forwards(p)
                BY <3>1, <4>1, <1>1, <1>2, <1>3 DEF Forwards, SlotType
            <4>4. QED BY <4>1, <4>2, <4>3 DEF StateOwned
        <3>2. CASE p = q
            <4> DEFINE n == Chunks[q] - left[q]
            <4>1. n \in Nat BY <1>5
            <4>2. Forwards(q)' = n + 1
                <5>1. left'[q] = left[q] - 1 BY <1>1 DEF SlotType
                <5>2. launched'[q] = 0 \/ launched'[q] = 1 BY <1>2, <1>5 DEF SlotType
                <5>3. QED BY <5>1, <5>2, <1>5 DEF Forwards
            <4>3. slot'[q] = s BY <1>9
            <4>4. state'[s] = IF slot[q] # 0 THEN Append(state[s], q) ELSE <<q>>
                BY <1>1, <1>6 DEF SlotType
            <4>5. CASE slot[q] = 0
                <5>1. n = 0 BY <4>5, <1>5
                <5>2. <<q>> = [i \in 1..1 |-> q] OBVIOUS
                <5>3. QED BY <3>2, <4>2, <4>3, <4>4, <4>5, <5>1, <5>2
            <4>6. CASE slot[q] # 0
                <5>1. q \in Holders /\ slot[q] = s BY <4>6, <1>3, <1>6
                <5>2. Forwards(q) = n BY <1>5, <4>1 DEF Forwards
                <5>3. state[s] = [i \in 1..n |-> q] BY <5>1, <5>2 DEF StateOwned
                <5> HIDE DEF n
                <5>4. Append(state[s], q) = [i \in 1..(n + 1) |-> q] BY <4>1, <5>3, OneMore
                <5>5. QED BY <3>2, <4>2, <4>3, <4>4, <4>6, <5>4
            <4>7. QED BY <4>5, <4>6
        <3>3. QED BY <3>1, <3>2
    <2>2. QED BY <2>1 DEF StateOwned
<1>14. QED BY <1>10, <1>11, <1>12, <1>13

\* A decode step adds one forward to the state of everyone who runs, and to no
\* other slot.
LEMMA DecodeSlots ==
    ASSUME SlotInv, Decode
    PROVE  SlotType' /\ Progress' /\ SlotsOwned' /\ StateOwned'
<1> USE DEF SlotInv
<1> DEFINE In(s) == {q \in Running : slot[q] = s}
<1>1. /\ launched' = [q \in Requests |-> IF q \in Running THEN launched[q] + 1 ELSE launched[q]]
      /\ state' = [s \in 1..Rows |-> state[s] \o SetToSeq(In(s))]
      /\ UNCHANGED <<stage, left, slot, free>>
    BY DEF Decode
<1>2. Running \subseteq Holders /\ Holders \subseteq Requests /\ Holders' = Holders
      /\ \A q \in Running : stage[q] = "running"
    BY <1>1 DEF Running, Holders
<1>3. /\ \A p \in Holders : slot[p] \in 1..Rows
      /\ \A p, r \in Holders : p # r => slot[p] # slot[r]
    <2>1. \A p \in Requests : slot[p] \in 0..Rows BY DEF SlotType
    <2>2. QED BY <2>1, <1>2 DEF SlotsOwned, RequestsAssumption
<1>4. ASSUME NEW q \in Running PROVE In(slot[q]) = {q}
    BY <1>2, <1>3
<1>5. ASSUME NEW q \in Holders, q \notin Running PROVE In(slot[q]) = {}
    <2>1. \A p \in Running : p \in Holders /\ p # q BY <1>2, <1>5
    <2>2. \A p \in Running : slot[p] # slot[q] BY <2>1, <1>3, <1>5
    <2>3. QED BY <2>2
<1>6. ASSUME NEW s \in 1..Rows PROVE SetToSeq(In(s)) \in Seq(Requests)
    <2>1. CASE In(s) = {}
        BY <2>1, Listing, FS_EmptySet, SeqMonotonic
    <2>2. CASE In(s) # {}
        <3>1. PICK q \in Running : slot[q] = s BY <2>2
        <3>2. In(s) = {q} BY <3>1, <1>4
        <3>3. SetToSeq({q}) \in Seq({q}) BY Listing, FS_Singleton
        <3>4. QED BY <3>2, <3>3, <1>2, SeqMonotonic
    <2>3. QED BY <2>1, <2>2
<1>7. \A q : SetToSeq({q}) = <<q>>
    <2>1. ASSUME NEW q PROVE SetToSeq({q}) = <<q>>
        <3>1. SetToSeq({q}) \in Seq({q}) /\ Len(SetToSeq({q})) = 1 BY Listing, FS_Singleton
        <3>2. SetToSeq({q})[1] \in {q} BY <3>1, ElementOfSeq
        <3>3. <<q>> \in Seq({q}) /\ Len(<<q>>) = 1 /\ <<q>>[1] = q OBVIOUS
        <3>4. \A i \in 1..1 : SetToSeq({q})[i] = <<q>>[i] BY <3>2, <3>3
        <3>5. QED BY <3>1, <3>3, <3>4, SeqEqual
    <2>2. QED BY <2>1
<1>8. SetToSeq({}) = << >>
    <2>1. SetToSeq({}) \in Seq({}) /\ Len(SetToSeq({})) = 0 BY Listing, FS_EmptySet
    <2>2. QED BY <2>1, EmptySeq
<1> HIDE DEF In
<1>9. SlotType'
    <2>1. \A s \in 1..Rows : state[s] \o SetToSeq(In(s)) \in Seq(Requests)
        <3>1. \A u, v \in Seq(Requests) : u \o v \in Seq(Requests) BY ConcatProperties
        <3>2. \A s \in 1..Rows : state[s] \in Seq(Requests) BY DEF SlotType
        <3>3. QED BY <3>1, <3>2, <1>6
    <2>2. state' \in [1..Rows -> Seq(Requests)] BY <1>1, <2>1
    <2>3. launched' \in [Requests -> Nat] BY <1>1, SMTT(30) DEF SlotType
    <2>4. QED BY <1>1, <2>2, <2>3 DEF SlotType
<1>10. Progress' BY <1>1, <1>2, SMTT(30) DEF Progress, SlotType
<1>11. SlotsOwned' BY <1>1, <1>2 DEF SlotsOwned
<1>12. StateOwned'
    <2>1. ASSUME NEW q \in Holders
          PROVE  state'[slot[q]] = [i \in 1 .. Forwards(q)' |-> q]
        <3>1. /\ state'[slot[q]] = state[slot[q]] \o SetToSeq(In(slot[q]))
              /\ state[slot[q]] = [i \in 1 .. Forwards(q) |-> q]
              /\ state[slot[q]] \in Seq(Requests)
            BY <1>1, <1>3 DEF StateOwned, SlotType
        <3>2. CASE q \in Running
            <4>1. left[q] = 0 /\ launched[q] \in Nat \ {0} /\ Chunks[q] \in Nat
                BY <3>2, <1>2 DEF Progress, SlotType, RequestsAssumption
            <4>2. launched'[q] = launched[q] + 1 /\ left'[q] = left[q] BY <3>2, <1>1, <1>2
            <4>3. Forwards(q) \in Nat /\ Forwards(q)' = Forwards(q) + 1
                <5>1. Forwards(q) = (Chunks[q] - 0) + (launched[q] - 1)
                    BY <4>1 DEF Forwards
                <5>2. Forwards(q)' = (Chunks[q] - 0) + ((launched[q] + 1) - 1)
                    <6>1. launched'[q] # 0 /\ left'[q] = 0 BY <4>1, <4>2
                    <6>2. QED BY <6>1, <4>2 DEF Forwards
                <5> DEFINE c == Chunks[q]  n == launched[q]
                <5>3. c \in Nat /\ n \in Nat \ {0} BY <4>1
                <5> HIDE DEF c, n
                <5>4. /\ (c - 0) + (n - 1) \in Nat
                      /\ (c - 0) + ((n + 1) - 1) = ((c - 0) + (n - 1)) + 1
                    BY <5>3
                <5>5. QED BY <5>1, <5>2, <5>4 DEF c, n
            <4>4. state'[slot[q]] = state[slot[q]] \o <<q>>
                BY <3>1, <3>2, <1>4, <1>7
            <4>5. state[slot[q]] \o <<q>> = Append(state[slot[q]], q)
                <5>1. \A u \in Seq(Requests), e \in Requests : u \o <<e>> = Append(u, e)
                    BY AppendIsConcat
                <5>2. QED BY <3>1, <1>2, <5>1
            <4>6. Append([i \in 1..Forwards(q) |-> q], q) = [i \in 1..(Forwards(q) + 1) |-> q]
                BY <4>3, OneMore
            <4>7. QED BY <3>1, <4>3, <4>4, <4>5, <4>6
        <3>3. CASE q \notin Running
            <4>1. Forwards(q)' = Forwards(q) BY <3>3, <1>1, <1>2 DEF Forwards
            <4>2. state'[slot[q]] = state[slot[q]] BY <3>1, <3>3, <1>5, <1>8, ConcatEmptySeq
            <4>3. QED BY <3>1, <4>1, <4>2
        <3>4. QED BY <3>2, <3>3
    <2>2. QED BY <2>1, <1>1, <1>2 DEF StateOwned
<1>13. QED BY <1>9, <1>10, <1>11, <1>12

\* A step that leaves these variables alone keeps what is known of the slots.
LEMMA SlotsUnchanged ==
    ASSUME SlotInv, UNCHANGED <<stage, left, launched, slot, free, state>>
    PROVE  SlotType' /\ Progress' /\ SlotsOwned' /\ StateOwned'
BY DEF SlotInv, SlotType, Progress, SlotsOwned, StateOwned, Holders, Forwards

\* Each action keeps the invariant.
LEMMA NextSlotInv == SlotInv /\ [Next]_vars => SlotInv'
<1> SUFFICES ASSUME SlotInv, [Next]_vars
             PROVE  SlotType' /\ Progress' /\ SlotsOwned' /\ StateOwned' /\ Batched'
    BY NextInv DEF SlotInv
<1>0. Inv /\ Batched /\ SlotType BY DEF SlotInv
<1> DEFINE Goal == SlotType' /\ Progress' /\ SlotsOwned' /\ StateOwned' /\ Batched'
<1>1. ASSUME NEW q \in Requests, Arrive(q) PROVE Goal
    <2>1. stage' = [stage EXCEPT ![q] = "waiting"] /\ stage[q] = "new"
          /\ UNCHANGED <<left, launched, slot, free, state, last, ongoing>>
        BY <1>1 DEF Arrive, slots
    <2>2. Holders' = Holders BY <2>1, <1>0 DEF Holders, SlotType
    <2>3. SlotType' /\ Progress' /\ SlotsOwned' /\ StateOwned'
        <3>1. SlotType' BY <2>1 DEF SlotInv, SlotType, Stages
        <3>2. Progress' BY <2>1, <1>0 DEF SlotInv, SlotType, Progress
        <3>3. SlotsOwned' BY <2>1, <2>2 DEF SlotInv, SlotsOwned
        <3>4. StateOwned' BY <2>1, <2>2 DEF SlotInv, StateOwned, Forwards
        <3>5. QED BY <3>1, <3>2, <3>3, <3>4
    <2>4. Batched' BY <2>1, <1>0 DEF Batched, SlotType, Inv, Shape
    <2>5. QED BY <2>3, <2>4
<1>2. ASSUME NEW q \in Requests, Abort(q) PROVE Goal
    <2>1. Release({q}) /\ UNCHANGED <<left, launched, last, ongoing>> BY <1>2 DEF Abort
    <2>2. SlotType' /\ Progress' /\ SlotsOwned' /\ StateOwned' BY <2>1, ReleaseSlots
    <2>3. Batched' BY <2>1, <1>0 DEF Batched, Release, Inv, Shape
    <2>4. QED BY <2>2, <2>3
<1>3. ASSUME NEW q \in Requests, Prefill(q) PROVE Goal
    <2>1. SlotType' /\ Progress' /\ SlotsOwned' /\ StateOwned' BY <1>3, PrefillSlots
    <2>2. /\ DOMAIN ongoing' = {q} /\ last' = last
          /\ stage' = [stage EXCEPT ![q] = "chunked"] \/ stage' = [stage EXCEPT ![q] = "running"]
        BY <1>3 DEF Prefill
    <2>3. Batched' BY <2>2, <1>0 DEF Batched, SlotType, Inv, Shape
    <2>4. QED BY <2>1, <2>3
<1>4. ASSUME Decode PROVE Goal
    <2>1. SlotType' /\ Progress' /\ SlotsOwned' /\ StateOwned' BY <1>4, DecodeSlots
    <2>2. DOMAIN ongoing' = Running /\ UNCHANGED <<last, stage>> BY <1>4 DEF Decode
    <2>3. Batched' BY <2>2, <1>0 DEF Batched, Running
    <2>4. QED BY <2>1, <2>3
<1>5. ASSUME NothingToDo PROVE Goal
    <2>1. UNCHANGED <<stage, left, launched, slot, free, state, last, ongoing>>
        BY <1>5 DEF NothingToDo, slots
    <2>2. QED BY <2>1, <1>0, SlotsUnchanged DEF Batched
<1>6. ASSUME Commit PROVE Goal
    <2> DEFINE over == {q \in Sampling : Finished(q) /\ stage[q] # "done"}
    <2>1. Release(over) /\ UNCHANGED <<left, launched>> /\ last' \in {ongoing, NoBatch}
          /\ ongoing' = NoBatch
        BY <1>6 DEF Commit
    <2>2. over \subseteq Requests BY <1>0 DEF Sampling, Committed, Inv, Shape
    <2> HIDE DEF over
    <2>3. SlotType' /\ Progress' /\ SlotsOwned' /\ StateOwned' BY <2>1, <2>2, ReleaseSlots
    <2>4. Batched'
        BY <2>1, <1>0 DEF Batched, Release, Inv, Shape, NoBatch
    <2>5. QED BY <2>3, <2>4
<1>7. CASE UNCHANGED vars
    BY <1>7, <1>0, SlotsUnchanged DEF vars, slots, Batched
<1>8. QED BY <1>1, <1>2, <1>3, <1>4, <1>5, <1>6, <1>7 DEF Next

\* Every row and recurrent slot has one holder or is free, and the recurrent
\* state in it comes from each forward of its holder, once, and from no other
\* request (TableManager, RecurrentSlotManager.state_indices and free).
THEOREM SlotsAreFollowed == Spec => []SlotsFollowRequests
<1>1. Init => SlotInv
    BY InitSlotInv
<1>2. SlotInv /\ [Next]_vars => SlotInv'
    BY NextSlotInv
<1>3. SlotInv => SlotsFollowRequests
    BY SlotInvImplies
<1> QED BY <1>1, <1>2, <1>3, PTL DEF Spec

----------------------------------------------------------------------------
(* The token pool.  The cells of a request run ahead of what is committed  *)
(* by what was sampled for it in the batches that are not: the last one    *)
(* and the one of this iteration.  A request whose tokens may be           *)
(* overridden while another batch with it is in flight is left out: there  *)
(* an override can be lost.                                                *)

\* A text is a sequence, of whatever.
IsText(s) == \E S : s \in Seq(S)

\* What batch b sampled for q.
Pending(b, q) ==
    IF q \in DOMAIN b /\ b[q].token # Chunk THEN <<b[q].token>> ELSE << >>

Steady(q) == overlap => q \notin Thinks

\* Only a request that reasons has a reasoning gate.
OnlyThinkers == \A q \in Requests \ Thinks : think[q] = Off

TextType ==
    /\ DOMAIN out = Requests /\ DOMAIN cells = Requests
    /\ \A q \in Requests : IsText(out[q])

\* Nothing is sampled for a prompt that is not through.
NotYet ==
    \A q \in Requests : stage[q] \in {"new", "waiting", "chunked"} =>
        /\ out[q] = << >> /\ cells[q] = << >>
        /\ Pending(last, q) = << >> /\ Pending(ongoing, q) = << >>

CellsRunAhead ==
    \A q \in Requests : stage[q] # "done" /\ Steady(q) =>
        cells[q] = out[q] \o (Pending(last, q) \o Pending(ongoing, q))

TextInv == Inv /\ OnlyThinkers /\ TextType /\ NotYet /\ CellsRunAhead

\* Concatenation of texts.
LEMMA TextFacts ==
    ASSUME NEW s, IsText(s)
    PROVE  /\ s \o << >> = s /\ << >> \o s = s
           /\ \A e : IsText(Append(s, e)) /\ Append(s, e) = s \o <<e>>
<1>1. PICK S : s \in Seq(S) BY DEF IsText
<1>2. s \o << >> = s /\ << >> \o s = s BY <1>1, ConcatEmptySeq
<1>3. ASSUME NEW e PROVE IsText(Append(s, e)) /\ Append(s, e) = s \o <<e>>
    <2> DEFINE T == S \cup {e}
    <2>1. s \in Seq(T) /\ e \in T BY <1>1, SeqMonotonic
    <2>2. Append(s, e) \in Seq(T) BY <2>1, AppendProperties
    <2>3. Append(s, e) = s \o <<e>> BY <2>1, AppendIsConcat
    <2>4. QED BY <2>2, <2>3 DEF IsText
<1>4. QED BY <1>2, <1>3

\* A token in the middle can be taken with what is before it.
LEMMA TextJoin ==
    ASSUME NEW s, IsText(s), NEW d, NEW t, IsText(t)
    PROVE  Append(s, d) \o t = s \o (<<d>> \o t)
<1>1. PICK S : s \in Seq(S) BY DEF IsText
<1>2. PICK T : t \in Seq(T) BY DEF IsText
<1> DEFINE U == (S \cup T) \cup {d}
<1>3. s \in Seq(U) /\ t \in Seq(U) BY <1>1, <1>2, SeqMonotonic
<1>4. <<d>> \in Seq(U) OBVIOUS
<1>5. (s \o <<d>>) \o t = s \o (<<d>> \o t) BY <1>3, <1>4, ConcatAssociative
<1>6. QED BY <1>5, TextFacts

\* The last token of a text, overwritten.
LEMMA OverwriteLast ==
    ASSUME NEW s, IsText(s), NEW d, NEW e
    PROVE  [Append(s, d) EXCEPT ![Len(Append(s, d))] = e] = Append(s, e)
<1>1. PICK S : s \in Seq(S) BY DEF IsText
<1> DEFINE T == S \cup {d, e}  u == Append(s, d)  v == Append(s, e)
<1>2. s \in Seq(T) BY <1>1, SeqMonotonic
<1>3. /\ u \in Seq(T) /\ Len(u) = Len(s) + 1
      /\ \A i \in 1..Len(s) : u[i] = s[i]
    BY <1>2, AppendProperties
<1>4. /\ v \in Seq(T) /\ Len(v) = Len(s) + 1 /\ v[Len(s) + 1] = e
      /\ \A i \in 1..Len(s) : v[i] = s[i]
    BY <1>2, AppendProperties
<1>5. Len(s) \in Nat BY <1>2, LenProperties
<1> HIDE DEF u, v
<1> DEFINE w == [u EXCEPT ![Len(u)] = e]
<1>6. w \in Seq(T) /\ Len(w) = Len(u)
      /\ \A j \in 1..Len(u) : w[j] = IF j = Len(u) THEN e ELSE u[j]
    <2>1. Len(u) \in 1..Len(u) /\ e \in T BY <1>3, <1>5
    <2>2. QED BY <2>1, <1>3, ExceptSeq
<1> HIDE DEF w
<1>7. ASSUME NEW j \in 1..Len(w) PROVE w[j] = v[j]
    <2>1. (j \in 1..Len(s) /\ j # Len(u)) \/ (j = Len(s) + 1 /\ j = Len(u))
        BY <1>3, <1>5, <1>6
    <2>2. j \in 1..Len(u) BY <1>6
    <2>3. QED BY <2>1, <2>2, <1>3, <1>4, <1>6
<1>8. w = v BY <1>3, <1>4, <1>6, <1>7, SeqEqual
<1>9. QED BY <1>8 DEF u, v, w

\* What a batch has sampled for a request is a text of at most one token.
LEMMA PendingIsText ==
    ASSUME NEW b, NEW q
    PROVE  IsText(Pending(b, q))
<1>1. CASE Pending(b, q) = << >>
    <2>1. << >> \in Seq({}) OBVIOUS
    <2>2. QED BY <1>1, <2>1 DEF IsText
<1>2. CASE Pending(b, q) = <<b[q].token>>
    <2>1. <<b[q].token>> \in Seq({b[q].token}) OBVIOUS
    <2>2. QED BY <1>2, <2>1 DEF IsText
<1>3. QED BY <1>1, <1>2 DEF Pending

\* Without a reasoning gate, the token committed is the one sampled.
LEMMA NoGateNoOverride ==
    ASSUME NEW q \in Requests, q \notin Thinks, think[q] = Off
    PROVE  Token(q) = Committed[q].token /\ MovedThink(q) = Off
BY DEF Token, ArmedThink, MovedThink, Spent, Off

\* At first every row and every text is empty.
LEMMA InitTextInv == Init => TextInv
<1> SUFFICES ASSUME Init PROVE TextInv OBVIOUS
<1>1. /\ \A q \in Requests : out[q] = << >> /\ cells[q] = << >> /\ think[q] = Off
      /\ DOMAIN out = Requests /\ DOMAIN cells = Requests
      /\ last = << >> /\ ongoing = << >>
    BY DEF Init, NoBatch
<1>2. IsText(<< >>) /\ << >> \o (<< >> \o << >>) = << >>
    <2>1. << >> \in Seq({}) OBVIOUS
    <2>2. QED BY <2>1, TextFacts DEF IsText
<1>3. \A q : Pending(<< >>, q) = << >> BY DEF Pending
<1>4. QED
    BY <1>1, <1>2, <1>3, InitInv DEF TextInv, OnlyThinkers, TextType, NotYet, CellsRunAhead

\* What is sampled is a token.
LEMMA SampledIsToken ==
    ASSUME NEW q \in Requests, NEW e \in Sampled(q)
    PROVE  e # Chunk
BY DEF Sampled, RequestsAssumption

\* A launch with a new token for q, and none for q, when nothing is launched.
LEMMA LaunchText ==
    ASSUME TextInv, pc = "receive", NEW q \in Requests, stage[q] # "done", Steady(q),
           last' = last, out'[q] = out[q],
           \/ /\ cells'[q] = cells[q] /\ Pending(ongoing', q) = << >>
           \/ \E e : cells'[q] = Append(cells[q], e) /\ Pending(ongoing', q) = <<e>>
    PROVE  cells'[q] = out'[q] \o (Pending(last', q) \o Pending(ongoing', q))
<1> DEFINE p == Pending(last, q)
<1>1. IsText(p) /\ IsText(out[q]) BY PendingIsText DEF TextInv, TextType
<1>2. Pending(ongoing, q) = << >> BY DEF TextInv, Inv, Shape, Pending
<1>3. cells[q] = out[q] \o p
    <2>1. cells[q] = out[q] \o (p \o << >>) BY <1>2 DEF TextInv, CellsRunAhead
    <2>2. QED BY <2>1, <1>1, TextFacts
<1>4. CASE cells'[q] = cells[q] /\ Pending(ongoing', q) = << >>
    BY <1>1, <1>3, <1>4, TextFacts
<1>5. CASE \E e : cells'[q] = Append(cells[q], e) /\ Pending(ongoing', q) = <<e>>
    <2>1. PICK e : cells'[q] = Append(cells[q], e) /\ Pending(ongoing', q) = <<e>> BY <1>5
    <2>2. Append(out[q] \o p, e) = out[q] \o (p \o <<e>>)
        <3>1. p = << >> \/ p = <<last[q].token>> BY DEF Pending
        <3>2. CASE p = << >>
            <4>1. << >> \o <<e>> = <<e>>
                <5>1. <<e>> \in Seq({e}) OBVIOUS
                <5>2. QED BY <5>1, ConcatEmptySeq
            <4>2. out[q] \o p = out[q] BY <3>2, <1>1, TextFacts
            <4>3. Append(out[q], e) = out[q] \o <<e>> BY <1>1, TextFacts
            <4>4. QED BY <3>2, <4>1, <4>2, <4>3
        <3>3. CASE p = <<last[q].token>>
            <4> DEFINE d == last[q].token
            <4>1. out[q] \o p = Append(out[q], d) /\ IsText(Append(out[q], d))
                BY <3>3, <1>1, TextFacts
            <4>2. Append(Append(out[q], d), e) = Append(out[q], d) \o <<e>>
                BY <4>1, TextFacts
            <4>3. IsText(<<e>>)
                <5>1. <<e>> \in Seq({e}) OBVIOUS
                <5>2. QED BY <5>1 DEF IsText
            <4>4. Append(out[q], d) \o <<e>> = out[q] \o (<<d>> \o <<e>>)
                <5> HIDE DEF d
                <5>1. \A s, u : IsText(s) /\ IsText(u) => Append(s, d) \o u = s \o (<<d>> \o u)
                    BY TextJoin, SMTT(30)
                <5>2. IsText(out[q]) /\ IsText(<<e>>) BY <4>3, <1>1
                <5>3. QED BY <5>1, <5>2
            <4>5. QED BY <3>3, <4>1, <4>2, <4>4
        <3>4. QED BY <3>1, <3>2, <3>3
    <2>3. QED BY <2>1, <2>2, <1>3
<1>6. QED BY <1>4, <1>5

\* A prefill samples the first token of one request, behind an empty text.
LEMMA PrefillText ==
    ASSUME TextInv, NEW q \in Requests, Prefill(q)
    PROVE  OnlyThinkers' /\ TextType' /\ NotYet' /\ CellsRunAhead'
<1>1. /\ pc = "receive" /\ stage[q] \in {"waiting", "chunked"}
      /\ UNCHANGED <<overlap, out, think, last>>
      /\ DOMAIN ongoing' = {q}
      /\ DOMAIN stage = Requests /\ DOMAIN cells = Requests
    BY DEF Prefill, CanPrefill, gates, TextInv, TextType, Inv, Shape
<1>2. OnlyThinkers' BY <1>1 DEF TextInv, OnlyThinkers
<1>3. /\ out[q] = << >> /\ cells[q] = << >> /\ Pending(last, q) = << >>
    BY <1>1 DEF TextInv, NotYet
<1>4. \A p \in Requests \ {q} : Pending(ongoing', p) = << >> BY <1>1 DEF Pending
<1>5. \A p \in Requests \ {q} : stage'[p] = stage[p] /\ cells'[p] = cells[p]
    BY <1>1 DEF Prefill
<1>6. \/ /\ stage'[q] = "chunked" /\ cells' = cells /\ Pending(ongoing', q) = << >>
      \/ /\ stage'[q] = "running" /\ DOMAIN cells' = Requests
         /\ \E e : cells'[q] = Append(cells[q], e) /\ Pending(ongoing', q) = <<e>>
    <2>1. CASE left[q] > 1 /\ stage' = [stage EXCEPT ![q] = "chunked"] /\ cells' = cells
               /\ ongoing' = [p \in {q} |-> [token |-> Chunk, slot |-> SlotFor(q)]]
        BY <2>1, <1>1 DEF Pending
    <2>2. CASE /\ stage' = [stage EXCEPT ![q] = "running"]
               /\ \E e \in Sampled(q) :
                     /\ ongoing' = [p \in {q} |-> [token |-> e, slot |-> SlotFor(q)]]
                     /\ cells' = [cells EXCEPT ![q] = <<e>>]
        <3>1. PICK e \in Sampled(q) :
                     /\ ongoing' = [p \in {q} |-> [token |-> e, slot |-> SlotFor(q)]]
                     /\ cells' = [cells EXCEPT ![q] = <<e>>]
            BY <2>2
        <3>2. e # Chunk BY SampledIsToken
        <3>3. Append(<< >>, e) = <<e>> OBVIOUS
        <3>4. Pending(ongoing', q) = <<e>> BY <3>1, <3>2 DEF Pending
        <3>5. QED BY <2>2, <3>1, <3>3, <3>4, <1>1, <1>3
    <2>3. QED BY <2>1, <2>2 DEF Prefill
<1>7. TextType' BY <1>1, <1>6 DEF TextInv, TextType
<1>8. NotYet'
    <2>1. ASSUME NEW p \in Requests, stage'[p] \in {"new", "waiting", "chunked"}
          PROVE  /\ out'[p] = << >> /\ cells'[p] = << >>
                 /\ Pending(last', p) = << >> /\ Pending(ongoing', p) = << >>
        <3>1. CASE p = q BY <3>1, <2>1, <1>1, <1>3, <1>6
        <3>2. CASE p # q BY <3>2, <2>1, <1>1, <1>4, <1>5 DEF TextInv, NotYet
        <3>3. QED BY <3>1, <3>2
    <2>2. QED BY <2>1 DEF NotYet, Pending
<1>9. CellsRunAhead'
    <2>1. ASSUME NEW p \in Requests, stage'[p] # "done", Steady(p)'
          PROVE  cells'[p] = out'[p] \o (Pending(last', p) \o Pending(ongoing', p))
        <3>1. Steady(p) BY <2>1, <1>1 DEF Steady
        <3>2. stage[p] # "done" BY <2>1, <1>1, <1>5
        <3>3. \/ cells'[p] = cells[p] /\ Pending(ongoing', p) = << >>
              \/ \E e : cells'[p] = Append(cells[p], e) /\ Pending(ongoing', p) = <<e>>
            BY <1>4, <1>5, <1>6
        <3>4. QED BY <3>1, <3>2, <3>3, <1>1, LaunchText
    <2>2. QED BY <2>1 DEF CellsRunAhead, Pending
<1>10. QED BY <1>2, <1>7, <1>8, <1>9

\* A decode samples one token for each running request, behind its text.
LEMMA DecodeText ==
    ASSUME TextInv, Decode
    PROVE  OnlyThinkers' /\ TextType' /\ NotYet' /\ CellsRunAhead'
<1>1. PICK sampled \in [Running -> Tokens] :
          /\ \A q \in Running : sampled[q] \in Sampled(q)
          /\ ongoing' = [q \in Running |-> [token |-> sampled[q], slot |-> slot[q]]]
          /\ cells' = [q \in Requests |->
                IF q \in Running THEN Append(cells[q], sampled[q]) ELSE cells[q]]
    BY DEF Decode
<1>2. pc = "receive" /\ UNCHANGED <<overlap, stage, out, think, last>>
    BY DEF Decode, gates
<1>3. Running \subseteq Requests /\ \A q \in Running : stage[q] = "running" BY DEF Running
<1>4. ASSUME NEW q \in Requests
      PROVE  \/ /\ q \notin Running /\ cells'[q] = cells[q] /\ Pending(ongoing', q) = << >>
             \/ /\ q \in Running
                /\ \E e : cells'[q] = Append(cells[q], e) /\ Pending(ongoing', q) = <<e>>
    <2>1. CASE q \in Running
        <3>1. sampled[q] # Chunk BY <2>1, <1>1, <1>3, SampledIsToken
        <3>2. Pending(ongoing', q) = <<sampled[q]>> BY <2>1, <3>1, <1>1 DEF Pending
        <3>3. cells'[q] = Append(cells[q], sampled[q]) BY <2>1, <1>1
        <3>4. QED BY <2>1, <3>2, <3>3
    <2>2. CASE q \notin Running BY <2>2, <1>1 DEF Pending
    <2>3. QED BY <2>1, <2>2
<1>5. OnlyThinkers' BY <1>2 DEF TextInv, OnlyThinkers
<1>6. TextType' BY <1>1, <1>2 DEF TextInv, TextType
<1>7. NotYet'
    <2>1. ASSUME NEW p \in Requests, stage'[p] \in {"new", "waiting", "chunked"}
          PROVE  /\ out'[p] = << >> /\ cells'[p] = << >>
                 /\ Pending(last', p) = << >> /\ Pending(ongoing', p) = << >>
        <3>1. p \notin Running /\ stage[p] \in {"new", "waiting", "chunked"}
            BY <2>1, <1>2, <1>3
        <3>2. QED BY <3>1, <1>2, <1>4 DEF TextInv, NotYet
    <2>2. QED BY <2>1 DEF NotYet, Pending
<1>8. CellsRunAhead'
    <2>1. ASSUME NEW p \in Requests, stage'[p] # "done", Steady(p)'
          PROVE  cells'[p] = out'[p] \o (Pending(last', p) \o Pending(ongoing', p))
        <3>1. Steady(p) /\ stage[p] # "done" BY <2>1, <1>2 DEF Steady
        <3>2. QED BY <3>1, <1>2, <1>4, LaunchText
    <2>2. QED BY <2>1 DEF CellsRunAhead, Pending
<1>9. QED BY <1>5, <1>6, <1>7, <1>8

\* A commit moves a token from what is pending to what is committed; in the
\* normal loop it overwrites the last cell when it overrides the token.
LEMMA CommitText ==
    ASSUME TextInv, Commit
    PROVE  OnlyThinkers' /\ TextType' /\ NotYet' /\ CellsRunAhead'
<1> DEFINE over == {q \in Sampling : Finished(q) /\ stage[q] # "done"}
           goOn == {q \in Sampling : stage[q] # "done"} \ over
           moved == [q \in Requests |-> IF q \in Sampling THEN MovedThink(q) ELSE think[q]]
<1>1. PICK lost \in SUBSET (Overridden \cap InFlight) :
        cells' = [q \in Requests |->
                     IF q \in over THEN << >>
                     ELSE IF q \in goOn \cap (Overridden \ lost) THEN Overwrite(q, cells[q])
                     ELSE cells[q]]
    BY DEF Commit
<1>2. /\ stage' = [q \in Requests |-> IF q \in over THEN "done" ELSE stage[q]]
      /\ think' = [q \in Requests |-> IF q \in over THEN Off ELSE moved[q]]
      /\ out' = [q \in Requests |->
            IF q \in over THEN << >> ELSE IF q \in goOn THEN Append(out[q], Token(q)) ELSE out[q]]
      /\ last' = (IF overlap THEN ongoing ELSE NoBatch) /\ ongoing' = NoBatch
      /\ overlap' = overlap
    BY DEF Commit, Release, Freed
<1>3. Sampling \subseteq DOMAIN Committed /\ \A q \in Sampling : Committed[q].token # Chunk
    BY DEF Sampling
<1>4. \A q \in Requests : q \in Sampling <=> Pending(Committed, q) # << >>
    BY DEF Sampling, Pending
<1>5. \A q : Pending(NoBatch, q) = << >> BY DEF NoBatch, Pending
<1>6. ~overlap => \A q : Pending(last, q) = << >> BY DEF TextInv, Inv, Shape, Pending
<1>7. \A q \in over : (q \in Sampling /\ stage'[q] = "done") \/ q \notin Requests BY <1>2
<1>8. goOn \cap over = {} /\ \A q \in goOn : q \in Sampling /\ stage[q] # "done" OBVIOUS
<1>9. \A q \in Sampling : stage[q] = "done" \/ q \in over \/ q \in goOn OBVIOUS
<1>10. \A q \in Requests : moved[q] = IF q \in Sampling THEN MovedThink(q) ELSE think[q]
    OBVIOUS
<1> HIDE DEF over, goOn, moved
<1>11. OnlyThinkers'
    <2>1. ASSUME NEW q \in Requests, q \notin Thinks PROVE think'[q] = Off
        <3>1. think[q] = Off BY <2>1 DEF TextInv, OnlyThinkers
        <3>2. MovedThink(q) = Off BY <2>1, <3>1, NoGateNoOverride
        <3>3. QED BY <3>1, <3>2, <1>2, <1>10
    <2>2. QED BY <2>1 DEF OnlyThinkers
<1>12. TextType'
    <2>1. ASSUME NEW q \in Requests PROVE IsText(out'[q])
        <3>1. IsText(out[q]) BY DEF TextInv, TextType
        <3>2. IsText(Append(out[q], Token(q))) BY <3>1, TextFacts
        <3>3. IsText(<< >>)
            <4>1. << >> \in Seq({}) OBVIOUS
            <4>2. QED BY <4>1 DEF IsText
        <3>4. out'[q] \in {<< >>, out[q], Append(out[q], Token(q))} BY <1>2
        <3>5. QED BY <3>1, <3>2, <3>3, <3>4
    <2>2. QED BY <2>1, <1>1, <1>2 DEF TextType
<1>13. NotYet'
    <2>1. ASSUME NEW q \in Requests, stage'[q] \in {"new", "waiting", "chunked"}
          PROVE  /\ out'[q] = << >> /\ cells'[q] = << >>
                 /\ Pending(last', q) = << >> /\ Pending(ongoing', q) = << >>
        <3>1. q \notin over /\ stage[q] \in {"new", "waiting", "chunked"} BY <2>1, <1>2
        <3>2. /\ out[q] = << >> /\ cells[q] = << >>
              /\ Pending(last, q) = << >> /\ Pending(ongoing, q) = << >>
            BY <3>1 DEF TextInv, NotYet
        <3>3. q \notin Sampling BY <3>2, <1>4 DEF Committed
        <3>4. q \notin goOn BY <3>3, <1>8
        <3>5. QED BY <3>1, <3>2, <3>4, <1>1, <1>2, <1>5
    <2>2. QED BY <2>1 DEF NotYet, Pending
<1>14. ASSUME NEW q \in Requests, stage'[q] # "done", Steady(q)'
       PROVE  cells'[q] = out'[q] \o (Pending(last', q) \o Pending(ongoing', q))
    <2>1. q \notin over /\ stage[q] # "done" /\ Steady(q) BY <1>14, <1>2 DEF Steady
    <2>2. cells[q] = out[q] \o (Pending(last, q) \o Pending(ongoing, q))
        BY <2>1 DEF TextInv, CellsRunAhead
    <2>3. IsText(out[q]) /\ IsText(Pending(ongoing, q)) /\ IsText(<< >>)
        <3>1. << >> \in Seq({}) OBVIOUS
        <3>2. QED BY <3>1, PendingIsText DEF TextInv, TextType, IsText
    <2>4. CASE q \in Sampling
        <3> DEFINE d == Committed[q].token
        <3>1. Pending(Committed, q) = <<d>> BY <2>4, <1>3 DEF Pending
        <3>2. q \in goOn /\ out'[q] = Append(out[q], Token(q)) BY <2>1, <2>4, <1>2, <1>9
        <3>3. q \in Overridden <=> Token(q) # d BY <2>4 DEF Overridden
        <3>4. CASE overlap
            <4>1. q \notin Thinks /\ think[q] = Off
                BY <3>4, <2>1 DEF Steady, TextInv, OnlyThinkers
            <4>2. Token(q) = d BY <4>1, NoGateNoOverride
            <4>3. cells'[q] = cells[q] BY <4>2, <3>3, <2>1, <1>1
            <4>4. Pending(last, q) = <<d>> BY <3>1, <3>4 DEF Committed
            <4>5. Pending(last', q) = Pending(ongoing, q) /\ Pending(ongoing', q) = << >>
                BY <3>4, <1>2, <1>5
            <4> HIDE DEF d
            <4>6. Append(out[q], d) \o Pending(ongoing, q) = out[q] \o (<<d>> \o Pending(ongoing, q))
                <5>1. \A s, u : IsText(s) /\ IsText(u) => Append(s, d) \o u = s \o (<<d>> \o u)
                    BY TextJoin, SMTT(30)
                <5>2. IsText(out[q]) /\ IsText(Pending(ongoing, q)) BY <2>3
                <5>3. QED BY <5>1, <5>2
            <4>7. Pending(ongoing, q) \o << >> = Pending(ongoing, q) BY <2>3, TextFacts
            <4>8. QED BY <4>2, <4>3, <4>4, <4>5, <4>6, <4>7, <2>2, <3>2
        <3>5. CASE ~overlap
            <4>1. Pending(ongoing, q) = <<d>> BY <3>1, <3>5 DEF Committed
            <4>2. Pending(last, q) = << >> BY <3>5, <1>6
            <4>3. << >> \o Pending(ongoing, q) = Pending(ongoing, q) BY <2>3, TextFacts
            <4> HIDE DEF d
            <4>4. cells[q] = Append(out[q], d) BY <4>1, <4>2, <4>3, <2>2, <2>3, TextFacts
            <4>5. lost = {} BY <3>5 DEF InFlight
            <4>6. cells'[q] = Append(out[q], Token(q))
                <5>1. CASE q \in Overridden
                    <6>1. cells'[q] = Overwrite(q, cells[q]) BY <5>1, <4>5, <3>2, <2>1, <1>1
                    <6>2. Overwrite(q, cells[q]) =
                            [Append(out[q], d) EXCEPT ![Len(Append(out[q], d))] = Token(q)]
                        BY <4>4 DEF Overwrite
                    <6>3. QED BY <6>1, <6>2, <2>3, OverwriteLast
                <5>2. CASE q \notin Overridden
                    BY <5>2, <3>3, <4>4, <2>1, <1>1
                <5>3. QED BY <5>1, <5>2
            <4>7. Pending(last', q) = << >> /\ Pending(ongoing', q) = << >>
                BY <3>5, <1>2, <1>5
            <4>8. << >> \o << >> = << >> BY <2>3, TextFacts
            <4>9. Append(out[q], Token(q)) \o << >> = Append(out[q], Token(q))
                <5>1. IsText(Append(out[q], Token(q))) BY <2>3, TextFacts
                <5>2. QED BY <5>1, TextFacts
            <4>10. QED BY <4>6, <4>7, <4>8, <4>9, <3>2
        <3>6. QED BY <3>4, <3>5
    <2>5. CASE q \notin Sampling
        <3>1. out'[q] = out[q] /\ cells'[q] = cells[q]
            BY <2>1, <2>5, <1>1, <1>2, <1>8
        <3>2. Pending(Committed, q) = << >> BY <2>5, <1>4
        <3>3. /\ << >> \o Pending(ongoing, q) = Pending(ongoing, q)
              /\ Pending(ongoing, q) \o << >> = Pending(ongoing, q)
            BY <2>3, TextFacts
        <3>4. CASE overlap
            BY <3>1, <3>2, <3>3, <3>4, <2>2, <1>2, <1>5 DEF Committed
        <3>5. CASE ~overlap
            BY <3>1, <3>2, <3>3, <3>5, <2>2, <1>2, <1>5, <1>6 DEF Committed
        <3>6. QED BY <3>4, <3>5
    <2>6. QED BY <2>4, <2>5
<1>15. CellsRunAhead' BY <1>14 DEF CellsRunAhead, Pending
<1>16. QED BY <1>11, <1>12, <1>13, <1>15

\* Each action keeps the invariant.
LEMMA NextTextInv == TextInv /\ [Next]_vars => TextInv'
<1> SUFFICES ASSUME TextInv, [Next]_vars
             PROVE  OnlyThinkers' /\ TextType' /\ NotYet' /\ CellsRunAhead'
    BY NextInv DEF TextInv
<1> DEFINE Goal == OnlyThinkers' /\ TextType' /\ NotYet' /\ CellsRunAhead'
<1>0. OnlyThinkers /\ TextType /\ NotYet /\ CellsRunAhead /\ DOMAIN stage = Requests
      /\ DOMAIN think = Requests
    BY DEF TextInv, Inv, Shape
<1>1. ASSUME NEW q \in Requests, Arrive(q) PROVE Goal
    <2>1. stage' = [stage EXCEPT ![q] = "waiting"] /\ stage[q] = "new"
          /\ UNCHANGED <<overlap, out, cells, think, last, ongoing>>
        BY <1>1 DEF Arrive, gates
    <2>2. OnlyThinkers' /\ TextType' BY <2>1, <1>0 DEF OnlyThinkers, TextType
    <2>3. NotYet' BY <2>1, <1>0 DEF NotYet, Pending
    <2>4. CellsRunAhead' BY <2>1, <1>0 DEF CellsRunAhead, Pending, Steady
    <2>5. QED BY <2>2, <2>3, <2>4
<1>2. ASSUME NEW q \in Requests, Abort(q) PROVE Goal
    <2>1. /\ stage' = [p \in Requests |-> IF p \in {q} THEN "done" ELSE stage[p]]
          /\ think' = [p \in Requests |-> IF p \in {q} THEN Off ELSE think[p]]
          /\ out' = [out EXCEPT ![q] = << >>] /\ cells' = [cells EXCEPT ![q] = << >>]
          /\ UNCHANGED <<overlap, last, ongoing>>
        BY <1>2 DEF Abort, Release, Freed
    <2>2. IsText(<< >>)
        <3>1. << >> \in Seq({}) OBVIOUS
        <3>2. QED BY <3>1 DEF IsText
    <2>3. OnlyThinkers' BY <2>1, <1>0 DEF OnlyThinkers
    <2>4. TextType' BY <2>1, <2>2, <1>0 DEF TextType
    <2>5. \A p \in Requests : stage'[p] # "done" =>
            p # q /\ stage'[p] = stage[p] /\ out'[p] = out[p] /\ cells'[p] = cells[p]
        BY <2>1, <1>0 DEF TextType
    <2>6. NotYet' BY <2>1, <2>5, <1>0 DEF NotYet, Pending
    <2>7. CellsRunAhead' BY <2>1, <2>5, <1>0 DEF CellsRunAhead, Pending, Steady
    <2>8. QED BY <2>3, <2>4, <2>6, <2>7
<1>3. ASSUME NEW q \in Requests, Prefill(q) PROVE Goal BY <1>3, PrefillText
<1>4. CASE Decode BY <1>4, DecodeText
<1>5. CASE NothingToDo \/ UNCHANGED vars
    <2>1. UNCHANGED <<overlap, stage, out, cells, think, last, ongoing>>
        BY <1>5 DEF NothingToDo, gates, vars
    <2>2. QED BY <2>1, <1>0 DEF OnlyThinkers, TextType, NotYet, CellsRunAhead, Pending, Steady
<1>6. CASE Commit BY <1>6, CommitText
<1>7. QED BY <1>1, <1>2, <1>3, <1>4, <1>5, <1>6 DEF Next

\* What stands in front of a text.
LEMMA FrontOfText ==
    ASSUME NEW s, IsText(s), NEW t, IsText(t)
    PROVE  Len(s) <= Len(s \o t) /\ SubSeq(s \o t, 1, Len(s)) = s
<1>1. PICK S : s \in Seq(S) BY DEF IsText
<1>2. PICK T : t \in Seq(T) BY DEF IsText
<1> DEFINE U == S \cup T  u == s \o t
<1>3. s \in Seq(U) /\ t \in Seq(U) BY <1>1, <1>2, SeqMonotonic
<1>4. /\ u \in Seq(U) /\ Len(u) = Len(s) + Len(t)
      /\ \A i \in 1 .. Len(s) + Len(t) : u[i] = IF i <= Len(s) THEN s[i] ELSE t[i - Len(s)]
    BY <1>3, ConcatProperties
<1>5. Len(s) \in Nat /\ Len(t) \in Nat BY <1>3, LenProperties
<1> HIDE DEF u, U
<1>6. \A i \in 1..Len(s) : u[i] = s[i] /\ u[i] \in U
    <2>1. \A i \in 1..Len(s) : u[i] = s[i] BY <1>4, <1>5
    <2>2. QED BY <2>1, <1>3, ElementOfSeq
<1> DEFINE v == SubSeq(u, 1, Len(s))
<1>7. /\ v \in Seq(U)
      /\ Len(v) = IF 1 <= Len(s) THEN Len(s) - 1 + 1 ELSE 0
      /\ \A i \in 1..(Len(s) - 1 + 1) : v[i] = u[1 + i - 1]
    BY <1>5, <1>6, SubSeqProperties
<1> HIDE DEF v
<1>8. Len(v) = Len(s) /\ \A i \in 1..Len(s) : v[i] = s[i]
    <2>1. Len(v) = Len(s) BY <1>5, <1>7
    <2>2. ASSUME NEW i \in 1..Len(s) PROVE v[i] = s[i]
        <3>1. i \in 1..(Len(s) - 1 + 1) /\ 1 + i - 1 = i BY <1>5
        <3>2. v[i] = u[1 + i - 1] BY <3>1, <1>7
        <3>3. QED BY <3>1, <3>2, <1>6
    <2>3. QED BY <2>1, <2>2
<1>9. v = s BY <1>3, <1>7, <1>8, SeqEqual
<1>10. QED BY <1>4, <1>5, <1>9 DEF u, v

\* The cells the next forward reads are the tokens that were sent, for every
\* request of the normal loop and for those of the overlap loop without a
\* reasoning gate (_forward, _process_last_data).
THEOREM CellsAreCommitted == Spec => []ContextIsCommitted
<1>1. Init => TextInv
    BY InitTextInv
<1>2. TextInv /\ [Next]_vars => TextInv'
    BY NextTextInv
<1>3. TextInv => ContextIsCommitted
    <2>1. SUFFICES ASSUME TextInv, NEW q \in Talking, overlap => q \notin Thinks
                   PROVE  /\ Len(out[q]) <= Len(cells[q])
                          /\ SubSeq(cells[q], 1, Len(out[q])) = out[q]
        BY DEF ContextIsCommitted
    <2> DEFINE t == Pending(last, q) \o Pending(ongoing, q)
    <2>2. q \in Requests /\ stage[q] # "done" /\ Steady(q) BY <2>1 DEF Talking, Steady
    <2>3. cells[q] = out[q] \o t BY <2>1, <2>2 DEF TextInv, CellsRunAhead
    <2>4. IsText(out[q]) BY <2>1, <2>2 DEF TextInv, TextType
    <2>5. IsText(t)
        <3>1. PICK S : Pending(last, q) \in Seq(S) BY PendingIsText DEF IsText
        <3>2. PICK T : Pending(ongoing, q) \in Seq(T) BY PendingIsText DEF IsText
        <3>3. Pending(last, q) \in Seq(S \cup T) /\ Pending(ongoing, q) \in Seq(S \cup T)
            BY <3>1, <3>2, SeqMonotonic
        <3>4. t \in Seq(S \cup T) BY <3>3, ConcatProperties
        <3>5. QED BY <3>4 DEF IsText
    <2> HIDE DEF t
    <2>6. QED BY <2>3, <2>4, <2>5, FrontOfText
<1> QED BY <1>1, <1>2, <1>3, PTL DEF Spec

----------------------------------------------------------------------------
(* What the gates know.  The invariant ties both gates of a running request *)
(* to its text, and with them what a pending end of turn was sampled under. *)

Limit(q) == EffectiveBudget(Budget[q], MaxTokens[q])

\* No text ends in an opener and a closer at once.
Apart == \A s \in Seq(Tokens) : ~(MatchesOne(s, Openers) /\ MatchesOne(s, Closers))

\* Batches sample tokens.
BatchesSample ==
    \A q \in Requests :
        /\ q \in DOMAIN last => last[q].token \in Tokens \cup {Chunk}
        /\ q \in DOMAIN ongoing => ongoing[q].token \in Tokens \cup {Chunk}

ThinkKnows(g, text, limit) ==
    text # << >> /\ FollowsText(g, Tokens, text) /\ Bounded(g, text, limit)

GatesKnow(q) ==
    \/ think[q] = Off /\ tool[q] = Off /\ out[q] = << >>
    \/ think[q] = Released /\ Reasoned(out[q])
    \/ /\ ThinkKnows(think[q], out[q], Limit(q))
       /\ Apart /\ q \in HasTools \ Gated => ToolFollows(tool[q], Tokens, out[q])

TextsKnown ==
    \A q \in Requests :
        /\ out[q] \in Seq(Tokens)
        /\ stage[q] \in {"new", "waiting", "chunked"} => think[q] = Off /\ tool[q] = Off
        /\ stage[q] = "running" /\ q \in Thinks => GatesKnow(q)

GateInv ==
    /\ TextInv
    /\ stage \in [Requests -> Stages] /\ DOMAIN tool = Requests /\ DOMAIN reason = Requests
    /\ BatchesSample /\ TextsKnown

\* The budget of a bounded reasoner is less than _UNBOUNDED.
LEMMA LimitIs ==
    ASSUME NEW q \in Requests
    PROVE  Limit(q) \in Int /\ (Budget[q] >= 0 => Limit(q) < Unbounded)
<1>. DEFINE b == Budget[q]  n == MaxTokens[q]  c == Len(Close)
            asked == IF b > 0 THEN b ELSE DefaultBudget  most == (n * 3) \div 4 - c
<1>1. b \in Int /\ n \in Nat \ {0} /\ c \in Nat \ {0} /\ DefaultBudget \in Nat /\ Unbounded \in Nat
      /\ n < Unbounded /\ Unbounded > 1
    BY CloseLength, DelimitersAssumption
<1>2. Limit(q) = IF b < 0 THEN Unbounded
                 ELSE IF asked + c < n THEN asked ELSE IF most > 1 THEN most ELSE 1
    BY DEF Limit, EffectiveBudget
<1>. HIDE DEF b, n, c
<1>3. most \in Int /\ most < n
    BY <1>1
<1>. HIDE DEF most
<1>4. asked \in Int
    BY <1>1
<1>. HIDE DEF asked
<1>5. Limit(q) \in Int /\ (b >= 0 => Limit(q) < Unbounded)
    BY <1>1, <1>2, <1>3, <1>4
<1>. QED  BY <1>5 DEF b

\* The closing delimiter consists of tokens, none of them the end of the turn.
LEMMA CloseIsText == Close \in Seq(Tokens) /\ \A i \in 1 .. Len(Close) : Close[i] \in Tokens \ {Eos}
<1>1. Close \in Seq(Tokens \ {Eos})
    BY DelimitersAssumption
<1>2. Close \in Seq(Tokens)
    BY <1>1, SeqMonotonic
<1>. QED  BY <1>1, <1>2

\* What the gates know of a request to which a token is committed: they were
\* armed before, if they were off, and then follow the text so far.
Before(q) ==
    /\ FollowsText(ArmedThink(q), Tokens, out[q]) /\ Bounded(ArmedThink(q), out[q], Limit(q))
    /\ Apart /\ q \in HasTools \ Gated => ToolFollows(ArmedTool(q), Tokens, out[q])

\* A gate that has not let go is armed by the commit, if it was not, and follows
\* the text so far.
LEMMA ArmedBefore ==
    ASSUME GateInv, NEW q \in Thinks, stage[q] = "running", think[q] # Released
    PROVE  Before(q)
<1>0. q \in Requests
    OBVIOUS
<1>1. GatesKnow(q)
    BY <1>0 DEF GateInv, TextsKnown
<1>2. CASE think[q] = Off /\ tool[q] = Off /\ out[q] = << >>
  <2>1. ArmedThink(q) = ArmThink(Budget[q], MaxTokens[q])
    BY <1>2 DEF ArmedThink, Off
  <2>2. FollowsText(ArmedThink(q), Tokens, << >>) /\ Bounded(ArmedThink(q), << >>, Limit(q))
    <3>1. Budget[q] \in Int /\ MaxTokens[q] \in Nat
      BY <1>0
    <3>. QED  BY <2>1, <3>1, ArmFollows DEF Limit
  <2>3. ASSUME q \in HasTools \ Gated PROVE ToolFollows(ArmedTool(q), Tokens, << >>)
    <3>1. ArmedTool(q) = ArmTool({})
      BY <1>2, <2>3 DEF ArmedTool, Off
    <3>2. Openers # {}
      BY <2>3, DelimitersAssumption
    <3>. QED  BY <3>1, <3>2, ToolArmed
  <2>. QED  BY <1>2, <2>2, <2>3 DEF Before
<1>3. CASE think[q] # Off
  <2>1. ThinkKnows(think[q], out[q], Limit(q))
        /\ (Apart /\ q \in HasTools \ Gated => ToolFollows(tool[q], Tokens, out[q]))
    BY <1>1, <1>3 DEF GatesKnow
  <2>2. think[q].at = "armed"
    BY <2>1 DEF ThinkKnows, FollowsText, ArmedGates
  <2>3. ArmedThink(q) = think[q]
    BY <2>2 DEF ArmedThink
  <2>4. Apart /\ q \in HasTools \ Gated => ArmedTool(q) = tool[q]
    BY <2>1 DEF ArmedTool, ToolFollows
  <2>. QED  BY <2>1, <2>3, <2>4 DEF Before, ThinkKnows
<1>4. ASSUME think[q] = Off PROVE tool[q] = Off /\ out[q] = << >>
  <2>1. Off.at # "armed" /\ Off # Released
    BY DEF Off, Released
  <2>2. ~ThinkKnows(Off, out[q], Limit(q))
    BY <2>1 DEF ThinkKnows, FollowsText, ArmedGates
  <2>. QED  BY <1>1, <1>4, <2>1, <2>2 DEF GatesKnow
<1>. QED  BY <1>2, <1>3, <1>4

\* A token is committed to a request whose prompt is through.
LEMMA SamplingRuns ==
    ASSUME GateInv, NEW q \in Sampling
    PROVE  /\ q \in Requests /\ stage[q] \in {"running", "done"}
           /\ Committed[q].token \in Tokens
<1>1. q \in DOMAIN Committed /\ Committed[q].token # Chunk
    BY DEF Sampling
<1>2. DOMAIN Committed \subseteq Requests
    BY DEF Committed, GateInv, TextInv, Inv, Shape
<1>3. Committed[q].token \in Tokens
    BY <1>1, <1>2 DEF Committed, GateInv, BatchesSample
<1>4. Pending(Committed, q) # << >>
    BY <1>1 DEF Pending
<1>5. stage[q] \notin {"new", "waiting", "chunked"}
    BY <1>2, <1>1, <1>4 DEF Committed, GateInv, TextInv, NotYet
<1>6. stage[q] \in Stages
    BY <1>1, <1>2 DEF GateInv
<1>. QED  BY <1>1, <1>2, <1>3, <1>5, <1>6 DEF Stages

\* The token committed is a token; and it is what the gate demands.
LEMMA TokenObeys ==
    ASSUME GateInv, NEW q \in Sampling, stage[q] = "running"
    PROVE  /\ Token(q) \in Tokens
           /\ Spent(ArmedThink(q)) => Token(q) = ForcedNext(ArmedThink(q)) /\ Token(q) # Eos
<1>1. q \in Requests /\ Committed[q].token \in Tokens
    BY SamplingRuns
<1>2. CASE ~Spent(ArmedThink(q))
    BY <1>1, <1>2 DEF Token
<1>3. CASE Spent(ArmedThink(q))
  <2>1. ArmedThink(q).at = "armed"
    BY <1>3 DEF Spent
  <2>2. q \in Thinks /\ think[q] # Released
    <3>1. CASE q \notin Thinks
      <4>1. think[q] = Off
        BY <1>1, <3>1 DEF GateInv, TextInv, OnlyThinkers
      <4>. QED  BY <2>1, <3>1, <4>1 DEF ArmedThink, Off
    <3>2. CASE think[q] = Released
      BY <2>1, <3>2 DEF ArmedThink, Released
    <3>. QED  BY <3>1, <3>2
  <2>3. Before(q)
    BY <2>2, ArmedBefore
  <2>4. out[q] \in Seq(Tokens)
    BY <1>1 DEF GateInv, TextsKnown
  <2>5. ForceBase(ArmedThink(q)) \in 1 .. Len(Close)
    BY <2>3, <2>4, CloseIsText, ForceBaseFollows DEF Before
  <2>6. ForcedNext(ArmedThink(q)) \in Tokens \ {Eos}
    BY <2>5, CloseIsText DEF ForcedNext
  <2>. QED  BY <1>3, <2>6 DEF Token
<1>. QED  BY <1>2, <1>3

\* A commit that does not end the request moves the gates along with the text.
LEMMA CommitMoves ==
    ASSUME GateInv, NEW q \in Sampling, stage[q] = "running", ~Finished(q), q \in Thinks
    PROVE  \/ MovedThink(q) = Released /\ Reasoned(Append(out[q], Token(q)))
           \/ /\ ThinkKnows(MovedThink(q), Append(out[q], Token(q)), Limit(q))
              /\ Apart /\ q \in HasTools \ Gated =>
                     ToolFollows(MovedTool(q), Tokens, Append(out[q], Token(q)))
<1>. DEFINE new == Append(out[q], Token(q))  g == ArmedThink(q)
<1>1. q \in Requests /\ out[q] \in Seq(Tokens) /\ Token(q) \in Tokens
    BY SamplingRuns, TokenObeys DEF GateInv, TextsKnown
<1>2. new \in Seq(Tokens) /\ new # << >>
  <2>1. \A text \in Seq(Tokens), token \in Tokens :
            Append(text, token) \in Seq(Tokens) /\ Append(text, token) # << >>
    BY AppendProperties
  <2>. QED  BY <1>1, <2>1
<1>3. CASE think[q] = Released
  <2>1. MovedThink(q) = Released
    BY <1>3 DEF MovedThink, ArmedThink, Released
  <2>2. Reasoned(out[q])
    <3>1. GatesKnow(q)
      BY <1>1 DEF GateInv, TextsKnown
    <3>2. Released # Off /\ Released.at # "armed"
      BY DEF Off, Released
    <3>. QED  BY <1>3, <3>1, <3>2 DEF GatesKnow, ThinkKnows, FollowsText, ArmedGates
  <2>. QED  BY <1>1, <2>1, <2>2, ReasonedOneMore
<1>4. CASE think[q] # Released
  <2>1. FollowsText(g, Tokens, out[q]) /\ Bounded(g, out[q], Limit(q))
        /\ (Apart /\ q \in HasTools \ Gated => ToolFollows(ArmedTool(q), Tokens, out[q]))
    BY <1>4, ArmedBefore DEF Before
  <2>2. g.at = "armed"
    BY <2>1 DEF FollowsText, ArmedGates
  <2>3. MovedThink(q) = CommitThink(g, Token(q)) /\ MovedTool(q) = CommitTool(ArmedTool(q), Token(q))
    BY <2>2 DEF MovedThink, MovedTool
  <2>4. \/ CommitThink(g, Token(q)) = Released /\ Reasoned(new)
        \/ /\ CommitThink(g, Token(q)) = MovedGate(g, Token(q))
           /\ FollowsText(MovedGate(g, Token(q)), Tokens, new)
    <3>. HIDE DEF g
    <3>. QED  BY <1>1, <2>1, CloseIsText, GateStep
  <2>5. Bounded(MovedGate(g, Token(q)), new, Limit(q))
    <3>1. Spent(g) => Token(q) = ForcedNext(g)
      BY TokenObeys
    <3>2. Limit(q) \in Int
      BY <1>1, LimitIs
    <3>. HIDE DEF g
    <3>. QED  BY <1>1, <2>1, <3>1, <3>2, CloseIsText, BoundedStep
  <2>6. ASSUME Apart, q \in HasTools \ Gated PROVE ToolFollows(CommitTool(ArmedTool(q), Token(q)), Tokens, new)
    <3>1. Openers # {}
      BY <2>6, DelimitersAssumption
    <3>2. ~(MatchesOne(new, Openers) /\ MatchesOne(new, Closers))
      <4>. HIDE DEF new
      <4>. QED  BY <1>2, <2>6 DEF Apart
    <3>3. ToolFollows(ArmedTool(q), Tokens, out[q])
      BY <2>1, <2>6
    <3>. QED  BY <1>1, <3>1, <3>2, <3>3, ToolStep
  <2>. HIDE DEF new, g
  <2>. QED  BY <1>2, <2>3, <2>4, <2>5, <2>6 DEF ThinkKnows, new
<1>. QED  BY <1>3, <1>4

\* At first no gate is armed and no text is sent.
LEMMA InitGateInv == Init => GateInv
<1>. SUFFICES ASSUME Init PROVE GateInv
    OBVIOUS
<1>1. TextInv
    BY InitTextInv
<1>2. \A q \in Requests : out[q] = << >> /\ think[q] = Off /\ tool[q] = Off /\ stage[q] = "new"
    BY DEF Init
<1>3. << >> \in Seq(Tokens)
    OBVIOUS
<1>4. TextsKnown
    BY <1>2, <1>3 DEF TextsKnown
<1>5. DOMAIN last = {} /\ DOMAIN ongoing = {}
    BY DEF Init, NoBatch
<1>6. BatchesSample
    BY <1>5 DEF BatchesSample
<1>7. stage \in [Requests -> Stages] /\ DOMAIN tool = Requests /\ DOMAIN reason = Requests
    BY DEF Init, Stages
<1>. QED  BY <1>1, <1>4, <1>6, <1>7 DEF GateInv

\* What the invariant says of one request depends on that request.
RequestKnown(q) ==
    /\ out[q] \in Seq(Tokens)
    /\ stage[q] \in {"new", "waiting", "chunked"} => think[q] = Off /\ tool[q] = Off
    /\ stage[q] = "running" /\ q \in Thinks => GatesKnow(q)

\* A step that leaves a request alone keeps what its gates know.
LEMMA KnownStays ==
    ASSUME NEW q, RequestKnown(q), out'[q] = out[q], think'[q] = think[q], tool'[q] = tool[q],
           stage'[q] = stage[q]
    PROVE  RequestKnown(q)'
BY DEF RequestKnown, GatesKnow

\* A commit moves the gates of the requests that go on and frees those of the
\* requests it ends.
LEMMA CommitKnows ==
    ASSUME GateInv, Commit
    PROVE  TextsKnown' /\ BatchesSample'
           /\ (stage \in [Requests -> Stages] /\ DOMAIN tool = Requests /\ DOMAIN reason = Requests)'
<1>. DEFINE over == {q \in Sampling : Finished(q) /\ stage[q] # "done"}
            goOn == {q \in Sampling : stage[q] # "done"} \ over
            thinks == [q \in Requests |-> IF q \in Sampling THEN MovedThink(q) ELSE think[q]]
            tools == [q \in Requests |-> IF q \in Sampling THEN MovedTool(q) ELSE tool[q]]
<1>1. /\ stage' = [q \in Requests |-> IF q \in over THEN "done" ELSE stage[q]]
      /\ think' = [q \in Requests |-> IF q \in over THEN Off ELSE thinks[q]]
      /\ tool' = [q \in Requests |-> IF q \in over THEN Off ELSE tools[q]]
      /\ out' = [q \in Requests |->
            IF q \in over THEN << >> ELSE IF q \in goOn THEN Append(out[q], Token(q)) ELSE out[q]]
      /\ DOMAIN reason' = Requests
      /\ last' = (IF overlap THEN ongoing ELSE NoBatch) /\ ongoing' = NoBatch
    BY DEF Commit, Release, Freed
<1>2. \A q \in Requests : /\ thinks[q] = IF q \in Sampling THEN MovedThink(q) ELSE think[q]
                          /\ tools[q] = IF q \in Sampling THEN MovedTool(q) ELSE tool[q]
    OBVIOUS
<1>3. \A q : q \in goOn <=> q \in Sampling /\ stage[q] # "done" /\ ~Finished(q)
    OBVIOUS
<1>. HIDE DEF over, goOn, thinks, tools
<1>4. BatchesSample'
  <2>1. DOMAIN NoBatch = {}
    BY DEF NoBatch
  <2>. QED  BY <1>1, <2>1 DEF GateInv, BatchesSample
<1>5. (stage \in [Requests -> Stages] /\ DOMAIN tool = Requests /\ DOMAIN reason = Requests)'
    BY <1>1 DEF GateInv, Stages
<1>6. ASSUME NEW q \in Requests PROVE RequestKnown(q)'
  <2>1. RequestKnown(q)
    BY DEF GateInv, TextsKnown, RequestKnown
  <2>2. CASE q \in over
    <3>1. stage'[q] = "done" /\ out'[q] = << >>
      BY <1>1, <2>2
    <3>2. << >> \in Seq(Tokens)
      OBVIOUS
    <3>. QED  BY <3>1, <3>2 DEF RequestKnown
  <2>3. CASE q \in goOn
    <3>1. q \notin over /\ q \in Sampling /\ stage[q] = "running" /\ ~Finished(q)
      BY <1>3, <2>3, SamplingRuns DEF over
    <3>2. /\ stage'[q] = "running" /\ think'[q] = MovedThink(q) /\ tool'[q] = MovedTool(q)
          /\ out'[q] = Append(out[q], Token(q))
      BY <1>1, <1>2, <2>3, <3>1
    <3>3. out'[q] \in Seq(Tokens)
      <4>1. Token(q) \in Tokens /\ out[q] \in Seq(Tokens)
        BY <2>1, <3>1, TokenObeys DEF RequestKnown
      <4>. QED  BY <3>2, <4>1, AppendProperties
    <3>4. ASSUME q \in Thinks PROVE GatesKnow(q)'
      <4>1. \/ think'[q] = Released /\ Reasoned(out'[q])
            \/ /\ ThinkKnows(think'[q], out'[q], Limit(q))
               /\ Apart /\ q \in HasTools \ Gated => ToolFollows(tool'[q], Tokens, out'[q])
        BY <3>1, <3>2, <3>4, CommitMoves
      <4>. QED  BY <4>1 DEF GatesKnow
    <3>. QED  BY <3>2, <3>3, <3>4 DEF RequestKnown
  <2>4. CASE q \notin over /\ q \notin goOn
    <3>1. out'[q] = out[q] /\ stage'[q] = stage[q]
      BY <1>1, <2>4
    <3>2. CASE q \in Sampling
      <4>1. stage[q] = "done"
        BY <1>3, <2>4, <3>2 DEF over
      <4>. QED  BY <2>1, <3>1, <4>1 DEF RequestKnown
    <3>3. CASE q \notin Sampling
      <4>1. think'[q] = think[q] /\ tool'[q] = tool[q]
        BY <1>1, <1>2, <2>4, <3>3
      <4>. QED  BY <2>1, <3>1, <4>1, KnownStays
    <3>. QED  BY <3>2, <3>3
  <2>. QED  BY <2>2, <2>3, <2>4
<1>7. TextsKnown'
    BY <1>6 DEF TextsKnown, RequestKnown
<1>. QED  BY <1>4, <1>5, <1>7

\* Each action keeps the invariant.
LEMMA NextGateInv == GateInv /\ [Next]_vars => GateInv'
<1>. SUFFICES ASSUME GateInv, [Next]_vars PROVE GateInv'
    OBVIOUS
<1>. DEFINE Typed == stage \in [Requests -> Stages] /\ DOMAIN tool = Requests /\ DOMAIN reason = Requests
            Goal == Typed' /\ BatchesSample' /\ TextsKnown'
<1>1. TextInv'
    BY NextTextInv DEF GateInv
<1>2. /\ Typed /\ DOMAIN stage = Requests /\ DOMAIN think = Requests /\ DOMAIN out = Requests
      /\ BatchesSample /\ \A q \in Requests : RequestKnown(q)
    BY DEF GateInv, TextInv, Inv, Shape, TextType, TextsKnown, RequestKnown
<1>3. ASSUME \A q \in Requests : RequestKnown(q)' PROVE TextsKnown'
    BY <1>3 DEF TextsKnown, RequestKnown
<1>4. << >> \in Seq(Tokens)
    OBVIOUS
<1>5. ASSUME NEW q \in Requests, Arrive(q) PROVE Goal
  <2>1. stage' = [stage EXCEPT ![q] = "waiting"] /\ stage[q] = "new"
        /\ UNCHANGED <<out, think, tool, reason, last, ongoing>>
    BY <1>5 DEF Arrive, gates
  <2>2. Typed' /\ BatchesSample'
    BY <1>2, <2>1 DEF BatchesSample, Stages
  <2>3. ASSUME NEW p \in Requests PROVE RequestKnown(p)'
    <3>1. CASE p = q
      BY <1>2, <2>1, <3>1 DEF RequestKnown
    <3>2. CASE p # q
      BY <1>2, <2>1, <3>2, KnownStays
    <3>. QED  BY <3>1, <3>2
  <2>. QED  BY <1>3, <2>2, <2>3
<1>6. ASSUME NEW q \in Requests, Abort(q) PROVE Goal
  <2>1. /\ stage' = [p \in Requests |-> IF p \in {q} THEN "done" ELSE stage[p]]
        /\ think' = [p \in Requests |-> IF p \in {q} THEN Off ELSE think[p]]
        /\ tool' = [p \in Requests |-> IF p \in {q} THEN Off ELSE tool[p]]
        /\ out' = [out EXCEPT ![q] = << >>] /\ reason' = [reason EXCEPT ![q] = "abort"]
        /\ UNCHANGED <<last, ongoing>>
    BY <1>6 DEF Abort, Release, Freed
  <2>2. Typed' /\ BatchesSample'
    BY <1>2, <2>1 DEF BatchesSample, Stages
  <2>3. ASSUME NEW p \in Requests PROVE RequestKnown(p)'
    <3>1. CASE p = q
      BY <1>2, <1>4, <2>1, <3>1 DEF RequestKnown
    <3>2. CASE p # q
      BY <1>2, <2>1, <3>2, KnownStays
    <3>. QED  BY <3>1, <3>2
  <2>. QED  BY <1>3, <2>2, <2>3
<1>7. ASSUME NEW q \in Requests, Prefill(q) PROVE Goal
  <2>1. /\ UNCHANGED <<out, think, tool, reason, last>>
        /\ stage[q] \in {"waiting", "chunked"}
        /\ \/ stage' = [stage EXCEPT ![q] = "chunked"]
           \/ stage' = [stage EXCEPT ![q] = "running"]
    BY <1>7 DEF Prefill, CanPrefill, gates
  <2>2. /\ DOMAIN ongoing' = {q} /\ ongoing'[q].token \in Tokens \cup {Chunk}
    <3>1. CASE ongoing' = [p \in {q} |-> [token |-> Chunk, slot |-> SlotFor(q)]]
      BY <3>1
    <3>2. ASSUME NEW t \in Sampled(q), ongoing' = [p \in {q} |-> [token |-> t, slot |-> SlotFor(q)]]
          PROVE  DOMAIN ongoing' = {q} /\ ongoing'[q].token \in Tokens \cup {Chunk}
      <4>1. t \in Tokens
        <5>1. Says[q] \subseteq Tokens /\ t \in Says[q]
          BY <3>2, RequestsAssumption DEF Sampled
        <5>. QED  BY <5>1
      <4>. QED  BY <3>2, <4>1
    <3>. QED  BY <1>7, <3>1, <3>2 DEF Prefill
  <2>3. Typed'
    BY <1>2, <2>1 DEF Stages
  <2>4. BatchesSample'
    BY <1>2, <2>1, <2>2 DEF BatchesSample
  <2>5. ASSUME NEW p \in Requests PROVE RequestKnown(p)'
    <3>1. CASE p = q
      <4>1. think[q] = Off /\ tool[q] = Off /\ out[q] = << >>
        BY <1>2, <2>1 DEF RequestKnown, GateInv, TextInv, NotYet
      <4>. QED  BY <1>2, <1>4, <2>1, <3>1, <4>1 DEF RequestKnown, GatesKnow
    <3>2. CASE p # q
      <4>1. stage'[p] = stage[p]
        BY <1>2, <2>1, <3>2
      <4>. QED  BY <1>2, <2>1, <4>1, KnownStays
    <3>. QED  BY <3>1, <3>2
  <2>. QED  BY <1>3, <2>3, <2>4, <2>5
<1>8. ASSUME Decode PROVE Goal
  <2>1. UNCHANGED <<out, think, tool, reason, stage, last>>
    BY <1>8 DEF Decode, gates
  <2>2. PICK sampled \in [Running -> Tokens] :
          ongoing' = [q \in Running |-> [token |-> sampled[q], slot |-> slot[q]]]
    BY <1>8 DEF Decode
  <2>3. Typed' /\ BatchesSample'
    BY <1>2, <2>1, <2>2 DEF BatchesSample
  <2>4. ASSUME NEW p \in Requests PROVE RequestKnown(p)'
    BY <1>2, <2>1, KnownStays
  <2>. QED  BY <1>3, <2>3, <2>4
<1>9. ASSUME NothingToDo \/ UNCHANGED vars PROVE Goal
  <2>1. UNCHANGED <<out, think, tool, reason, stage, last, ongoing>>
    BY <1>9 DEF NothingToDo, gates, vars
  <2>2. Typed' /\ BatchesSample'
    BY <1>2, <2>1 DEF BatchesSample
  <2>3. ASSUME NEW p \in Requests PROVE RequestKnown(p)'
    BY <1>2, <2>1, KnownStays
  <2>. QED  BY <1>3, <2>2, <2>3
<1>10. ASSUME Commit PROVE Goal
    BY <1>10, CommitKnows
<1>11. Goal
  <2>. HIDE DEF Goal
  <2>. QED  BY <1>5, <1>6, <1>7, <1>8, <1>9, <1>10 DEF Next
<1>. QED  BY <1>1, <1>11 DEF GateInv

\* An armed gate says that the text does not end the reasoning.
LEMMA GateInvFollows ==
    ASSUME Apart, GateInv
    PROVE  GatesFollowText
<1>1. ASSUME NEW q \in Talking, q \in Thinks
      PROVE  /\ think[q].at = "armed" <=> out[q] # << >> /\ ~Reasoned(out[q])
             /\ q \in HasTools \ Gated /\ think[q].at = "armed" => (tool[q].inside <=> OpenCall(out[q]))
  <2>1. GatesKnow(q)
    BY <1>1 DEF GateInv, TextsKnown, Talking
  <2>2. CASE think[q] = Off /\ out[q] = << >>
    BY <2>2 DEF Off
  <2>3. CASE think[q] = Released /\ Reasoned(out[q])
    BY <2>3 DEF Released
  <2>4. CASE /\ ThinkKnows(think[q], out[q], Limit(q))
             /\ Apart /\ q \in HasTools \ Gated => ToolFollows(tool[q], Tokens, out[q])
    <3>1. out[q] # << >> /\ ~Reasoned(out[q]) /\ think[q].at = "armed"
      BY <2>4 DEF ThinkKnows, FollowsText, ArmedGates
    <3>2. q \in HasTools \ Gated => (tool[q].inside <=> OpenCall(out[q]))
      BY <2>4 DEF ToolFollows
    <3>. QED  BY <3>1, <3>2
  <2>. QED  BY <2>1, <2>2, <2>3, <2>4 DEF GatesKnow
<1>2. ASSUME NEW q \in Talking, q \notin Thinks PROVE think[q].at # "armed"
    BY <1>2 DEF GateInv, TextInv, OnlyThinkers, Talking, Off
<1>. QED  BY <1>1, <1>2 DEF GatesFollowText

\* A gate that has counted every token and forces the delimiter once the budget is
\* spent leaves no more text than the budget and the delimiter.
LEMMA GateInvBounds == GateInv => ReasoningIsBounded
<1>. SUFFICES ASSUME GateInv, NEW q \in Talking \cap Thinks,
                     NEW n \in 1 .. Len(out[q]) - Len(Close),
                     n >= Limit(q) \/ Loops(SubSeq(out[q], 1, n))
              PROVE  Reasoned(out[q])
    BY DEF ReasoningIsBounded, Limit
<1>1. q \in Requests /\ GatesKnow(q) /\ out[q] \in Seq(Tokens) /\ Limit(q) \in Int
    BY LimitIs DEF GateInv, TextsKnown, Talking
<1>2. CASE out[q] = << >>
  <2>1. Len(out[q]) = 0 /\ Len(Close) \in Nat
    BY <1>2, CloseLength
  <2>. QED  BY <2>1
<1>3. CASE ThinkKnows(think[q], out[q], Limit(q))
  <2>1. n < Limit(q) /\ ~Loops(SubSeq(out[q], 1, n))
    BY <1>1, <1>3, BoundedSays DEF ThinkKnows
  <2>. QED  BY <1>1, <2>1
<1>. QED  BY <1>1, <1>2, <1>3 DEF GatesKnow

\* Once the budget is spent, or the text is caught in a loop, the reasoning ends
\* within the length of the delimiter (ThinkGate.commit, forced_next), for any
\* budgets and patterns and in both loops.
THEOREM ReasoningAlwaysBounded == Spec => []ReasoningIsBounded
<1>1. Init => GateInv
    BY InitGateInv
<1>2. GateInv /\ [Next]_vars => GateInv'
    BY NextGateInv
<1>3. GateInv => ReasoningIsBounded
    BY GateInvBounds
<1> QED BY <1>1, <1>2, <1>3, PTL DEF Spec

\* The two gates say of the text sent what a scan of the whole text would say
\* (ThinkGate.commit, ToolCallGate.commit).
THEOREM GatesAlwaysFollowText ==
    ASSUME Apart
    PROVE  Spec => []GatesFollowText
<1>1. Init => GateInv
    BY InitGateInv
<1>2. GateInv /\ [Next]_vars => GateInv'
    BY NextGateInv
<1>3. GateInv => GatesFollowText
    BY GateInvFollows
<1> QED BY <1>1, <1>2, <1>3, PTL DEF Spec

\* The gate does not hold the end of the turn back any more, and will not again.
LetGo(q) == think[q] = Released \/ Spent(think[q])

\* An end of turn that was sampled for a bounded reasoner, under a gate that was
\* armed, was sampled under one that had let go.
EndsLetGo ==
    \A q \in Thinks : Budget[q] >= 0 /\ stage[q] = "running" =>
        /\ q \in DOMAIN ongoing /\ ongoing[q].token = Eos /\ out[q] # << >> => LetGo(q)
        /\ q \in DOMAIN last /\ last[q].token = Eos /\ Len(out[q]) >= 2 => LetGo(q)

EosInv == GateInv /\ EndsLetGo

\* A gate that has let go keeps letting go.
LEMMA LetGoStays ==
    ASSUME GateInv, NEW q \in Sampling, q \in Thinks, stage[q] = "running", ~Finished(q), LetGo(q)
    PROVE  MovedThink(q) = Released \/ Spent(MovedThink(q))
<1>1. CASE think[q] = Released
    BY <1>1 DEF MovedThink, ArmedThink, Released
<1>2. CASE think[q] # Released /\ Spent(think[q])
  <2>1. think[q].at = "armed"
    BY <1>2 DEF Spent
  <2>2. ArmedThink(q) = think[q]
    BY <2>1 DEF ArmedThink
  <2>. DEFINE g == think[q]
  <2>3. FollowsText(g, Tokens, out[q])
    BY <1>2, <2>2, ArmedBefore DEF Before
  <2>4. Token(q) = ForcedNext(g)
    BY <1>2, <2>2, TokenObeys
  <2>5. MovedThink(q) = CommitThink(g, Token(q))
    BY <2>1, <2>2 DEF MovedThink
  <2>. HIDE DEF g
  <2>6. CommitThink(g, Token(q)) = Released \/ CommitThink(g, Token(q)) = MovedGate(g, Token(q))
    BY <2>3, CommitIs DEF FollowsText
  <2>7. Forces(g, Token(q)) /\ ~SeesLoop(g, Token(q))
    BY <1>2, <2>4 DEF Forces, SeesLoop, g
  <2>8. MovedGate(g, Token(q)).count = g.count /\ MovedGate(g, Token(q)).budget = g.budget
        /\ MovedGate(g, Token(q)).at = "armed"
    BY <2>7 DEF MovedGate
  <2>9. Spent(MovedGate(g, Token(q)))
    BY <1>2, <2>8 DEF Spent, g
  <2>. QED  BY <2>5, <2>6, <2>9
<1>. QED  BY <1>1, <1>2 DEF LetGo

\* What may be sampled of a bounded reasoner that has begun: the end of the turn
\* only when the gate has let go.
LEMMA SampledUnder ==
    ASSUME GateInv, NEW q \in Thinks, stage[q] = "running", Budget[q] >= 0, out[q] # << >>,
           Eos \in Sampled(q)
    PROVE  LetGo(q)
<1>1. q \in Requests /\ GatesKnow(q) /\ ~ThinkHolds(think[q])
    BY RequestsAssumption DEF GateInv, TextsKnown, Sampled
<1>2. CASE ThinkKnows(think[q], out[q], Limit(q))
  <2>. DEFINE g == think[q]
  <2>1. g.at = "armed" /\ g.budget \in Int /\ g.count \in Int /\ g.budget <= Limit(q)
    BY <1>2 DEF ThinkKnows, FollowsText, ArmedGates, Bounded
  <2>2. Limit(q) \in Int /\ Limit(q) < Unbounded /\ Unbounded \in Int
    BY <1>1, LimitIs, DelimitersAssumption, GatesAssumption
  <2>3. g.budget # Unbounded
    BY <2>1, <2>2
  <2>4. g.count >= g.budget
    BY <1>1, <2>1, <2>3 DEF ThinkHolds
  <2>. QED  BY <2>1, <2>4 DEF Spent, LetGo
<1>. QED  BY <1>1, <1>2 DEF GatesKnow, LetGo

\* Where a request ends its turn, its reasoning is over.
LEMMA EosReasoned ==
    ASSUME EosInv, Commit, NEW q \in Thinks, Budget[q] >= 0,
           reason[q] # reason'[q], reason'[q] = "stop", Len(out[q]) >= (IF overlap THEN 2 ELSE 1)
    PROVE  Reasoned(out[q])
<1>. DEFINE over == {p \in Sampling : Finished(p) /\ stage[p] # "done"}
<1>1. q \in Requests
    BY RequestsAssumption
<1>2. reason' = [p \in Requests |->
          IF p \notin over THEN reason[p] ELSE IF Token(p) = Eos THEN "stop" ELSE "length"]
    BY DEF Commit
<1>. HIDE DEF over
<1>3. q \in over /\ Token(q) = Eos
    BY <1>1, <1>2
<1>4. q \in Sampling /\ stage[q] = "running"
    BY <1>3, SamplingRuns DEF over, EosInv
<1>5. ~Spent(ArmedThink(q))
    BY <1>3, <1>4, TokenObeys DEF EosInv
<1>6. Committed[q].token = Eos /\ q \in DOMAIN Committed
    BY <1>3, <1>4, <1>5 DEF Token, Sampling
<1>7. out[q] \in Seq(Tokens) /\ GatesKnow(q)
    BY <1>1, <1>4 DEF EosInv, GateInv, TextsKnown
<1>8. LetGo(q)
  <2>1. Len(<< >>) = 0 /\ Len(out[q]) \in Nat /\ overlap \in BOOLEAN
    BY <1>7 DEF EosInv, GateInv, TextInv, Inv, Shape
  <2>2. out[q] # << >>
    BY <2>1
  <2>3. CASE overlap
    <3>1. q \in DOMAIN last /\ last[q].token = Eos /\ Len(out[q]) >= 2
      BY <1>6, <2>3 DEF Committed
    <3>. QED  BY <1>4, <3>1 DEF EosInv, EndsLetGo
  <2>4. CASE ~overlap
    <3>1. q \in DOMAIN ongoing /\ ongoing[q].token = Eos
      BY <1>6, <2>4 DEF Committed
    <3>. QED  BY <1>4, <2>2, <3>1 DEF EosInv, EndsLetGo
  <2>. QED  BY <2>3, <2>4
<1>9. think[q] = Released
  <2>1. CASE Spent(think[q])
    <3>1. ArmedThink(q) = think[q]
      BY <2>1 DEF Spent, ArmedThink
    <3>. QED  BY <1>5, <2>1, <3>1
  <2>. QED  BY <1>8, <2>1 DEF LetGo
<1>. QED  BY <1>7, <1>9 DEF GatesKnow, ThinkKnows, FollowsText, ArmedGates, Released, Off

\* Each action keeps the invariant: only a decode samples, under the gate as it is
\* then, and a gate that has let go keeps letting go until the commit.
LEMMA NextEosInv == EosInv /\ [Next]_vars => EosInv'
<1>. SUFFICES ASSUME EosInv, [Next]_vars PROVE EndsLetGo'
    BY NextGateInv DEF EosInv
<1>1. /\ stage \in [Requests -> Stages] /\ DOMAIN think = Requests /\ DOMAIN out = Requests
      /\ \A q \in Requests : out[q] \in Seq(Tokens)
      /\ GateInv /\ GateInv' /\ EndsLetGo
    BY NextGateInv DEF EosInv, GateInv, TextInv, Inv, Shape, TextType, TextsKnown
<1>. DEFINE Ends1(q) ==
        /\ q \in DOMAIN ongoing /\ ongoing[q].token = Eos /\ out[q] # << >> => LetGo(q)
        /\ q \in DOMAIN last /\ last[q].token = Eos /\ Len(out[q]) >= 2 => LetGo(q)
<1>2. ASSUME NEW q \in Thinks, Budget[q] >= 0, stage'[q] = "running",
             stage[q] = "running", out'[q] = out[q], think'[q] = think[q],
             UNCHANGED <<last, ongoing>>
      PROVE  Ends1(q)'
    BY <1>1, <1>2 DEF EndsLetGo, LetGo
<1>3. ASSUME NEW q \in Thinks, Budget[q] >= 0, stage'[q] = "running" PROVE Ends1(q)'
  <2>0. q \in Requests
    BY RequestsAssumption
  <2>1. ASSUME NEW p \in Requests, Arrive(p) \/ Abort(p) PROVE Ends1(q)'
    <3>1. UNCHANGED <<last, ongoing>>
      BY <2>1 DEF Arrive, Abort
    <3>2. stage[q] = "running" /\ out'[q] = out[q] /\ think'[q] = think[q]
      <4>1. CASE Arrive(p)
        <5>1. stage' = [stage EXCEPT ![p] = "waiting"] /\ UNCHANGED <<out, think>>
          BY <4>1 DEF Arrive, gates
        <5>. QED  BY <1>1, <1>3, <2>0, <5>1
      <4>2. CASE Abort(p)
        <5>1. /\ stage' = [r \in Requests |-> IF r \in {p} THEN "done" ELSE stage[r]]
              /\ think' = [r \in Requests |-> IF r \in {p} THEN Off ELSE think[r]]
              /\ out' = [out EXCEPT ![p] = << >>]
          BY <4>2 DEF Abort, Release, Freed
        <5>2. p # q
          BY <1>3, <2>0, <5>1
        <5>. QED  BY <1>1, <1>3, <2>0, <5>1, <5>2
      <4>. QED  BY <2>1, <4>1, <4>2
    <3>. QED  BY <1>2, <1>3, <3>1, <3>2
  <2>2. ASSUME NEW p \in Requests, Prefill(p) PROVE Ends1(q)'
    <3>1. /\ UNCHANGED <<out, think, last>> /\ stage[p] \in {"waiting", "chunked"}
          /\ DOMAIN ongoing' = {p}
          /\ stage' = [stage EXCEPT ![p] = "chunked"] \/ stage' = [stage EXCEPT ![p] = "running"]
      BY <2>2 DEF Prefill, CanPrefill, gates
    <3>2. CASE p = q
      <4>1. out[q] = << >> /\ Len(<< >>) = 0
        BY <1>1, <2>0, <3>1, <3>2 DEF GateInv, TextInv, NotYet
      <4>. QED  BY <3>1, <4>1
    <3>3. CASE p # q
      <4>1. stage[q] = "running"
        BY <1>1, <1>3, <2>0, <3>1, <3>3
      <4>2. q \notin DOMAIN ongoing'
        BY <3>1, <3>3
      <4>. QED  BY <1>1, <1>3, <3>1, <4>1, <4>2 DEF EndsLetGo, LetGo
    <3>. QED  BY <3>2, <3>3
  <2>3. ASSUME Decode PROVE Ends1(q)'
    <3>1. UNCHANGED <<out, think, stage, last>>
      BY <2>3 DEF Decode, gates
    <3>2. PICK sampled \in [Running -> Tokens] :
            /\ \A r \in Running : sampled[r] \in Sampled(r)
            /\ ongoing' = [r \in Running |-> [token |-> sampled[r], slot |-> slot[r]]]
      BY <2>3 DEF Decode
    <3>3. q \in DOMAIN ongoing' /\ ongoing'[q].token = Eos => Eos \in Sampled(q)
      BY <3>2
    <3>4. q \in DOMAIN ongoing' /\ ongoing'[q].token = Eos /\ out[q] # << >> => LetGo(q)
      BY <1>1, <1>3, <3>1, <3>3, SampledUnder
    <3>. QED  BY <1>1, <1>3, <3>1, <3>4 DEF EndsLetGo, LetGo
  <2>4. ASSUME NothingToDo \/ UNCHANGED vars PROVE Ends1(q)'
    <3>1. UNCHANGED <<out, think, stage, last, ongoing>>
      BY <2>4 DEF NothingToDo, gates, vars
    <3>. QED  BY <1>2, <1>3, <3>1
  <2>5. ASSUME Commit PROVE Ends1(q)'
    <3>. DEFINE over == {p \in Sampling : Finished(p) /\ stage[p] # "done"}
                goOn == {p \in Sampling : stage[p] # "done"} \ over
                thinks == [p \in Requests |-> IF p \in Sampling THEN MovedThink(p) ELSE think[p]]
    <3>1. /\ stage' = [p \in Requests |-> IF p \in over THEN "done" ELSE stage[p]]
          /\ think' = [p \in Requests |-> IF p \in over THEN Off ELSE thinks[p]]
          /\ out' = [p \in Requests |->
                IF p \in over THEN << >> ELSE IF p \in goOn THEN Append(out[p], Token(p)) ELSE out[p]]
          /\ last' = (IF overlap THEN ongoing ELSE NoBatch) /\ ongoing' = NoBatch
      BY <2>5 DEF Commit, Release, Freed
    <3>2. thinks[q] = IF q \in Sampling THEN MovedThink(q) ELSE think[q]
      BY <2>0
    <3>3. q \in over <=> q \in Sampling /\ Finished(q) /\ stage[q] # "done"
      OBVIOUS
    <3>4. q \in goOn => q \in Sampling
      OBVIOUS
    <3>. HIDE DEF over, goOn, thinks
    <3>5. q \notin over /\ stage[q] = "running"
      BY <1>3, <2>0, <3>1
    <3>6. DOMAIN NoBatch = {}
      BY DEF NoBatch
    <3>7. LetGo(q) => LetGo(q)'
      <4>1. CASE q \in Sampling
        <5>1. ~Finished(q) /\ think'[q] = MovedThink(q)
          BY <2>0, <3>1, <3>2, <3>3, <3>5, <4>1
        <5>. QED  BY <1>1, <3>5, <4>1, <5>1, LetGoStays DEF LetGo
      <4>2. CASE q \notin Sampling
        <5>1. think'[q] = think[q]
          BY <2>0, <3>1, <3>2, <3>5, <4>2
        <5>. QED  BY <5>1 DEF LetGo
      <4>. QED  BY <4>1, <4>2
    <3>8. ASSUME q \in DOMAIN last', last'[q].token = Eos, Len(out'[q]) >= 2 PROVE LetGo(q)
      <4>1. q \in DOMAIN ongoing /\ ongoing[q].token = Eos
        BY <3>1, <3>6, <3>8
      <4>2. out[q] # << >>
        <5>1. ASSUME out[q] = << >> PROVE FALSE
          <6>1. out'[q] \in {<< >>, Append(<< >>, Token(q))}
            BY <2>0, <3>1, <3>5, <5>1
          <6>2. Append(<< >>, Token(q)) = <<Token(q)>>
            OBVIOUS
          <6>3. Len(<< >>) = 0 /\ Len(<<Token(q)>>) = 1
            OBVIOUS
          <6>4. PICK n : n = Len(out'[q])
            OBVIOUS
          <6>5. n = 0 \/ n = 1
            BY <6>1, <6>2, <6>3, <6>4
          <6>6. n >= 2
            BY <3>8, <6>4
          <6>. QED  BY <6>5, <6>6
        <5>. QED  BY <5>1
      <4>. QED  BY <1>1, <1>3, <3>5, <4>1, <4>2 DEF EndsLetGo
    <3>. QED  BY <3>1, <3>6, <3>7, <3>8
  <2>. HIDE DEF Ends1
  <2>. QED  BY <2>1, <2>2, <2>3, <2>4, <2>5 DEF Next
<1>. QED  BY <1>3 DEF EndsLetGo

\* No step ends the turn of a bounded reasoner before its reasoning is over, but
\* for its first token, and under the overlap loop its second.
THEOREM EosAlwaysWaits == Spec => EosWaitsForReasoning
<1>1. Init => EosInv
  <2>1. Init => EndsLetGo
    <3>1. SUFFICES ASSUME Init, NEW q \in Thinks, stage[q] = "running" PROVE FALSE
      BY DEF EndsLetGo
    <3>2. q \in Requests
      BY RequestsAssumption
    <3>3. stage = [p \in Requests |-> "new"]
      BY <3>1 DEF Init
    <3>. QED  BY <3>1, <3>2, <3>3
  <2>. QED  BY <2>1, InitGateInv DEF EosInv
<1>2. EosInv /\ [Next]_vars => EosInv'
    BY NextEosInv
<1>. DEFINE A == \A q \in Thinks :
          (/\ Budget[q] >= 0 /\ reason[q] # reason'[q] /\ reason'[q] = "stop"
           /\ Len(out[q]) >= (IF overlap THEN 2 ELSE 1)) => Reasoned(out[q])
<1>3. EosInv /\ [Next]_vars => [A]_vars
  <2>. SUFFICES ASSUME EosInv, Next, NEW q \in Thinks, Budget[q] >= 0, reason[q] # reason'[q],
                       reason'[q] = "stop", Len(out[q]) >= (IF overlap THEN 2 ELSE 1)
                PROVE  Reasoned(out[q])
    OBVIOUS
  <2>1. ASSUME NEW p \in Requests, Abort(p) PROVE FALSE
    <3>1. reason' = [reason EXCEPT ![p] = "abort"] /\ DOMAIN reason = Requests /\ q \in Requests
      BY <2>1 DEF Abort, EosInv, GateInv
    <3>2. reason'[q] = reason[q] \/ reason'[q] = "abort"
      BY <3>1
    <3>. QED  BY <3>2
  <2>2. CASE Commit
    BY <2>2, EosReasoned
  <2>. QED  BY <2>1, <2>2 DEF Next, Arrive, Prefill, Decode, NothingToDo
<1>. QED  BY <1>1, <1>2, <1>3, PTL DEF Spec, EosWaitsForReasoning
=============================================================================
