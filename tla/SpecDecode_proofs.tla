------------------------- MODULE SpecDecode_proofs -------------------------
(***************************************************************************)
(* Speculation is lossless, for every model, vocabulary, proposer, padding *)
(* and page size, on servers that take back in full what a forward did to  *)
(* the recurrent state (RollsBack).                                        *)
(*                                                                         *)
(* The first half is about one step: if nothing is left of rejected drafts *)
(* (StateFollowsText) a speculative step commits, one after the other, the *)
(* tokens the model gives when it reads the text so far.  The second half  *)
(* is the invariant SInv, which every prefill, plain step, block, arrival  *)
(* and abort keeps: nothing is left of a rejected draft, pages are in one  *)
(* place, and there are enough of them.  With it each step is one of       *)
(* GreedyDecode, or leaves the texts alone.                                *)
(***************************************************************************)
EXTENDS SpecDecode, WellFoundedInduction, SequenceTheorems, FiniteSetTheorems, TLAPS

\* Min of FiniteSetsExt, of naturals, is their least.
LEMMA MinIsLeast ==
    ASSUME NEW S, S \subseteq Nat, S # {}
    PROVE  Min(S) \in S /\ \A y \in S : Min(S) <= y
<1>1. PICK x \in S : \A y \in S : ~(<<y, x>> \in OpToRel(<, Nat))
    BY NatLessThanWellFounded, WFMin
<1>2. \A y \in S : x <= y
    <2>1. \A y \in S : ~(y < x)
        BY <1>1, Zenon DEF OpToRel
    <2>. QED  BY <2>1, SMT
<1>. QED  BY <1>2 DEF Min

\* Max of FiniteSetsExt, of naturals up to n, is their greatest.
LEMMA MaxIsGreatest ==
    ASSUME NEW n \in Nat, NEW S, S \subseteq 0..n, S # {}
    PROVE  Max(S) \in S /\ \A y \in S : Max(S) >= y
<1>. DEFINE T == {n - x : x \in S}
<1>1. T \subseteq Nat /\ T # {}
    <2>1. \A x \in S : n - x \in Nat
        BY SMT
    <2>. QED  BY <2>1, Zenon
<1>2. Min(T) \in T /\ \A y \in T : Min(T) <= y
    BY <1>1, MinIsLeast
<1>3. PICK x \in S : Min(T) = n - x
    BY <1>2
<1>4. \A y \in S : x >= y
    <2>1. SUFFICES ASSUME NEW y \in S PROVE x >= y
        OBVIOUS
    <2>2. n - y \in T
        OBVIOUS
    <2>3. n - x <= n - y
        BY <1>2, <1>3, <2>2
    <2>. QED  BY <2>3, SMT
<1>. QED  BY <1>4 DEF Max

\* verify_greedy returns the target up to the first draft that differs from it,
\* that token included.
LEMMA AcceptedPrefix ==
    ASSUME NEW draft \in Seq(Tokens), NEW target \in Seq(Tokens),
           Len(target) = Len(draft) + 1
    PROVE  \E n \in 0 .. Len(draft) :
              /\ VerifyGreedy(draft, target) = SubSeq(target, 1, n + 1)
              /\ \A i \in 1..n : draft[i] = target[i]
<1>. DEFINE agree == {n \in 0 .. Len(draft) : \A i \in 1..n : draft[i] = target[i]}
<1>1. agree \subseteq 0 .. Len(draft) /\ 0 \in agree /\ Len(draft) \in Nat
    BY SMT
<1>2. Max(agree) \in agree
    BY <1>1, MaxIsGreatest, Zenon
<1>3. VerifyGreedy(draft, target) = SubSeq(target, 1, 1 + Max(agree))
    BY DEF VerifyGreedy
<1>4. 1 + Max(agree) = Max(agree) + 1
    BY <1>2, SMT
<1>. QED  BY <1>2, <1>3, <1>4

\* A run cut at the first of some places is a start of it, and not empty.
LEMMA CutIsPrefix ==
    ASSUME NEW run \in Seq(Tokens), run # << >>, NEW ends, ends \subseteq 1 .. Len(run)
    PROVE  \E m \in 1 .. Len(run) : UpTo(run, ends) = SubSeq(run, 1, m)
<1>1. CASE ends = {}
    <2>1. run = SubSeq(run, 1, Len(run)) /\ Len(run) \in 1 .. Len(run)
        BY SMT
    <2>. QED  BY <1>1, <2>1 DEF UpTo
<1>2. CASE ends # {}
    <2>1. Min(ends) \in ends
        BY <1>2, MinIsLeast, 1 .. Len(run) \subseteq Nat
    <2>. QED  BY <1>2, <2>1 DEF UpTo
<1>. QED  BY <1>1, <1>2

\* What is kept up to the end of the turn has it at most at its own end.
LEMMA NoEosBefore ==
    ASSUME NEW run \in Seq(Tokens), run # << >>
    PROVE  \E m \in 1 .. Len(run) :
              /\ UpToEos(run) = SubSeq(run, 1, m)
              /\ \A i \in 1 .. m - 1 : run[i] # Eos
<1>. DEFINE ends == {i \in DOMAIN run : run[i] = Eos}
<1>1. Len(run) \in Nat /\ Len(run) # 0 /\ DOMAIN run = 1 .. Len(run)
    BY EmptySeq, LenProperties
<1>2. CASE ends = {}
  <2>1. run = SubSeq(run, 1, Len(run)) /\ Len(run) \in 1 .. Len(run)
    BY <1>1, SubSeqFull
  <2>2. \A i \in 1 .. Len(run) - 1 : run[i] # Eos
    BY <1>1, <1>2
  <2>. QED  BY <1>2, <2>1, <2>2 DEF UpToEos, UpTo
<1>3. CASE ends # {}
  <2>1. Min(ends) \in ends /\ \A y \in ends : Min(ends) <= y
    BY <1>1, <1>3, MinIsLeast, 1 .. Len(run) \subseteq Nat
  <2>2. PICK m : m = Min(ends)
    OBVIOUS
  <2>3. m \in 1 .. Len(run) /\ \A i \in 1 .. m - 1 : run[i] # Eos
    <3>1. m \in 1 .. Len(run)
      BY <1>1, <2>1, <2>2
    <3>2. ASSUME NEW i \in 1 .. m - 1 PROVE run[i] # Eos
      <4>1. i \in DOMAIN run /\ ~(m <= i)
        BY <1>1, <3>1
      <4>. QED  BY <2>1, <2>2, <4>1
    <3>. QED  BY <3>1, <3>2
  <2>4. UpToEos(run) = SubSeq(run, 1, m)
    BY <1>3, <2>2 DEF UpToEos, UpTo
  <2>. QED  BY <2>3, <2>4
<1>. QED  BY <1>2, <1>3

\* A start of a start of a run is a start of the run.
LEMMA PrefixOfPrefix ==
    ASSUME NEW run \in Seq(Tokens), NEW n \in 1 .. Len(run), NEW m \in 1..n
    PROVE  /\ SubSeq(run, 1, n) \in Seq(Tokens) /\ Len(SubSeq(run, 1, n)) = n
           /\ SubSeq(SubSeq(run, 1, n), 1, m) = SubSeq(run, 1, m)
BY SMT

\* What the model has read at a place of a block: the text, and the drafts so far.
LEMMA ReadOn ==
    ASSUME NEW w \in Seq(Tokens), w # << >>, NEW draft \in Seq(Tokens), NEW padding \in Seq(Tokens),
           NEW i \in 1 .. Len(draft) + 1
    PROVE  SubSeq(w, 1, Len(w) - 1) \o SubSeq(<<w[Len(w)]>> \o draft \o padding, 1, i)
               = w \o SubSeq(draft, 1, i - 1)
<1>. DEFINE before == SubSeq(w, 1, Len(w) - 1)
            last == w[Len(w)]
            rest == draft \o padding
            said == SubSeq(draft, 1, i - 1)
<1>1. Len(w) \in Nat \ {0} /\ Len(draft) \in Nat /\ Len(padding) \in Nat
    BY EmptySeq, LenProperties
<1>2. w = before \o <<last>> /\ before \in Seq(Tokens) /\ <<last>> \in Seq(Tokens) /\ Len(<<last>>) = 1
    <2>1. 1 \in 1 .. Len(w) /\ Len(w) \in 1 .. Len(w)
        BY <1>1, SMT
    <2>2. SubSeq(w, 1, Len(w)) = before \o <<last>>
        BY <2>1, SubSeqRecursiveSecond
    <2>3. last \in Tokens
        BY <2>1, ElementOfSeq
    <2>4. \A n \in 1 .. Len(w) - 1 : w[n] \in Tokens
        <3>1. \A n \in 1 .. Len(w) - 1 : n \in 1 .. Len(w)
            BY <1>1, SMT
        <3>. QED  BY <3>1, ElementOfSeq
    <2>5. before \in Seq(Tokens)
        BY <1>1, <2>4, SubSeqProperties, 1 \in Int, Len(w) - 1 \in Int
    <2>6. <<last>> \in Seq(Tokens) /\ Len(<<last>>) = 1
        <3>. HIDE DEF last
        <3>. QED  BY <2>3, SMT
    <2>. QED  BY <2>2, <2>5, <2>6, SubSeqFull
<1>. HIDE DEF before, last
<1>3. rest \in Seq(Tokens) /\ Len(rest) = Len(draft) + Len(padding)
    BY ConcatProperties
<1>4. said \in Seq(Tokens)
    <2>1. \A n \in 1 .. i - 1 : n \in 1 .. Len(draft)
        BY <1>1, SMT
    <2>2. \A n \in 1 .. i - 1 : draft[n] \in Tokens
        BY <2>1, ElementOfSeq
    <2>. QED  BY <1>1, <2>2, SubSeqProperties, 1 \in Int, i - 1 \in Int
<1>. DEFINE block == <<last>> \o rest
<1>5. block = <<last>> \o draft \o padding
    BY <1>2, ConcatAssociative
<1>6. block \in Seq(Tokens) /\ Len(block) = 1 + Len(rest) /\ block[1] = last
    <2>1. block \in Seq(Tokens) /\ Len(block) = 1 + Len(rest)
        BY <1>2, <1>3, ConcatProperties
    <2>2. block[1] = <<last>>[1]
        <3>1. 1 \in 1 .. Len(<<last>>) + Len(rest) /\ 1 <= Len(<<last>>)
            BY <1>1, <1>2, <1>3, SMT
        <3>. QED  BY <1>2, <1>3, <3>1, ConcatProperties
    <2>. QED  BY <2>1, <2>2
<1>7. SubSeq(block, 1, i) = <<last>> \o SubSeq(block, 2, i)
    <2>. HIDE DEF block, rest
    <2>1. 1 \in 1 .. Len(block) /\ i \in 1 .. Len(block)
        BY <1>1, <1>3, <1>6, SMT
    <2>. QED  BY <1>6, <2>1, SubSeqRecursiveFirst, 1 + 1 = 2
<1>8. SubSeq(block, 2, i) = said
    <2>1. CASE i = 1
        BY <2>1, SubSeqEmpty, 2 \in Int, 1 \in Int, 0 \in Int, 1 < 2, 0 < 1, 1 - 1 = 0
    <2>2. CASE i # 1
        <3>1. /\ 2 \in Len(<<last>>) + 1 .. Len(<<last>>) + Len(rest)
              /\ i \in Len(<<last>>) + 1 .. Len(<<last>>) + Len(rest)
              /\ 1 \in 1 .. Len(draft) /\ i - 1 \in 1 .. Len(draft)
            <4>. HIDE DEF rest
            <4>. QED  BY <1>1, <1>2, <1>3, <2>2, SMT
        <3>2. SubSeq(block, 2, i) = SubSeq(rest, 2 - Len(<<last>>), i - Len(<<last>>))
            BY <1>2, <1>3, <3>1, SubSeqOfConcat2
        <3>3. SubSeq(block, 2, i) = SubSeq(rest, 1, i - 1)
            BY <1>2, <3>2, 2 - 1 = 1
        <3>. QED  BY <3>1, <3>3, SubSeqOfConcat1
    <2>. QED  BY <2>1, <2>2
<1>9. before \o (<<last>> \o said) = w \o said
    <2>. HIDE DEF said
    <2>1. (before \o <<last>>) \o said = before \o (<<last>> \o said)
        BY <1>2, <1>4, ConcatAssociative
    <2>. QED  BY <1>2, <2>1
<1>. QED  BY <1>5, <1>7, <1>8, <1>9 DEF before, last

\* Two sequences that agree so far have the same start.
LEMMA SameStart ==
    ASSUME NEW s \in Seq(Tokens), NEW r \in Seq(Tokens), NEW n \in Int,
           n <= Len(s), n <= Len(r), \A j \in 1..n : s[j] = r[j]
    PROVE  SubSeq(s, 1, n) = SubSeq(r, 1, n)
<1>1. Len(s) \in Nat /\ Len(r) \in Nat
    BY LenProperties
<1>2. \A j \in 1..n : j \in 1 .. Len(s) /\ j \in 1 .. Len(r)
    BY <1>1, SMT
<1>3. (\A j \in 1..n : s[j] \in Tokens) /\ (\A j \in 1..n : r[j] \in Tokens)
    BY <1>2, ElementOfSeq
<1>4. n - 1 + 1 = n
    BY SMT
<1>5. /\ SubSeq(s, 1, n) \in Seq(Tokens) /\ SubSeq(r, 1, n) \in Seq(Tokens)
      /\ Len(SubSeq(s, 1, n)) = Len(SubSeq(r, 1, n))
      /\ \A j \in 1 .. n : SubSeq(s, 1, n)[j] = s[1 + j - 1] /\ SubSeq(r, 1, n)[j] = r[1 + j - 1]
      /\ Len(SubSeq(s, 1, n)) = IF 1 <= n THEN n ELSE 0
    BY <1>3, <1>4, SubSeqProperties, 1 \in Int
<1>6. \A j \in 1 .. Len(SubSeq(s, 1, n)) : SubSeq(s, 1, n)[j] = SubSeq(r, 1, n)[j]
    <2>1. \A j \in 1..n : 1 + j - 1 = j
        BY SMT
    <2>2. 1 .. Len(SubSeq(s, 1, n)) \subseteq 1..n
        <3>. DEFINE l == Len(SubSeq(s, 1, n))
        <3>1. l = IF 1 <= n THEN n ELSE 0
            BY <1>5
        <3>. HIDE DEF l
        <3>2. 1..l \subseteq 1..n
            BY <3>1, SMT
        <3>. QED  BY <3>2 DEF l
    <2>. QED  BY <1>5, <2>1, <2>2
<1>. QED  BY <1>5, <1>6, SeqEqual

\* What a step keeps of a block is a start of the model's answers, and none of
\* it but the last token differs from the drafts.
LEMMA KeptIsPrefix ==
    ASSUME NEW draft \in Seq(Tokens), NEW target \in Seq(Tokens),
           Len(target) = Len(draft) + 1,
           NEW ends \in SUBSET (1 .. Len(VerifyGreedy(draft, target)))
    PROVE  \E m \in 1 .. Len(draft) + 1 :
              /\ UpToEos(UpTo(VerifyGreedy(draft, target), ends)) = SubSeq(target, 1, m)
              /\ \A i \in 1 .. m - 1 : draft[i] = target[i] /\ target[i] # Eos
<1>. DEFINE run == VerifyGreedy(draft, target)
            released == UpTo(run, ends)
<1>1. Len(draft) \in Nat
    BY SMT
<1>2. PICK n \in 0 .. Len(draft) :
          run = SubSeq(target, 1, n + 1) /\ \A i \in 1..n : draft[i] = target[i]
    BY AcceptedPrefix
<1>. HIDE DEF run
<1>3. run \in Seq(Tokens) /\ Len(run) = n + 1 /\ run # << >> /\ n + 1 \in 1 .. Len(target)
    BY <1>1, <1>2, SMT
<1>4. PICK k \in 1 .. n + 1 : released = SubSeq(run, 1, k)
    BY <1>3, CutIsPrefix DEF run
<1>. HIDE DEF released
<1>5. released = SubSeq(target, 1, k) /\ released \in Seq(Tokens) /\ Len(released) = k
      /\ released # << >> /\ k \in 1 .. Len(target)
    <2>1. k \in 1 .. Len(target)
        BY <1>1, <1>3, SMT
    <2>2. SubSeq(SubSeq(target, 1, n + 1), 1, k) = SubSeq(target, 1, k)
        BY <1>3, PrefixOfPrefix
    <2>3. SubSeq(target, 1, k) \in Seq(Tokens) /\ Len(SubSeq(target, 1, k)) = k
        BY <2>1, SMT
    <2>4. released = SubSeq(target, 1, k)
        BY <1>2, <1>4, <2>2
    <2>5. released # << >>
        BY <2>3, <2>4, SMT
    <2>. QED  BY <2>1, <2>3, <2>4, <2>5
<1>6. PICK m \in 1..k : UpToEos(released) = SubSeq(released, 1, m)
                         /\ \A i \in 1 .. m - 1 : released[i] # Eos
    BY <1>5, NoEosBefore
<1>6a. \A i \in 1 .. m - 1 : target[i] # Eos
    <2>1. ASSUME NEW i \in 1 .. m - 1 PROVE SubSeq(target, 1, k)[i] = target[i]
        <3>1. i \in 1..k
            BY <1>5, SMT
        <3>. QED  BY <1>5, <3>1, SMT
    <2>. QED  BY <1>5, <1>6, <2>1
<1>7. SubSeq(released, 1, m) = SubSeq(target, 1, m)
    BY <1>5, PrefixOfPrefix
<1>8. m \in 1 .. Len(draft) + 1 /\ 1 .. m - 1 \subseteq 1..n
    BY <1>1, SMT
<1>. QED  BY <1>2, <1>6, <1>6a, <1>7, <1>8 DEF run, released

\* What a step keeps for a request, m tokens: of its drafts those up to the first
\* that is not what the model answers at that place, then the model's own token.
Answered(q, draft, block) ==
    \A j \in 1 .. Len(draft) + 1 : TokenAt(q, block, j, Allowed(q, j)) \in Tokens
Verified(q, draft, block, m) ==
    LET kept == Kept(q, draft, block)
    IN  /\ kept \in Seq(Tokens) /\ Len(kept) = m
        /\ \A i \in 1..m : kept[i] = TokenAt(q, block, i, Allowed(q, i))
        /\ \A i \in 1 .. m - 1 : kept[i] = draft[i] /\ kept[i] # Eos

\* Some of the block is kept, and at most one token more than was drafted.
LEMMA KeptAre ==
    ASSUME NEW q, NEW block, NEW draft \in Seq(Tokens), Answered(q, draft, block)
    PROVE  \E m \in 1 .. Len(draft) + 1 : Verified(q, draft, block, m)
<1>. DEFINE kept == Kept(q, draft, block)
<1>1. PICK target : target = [j \in 1 .. Len(draft) + 1 |-> TokenAt(q, block, j, Allowed(q, j))]
    OBVIOUS
<1>2. Len(draft) \in Nat /\ target \in Seq(Tokens) /\ Len(target) = Len(draft) + 1
    <2>1. Len(draft) \in Nat
        BY SMT
    <2>2. target \in [1 .. Len(draft) + 1 -> Tokens]
        BY <1>1 DEF Answered
    <2>. QED  BY <2>1, <2>2, SMT
<1>3. PICK m \in 1 .. Len(draft) + 1 :
          /\ kept = SubSeq(target, 1, m)
          /\ \A i \in 1 .. m - 1 : draft[i] = target[i] /\ target[i] # Eos
    <2>. DEFINE run == VerifyGreedy(draft, target)
    <2>1. kept = UpToEos(UpToRelease(q, run))
        BY <1>1 DEF Kept
    <2>2. PICK ends \in SUBSET (1 .. Len(run)) : UpToRelease(q, run) = UpTo(run, ends)
        <3>1. CASE think[q].at = "armed"
            <4>1. EndsIn(think[q], run) \in SUBSET (1 .. Len(run))
                BY DEF EndsIn
            <4>. QED  BY <3>1, <4>1 DEF UpToRelease
        <3>2. CASE think[q].at # "armed"
            BY <3>2 DEF UpToRelease, UpTo
        <3>. QED  BY <3>1, <3>2
    <2>3. \E m \in 1 .. Len(draft) + 1 :
              /\ UpToEos(UpTo(run, ends)) = SubSeq(target, 1, m)
              /\ \A i \in 1 .. m - 1 : draft[i] = target[i] /\ target[i] # Eos
        BY <1>2, KeptIsPrefix
    <2>. QED  BY <2>1, <2>2, <2>3
<1>. HIDE DEF kept
<1>4. Len(kept) = m /\ kept \in Seq(Tokens) /\ \A i \in 1..m : kept[i] = target[i]
    BY <1>2, <1>3, SMT
<1>5. \A i \in 1..m : i \in 1 .. Len(draft) + 1
    BY <1>2, SMT
<1>6. \A i \in 1 .. m - 1 : i \in 1..m
    BY <1>2, SMT
<1>7. \A i \in 1..m : kept[i] = TokenAt(q, block, i, Allowed(q, i))
    BY <1>1, <1>4, <1>5, Zenon
<1>. QED  BY <1>3, <1>4, <1>6, <1>7 DEF kept, Verified

\* What is staged for a request: its last token, what was drafted and what was padded.
StagedAs(q, block, draft, padding) == block[q] = <<input[q]>> \o draft \o padding

\* Each token of a run is what the model answers to the text it ends.
ModelsOwn(q, kept) ==
    \A i \in 1 .. Len(kept) :
        LET t == text[q] \o SubSeq(kept, 1, i - 1)
        IN  kept[i] = Argmax(server.model, t, [conv |-> t, ssm |-> t], Allowed(q, i))

\* The lossless claim of verify_greedy and the roll-back of _spec_decode_step,
\* for a step of any batch: if the caches follow the text, each token that is
\* kept for a request is what the model answers to the text it ends, be it
\* drafted or not, whatever was drafted or padded after it.
LEMMA KeptIsTheModels ==
    ASSUME StateFollowsText, NEW q \in Running, NEW block,
           NEW draft \in Seq(Tokens), NEW padding \in Seq(Tokens),
           StagedAs(q, block, draft, padding),
           text[q] \in Seq(Tokens), text[q] # << >>, Answered(q, draft, block)
    PROVE  /\ Len(Kept(q, draft, block)) \in 1 .. Len(draft) + 1
           /\ ModelsOwn(q, Kept(q, draft, block))
<1>. DEFINE kept == Kept(q, draft, block)
            before == SubSeq(text[q], 1, Len(text[q]) - 1)
            last == text[q][Len(text[q])]
<1>1. Len(draft) \in Nat
    BY SMT
<1>2. PICK m \in 1 .. Len(draft) + 1 :
          /\ kept \in Seq(Tokens) /\ Len(kept) = m
          /\ \A i \in 1..m : kept[i] = TokenAt(q, block, i, Allowed(q, i))
          /\ \A i \in 1 .. m - 1 : kept[i] = draft[i] /\ kept[i] # Eos
  <2>2. \E m \in 1 .. Len(draft) + 1 : Verified(q, draft, block, m)
    BY KeptAre
  <2>. QED  BY <2>2 DEF Verified
<1>. HIDE DEF kept
<1>5. Context(q) = before /\ rec[q] = [conv |-> before, ssm |-> before] /\ input[q] = last
    BY DEF StateFollowsText, Last
<1>6. ASSUME NEW i \in 1..m
      PROVE  LET t == text[q] \o SubSeq(kept, 1, i - 1)
             IN  kept[i] = Argmax(server.model, t, [conv |-> t, ssm |-> t], Allowed(q, i))
    <2>. DEFINE read == SubSeq(block[q], 1, i)
                t == text[q] \o SubSeq(kept, 1, i - 1)
    <2>1. before \o read = t
        <3>1. SubSeq(kept, 1, i - 1) = SubSeq(draft, 1, i - 1)
            <4>1. \A j \in 1 .. i - 1 : j \in 1 .. m - 1
                BY <1>1, SMT
            <4>2. i - 1 \in Int /\ i - 1 <= Len(kept) /\ i - 1 <= Len(draft)
                BY <1>1, <1>2, SMT
            <4>. QED  BY <1>2, <4>1, <4>2, SameStart
        <3>2. i \in 1 .. Len(draft) + 1
            BY <1>1, SMT
        <3>3. read = SubSeq(<<text[q][Len(text[q])]>> \o draft \o padding, 1, i)
            BY <1>5 DEF StagedAs
        <3>. DEFINE w == text[q]
        <3>. HIDE DEF w
        <3>4. w \in Seq(Tokens) /\ w # << >>
            BY DEF w
        <3>5. SubSeq(w, 1, Len(w) - 1) \o SubSeq(<<w[Len(w)]>> \o draft \o padding, 1, i)
                  = w \o SubSeq(draft, 1, i - 1)
            BY <3>2, <3>4, ReadOn, Zenon
        <3>. QED  BY <3>1, <3>3, <3>5 DEF w
    <2>2. kept[i] = TokenAt(q, block, i, Allowed(q, i))
        BY <1>2
    <2>3. TokenAt(q, block, i, Allowed(q, i))
              = Argmax(server.model, Context(q) \o read, After(rec[q], read), Allowed(q, i))
        BY DEF TokenAt
    <2>4. After(rec[q], read) = [conv |-> t, ssm |-> t]
        <3>1. rec[q].conv = before /\ rec[q].ssm = before
            BY <1>5
        <3>2. After(rec[q], read) = [conv |-> before \o read, ssm |-> before \o read]
            BY <3>1 DEF After
        <3>. QED  BY <2>1, <3>2
    <2>. QED  BY <1>5, <2>1, <2>2, <2>3, <2>4
<1>. QED  BY <1>2, <1>6 DEF kept, ModelsOwn

\* What is staged for a request: its input, drafts (cut) and filler.
LEMMA StagedTypes ==
    ASSUME server \in Servers, NEW drafts \in [Running -> Drafts], NEW q \in Running
    PROVE  /\ Cut(drafts)[q] \in Seq(Tokens) /\ Padding(drafts, q) \in Seq(Tokens)
           /\ Staged(drafts)[q] = <<input[q]>> \o Cut(drafts)[q] \o Padding(drafts, q)
           /\ DOMAIN Staged(drafts) = Running
           /\ Len(Cut(drafts)[q]) <= Len(drafts[q]) /\ Len(drafts[q]) \in Nat
           /\ Len(drafts[q]) <= NumDraft
           /\ ~Padded(drafts) => Padding(drafts, q) = << >>
           /\ Padded(drafts) =>
                 /\ CapturedWidth(drafts) \in server.ladder /\ CapturedWidth(drafts) \in Nat
                 /\ Len(Cut(drafts)[q]) + Len(Padding(drafts, q)) = CapturedWidth(drafts)
<1>1. /\ Filler \in Tokens /\ NumDraft \in Nat /\ server.ladder \subseteq 1..NumDraft
      /\ Drafts \subseteq BoundedSeq(Tokens, NumDraft)
    BY SpecAssumption
<1>2. DOMAIN drafts = Running
    OBVIOUS
<1>3. drafts[q] \in Seq(Tokens) /\ Len(drafts[q]) <= NumDraft
    <2>1. drafts[q] \in BoundedSeq(Tokens, NumDraft)
        BY <1>1
    <2>2. PICK m \in 0..NumDraft : drafts[q] \in [1..m -> Tokens]
        BY <2>1 DEF BoundedSeq, SeqOf
    <2>3. m \in Nat
        BY <1>1, SMT
    <2>4. drafts[q] \in Seq(Tokens)
        BY <2>2, <2>3, SeqDef
    <2>5. Len(drafts[q]) = m
        BY <2>2, <2>3, <2>4, LenProperties
    <2>. QED  BY <1>1, <2>2, <2>4, <2>5
<1>4. CASE ~Padded(drafts)
    <2>1. Cut(drafts)[q] = drafts[q] /\ Padding(drafts, q) = << >>
        BY <1>4 DEF Cut, Padding
    <2>2. Len(drafts[q]) \in Nat
        BY <1>3, LenProperties
    <2>3. Len(drafts[q]) <= Len(drafts[q])
        BY <2>2
    <2>4. Staged(drafts)[q] = <<input[q]>> \o Cut(drafts)[q] \o Padding(drafts, q)
          /\ DOMAIN Staged(drafts) = Running
        BY <1>2 DEF Staged
    <2>. QED  BY <1>3, <1>4, <2>1, <2>2, <2>3, <2>4, EmptySeq
<1>5. CASE Padded(drafts)
    <2>. DEFINE w == CapturedWidth(drafts)
                n == Min({Len(drafts[q]), w})
    <2>1. w \in server.ladder /\ w \in Nat
        <3>0. server.ladder # {}
            BY <1>5 DEF Padded
        <3>. DEFINE wide == {x \in server.ladder : x >= Longest(drafts)}
        <3>1. wide \subseteq Nat /\ server.ladder \subseteq 0..NumDraft /\ 0..NumDraft \subseteq Nat
            BY <1>1, SMT
        <3>2. CASE wide = {}
            <4>1. w = Max(server.ladder)
                BY <3>2 DEF CapturedWidth
            <4>2. Max(server.ladder) \in server.ladder
                BY <1>1, <3>0, <3>1, MaxIsGreatest
            <4>. QED  BY <3>1, <4>1, <4>2
        <3>3. CASE wide # {}
            <4>1. w = Min(wide)
                BY <3>3 DEF CapturedWidth
            <4>. QED  BY <3>1, <3>3, <4>1, MinIsLeast
        <3>. QED  BY <3>2, <3>3
    <2>. HIDE DEF w
    <2>2. Len(drafts[q]) \in Nat
        BY <1>3, LenProperties
    <2>3. n \in Nat /\ n <= Len(drafts[q]) /\ n <= w
        <3>1. {Len(drafts[q]), w} \subseteq Nat /\ {Len(drafts[q]), w} # {}
            BY <2>1, <2>2
        <3>2. n \in {Len(drafts[q]), w} /\ \A y \in {Len(drafts[q]), w} : n <= y
            BY <3>1, MinIsLeast, Zenon
        <3>. QED  BY <3>1, <3>2, Zenon
    <2>4. Cut(drafts)[q] = SubSeq(drafts[q], 1, n)
        BY <1>2, <1>5 DEF Cut, w
    <2>. HIDE DEF n
    <2>5. Cut(drafts)[q] \in Seq(Tokens) /\ Len(Cut(drafts)[q]) = n
        <3>1. \A i \in 1..n : i \in 1 .. Len(drafts[q])
            BY <2>2, <2>3, SMT
        <3>2. \A i \in 1..n : drafts[q][i] \in Tokens
            BY <1>3, <3>1, ElementOfSeq
        <3>3. /\ SubSeq(drafts[q], 1, n) \in Seq(Tokens)
              /\ Len(SubSeq(drafts[q], 1, n)) = IF 1 <= n THEN n - 1 + 1 ELSE 0
            BY <2>3, <3>2, SubSeqProperties, 1 \in Int, n \in Int
        <3>4. (IF 1 <= n THEN n - 1 + 1 ELSE 0) = n
            BY <2>3
        <3>. QED  BY <2>4, <3>3, <3>4
    <2>6. Padding(drafts, q) \in Seq(Tokens) /\ Len(Padding(drafts, q)) = w - n
        <3>. DEFINE k == w - Len(Cut(drafts)[q])
        <3>1. k \in Nat /\ k = w - n
            BY <2>1, <2>3, <2>5, SMT
        <3>2. Padding(drafts, q) = [i \in 1..k |-> Filler]
            BY <1>5 DEF Padding, w
        <3>. HIDE DEF k
        <3>3. Padding(drafts, q) \in [1..k -> Tokens]
            BY <1>1, <3>2
        <3>4. Padding(drafts, q) \in Seq(Tokens)
            BY <3>1, <3>3, SeqDef
        <3>5. Len(Padding(drafts, q)) = k
            BY <3>1, <3>3, <3>4, LenProperties
        <3>. QED  BY <3>1, <3>4, <3>5
    <2>7. Staged(drafts)[q] = <<input[q]>> \o Cut(drafts)[q] \o Padding(drafts, q)
          /\ DOMAIN Staged(drafts) = Running
        BY <1>2 DEF Staged
    <2>8. n + (w - n) = w
        BY <2>1, <2>3
    <2>. QED  BY <1>3, <1>5, <2>1, <2>2, <2>3, <2>5, <2>6, <2>7, <2>8 DEF w
<1>. QED  BY <1>4, <1>5

\* verify_greedy and the roll-back are lossless: whatever was drafted, cut and
\* padded, for however many requests, a step of the speculative lane appends to
\* the text of each request of the batch a run of tokens; each is what the model
\* answers, among the tokens the gates allow, to the text so far.
THEOREM SpeculationIsLossless ==
    ASSUME StateFollowsText, server \in Servers, text \in [Requests -> Seq(Tokens) \ {<< >>}],
           \A m, t, s, allowed : Argmax(m, t, s, allowed) \in Tokens,
           SpecDecode, NEW q \in Running
    PROVE  \E kept :
              /\ text'[q] = text[q] \o kept /\ Len(kept) >= 1
              /\ \A i \in 1 .. Len(kept) :
                    LET t == text[q] \o SubSeq(kept, 1, i - 1)
                    IN  kept[i] = Argmax(server.model, t, [conv |-> t, ssm |-> t], Allowed(q, i))
<1>1. PICK drafts \in [Running -> Drafts] : SpecStep(drafts)
    BY DEF SpecDecode, Proposals
<1>. DEFINE block == Staged(drafts)
            draft == Cut(drafts)[q]
            kept == Kept(q, draft, block)
<1>2. /\ draft \in Seq(Tokens) /\ Padding(drafts, q) \in Seq(Tokens)
      /\ block[q] = <<input[q]>> \o draft \o Padding(drafts, q) /\ DOMAIN block = Running
    BY StagedTypes
<1>3. q \in Requests /\ text[q] \in Seq(Tokens) /\ text[q] # << >>
    BY DEF Running
<1>4. text'[q] = text[q] \o kept
    <2>. DEFINE all == [r \in Running |-> Kept(r, Cut(drafts)[r], Staged(drafts))]
    <2>1. text' = [r \in Requests |-> IF r \in DOMAIN block THEN text[r] \o all[r] ELSE text[r]]
        BY <1>1 DEF SpecStep, Commit
    <2>. QED  BY <1>2, <1>3, <2>1
<1>5. Answered(q, draft, block) /\ StagedAs(q, block, draft, Padding(drafts, q))
    BY <1>2 DEF TokenAt, Answered, StagedAs
<1>6. /\ Len(kept) \in 1 .. Len(draft) + 1
      /\ \A i \in 1 .. Len(kept) :
            LET t == text[q] \o SubSeq(kept, 1, i - 1)
            IN  kept[i] = Argmax(server.model, t, [conv |-> t, ssm |-> t], Allowed(q, i))
    <2>. HIDE DEF draft, block
    <2>1. Len(kept) \in 1 .. Len(draft) + 1 /\ ModelsOwn(q, kept)
        BY <1>2, <1>3, <1>5, KeptIsTheModels
    <2>. QED  BY <2>1 DEF ModelsOwn
<1>7. Len(kept) >= 1
    <2>. HIDE DEF kept
    <2>. QED  BY <1>2, <1>6, LenProperties, SMT
<1>. QED  BY <1>4, <1>6, <1>7

----------------------------------------------------------------------------
(* Sums over finite sets.                                                  *)

\* A set of numbers has a least one.
LEMMA Least ==
    ASSUME NEW S \in SUBSET Nat, S # {}
    PROVE  \E n \in S : \A m \in S : n <= m
<1>1. PICK n \in S : \A m \in S : ~(<<m, n>> \in OpToRel(<, Nat))
    BY NatLessThanWellFounded, WFMin
<1>2. \A m \in S : ~(m < n)
    BY <1>1, Zenon DEF OpToRel
<1>3. \A m \in S : n <= m
    BY <1>2
<1>. QED  BY <1>3

Pick(s) == CHOOSE x \in s : TRUE
SumStep(f, g, s) == IF s = {} THEN 0 ELSE f[Pick(s)] + g[s \ {Pick(s)}]

\* What is left of a finite set without one of its elements.
LEMMA OneLess ==
    ASSUME NEW S, IsFiniteSet(S), NEW x \in S
    PROVE  IsFiniteSet(S \ {x}) /\ Cardinality(S \ {x}) = Cardinality(S) - 1
           /\ Cardinality(S) \in Nat \ {0}
<1>1. Cardinality(S) \in Nat /\ Cardinality(S \ {x}) = Cardinality(S) - 1 /\ IsFiniteSet(S \ {x})
    BY FS_CardinalityType, FS_RemoveElement
<1>2. Cardinality(S) # 0
    BY FS_EmptySet
<1>. QED  BY <1>1, <1>2

\* Up to n elements: the recursion of SumFunctionOnSet has a solution.
LEMMA SumExists ==
    ASSUME NEW f, NEW S, IsFiniteSet(S)
    PROVE  \E g : g = [s \in SUBSET S |-> SumStep(f, g, s)]
<1>. DEFINE Small(n) == {s \in SUBSET S : Cardinality(s) <= n}
            P(n) == \E g : g = [s \in Small(n) |-> SumStep(f, g, s)]
            B == {n \in Nat : ~P(n)}
<1>0. /\ \A s \in SUBSET S : IsFiniteSet(s) /\ Cardinality(s) \in Nat
      /\ \A s \in SUBSET S : s # {} => Pick(s) \in s
    BY FS_Subset, FS_CardinalityType DEF Pick
<1>1. ASSUME B # {} PROVE FALSE
  <2>1. PICK n \in B : \A m \in B : n <= m
    <3>. HIDE DEF P
    <3>. QED  BY <1>1, Least
  <2>2. CASE n = 0
    <3>. DEFINE g == [s \in Small(0) |-> 0]
    <3>1. \A s \in Small(0) : s = {}
      <4>1. ASSUME NEW s \in Small(0) PROVE s = {}
        <5>1. Cardinality(s) = 0 /\ IsFiniteSet(s)
          BY <1>0
        <5>. QED  BY <5>1, FS_EmptySet
      <4>. QED  BY <4>1
    <3>2. g = [s \in Small(0) |-> SumStep(f, g, s)]
      BY <3>1 DEF SumStep
    <3>. QED  BY <2>1, <2>2, <3>2
  <2>3. CASE n # 0
    <3>1. n - 1 \in Nat /\ n \in Nat /\ n - 1 \notin B
      <4>. HIDE DEF P
      <4>. QED  BY <2>1, <2>3
    <3>2. PICK g : g = [s \in Small(n - 1) |-> SumStep(f, g, s)]
      BY <3>1
    <3>. DEFINE h == [s \in Small(n) |-> IF s \in Small(n - 1) THEN g[s] ELSE SumStep(f, g, s)]
    <3>3. ASSUME NEW s \in Small(n) PROVE h[s] = SumStep(f, h, s)
      <4>1. CASE s = {}
        <5>1. s \in Small(n - 1)
          BY <4>1, <3>1, FS_EmptySet
        <5>. QED  BY <3>2, <4>1, <5>1 DEF SumStep
      <4>2. CASE s # {}
        <5>. DEFINE x == Pick(s)
        <5>1. x \in s /\ s \ {x} \in SUBSET S /\ IsFiniteSet(s) /\ Cardinality(s) <= n
          BY <1>0, <4>2
        <5>. HIDE DEF x
        <5>2. Cardinality(s \ {x}) = Cardinality(s) - 1 /\ Cardinality(s) \in Nat \ {0}
          BY <5>1, OneLess
        <5>3. Cardinality(s \ {x}) <= n - 1 /\ Cardinality(s \ {x}) <= n
          BY <5>1, <5>2, <3>1
        <5>4. s \ {x} \in Small(n - 1) /\ s \ {x} \in Small(n)
          BY <5>1, <5>3
        <5>5. h[s \ {x}] = g[s \ {x}]
          BY <5>4
        <5>6. SumStep(f, h, s) = SumStep(f, g, s)
          BY <5>5 DEF SumStep, x
        <5>7. s \in Small(n - 1) => g[s] = SumStep(f, g, s)
          BY <3>2
        <5>. QED  BY <5>6, <5>7
      <4>. QED  BY <4>1, <4>2
    <3>4. h = [s \in Small(n) |-> SumStep(f, h, s)]
      BY <3>3
    <3>. QED  BY <2>1, <3>4
  <2>. QED  BY <2>2, <2>3
<1>2. \A s \in SUBSET S : Cardinality(s) <= Cardinality(S)
    BY FS_Subset
<1>3. Small(Cardinality(S)) = SUBSET S /\ Cardinality(S) \in Nat
    BY <1>2, FS_CardinalityType
<1>4. P(Cardinality(S))
    BY <1>1, <1>3
<1>. QED  BY <1>3, <1>4

\* A sum of naturals is one, and any element may be taken out of it.
LEMMA SumOut ==
    ASSUME NEW D, NEW f \in [D -> Int], NEW S \in SUBSET D, IsFiniteSet(S)
    PROVE  /\ SumFunctionOnSet(f, S) \in Int
           /\ SumFunctionOnSet(f, {}) = 0
           /\ \A x \in S : SumFunctionOnSet(f, S) = f[x] + SumFunctionOnSet(f, S \ {x})
<1>. DEFINE It(R) == CHOOSE g : g = [s \in SUBSET R |-> SumStep(f, g, s)]
<1>1. \A R : SumFunctionOnSet(f, R) = It(R)[R]
    BY DEF SumFunctionOnSet, FoldFunctionOnSet, MapThenFoldSet, SumStep, Pick
<1>2. \A R \in SUBSET S : It(R) = [s \in SUBSET R |-> SumStep(f, It(R), s)]
  <2>1. ASSUME NEW R \in SUBSET S PROVE It(R) = [s \in SUBSET R |-> SumStep(f, It(R), s)]
    <3>1. \E g : g = [s \in SUBSET R |-> SumStep(f, g, s)]
      BY FS_Subset, SumExists
    <3>. QED  BY <3>1
  <2>. QED  BY <2>1
<1>. HIDE DEF It
<1>3. \A R \in SUBSET S : \A s \in SUBSET R : It(R)[s] = SumStep(f, It(R), s)
    BY <1>2
<1>. DEFINE Total(n) == \A R, Q \in SUBSET S : \A s \in SUBSET R :
                            s \in SUBSET Q /\ Cardinality(s) = n =>
                                It(R)[s] = It(Q)[s] /\ It(R)[s] \in Int
                                /\ \A x \in s : It(R)[s] = f[x] + It(R)[s \ {x}]
            B == {n \in Nat : ~Total(n)}
<1>4. /\ \A s \in SUBSET S : IsFiniteSet(s) /\ Cardinality(s) \in Nat
      /\ \A s : s # {} => Pick(s) \in s
    BY FS_Subset, FS_CardinalityType DEF Pick
<1>5. ASSUME B # {} PROVE FALSE
  <2>1. PICK n \in B : \A m \in B : n <= m
    <3>. HIDE DEF Total
    <3>. QED  BY <1>5, Least
  <2>2. \A m \in Nat : m < n => Total(m)
    <3>. HIDE DEF Total
    <3>. QED  BY <2>1
  <2>3. ASSUME NEW R \in SUBSET S, NEW Q \in SUBSET S, NEW s \in SUBSET R, s \in SUBSET Q,
               Cardinality(s) = n
        PROVE  It(R)[s] = It(Q)[s] /\ It(R)[s] \in Int
               /\ \A x \in s : It(R)[s] = f[x] + It(R)[s \ {x}]
    <3>1. CASE s = {}
      <4>1. It(R)[s] = SumStep(f, It(R), s) /\ It(Q)[s] = SumStep(f, It(Q), s)
        BY <1>3, <2>3
      <4>. QED  BY <4>1, <3>1 DEF SumStep
    <3>2. CASE s # {}
      <4>. DEFINE c == Pick(s)
      <4>1. c \in s /\ s \in SUBSET S /\ IsFiniteSet(s)
        BY <1>4, <3>2
      <4>2. /\ It(R)[s] = f[c] + It(R)[s \ {c}] /\ It(Q)[s] = f[c] + It(Q)[s \ {c}]
        <5>1. It(R)[s] = SumStep(f, It(R), s) /\ It(Q)[s] = SumStep(f, It(Q), s)
          BY <1>3, <2>3
        <5>. QED  BY <5>1, <3>2 DEF SumStep
      <4>. HIDE DEF c
      <4>3. \A x \in s : /\ IsFiniteSet(s \ {x}) /\ Cardinality(s \ {x}) = n - 1
                         /\ n \in Nat \ {0}
        BY <4>1, <2>3, OneLess
      <4>4. n - 1 \in Nat /\ Total(n - 1)
        <5>. HIDE DEF Total
        <5>1. n \in Nat \ {0}
          BY <4>1, <4>3
        <5>2. n - 1 \in Nat /\ n - 1 < n
          BY <5>1
        <5>. QED  BY <5>2, <2>2
      <4>5. \A x \in s : /\ It(R)[s \ {x}] = It(Q)[s \ {x}] /\ It(R)[s \ {x}] \in Int
                         /\ \A y \in s \ {x} : It(R)[s \ {x}] = f[y] + It(R)[(s \ {x}) \ {y}]
        <5>1. ASSUME NEW x \in s
              PROVE  /\ It(R)[s \ {x}] = It(Q)[s \ {x}] /\ It(R)[s \ {x}] \in Int
                     /\ \A y \in s \ {x} : It(R)[s \ {x}] = f[y] + It(R)[(s \ {x}) \ {y}]
          <6>1. s \ {x} \in SUBSET R /\ s \ {x} \in SUBSET Q /\ Cardinality(s \ {x}) = n - 1
            BY <4>3, <2>3
          <6>2. PICK t : t = s \ {x}
            OBVIOUS
          <6>3. It(R)[t] = It(Q)[t] /\ It(R)[t] \in Int /\ \A y \in t : It(R)[t] = f[y] + It(R)[t \ {y}]
            <7>1. t \in SUBSET R /\ t \in SUBSET Q /\ Cardinality(t) = n - 1
              BY <6>1, <6>2
            <7>2. PICK k : k = n - 1
              OBVIOUS
            <7>3. Total(k)
              <8>. HIDE DEF Total
              <8>. QED  BY <7>2, <4>4
            <7>. QED  BY <7>1, <7>2, <7>3, Zenon
          <6>. QED  BY <6>2, <6>3
        <5>. QED  BY <5>1
      <4>6. f[c] \in Int
        BY <4>1
      <4>7. It(R)[s] = It(Q)[s] /\ It(R)[s] \in Int
        BY <4>1, <4>2, <4>5, <4>6
      <4>8. ASSUME NEW x \in s PROVE It(R)[s] = f[x] + It(R)[s \ {x}]
        <5>1. CASE x = c
          BY <5>1, <4>2
        <5>2. CASE x # c
          <6>. DEFINE u == It(R)[(s \ {x}) \ {c}]
          <6>1. (s \ {x}) \ {c} = (s \ {c}) \ {x} /\ c \in s \ {x} /\ x \in s \ {c}
            BY <5>2, <4>1
          <6>2. It(R)[s \ {x}] = f[c] + u /\ It(R)[s \ {c}] = f[x] + u
            BY <4>1, <4>5, <6>1
          <6>3. It(R)[(s \ {x})] \in Int /\ f[x] \in Int
            BY <4>5
          <6>4. u \in Int
            <7>1. (s \ {x}) \ {c} \in SUBSET S /\ IsFiniteSet(s \ {x}) /\ c \in s \ {x}
              BY <6>1, <4>1, <4>3
            <7>2. Cardinality((s \ {x}) \ {c}) = n - 2 /\ n - 1 \in Nat \ {0} /\ n \in Nat
              <8>1. PICK t : t = s \ {x}
                OBVIOUS
              <8>2. Cardinality(t \ {c}) = Cardinality(t) - 1 /\ Cardinality(t) \in Nat \ {0}
                BY <7>1, <8>1, OneLess
              <8>3. Cardinality(t) = n - 1 /\ n \in Nat \ {0}
                BY <8>1, <4>3
              <8>4. Cardinality(t \ {c}) = n - 2 /\ n - 1 \in Nat \ {0}
                BY <8>2, <8>3
              <8>. QED  BY <8>1, <8>3, <8>4
            <7>3. n - 2 \in Nat /\ Total(n - 2)
              <8>. HIDE DEF Total
              <8>1. n - 2 \in Nat /\ n - 2 < n
                BY <7>2
              <8>. QED  BY <8>1, <2>2
            <7>4. (s \ {x}) \ {c} \in SUBSET R
              BY <2>3
            <7>. QED  BY <7>2, <7>3, <7>4
          <6>. HIDE DEF u
          <6>. QED  BY <4>2, <4>6, <6>2, <6>3, <6>4
        <5>. QED  BY <5>1, <5>2
      <4>. QED  BY <4>7, <4>8
    <3>. QED  BY <3>1, <3>2
  <2>4. Total(n)
    BY <2>3
  <2>. QED  BY <2>1, <2>4
<1>6. \A n \in Nat : Total(n)
    BY <1>5
<1>7. \A R \in SUBSET S : \A Q \in SUBSET R :
          It(R)[Q] = It(Q)[Q] /\ It(Q)[Q] \in Int /\ \A x \in Q : It(Q)[Q] = f[x] + It(Q)[Q \ {x}]
  <2>1. ASSUME NEW R \in SUBSET S, NEW Q \in SUBSET R
        PROVE  It(R)[Q] = It(Q)[Q] /\ It(Q)[Q] \in Int /\ \A x \in Q : It(Q)[Q] = f[x] + It(Q)[Q \ {x}]
    <3>1. Q \in SUBSET S /\ Cardinality(Q) \in Nat /\ Q \in SUBSET Q
      BY <1>4
    <3>2. Total(Cardinality(Q))
      <4>. HIDE DEF Total
      <4>. QED  BY <1>6, <3>1
    <3>. QED  BY <3>1, <3>2
  <2>. QED  BY <2>1
<1>8. SumFunctionOnSet(f, S) = It(S)[S] /\ SumFunctionOnSet(f, {}) = It({})[{}]
    BY <1>1
<1>9. It({})[{}] = 0
    BY <1>3 DEF SumStep
<1>10. \A x \in S : SumFunctionOnSet(f, S \ {x}) = It(S)[S \ {x}]
  <2>1. \A x \in S : SumFunctionOnSet(f, S \ {x}) = It(S \ {x})[S \ {x}]
    BY <1>1
  <2>. QED  BY <2>1, <1>7
<1>11. It(S)[S] \in Int /\ \A x \in S : It(S)[S] = f[x] + It(S)[S \ {x}]
    BY <1>7
<1>. HIDE DEF Total
<1>. QED  BY <1>8, <1>9, <1>10, <1>11

\* What holds of the empty set, and of every set of which it holds without some
\* element, holds of a finite set.
LEMMA FiniteInduction ==
    ASSUME NEW S, IsFiniteSet(S), NEW G, {} \in G,
           \A s \in SUBSET S : \A x \in s : s \ {x} \in G => s \in G
    PROVE  S \in G
<1>. DEFINE B == {n \in Nat : \E s \in SUBSET S : Cardinality(s) = n /\ s \notin G}
<1>1. ASSUME B # {} PROVE FALSE
  <2>1. PICK n \in B : \A m \in B : n <= m
    BY <1>1, Least
  <2>2. PICK s \in SUBSET S : Cardinality(s) = n /\ s \notin G
    BY <2>1
  <2>3. PICK x \in s : TRUE
    BY <2>2
  <2>4. IsFiniteSet(s)
    BY FS_Subset
  <2>5. Cardinality(s \ {x}) = n - 1 /\ n \in Nat \ {0}
    BY <2>2, <2>3, <2>4, OneLess
  <2>6. n - 1 \notin B /\ n - 1 \in Nat
    <3>1. n - 1 \in Nat /\ ~(n <= n - 1)
      BY <2>5
    <3>. QED  BY <2>1, <3>1
  <2>. QED  BY <2>2, <2>3, <2>5, <2>6
<1>. QED  BY <1>1, FS_CardinalityType

\* A sum over a set with one more member.
LEMMA SumIn ==
    ASSUME NEW D, NEW f \in [D -> Int], NEW S \in SUBSET D, IsFiniteSet(S), NEW x \in D \ S
    PROVE  SumFunctionOnSet(f, S \cup {x}) = f[x] + SumFunctionOnSet(f, S)
<1>1. S \cup {x} \in SUBSET D /\ IsFiniteSet(S \cup {x}) /\ (S \cup {x}) \ {x} = S
    BY FS_AddElement
<1>. QED  BY <1>1, SumOut

\* Sums of sums and of smaller terms.
LEMMA SumLinear ==
    ASSUME NEW D, NEW E, NEW H, NEW f \in [D -> Int], NEW g \in [E -> Int], NEW h \in [H -> Int],
           NEW S \in SUBSET (D \cap E \cap H), IsFiniteSet(S)
    PROVE  /\ (\A x \in S : h[x] = f[x] + g[x]) =>
                  SumFunctionOnSet(h, S) = SumFunctionOnSet(f, S) + SumFunctionOnSet(g, S)
           /\ (\A x \in S : f[x] <= g[x]) => SumFunctionOnSet(f, S) <= SumFunctionOnSet(g, S)
<1>. DEFINE F(s) == SumFunctionOnSet(f, s)
            G(s) == SumFunctionOnSet(g, s)
            K(s) == SumFunctionOnSet(h, s)
            P(s) == /\ (\A x \in s : h[x] = f[x] + g[x]) => K(s) = F(s) + G(s)
                    /\ (\A x \in s : f[x] <= g[x]) => F(s) <= G(s)
            Ok == {s \in SUBSET S : P(s)}
<1>1. \A s \in SUBSET S : F(s) \in Int /\ G(s) \in Int /\ K(s) \in Int
  <2>1. ASSUME NEW s \in SUBSET S PROVE F(s) \in Int /\ G(s) \in Int /\ K(s) \in Int
    <3>1. IsFiniteSet(s) /\ s \in SUBSET D /\ s \in SUBSET E /\ s \in SUBSET H
      BY FS_Subset
    <3>. QED  BY <3>1, SumOut
  <2>. QED  BY <2>1
<1>2. F({}) = 0 /\ G({}) = 0 /\ K({}) = 0
    BY SumOut, FS_EmptySet
<1>3. ASSUME NEW s \in SUBSET S, NEW x \in s, s \ {x} \in Ok PROVE s \in Ok
  <2>1. IsFiniteSet(s) /\ s \in SUBSET D /\ s \in SUBSET E /\ s \in SUBSET H
    BY FS_Subset
  <2>2. F(s) = f[x] + F(s \ {x}) /\ G(s) = g[x] + G(s \ {x}) /\ K(s) = h[x] + K(s \ {x})
    BY <2>1, SumOut
  <2>3. s \ {x} \in SUBSET S /\ f[x] \in Int /\ g[x] \in Int /\ h[x] \in Int
    BY <2>1
  <2>4. /\ F(s \ {x}) \in Int /\ G(s \ {x}) \in Int /\ K(s \ {x}) \in Int
        /\ F(s) \in Int /\ G(s) \in Int /\ K(s) \in Int
    <3>. HIDE DEF F, G, K
    <3>. QED  BY <1>1, <2>3
  <2>5. P(s \ {x})
    BY <1>3
  <2>. HIDE DEF F, G, K
  <2>6. P(s)
    BY <2>2, <2>3, <2>4, <2>5
  <2>. QED  BY <2>6
<1>4. {} \in Ok
  <2>. HIDE DEF F, G, K
  <2>. QED  BY <1>2
<1>5. S \in Ok
  <2>. HIDE DEF Ok
  <2>. QED  BY <1>3, <1>4, FiniteInduction
<1>. QED  BY <1>5

\* Functions that agree on a set have the same sum over it.
LEMMA SumSame ==
    ASSUME NEW D, NEW E, NEW f \in [D -> Int], NEW g \in [E -> Int],
           NEW S \in SUBSET (D \cap E), IsFiniteSet(S), \A x \in S : f[x] = g[x]
    PROVE  SumFunctionOnSet(f, S) = SumFunctionOnSet(g, S)
<1>1. SumFunctionOnSet(f, S) \in Int /\ SumFunctionOnSet(g, S) \in Int
    BY SumOut
<1>2. (\A x \in S : f[x] <= g[x]) /\ (\A x \in S : g[x] <= f[x])
    OBVIOUS
<1>3. SumFunctionOnSet(f, S) <= SumFunctionOnSet(g, S)
  <2>1. S \in SUBSET (D \cap E \cap D)
    OBVIOUS
  <2>. QED  BY <1>2, <2>1, SumLinear
<1>4. SumFunctionOnSet(g, S) <= SumFunctionOnSet(f, S)
  <2>1. S \in SUBSET (E \cap D \cap D)
    OBVIOUS
  <2>. QED  BY <1>2, <2>1, SumLinear
<1>. QED  BY <1>1, <1>3, <1>4

\* Terms that are 0 may be added, ...
LEMMA SumExtend ==
    ASSUME NEW D, NEW f \in [D -> Int], NEW S \in SUBSET D, IsFiniteSet(S), NEW A \in SUBSET S,
           \A x \in S \ A : f[x] = 0
    PROVE  SumFunctionOnSet(f, S) = SumFunctionOnSet(f, A)
<1>. DEFINE Ok == {s \in SUBSET (S \ A) : SumFunctionOnSet(f, A \cup s) = SumFunctionOnSet(f, A)}
<1>1. IsFiniteSet(S \ A) /\ A \cup (S \ A) = S
    BY FS_Subset
<1>2. {} \in Ok
  <2>1. A \cup {} = A
    OBVIOUS
  <2>. QED  BY <2>1
<1>3. ASSUME NEW s \in SUBSET (S \ A), NEW x \in s, s \ {x} \in Ok PROVE s \in Ok
  <2>1. PICK t : t = A \cup (s \ {x})
    OBVIOUS
  <2>2. t \in SUBSET D /\ IsFiniteSet(t) /\ x \in D \ t /\ t \cup {x} = A \cup s /\ f[x] = 0
    BY <2>1, FS_Subset
  <2>3. SumFunctionOnSet(f, t \cup {x}) = f[x] + SumFunctionOnSet(f, t) /\ SumFunctionOnSet(f, t) \in Int
    BY <2>2, SumIn, SumOut
  <2>4. SumFunctionOnSet(f, t) = SumFunctionOnSet(f, A)
    BY <2>1, <1>3
  <2>5. SumFunctionOnSet(f, A \cup s) = SumFunctionOnSet(f, A)
    <3>1. PICK v : v = SumFunctionOnSet(f, t)
      OBVIOUS
    <3>2. 0 + v = v
      BY <2>3, <3>1
    <3>. QED  BY <2>2, <2>3, <2>4, <3>1, <3>2, Zenon
  <2>. QED  BY <2>5
<1>4. S \ A \in Ok
  <2>. HIDE DEF Ok
  <2>. QED  BY <1>1, <1>2, <1>3, FiniteInduction
<1>. QED  BY <1>1, <1>4

\* ... and none is negative.
LEMMA SumOfNats ==
    ASSUME NEW D, NEW f \in [D -> Nat], NEW S \in SUBSET D, IsFiniteSet(S)
    PROVE  /\ SumFunctionOnSet(f, S) \in Nat
           /\ \A A \in SUBSET S : SumFunctionOnSet(f, A) <= SumFunctionOnSet(f, S)
<1>. DEFINE zero == [x \in D |-> 0]
            Only0(A) == [x \in D |-> IF x \in A THEN f[x] ELSE 0]
<1>0. f \in [D -> Int] /\ zero \in [D -> Int]
    OBVIOUS
<1>1. SumFunctionOnSet(zero, S) = 0
    BY <1>0, SumExtend, SumOut
<1>2. SumFunctionOnSet(zero, S) <= SumFunctionOnSet(f, S)
  <2>1. S \in SUBSET (D \cap D \cap D) /\ \A x \in S : zero[x] <= f[x]
    OBVIOUS
  <2>. HIDE DEF zero
  <2>. QED  BY <1>0, <2>1, SumLinear
<1>3. SumFunctionOnSet(f, S) \in Int
    BY <1>0, SumOut
<1>4. ASSUME NEW A \in SUBSET S PROVE SumFunctionOnSet(f, A) <= SumFunctionOnSet(f, S)
  <2>1. PICK g : g = Only0(A)
    OBVIOUS
  <2>2. g \in [D -> Int] /\ (\A x \in S \ A : g[x] = 0) /\ (\A x \in A : g[x] = f[x])
        /\ (\A x \in S : g[x] <= f[x])
    BY <2>1
  <2>3. SumFunctionOnSet(g, S) = SumFunctionOnSet(g, A)
    BY <2>2, SumExtend
  <2>4. SumFunctionOnSet(g, A) = SumFunctionOnSet(f, A)
    <3>1. A \in SUBSET (D \cap D) /\ IsFiniteSet(A)
      BY FS_Subset
    <3>2. f \in [D -> Int] /\ g \in [D -> Int] /\ \A x \in A : g[x] = f[x]
      BY <1>0, <2>2
    <3>. QED  BY <3>1, <3>2, SumSame, SMTT(30)
  <2>5. SumFunctionOnSet(g, S) <= SumFunctionOnSet(f, S)
    <3>1. S \in SUBSET (D \cap D \cap D)
      OBVIOUS
    <3>. QED  BY <1>0, <2>2, <3>1, SumLinear
  <2>. QED  BY <2>3, <2>4, <2>5
<1>. HIDE DEF zero
<1>. QED  BY <1>1, <1>2, <1>3, <1>4

----------------------------------------------------------------------------
(* Sequences.                                                              *)
\* What Append and \o do to the elements of a sequence.
LEMMA AppendElements ==
    ASSUME NEW T, NEW s \in Seq(T), NEW x \in T
    PROVE  /\ ToSet(Append(s, x)) = ToSet(s) \cup {x}
           /\ IsInjective(s) /\ x \notin ToSet(s) => IsInjective(Append(s, x))
<1>1. DOMAIN s = 1 .. Len(s) /\ DOMAIN Append(s, x) = 1 .. Len(s) + 1 /\ Len(s) \in Nat
    OBVIOUS
<1>2. \A i \in 1 .. Len(s) : Append(s, x)[i] = s[i]
    OBVIOUS
<1>3. Append(s, x)[Len(s) + 1] = x
    OBVIOUS
<1>4. ToSet(Append(s, x)) = ToSet(s) \cup {x}
  <2>1. ToSet(Append(s, x)) \subseteq ToSet(s) \cup {x}
    BY <1>1, <1>2, <1>3 DEF ToSet
  <2>2. ToSet(s) \subseteq ToSet(Append(s, x))
    BY <1>1, <1>2 DEF ToSet
  <2>3. x \in ToSet(Append(s, x))
    BY <1>1, <1>3 DEF ToSet
  <2>. QED  BY <2>1, <2>2, <2>3
<1>5. ASSUME IsInjective(s), x \notin ToSet(s) PROVE IsInjective(Append(s, x))
    BY <1>1, <1>2, <1>3, <1>5 DEF IsInjective, ToSet
<1>. QED  BY <1>4, <1>5

\* What is in a concatenation, and when nothing is in it twice.
LEMMA ConcatElements ==
    ASSUME NEW T, NEW s \in Seq(T), NEW t \in Seq(T)
    PROVE  /\ ToSet(s \o t) = ToSet(s) \cup ToSet(t)
           /\ IsInjective(s) /\ IsInjective(t) /\ ToSet(s) \cap ToSet(t) = {}
                 => IsInjective(s \o t)
<1>1. /\ DOMAIN s = 1 .. Len(s) /\ DOMAIN t = 1 .. Len(t)
      /\ DOMAIN (s \o t) = 1 .. Len(s) + Len(t) /\ Len(s) \in Nat /\ Len(t) \in Nat
    OBVIOUS
<1>2. \A i \in 1 .. Len(s) : (s \o t)[i] = s[i]
    OBVIOUS
<1>3. \A i \in 1 .. Len(t) : (s \o t)[Len(s) + i] = t[i]
    OBVIOUS
<1>4. \A i \in 1 .. Len(s) + Len(t) :
         i \in 1 .. Len(s) \/ (i - Len(s) \in 1 .. Len(t) /\ (s \o t)[i] = t[i - Len(s)])
    BY <1>1, <1>3
<1>5. ToSet(s \o t) = ToSet(s) \cup ToSet(t)
  <2>1. ToSet(s \o t) \subseteq ToSet(s) \cup ToSet(t)
    BY <1>1, <1>2, <1>4 DEF ToSet
  <2>2. ToSet(s) \subseteq ToSet(s \o t)
    BY <1>1, <1>2 DEF ToSet
  <2>3. ToSet(t) \subseteq ToSet(s \o t)
    <3>1. \A i \in DOMAIN t : Len(s) + i \in DOMAIN (s \o t)
      BY <1>1
    <3>. QED  BY <3>1, <1>1, <1>3 DEF ToSet
  <2>. QED  BY <2>1, <2>2, <2>3
<1>6. ASSUME IsInjective(s), IsInjective(t), ToSet(s) \cap ToSet(t) = {},
             NEW i \in 1 .. Len(s) + Len(t), NEW j \in 1 .. Len(s) + Len(t),
             (s \o t)[i] = (s \o t)[j]
      PROVE  i = j
  <2>1. CASE i \in 1 .. Len(s) /\ j \in 1 .. Len(s)
    BY <2>1, <1>1, <1>2, <1>6 DEF IsInjective
  <2>2. CASE i \in 1 .. Len(s) /\ j \notin 1 .. Len(s)
    BY <2>2, <1>1, <1>2, <1>4, <1>6 DEF ToSet
  <2>3. CASE i \notin 1 .. Len(s) /\ j \in 1 .. Len(s)
    BY <2>3, <1>1, <1>2, <1>4, <1>6 DEF ToSet
  <2>4. CASE i \notin 1 .. Len(s) /\ j \notin 1 .. Len(s)
    <3>1. i - Len(s) = j - Len(s)
      BY <2>4, <1>1, <1>4, <1>6 DEF IsInjective
    <3>. QED  BY <3>1, <1>1
  <2>. QED  BY <2>1, <2>2, <2>3, <2>4
<1>. QED  BY <1>1, <1>5, <1>6 DEF IsInjective

\* The definition of Only, one element of the sequence at a time.
OnlyStep(s, keys, only, i) ==
    IF i = 0 THEN << >>
    ELSE IF s[i] \in keys THEN Append(only[i - 1], s[i]) ELSE only[i - 1]

\* The recursive function by which a queue is filtered exists,
LEMMA OnlyExists ==
    ASSUME NEW T, NEW s \in Seq(T), NEW keys
    PROVE  \A n \in 0 .. Len(s) : \E f : f = [i \in 0 .. n |-> OnlyStep(s, keys, f, i)]
<1>. DEFINE P(n) == \E f : f = [i \in 0 .. n |-> OnlyStep(s, keys, f, i)]
            B == {n \in 0 .. Len(s) : ~P(n)}
<1>1. SUFFICES ASSUME B # {} PROVE FALSE
    OBVIOUS
<1>2. B \in SUBSET Nat
    BY LenProperties
<1>3. PICK n \in B : \A m \in B : n <= m
    BY <1>1, <1>2, Least
<1>4. CASE n = 0
  <2>. DEFINE f == [i \in 0 .. 0 |-> << >>]
  <2>1. f = [i \in 0 .. n |-> OnlyStep(s, keys, f, i)]
    BY <1>4 DEF OnlyStep
  <2>. QED  BY <2>1
<1>5. CASE n # 0
  <2>1. n - 1 \in 0 .. Len(s) /\ n - 1 \notin B /\ n \in Nat \ {0}
    BY <1>3, <1>5, LenProperties
  <2>2. PICK g : g = [i \in 0 .. n - 1 |-> OnlyStep(s, keys, g, i)]
    BY <2>1
  <2>. DEFINE f == [i \in 0 .. n |-> IF i < n THEN g[i] ELSE OnlyStep(s, keys, g, n)]
  <2>3. \A i \in 0 .. n : f[i] = OnlyStep(s, keys, f, i)
    <3>1. ASSUME NEW i \in 0 .. n PROVE f[i] = OnlyStep(s, keys, f, i)
      <4>1. i # 0 => f[i - 1] = g[i - 1]
        BY <2>1
      <4>2. CASE i < n
        <5>1. i \in 0 .. n - 1 /\ f[i] = g[i]
          BY <4>2, <2>1
        <5>2. g[i] = OnlyStep(s, keys, g, i)
          BY <5>1, <2>2
        <5>. QED  BY <4>1, <5>1, <5>2 DEF OnlyStep
      <4>3. CASE i = n
        <5>1. f[i] = OnlyStep(s, keys, g, i)
          BY <4>3, <2>1
        <5>. QED  BY <4>1, <5>1 DEF OnlyStep
      <4>. QED  BY <4>2, <4>3, <2>1
    <3>. QED  BY <3>1
  <2>4. f = [i \in 0 .. n |-> OnlyStep(s, keys, f, i)]
    BY <2>3
  <2>. QED  BY <2>4
<1>. QED  BY <1>4, <1>5

\* Only keeps the elements that are in the set.
LEMMA OnlyElements ==
    ASSUME NEW T, NEW s \in Seq(T), NEW keys
    PROVE  /\ Only(s, keys) \in Seq(T) /\ ToSet(Only(s, keys)) = ToSet(s) \cap keys
           /\ IsInjective(s) => IsInjective(Only(s, keys))
<1>. DEFINE f == CHOOSE f : f = [i \in 0 .. Len(s) |-> OnlyStep(s, keys, f, i)]
<1>0. Len(s) \in Nat /\ DOMAIN s = 1 .. Len(s)
    OBVIOUS
<1>1. f = [i \in 0 .. Len(s) |-> OnlyStep(s, keys, f, i)]
    BY OnlyExists, <1>0
<1>2. Only(s, keys) = f[Len(s)]
    BY DEF Only, OnlyStep
<1>3. \A i \in 0 .. Len(s) : f[i] = OnlyStep(s, keys, f, i)
    BY <1>1
<1>. HIDE DEF f
<1>. DEFINE Seen(i) == {s[j] : j \in 1 .. i}
            P(i) == /\ f[i] \in Seq(T) /\ ToSet(f[i]) = Seen(i) \cap keys
                    /\ IsInjective(s) => IsInjective(f[i])
            B == {i \in 0 .. Len(s) : ~P(i)}
<1>. HIDE DEF P
<1>4. ASSUME B # {} PROVE FALSE
  <2>0. B \in SUBSET Nat
    BY <1>0
  <2>1. PICK n \in B : \A m \in B : n <= m
    BY <1>4, <2>0, Least
  <2>2. CASE n = 0
    <3>1. f[n] = << >>
      BY <1>3, <2>2, <1>0 DEF OnlyStep
    <3>2. P(n)
      BY <3>1, <2>2 DEF ToSet, IsInjective, P
    <3>. QED  BY <3>2
  <2>3. CASE n # 0
    <3>1. n - 1 \in 0 .. Len(s) /\ n \in 1 .. Len(s) /\ n - 1 \notin B
      BY <2>1, <2>3, <1>0
    <3>2. P(n - 1)
      BY <3>1
    <3>3. f[n] = IF s[n] \in keys THEN Append(f[n - 1], s[n]) ELSE f[n - 1]
      BY <1>3, <3>1, <2>3 DEF OnlyStep
    <3>4. Seen(n) = Seen(n - 1) \cup {s[n]}
      <4>1. 1 .. n = (1 .. n - 1) \cup {n}
        BY <3>1, <1>0
      <4>. QED  BY <4>1
    <3>5. s[n] \in T
      BY <3>1, <1>0
    <3>6. IsInjective(s) => s[n] \notin Seen(n - 1)
      BY <3>1, <1>0 DEF IsInjective
    <3>7. P(n)
      <4>1. CASE s[n] \in keys
        <5>1. f[n] = Append(f[n - 1], s[n])
          BY <3>3, <4>1
        <5>2. /\ ToSet(f[n]) = ToSet(f[n - 1]) \cup {s[n]}
              /\ IsInjective(f[n - 1]) /\ s[n] \notin ToSet(f[n - 1]) => IsInjective(f[n])
          BY <5>1, <3>2, <3>5, AppendElements DEF P
        <5>3. f[n] \in Seq(T)
          BY <5>1, <3>2, <3>5 DEF P
        <5>. QED  BY <5>2, <5>3, <3>2, <3>4, <3>6, <4>1 DEF P
      <4>2. CASE s[n] \notin keys
        BY <4>2, <3>2, <3>3, <3>4 DEF P
      <4>. QED  BY <4>1, <4>2
    <3>. QED  BY <3>7
  <2>. QED  BY <2>2, <2>3
<1>5. P(Len(s))
    BY <1>4, <1>0
<1>6. Seen(Len(s)) = ToSet(s)
    BY <1>0 DEF ToSet
<1>. QED  BY <1>2, <1>5, <1>6 DEF P

----------------------------------------------------------------------------
(* The order of a batch.                                                   *)

\* A finite set of naturals can be listed in its order, ...
LEMMA OrderExists ==
    ASSUME NEW S \in SUBSET Nat, IsFiniteSet(S)
    PROVE  \E s \in [1 .. Cardinality(S) -> S] : \A i, j \in 1 .. Cardinality(S) : i < j => s[i] < s[j]
<1>. DEFINE P(R) == \E s \in [1 .. Cardinality(R) -> R] :
                        \A i, j \in 1 .. Cardinality(R) : i < j => s[i] < s[j]
            B == {n \in Nat : \E R \in SUBSET S : Cardinality(R) = n /\ ~P(R)}
<1>1. ASSUME B # {} PROVE FALSE
  <2>1. PICK n \in B : \A m \in B : n <= m
    <3>. HIDE DEF P
    <3>. QED  BY <1>1, Least
  <2>2. PICK R \in SUBSET S : Cardinality(R) = n /\ ~P(R)
    BY <2>1
  <2>3. IsFiniteSet(R) /\ R \in SUBSET Nat /\ n \in Nat
    BY FS_Subset
  <2>4. CASE R = {}
    <3>1. n = 0
      BY <2>2, <2>4, FS_EmptySet
    <3>2. [i \in 1 .. 0 |-> 0] \in [1 .. 0 -> R] /\ 1 .. 0 = {}
      OBVIOUS
    <3>3. P(R)
      BY <2>2, <3>1, <3>2
    <3>. QED  BY <2>2, <3>3
  <2>5. CASE R # {}
    <3>1. PICK x \in R : \A y \in R : x <= y
      BY <2>3, <2>5, Least
    <3>2. Cardinality(R \ {x}) = n - 1 /\ n \in Nat \ {0}
      BY <2>2, <2>3, <3>1, OneLess
    <3>3. n - 1 \in Nat /\ ~(n <= n - 1)
      BY <3>2
    <3>4. P(R \ {x})
      <4>1. R \ {x} \in SUBSET S
        OBVIOUS
      <4>. HIDE DEF P
      <4>. QED  BY <2>1, <3>2, <3>3, <4>1
    <3>5. PICK s \in [1 .. n - 1 -> R \ {x}] : \A i, j \in 1 .. n - 1 : i < j => s[i] < s[j]
      BY <3>2, <3>4
    <3>. DEFINE t == [i \in 1 .. n |-> IF i = 1 THEN x ELSE s[i - 1]]
    <3>6. \A i \in 1 .. n : i # 1 => i - 1 \in 1 .. n - 1 /\ t[i] = s[i - 1] /\ s[i - 1] \in R \ {x}
      BY <3>2
    <3>7. t[1] = x /\ t \in [1 .. n -> R]
      BY <3>2, <3>6
    <3>8. ASSUME NEW i \in 1 .. n, NEW j \in 1 .. n, i < j PROVE t[i] < t[j]
      <4>1. j # 1 /\ t[j] = s[j - 1] /\ s[j - 1] \in R \ {x} /\ j - 1 \in 1 .. n - 1
        BY <3>6, <3>8
      <4>2. CASE i = 1
        <5>1. s[j - 1] \in Nat /\ x \in Nat /\ x <= s[j - 1] /\ x # s[j - 1]
          BY <2>3, <3>1, <4>1
        <5>. HIDE DEF t
        <5>. QED  BY <3>7, <4>1, <4>2, <5>1
      <4>3. CASE i # 1
        <5>1. t[i] = s[i - 1] /\ i - 1 \in 1 .. n - 1 /\ i - 1 < j - 1
          BY <3>6, <3>8, <4>3
        <5>. HIDE DEF t
        <5>. QED  BY <3>5, <4>1, <5>1
      <4>. QED  BY <4>2, <4>3
    <3>. HIDE DEF t
    <3>9. P(R)
      BY <2>2, <3>7, <3>8
    <3>. QED  BY <2>2, <3>9
  <2>. QED  BY <2>4, <2>5
<1>2. Cardinality(S) \in Nat
    BY FS_CardinalityType
<1>. QED  BY <1>1, <1>2

\* ... each element once.
LEMMA OrderIs ==
    ASSUME NEW S \in SUBSET Nat, IsFiniteSet(S)
    PROVE  /\ Ordered(S) \in [1 .. Cardinality(S) -> S] /\ Cardinality(S) \in Nat
           /\ \A i, j \in 1 .. Cardinality(S) : Ordered(S)[i] = Ordered(S)[j] => i = j
           /\ \A x \in S : \E i \in 1 .. Cardinality(S) : Ordered(S)[i] = x
<1>. DEFINE n == Cardinality(S)
            s == Ordered(S)
            Ok(o) == \A i, j \in DOMAIN o : i < j => o[i] < o[j]
<1>1. n \in Nat
    BY FS_CardinalityType
<1>2. \E o \in [1 .. n -> S] : Ok(o)
  <2>1. PICK o \in [1 .. n -> S] : \A i, j \in 1 .. n : i < j => o[i] < o[j]
    BY OrderExists
  <2>. QED  BY <2>1
<1>3. s = CHOOSE o \in [1 .. n -> S] : Ok(o)
    BY DEF Ordered
<1>4. s \in [1 .. n -> S] /\ Ok(s)
  <2>. HIDE DEF s, Ok
  <2>. QED  BY <1>2, <1>3
<1>5. \A i, j \in 1 .. n : i < j => s[i] < s[j]
    BY <1>4
<1>. HIDE DEF s, n
<1>6. \A i, j \in 1 .. n : s[i] = s[j] => i = j
  <2>1. ASSUME NEW i \in 1 .. n, NEW j \in 1 .. n, s[i] = s[j] PROVE i = j
    <3>1. ~(s[i] < s[j]) /\ ~(s[j] < s[i])
      <4>1. s[i] \in Nat /\ s[j] \in Nat
        BY <1>4
      <4>. QED  BY <4>1, <2>1
    <3>2. ~(i < j) /\ ~(j < i)
      BY <1>5, <3>1
    <3>. QED  BY <1>1, <3>2
  <2>. QED  BY <2>1
<1>7. s \in Injection(1 .. n, S)
    BY <1>4, <1>6 DEF Injection, IsInjective
<1>8. s \in Surjection(1 .. n, S)
  <2>1. IsFiniteSet(1 .. n) /\ Cardinality(1 .. n) = n
    BY <1>1, FS_Interval
  <2>. QED  BY <1>7, <2>1, FS_Injection DEF n
<1>9. \A x \in S : \E i \in 1 .. n : s[i] = x
    BY <1>8 DEF Surjection
<1>. QED  BY <1>1, <1>4, <1>6, <1>9 DEF s, n

FlatStep(seqs, g, i) == IF i = 1 THEN seqs[i] ELSE g[i - 1] \o seqs[i]

\* The recursive function of FlattenSeq exists, up to any place,
LEMMA FlatExists ==
    ASSUME NEW seqs, NEW l \in Nat
    PROVE  \A n \in 0 .. l : \E g : g = [i \in 1 .. n |-> FlatStep(seqs, g, i)]
<1>. DEFINE P(n) == \E g : g = [i \in 1 .. n |-> FlatStep(seqs, g, i)]
            B == {n \in 0 .. l : ~P(n)}
<1>1. ASSUME B # {} PROVE FALSE
  <2>1. PICK n \in B : \A m \in B : n <= m
    <3>. HIDE DEF P
    <3>1. B \in SUBSET Nat
      OBVIOUS
    <3>. QED  BY <1>1, <3>1, Least
  <2>2. CASE n = 0
    <3>. DEFINE g == [i \in 1 .. 0 |-> 0]
    <3>1. g = [i \in 1 .. 0 |-> FlatStep(seqs, g, i)]
      BY 1 .. 0 = {}
    <3>. QED  BY <2>1, <2>2, <3>1
  <2>3. CASE n # 0
    <3>1. n - 1 \in 0 .. l /\ n - 1 \notin B /\ n \in Nat \ {0}
      <4>. HIDE DEF P
      <4>. QED  BY <2>1, <2>3
    <3>2. PICK g : g = [i \in 1 .. n - 1 |-> FlatStep(seqs, g, i)]
      BY <3>1
    <3>. DEFINE h == [i \in 1 .. n |-> IF i < n THEN g[i] ELSE FlatStep(seqs, g, n)]
    <3>3. ASSUME NEW i \in 1 .. n PROVE h[i] = FlatStep(seqs, h, i)
      <4>1. i # 1 => h[i - 1] = g[i - 1]
        BY <3>1
      <4>2. CASE i < n
        <5>1. i \in 1 .. n - 1 /\ h[i] = g[i]
          BY <4>2, <3>1
        <5>2. g[i] = FlatStep(seqs, g, i)
          BY <5>1, <3>2
        <5>. QED  BY <4>1, <5>1, <5>2 DEF FlatStep
      <4>3. CASE i = n
        <5>1. h[i] = FlatStep(seqs, g, i)
          BY <4>3, <3>1
        <5>. QED  BY <4>1, <5>1 DEF FlatStep
      <4>. QED  BY <4>2, <4>3, <3>1
    <3>4. h = [i \in 1 .. n |-> FlatStep(seqs, h, i)]
      BY <3>3
    <3>. QED  BY <2>1, <3>4
  <2>. QED  BY <2>2, <2>3
<1>. QED  BY <1>1

\* and has a value for each of its places.
LEMMA FlatSolved ==
    ASSUME NEW seqs, NEW n \in Nat
    PROVE  \E g : g = [i \in 1 .. n |-> FlatStep(seqs, g, i)]
<1>1. \A m \in 0 .. n : \E g : g = [i \in 1 .. m |-> FlatStep(seqs, g, i)]
    BY FlatExists
<1>2. n \in 0 .. n
    OBVIOUS
<1>. QED  BY <1>1, <1>2, Zenon

\* The steps of a sum, for every part of a set.
LEMMA SumInEach ==
    ASSUME NEW S, IsFiniteSet(S), NEW g \in [S -> Int]
    PROVE  /\ \A A \in SUBSET S : \A q \in S \ A :
                 SumFunctionOnSet(g, A \cup {q}) = g[q] + SumFunctionOnSet(g, A)
           /\ SumFunctionOnSet(g, {}) = 0
<1>1. ASSUME NEW A \in SUBSET S, NEW q \in S \ A
      PROVE  SumFunctionOnSet(g, A \cup {q}) = g[q] + SumFunctionOnSet(g, A)
  <2>1. IsFiniteSet(A)
    BY FS_Subset
  <2>. QED  BY <2>1, SumIn
<1>2. SumFunctionOnSet(g, {}) = 0
    BY SumOut
<1>. QED  BY <1>1, <1>2

\* seqs lists the sequences f gives for the members of S, in the order o.
Listed(T, S, f, n, o, seqs, size) ==
    /\ IsFiniteSet(S) /\ \A q \in S : f[q] \in Seq(T)
    /\ n \in Nat /\ o \in [1 .. n -> S]
    /\ \A i, j \in 1 .. n : o[i] = o[j] => i = j
    /\ \A x \in S : \E i \in 1 .. n : o[i] = x
    /\ seqs \in [1 .. n -> Seq(T)] /\ \A i \in 1 .. n : seqs[i] = f[o[i]]
    /\ size \in [S -> Int] /\ \A q \in S : size[q] = Len(f[q])

\* s has what f gives for the members of S: as many elements as they have
\* together, and none twice if they share none.
Joined(T, S, f, s, size) ==
    /\ s \in Seq(T)
    /\ \A x : x \in ToSet(s) <=> \E q \in S : x \in ToSet(f[q])
    /\ Len(s) = SumFunctionOnSet(size, S)
    /\ (/\ \A q \in S : IsInjective(f[q])
        /\ \A q, r \in S : q # r => ToSet(f[q]) \cap ToSet(f[r]) = {})
           => IsInjective(s)

\* Putting them one after the other does.
LEMMA FlatIs ==
    ASSUME NEW T, NEW S, NEW f, NEW n, NEW o, NEW seqs, NEW size, Listed(T, S, f, n, o, seqs, size)
    PROVE  Joined(T, S, f, FlattenSeq(seqs), size)
<1>0. /\ IsFiniteSet(S) /\ (\A q \in S : f[q] \in Seq(T))
      /\ seqs \in [1 .. n -> Seq(T)] /\ (\A i \in 1 .. n : seqs[i] = f[o[i]])
      /\ size \in [S -> Int] /\ (\A q \in S : size[q] = Len(f[q]))
    BY DEF Listed
<1>1. /\ o \in [1 .. n -> S] /\ n \in Nat /\ \A i, j \in 1 .. n : o[i] = o[j] => i = j
      /\ \A x \in S : \E i \in 1 .. n : o[i] = x
    BY DEF Listed
<1>2. seqs \in Seq(Seq(T)) /\ Len(seqs) = n /\ DOMAIN seqs = 1 .. n
    BY <1>0, <1>1
<1>3a. /\ \A A \in SUBSET S : \A q \in S \ A :
             SumFunctionOnSet(size, A \cup {q}) = size[q] + SumFunctionOnSet(size, A)
       /\ SumFunctionOnSet(size, {}) = 0
    BY <1>0, SumInEach
<1>3b. \A q \in S : size[q] = Len(f[q])
    BY <1>0
<1>. DEFINE First(i) == {o[j] : j \in 1 .. i}
            Apart == /\ \A q \in S : IsInjective(f[q])
                     /\ \A q, r \in S : q # r => ToSet(f[q]) \cap ToSet(f[r]) = {}
            Ok(i, s) == /\ s \in Seq(T)
                        /\ \A x : x \in ToSet(s) <=> \E q \in First(i) : x \in ToSet(f[q])
                        /\ Len(s) = SumFunctionOnSet(size, First(i))
                        /\ Apart => IsInjective(s)
<1>5. First(n) = S
  <2>1. \A i \in 1 .. n : o[i] \in S
    BY <1>1
  <2>2. First(n) \subseteq S
    BY <2>1
  <2>3. ASSUME NEW x \in S PROVE x \in First(n)
    <3>1. PICK i \in 1 .. n : o[i] = x
      BY <1>1
    <3>. QED  BY <3>1
  <2>. QED  BY <2>2, <2>3
<1>6. Ok(n, FlattenSeq(seqs))
  <2>1. CASE n = 0
    <3>1. FlattenSeq(seqs) = seqs /\ seqs = << >>
      BY <1>2, <2>1 DEF FlattenSeq
    <3>2. First(n) = {}
      BY <2>1
    <3>3. SumFunctionOnSet(size, {}) = 0
      BY <1>3a
    <3>4. PICK s : s = FlattenSeq(seqs)
      OBVIOUS
    <3>5. s = << >> /\ s \in Seq(T) /\ Len(s) = 0 /\ ToSet(s) = {} /\ IsInjective(s)
      <4>1. s = << >>
        <5>. QED  BY <3>1, <3>4
      <4>2. s \in Seq(T) /\ Len(s) = 0 /\ DOMAIN s = {}
        BY <4>1
      <4>. QED  BY <4>1, <4>2 DEF ToSet, IsInjective
    <3>. HIDE DEF First, Apart
    <3>6. Ok(n, s)
      BY <3>2, <3>3, <3>5
    <3>. HIDE DEF Ok
    <3>. QED  BY <3>4, <3>6
  <2>2. CASE n # 0
    <3>0. \E h : h = [i \in 1 .. n |-> FlatStep(seqs, h, i)]
      <4>1. n \in Nat
        BY <1>1
      <4>. QED  BY <4>1, FlatSolved, Zenon
    <3>. DEFINE g == CHOOSE g : g = [i \in 1 .. n |-> FlatStep(seqs, g, i)]
    <3>1. FlattenSeq(seqs) = g[n]
      BY <1>2, <2>2 DEF FlattenSeq, FlatStep
    <3>2. g = [i \in 1 .. n |-> FlatStep(seqs, g, i)]
      <4>. QED  BY <3>0
    <3>. HIDE DEF g
    <3>3. \A i \in 1 .. n : g[i] = FlatStep(seqs, g, i)
      BY <3>2
    <3>. DEFINE B == {i \in 1 .. n : ~Ok(i, g[i])}
    <3>4. ASSUME B # {} PROVE FALSE
      <4>1. PICK k \in B : \A m \in B : k <= m
        <5>. HIDE DEF Ok
        <5>1. B \in SUBSET Nat
          BY <1>1
        <5>. QED  BY <3>4, <5>1, Least
      <4>2. k \in 1 .. n /\ k \in Nat \ {0}
        BY <1>1
      <4>3. seqs[k] = f[o[k]] /\ o[k] \in S /\ f[o[k]] \in Seq(T)
        BY <1>0, <1>1, <4>2
      <4>4. CASE k = 1
        <5>1. g[k] = f[o[k]] /\ First(k) = {o[k]}
          <6>1. g[k] = FlatStep(seqs, g, k)
            BY <3>3, <4>2
          <6>2. g[k] = seqs[k]
            BY <6>1, <4>4 DEF FlatStep
          <6>3. First(1) = {o[1]}
            OBVIOUS
          <6>. QED  BY <4>3, <4>4, <6>2, <6>3
        <5>2. SumFunctionOnSet(size, {} \cup {o[k]}) = size[o[k]] + SumFunctionOnSet(size, {})
              /\ SumFunctionOnSet(size, {}) = 0
          <6>1. PICK q : q = o[k]
            OBVIOUS
          <6>2. {} \in SUBSET S /\ IsFiniteSet({}) /\ q \in S \ {}
            BY <4>3, <6>1, FS_EmptySet
          <6>3. SumFunctionOnSet(size, {} \cup {q}) = size[q] + SumFunctionOnSet(size, {})
            BY <6>2, <1>3a
          <6>4. SumFunctionOnSet(size, {}) = 0
            BY <1>3a
          <6>. QED  BY <6>1, <6>3, <6>4
        <5>3. size[o[k]] = Len(f[o[k]]) /\ Len(f[o[k]]) \in Nat /\ {} \cup {o[k]} = {o[k]}
          <6>1. size[o[k]] = Len(f[o[k]])
            BY <1>3b, <4>3
          <6>2. Len(f[o[k]]) \in Nat
            BY <4>3, LenProperties
          <6>. QED  BY <6>1, <6>2
        <5>. HIDE DEF First
        <5>4. Len(g[k]) = SumFunctionOnSet(size, First(k))
          BY <5>1, <5>2, <5>3
        <5>5. \A x : x \in ToSet(g[k]) <=> \E q \in First(k) : x \in ToSet(f[q])
          BY <5>1
        <5>. QED  BY <4>1, <4>3, <5>1, <5>4, <5>5
      <4>5. CASE k # 1
        <5>1. k - 1 \in 1 .. n /\ k - 1 \notin B
          <6>. HIDE DEF Ok
          <6>1. k - 1 \in 1 .. n /\ ~(k <= k - 1)
            BY <4>2, <4>5, <1>1
          <6>. QED  BY <4>1, <6>1
        <5>2. PICK s : s = g[k - 1] /\ Ok(k - 1, s)
          BY <5>1
        <5>3. PICK t \in Seq(T) : t = f[o[k]]
          BY <4>3
        <5>4. g[k] = s \o t
          <6>1. g[k] = FlatStep(seqs, g, k)
            BY <3>3, <4>2
          <6>2. g[k] = g[k - 1] \o seqs[k]
            BY <6>1, <4>5 DEF FlatStep
          <6>. QED  BY <4>3, <5>2, <5>3, <6>2
        <5>5. First(k) = First(k - 1) \cup {o[k]}
          <6>1. 1 .. k = (1 .. k - 1) \cup {k}
            BY <4>2
          <6>. QED  BY <6>1
        <5>6. First(k - 1) \in SUBSET S /\ o[k] \in S \ First(k - 1)
          <6>1. \A j \in 1 .. k - 1 : j \in 1 .. n /\ j # k
            BY <4>2, <1>1
          <6>. QED  BY <1>1, <4>2, <6>1
        <5>7. IsFiniteSet(First(k - 1))
          BY <1>0, <5>6, FS_Subset
        <5>8. Len(s) = SumFunctionOnSet(size, First(k - 1)) /\ Len(t) = size[o[k]] /\ s \in Seq(T)
          BY <1>3b, <5>2, <5>3, <5>6
        <5>. HIDE DEF First
        <5>9. SumFunctionOnSet(size, First(k)) = size[o[k]] + SumFunctionOnSet(size, First(k - 1))
          <6>1. PICK done, q : done = First(k - 1) /\ q = o[k]
            OBVIOUS
          <6>2. SumFunctionOnSet(size, done \cup {q}) = size[q] + SumFunctionOnSet(size, done)
            <7>1. done \in SUBSET S /\ IsFiniteSet(done) /\ q \in S \ done
              BY <5>6, <5>7, <6>1
            <7>. QED  BY <7>1, <1>3a
          <6>. QED  BY <5>5, <6>1, <6>2
        <5>10. g[k] \in Seq(T) /\ Len(g[k]) = Len(s) + Len(t) /\ Len(s) \in Nat /\ Len(t) \in Nat
          <6>0. s \in Seq(T) /\ t \in Seq(T)
            BY <5>8
          <6>1. s \o t \in Seq(T) /\ Len(s \o t) = Len(s) + Len(t) /\ Len(s) \in Nat /\ Len(t) \in Nat
            BY <6>0, ConcatProperties, LenProperties
          <6>. QED  BY <5>4, <6>1
        <5>11. Len(g[k]) = SumFunctionOnSet(size, First(k))
          BY <5>8, <5>9, <5>10
        <5>12. ToSet(g[k]) = ToSet(s) \cup ToSet(t)
               /\ (IsInjective(s) /\ IsInjective(t) /\ ToSet(s) \cap ToSet(t) = {} => IsInjective(g[k]))
          BY <5>3, <5>4, <5>8, ConcatElements
        <5>13. \A x : x \in ToSet(s) <=> \E q \in First(k - 1) : x \in ToSet(f[q])
          BY <5>2
        <5>14. \A x : x \in ToSet(g[k]) <=> \E q \in First(k) : x \in ToSet(f[q])
          BY <5>3, <5>5, <5>12, <5>13
        <5>15. ASSUME Apart PROVE IsInjective(g[k])
          <6>1. IsInjective(s) /\ IsInjective(t)
            BY <4>3, <5>2, <5>3, <5>15
          <6>2. \A q \in First(k - 1) : ToSet(f[q]) \cap ToSet(t) = {}
            BY <5>3, <5>6, <5>15
          <6>3. ToSet(s) \cap ToSet(t) = {}
            BY <5>13, <6>2
          <6>. QED  BY <5>12, <6>1, <6>3
        <5>16. Ok(k, g[k])
          BY <5>10, <5>11, <5>14, <5>15
        <5>. QED  BY <4>1, <5>16
      <4>. QED  BY <4>4, <4>5
    <3>5. n \in 1 .. n
      BY <1>1, <2>2
    <3>6. Ok(n, g[n])
      <4>. HIDE DEF Ok
      <4>. QED  BY <3>4, <3>5
    <3>. HIDE DEF Ok
    <3>. QED  BY <3>1, <3>6
  <2>. QED  BY <2>1, <2>2
<1>. QED  BY <1>5, <1>6 DEF Joined

\* The same of the requests of a set, in the order of a batch.
LEMMA InOrderIs ==
    \A T, S, f : S \subseteq Nat /\ IsFiniteSet(S) /\ (\A q \in S : f[q] \in Seq(T)) =>
        Joined(T, S, f, InOrder(S, f), [q \in S |-> Len(f[q])])
<1>1. ASSUME NEW T, NEW S, NEW f, S \subseteq Nat /\ IsFiniteSet(S), \A q \in S : f[q] \in Seq(T)
      PROVE  Joined(T, S, f, InOrder(S, f), [q \in S |-> Len(f[q])])
  <2>1. PICK n, o : n = Cardinality(S) /\ o = Ordered(S)
    OBVIOUS
  <2>2. /\ n \in Nat /\ o \in [1 .. n -> S]
        /\ \A i, j \in 1 .. n : o[i] = o[j] => i = j
        /\ \A x \in S : \E i \in 1 .. n : o[i] = x
    BY <1>1, <2>1, OrderIs
  <2>3. PICK seqs, size : seqs = [i \in 1 .. n |-> f[o[i]]] /\ size = [q \in S |-> Len(f[q])]
    OBVIOUS
  <2>4. InOrder(S, f) = FlattenSeq(seqs)
    BY <2>1, <2>3 DEF InOrder
  <2>5. IsFiniteSet(S) /\ \A q \in S : f[q] \in Seq(T)
    BY <1>1
  <2>6. seqs \in [1 .. n -> Seq(T)] /\ (\A i \in 1 .. n : seqs[i] = f[o[i]])
    BY <2>2, <2>3, <2>5
  <2>7. size \in [S -> Int] /\ (\A q \in S : size[q] = Len(f[q]))
    <3>1. \A q \in S : Len(f[q]) \in Int
      BY <2>5, LenProperties
    <3>. QED  BY <2>3, <3>1
  <2>8. Listed(T, S, f, n, o, seqs, size)
    BY <2>2, <2>5, <2>6, <2>7 DEF Listed
  <2>9. Joined(T, S, f, FlattenSeq(seqs), size)
    BY <2>8, FlatIs
  <2>. QED  BY <2>3, <2>4, <2>9
<1>. QED  BY <1>1

----------------------------------------------------------------------------
(* The invariant.                                                          *)

Gates ==
    [at : {"armed"}, budget : Int, count : Nat, window : Seq(Tokens), forcing : 0 .. Len(Close),
     spoken : Seq(Tokens), loop : BOOLEAN] \cup {Off, [at |-> "released"]}

Types ==
    /\ server \in Servers /\ up \in BOOLEAN
    /\ stage \in [Requests -> {"new", "waiting", "running", "done"}] /\ queue \in Seq(Requests)
    /\ text \in [Requests -> Seq(Tokens) \ {<< >>}] /\ input \in [Requests -> Tokens]
    /\ cached \in [Requests -> Nat] /\ device \in [Requests -> Nat]
    /\ row \in [Requests -> Seq(Pages)] /\ free \in Seq(Pages) /\ kv \in [Locations -> Tokens]
    /\ rec = [q \in Requests |-> rec[q]] /\ snap = [q \in Requests |-> snap[q]]
    /\ tool = [q \in Requests |-> tool[q]] /\ think \in [Requests -> Gates]
    /\ \A q \in Requests : (q \notin Thinks => think[q] = Off) /\ (q \notin HasTools => tool[q] = Off)

\* The queue has the waiting requests; who is not running has nothing.
Idle ==
    /\ IsInjective(queue) /\ \A q \in Requests : q \in ToSet(queue) <=> stage[q] = "waiting"
    /\ \A q \in Requests : stage[q] # "running" =>
          /\ cached[q] = 0 /\ row[q] = << >> /\ rec[q] = NoState
          /\ think[q] = Off /\ tool[q] = Off
    /\ \A q \in Requests : stage[q] \in {"new", "waiting"} => text[q] = Prompt[q]

\* Every page is in one place, and a row has those its cached tokens take.
PagesOK ==
    /\ IsInjective(free)
    /\ \A q \in Requests :
          /\ IsInjective(row[q]) /\ ToSet(row[q]) \cap ToSet(free) = {}
          /\ Len(row[q]) = PagesFor(cached[q])
    /\ \A q, r \in Requests : q # r => ToSet(row[q]) \cap ToSet(row[r]) = {}
    /\ \A p \in Pages : p \in ToSet(free) \/ \E q \in Requests : p \in ToSet(row[q])

\* What a forward did to the recurrent state is taken back in full: not where it
\* is of the CCA kind (finding 11 of the README), nor where it is on the ring and
\* the blocks of a batch may differ in length (finding 16).
RollsBack(s) == s.kind # "cca" /\ (s.ring = 0 \/ EqualBlocks(s))

\* A server that is always on the ring is one of those.
LEMMA OnRingRollsBack ==
    ASSUME server \in Servers, AlwaysOnRing(server)
    PROVE  RollsBack(server)
<1>1. /\ server.ring \in Nat /\ (server.kind = "cca" => server.ring = 0)
      /\ server.ladder \subseteq 1..NumDraft /\ NumDraft \in Nat \ {0}
    BY SpecAssumption
<1>2. EqualBlocks(server) /\ \A w \in WidthsOf(server) : w + 1 <= server.ring
    BY DEF AlwaysOnRing
<1>3. WidthsOf(server) \subseteq 1..NumDraft /\ WidthsOf(server) # {}
  <2>1. 1 \in 1..NumDraft
    BY <1>1
  <2>. QED  BY <1>1, <2>1 DEF WidthsOf
<1>4. PICK w \in WidthsOf(server) : w + 1 <= server.ring
    BY <1>2, <1>3
<1>5. w \in 1..NumDraft
    BY <1>3
<1>6. server.ring # 0
    BY <1>1, <1>4, <1>5
<1>. QED  BY <1>1, <1>2, <1>6 DEF RollsBack

\* Nothing is left of a rejected draft, and a running request has tokens to come.
Followed(q) ==
    /\ cached[q] = Len(text[q]) - 1 /\ Len(text[q]) < Limit(q)
    /\ up => device[q] = Len(text[q])
    /\ input[q] = Last(text[q]) /\ Context(q) = Front(text[q])
    /\ RollsBack(server) => rec[q] = [conv |-> Front(text[q]), ssm |-> Front(text[q])]
Following == \A q \in Running : Followed(q)

Snapped ==
    /\ SnapshotsAreExact
    /\ \A q \in Requests : stage[q] # "done" => snap[q] = NoSnap

\* There are pages for all the tokens of the running requests but their last.
Reserve == [q \in Requests |-> PagesFor(Limit(q) - 1)]
Reserved == SumFunctionOnSet(Reserve, Running) <= NumPages

SInv == Types /\ Idle /\ PagesOK /\ Following /\ Snapped /\ Reserved /\ BlocksFit

----------------------------------------------------------------------------
(* The think gate: what it forces is a token.                              *)

\* A finite set of naturals has an upper bound.
LEMMA FiniteMax ==
    ASSUME NEW S, IsFiniteSet(S), S \subseteq Nat
    PROVE  \E n \in Nat : \A x \in S : x <= n
<1>. DEFINE G == {s \in SUBSET S : \E n \in Nat : \A x \in s : x <= n}
<1>1. {} \in G
    BY 0 \in Nat
<1>2. ASSUME NEW s \in SUBSET S, NEW x \in s, s \ {x} \in G PROVE s \in G
  <2>1. PICK n \in Nat : \A y \in s \ {x} : y <= n
    BY <1>2
  <2>2. x \in Nat
    OBVIOUS
  <2>3. PICK m \in Nat : n <= m /\ x <= m
    <3>1. CASE n <= x
      BY <2>2, <3>1
    <3>2. CASE ~(n <= x)
      <4>1. x <= n /\ n <= n
        BY <2>1, <2>2, <3>2
      <4>. QED  BY <2>1, <4>1
    <3>. QED  BY <3>1, <3>2
  <2>4. ASSUME NEW y \in s PROVE y <= m
    <3>1. CASE y = x
      BY <2>3, <3>1
    <3>2. CASE y # x
      <4>1. y <= n /\ y \in Nat
        BY <2>1, <3>2
      <4>. QED  BY <2>1, <2>3, <4>1
    <3>. QED  BY <3>1, <3>2
  <2>5. \A y \in s : y <= m
    BY <2>4
  <2>. QED  BY <2>5
<1>3. S \in G
  <2>. HIDE DEF G
  <2>. QED  BY <1>1, <1>2, FiniteInduction
<1>. QED  BY <1>3

\* The last tokens of a window are tokens.
LEMMA WidthIsNat == Width(Ends) \in Nat
<1>. DEFINE w(p) == Len(p.head) + (IF p.tail = << >> THEN 0 ELSE Len(p.tail) + p.gap)
            W == {w(p) : p \in Ends}
<1>1. \A p \in Ends : Len(p.head) \in Nat /\ Len(p.tail) \in Nat /\ p.gap \in Nat
  <2>1. Len(Close) \in Nat
    BY GatesAssumption
  <2>2. \A p \in Releases : Len(p.head) \in Nat /\ Len(p.tail) \in Nat /\ p.gap \in Nat
    BY ReleasesAssumption
  <2>3. LET p == Exactly(Close) IN Len(p.head) \in Nat /\ Len(p.tail) \in Nat /\ p.gap \in Nat
    BY <2>1 DEF Exactly
  <2>. QED  BY <2>2, <2>3 DEF Ends
<1>2. \A p \in Ends : w(p) \in Nat
  <2>1. ASSUME NEW p \in Ends PROVE w(p) \in Nat
    <3>1. CASE p.tail = << >>
      BY <1>1, <3>1
    <3>2. CASE p.tail # << >>
      BY <1>1, <3>2
    <3>. QED  BY <3>1, <3>2
  <2>. QED  BY <2>1
<1>3. W \subseteq Nat /\ W # {}
  <2>. HIDE DEF w
  <2>1. Exactly(Close) \in Ends
    BY DEF Ends
  <2>. QED  BY <1>2, <2>1
<1>4. IsFiniteSet(W)
  <2>. HIDE DEF w
  <2>1. IsFiniteSet(Ends)
    BY ReleasesAssumption, FS_AddElement DEF Ends
  <2>2. PICK f : f = [p \in Ends |-> w(p)]
    OBVIOUS
  <2>3. f \in Surjection(Ends, W)
    BY <2>2 DEF Surjection
  <2>. HIDE DEF W
  <2>. QED  BY <2>1, <2>3, FS_Surjection
<1>5. PICK n \in Nat : \A x \in W : x <= n
  <2>. HIDE DEF W
  <2>. QED  BY <1>3, <1>4, FiniteMax
<1>6. Max(W) \in W /\ \A y \in W : Max(W) >= y
  <2>1. W \subseteq 0 .. n
    <3>. HIDE DEF W
    <3>. QED  BY <1>3, <1>5
  <2>. HIDE DEF W
  <2>. QED  BY <1>3, <1>5, <2>1, MaxIsGreatest
<1>7. \E m \in W : \A p \in Ends : w(p) <= m
  <2>1. \A p \in Ends : w(p) \in W
    OBVIOUS
  <2>2. \A p \in Ends : w(p) <= Max(W)
    <3>. HIDE DEF W, w
    <3>1. Max(W) \in Nat
      BY <1>3, <1>6
    <3>2. \A p \in Ends : Max(W) >= w(p) /\ w(p) \in Nat
      BY <1>2, <1>6, <2>1
    <3>. QED  BY <3>1, <3>2
  <2>. HIDE DEF W
  <2>. QED  BY <1>6, <2>2
<1>8. Width(Ends) \in W
  <2>1. Width(Ends) = CHOOSE m \in W : \A p \in Ends : w(p) <= m
    BY DEF Width
  <2>. HIDE DEF W, w
  <2>. QED  BY <1>7, <2>1
<1>. QED  BY <1>3, <1>8

\* The last tokens of a sequence are a sequence of tokens.
LEMMA LastOfTypes ==
    ASSUME NEW s \in Seq(Tokens), NEW n \in Nat
    PROVE  LastOf(s, n) \in Seq(Tokens)
<1>1. Len(s) \in Nat
    OBVIOUS
<1>2. CASE Len(s) > n
  <2>1. Len(s) - n + 1 \in 1 .. Len(s) + 1
    BY <1>1, <1>2
  <2>2. \A i \in Len(s) - n + 1 .. Len(s) : s[i] \in Tokens
    BY <1>1, <1>2
  <2>3. SubSeq(s, Len(s) - n + 1, Len(s)) \in Seq(Tokens)
    BY <1>1, <2>1, <2>2, SubSeqProperties
  <2>. QED  BY <1>2, <2>3 DEF LastOf
<1>3. CASE ~(Len(s) > n)
  <2>1. LastOf(s, n) = SubSeq(s, 1, Len(s))
    BY <1>3 DEF LastOf
  <2>. QED  BY <2>1, SubSeqFull
<1>. QED  BY <1>2, <1>3

\* The delimiter goes on at one of its tokens.
LEMMA ForceBaseIn ==
    ASSUME NEW g \in Gates, g.at = "armed"
    PROVE  ForceBase(g) \in 1 .. Len(Close)
<1>1. g.forcing \in 0 .. Len(Close) /\ g.window \in Seq(Tokens) /\ Len(Close) \in Nat \ {0}
  <2>1. g # Off /\ g # [at |-> "released"]
    BY DEF Off
  <2>. QED  BY <2>1, GatesAssumption DEF Gates
<1>2. CASE g.forcing > 0
    BY <1>1, <1>2 DEF ForceBase
<1>3. CASE ~(g.forcing > 0)
  <2>. DEFINE said == {k \in 0 .. Len(Close) - 1 : IsSuffix(SubSeq(Close, 1, k), g.window)}
  <2>1. 0 \in said
    <3>1. SubSeq(Close, 1, 0) = << >>
      BY SubSeqEmpty
    <3>2. PICK w : w = g.window
      OBVIOUS
    <3>3. IsSuffix(<< >>, w)
      <4>1. Len(w) \in Nat
        BY <1>1, <3>2
      <4>2. PICK r : r = Reverse(w)
        OBVIOUS
      <4>3. r = [i \in 1 .. Len(w) |-> w[(Len(w) - i) + 1]]
        BY <4>2 DEF Reverse
      <4>4. DOMAIN r = 1 .. Len(w)
        BY <4>3
      <4>5. Len(r) = Len(w)
        BY <4>1, <4>3
      <4>6. Reverse(<< >>) = << >>
        BY DEF Reverse
      <4>7. IsPrefix(<< >>, r)
        BY <4>1, <4>5, SubSeqEmpty DEF IsPrefix
      <4>. QED  BY <4>2, <4>6, <4>7 DEF IsSuffix
    <3>4. 0 \in 0 .. Len(Close) - 1
      BY <1>1
    <3>5. IsSuffix(SubSeq(Close, 1, 0), g.window)
      BY <3>1, <3>2, <3>3
    <3>. QED  BY <3>4, <3>5
  <2>2. said \subseteq 0 .. Len(Close)
    BY <1>1
  <2>3. \E k \in said : \A j \in said : j <= k
    <3>. HIDE DEF said
    <3>1. Max(said) \in said /\ \A y \in said : Max(said) >= y
      BY <1>1, <2>1, <2>2, MaxIsGreatest
    <3>2. \A y \in said : y \in Nat
      BY <1>1, <2>2
    <3>3. \A y \in said : y <= Max(said)
      BY <3>1, <3>2
    <3>. QED  BY <3>1, <3>3
  <2>4. ForceBase(g) = 1 + CHOOSE k \in said : \A j \in said : j <= k
    BY <1>3 DEF ForceBase
  <2>5. (CHOOSE k \in said : \A j \in said : j <= k) \in said
    <3>. HIDE DEF said
    <3>. QED  BY <2>3
  <2>6. said \subseteq 0 .. Len(Close) - 1
    OBVIOUS
  <2>. HIDE DEF said
  <2>7. PICK k \in said : ForceBase(g) = 1 + k
    BY <2>4, <2>5
  <2>8. k \in 0 .. Len(Close) - 1
    BY <2>6
  <2>. QED  BY <1>1, <2>7, <2>8
<1>. QED  BY <1>2, <1>3

\* CommitThink keeps a gate a gate.
LEMMA CommitThinkTypes ==
    ASSUME NEW g \in Gates, g.at = "armed", NEW token \in Tokens
    PROVE  CommitThink(g, token) \in Gates
<1>. DEFINE forced == Spent(g) /\ token = ForcedNext(g)
            said == Append(g.spoken, token)
            loops == ~forced /\ ~g.loop /\ Loops(said)
            window == LastOf(Append(g.window, token), Width(Ends))
            forcing == IF forced THEN ForceBase(g) + 1 ELSE 0
            spoken == IF forced THEN g.spoken ELSE said
            count == IF forced THEN g.count ELSE g.count + 1
            budget == IF loops /\ g.count + 1 < g.budget THEN g.count + 1 ELSE g.budget
            over == g.loop \/ loops
            moved == [g EXCEPT !.window = window, !.forcing = forcing, !.spoken = spoken,
                               !.count = count, !.loop = over, !.budget = budget]
<1>1. g \in [at : {"armed"}, budget : Int, count : Nat, window : Seq(Tokens),
             forcing : 0 .. Len(Close), spoken : Seq(Tokens), loop : BOOLEAN]
  <2>1. g # Off /\ g # [at |-> "released"]
    BY DEF Off
  <2>. QED  BY <2>1 DEF Gates
<1>2. ForceBase(g) \in 1 .. Len(Close) /\ Len(Close) \in Nat
    BY ForceBaseIn, GatesAssumption
<1>3. CommitThink(g, token)
          = IF MatchesOne(moved.window, Ends) \/ moved.forcing > Len(Close)
            THEN [at |-> "released"] ELSE moved
    BY DEF CommitThink
<1>4. window \in Seq(Tokens)
  <2>1. Append(g.window, token) \in Seq(Tokens)
    BY <1>1
  <2>. QED  BY <2>1, LastOfTypes, WidthIsNat
<1>5. forcing \in 0 .. Len(Close) + 1 /\ spoken \in Seq(Tokens) /\ count \in Nat /\ budget \in Int
      /\ over \in BOOLEAN
  <2>. HIDE DEF forced, loops
  <2>1. forcing \in 0 .. Len(Close) + 1
    BY <1>2
  <2>2. spoken \in Seq(Tokens)
    BY <1>1
  <2>3. count \in Nat
    BY <1>1
  <2>4. budget \in Int
    BY <1>1
  <2>5. over \in BOOLEAN
    OBVIOUS
  <2>. QED  BY <2>1, <2>2, <2>3, <2>4, <2>5
<1>. HIDE DEF forced, said, loops, window, forcing, spoken, count, budget, over
<1>6. moved.forcing = forcing
    BY <1>1
<1>6a. forcing \in 0 .. Len(Close) =>
          moved \in [at : {"armed"}, budget : Int, count : Nat, window : Seq(Tokens),
                     forcing : 0 .. Len(Close), spoken : Seq(Tokens), loop : BOOLEAN]
    BY <1>1, <1>4, <1>5
<1>. HIDE DEF moved
<1>7. CASE forcing > Len(Close)
    BY <1>3, <1>6, <1>7 DEF Gates
<1>8. CASE ~(forcing > Len(Close))
  <2>1. forcing \in 0 .. Len(Close)
    BY <1>2, <1>5, <1>8
  <2>2. moved \in Gates
    BY <1>6a, <2>1 DEF Gates
  <2>3. [at |-> "released"] \in Gates
    BY DEF Gates
  <2>. QED  BY <1>3, <2>2, <2>3
<1>. QED  BY <1>7, <1>8

\* An armed reasoning gate is a gate.
LEMMA ArmThinkTypes ==
    ASSUME NEW b \in Int, NEW m \in Nat
    PROVE  ArmThink(b, m) \in Gates
<1>1. EffectiveBudget(b, m) \in Int
  <2>1. Len(Close) \in Nat /\ DefaultBudget \in Nat /\ Unbounded \in Nat
    BY GatesAssumption
  <2>2. (m * 3) \div 4 \in Int
    OBVIOUS
  <2>. QED  BY <2>1, <2>2 DEF EffectiveBudget
<1>2. << >> \in Seq(Tokens) /\ 0 \in 0 .. Len(Close) /\ 0 \in Nat
    BY GatesAssumption
<1>. QED  BY <1>1, <1>2 DEF ArmThink, Gates

\* commit_many of the two gates as the recursion it is.
RunStep(of, gate, tokens, g, s) ==
    IF s = {} THEN gate
    ELSE LET before == g[s \ {Max(s)}]
         IN  IF of = "tool" THEN CommitTool(before, tokens[Max(s)])
             ELSE IF before.at = "armed" THEN CommitThink(before, tokens[Max(s)]) ELSE before

Runs(of, gate, tokens, l, g) == g = [s \in SUBSET (1 .. l) |-> RunStep(of, gate, tokens, g, s)]

\* A step of a run over the ends of a sequence only asks for what is before it.
LEMMA RunSame ==
    ASSUME NEW of, NEW gate, NEW tokens, NEW g, NEW h, NEW s, h[s \ {Max(s)}] = g[s \ {Max(s)}]
    PROVE  RunStep(of, gate, tokens, h, s) = RunStep(of, gate, tokens, g, s)
BY DEF RunStep

\* The recursive function of a run of tokens exists.
LEMMA RunExists ==
    ASSUME NEW of, NEW gate, NEW tokens, NEW l \in Nat
    PROVE  \E g : Runs(of, gate, tokens, l, g)
<1>. DEFINE S == 1 .. l
<1>000. S = 1 .. l
    OBVIOUS
<1>. HIDE DEF S
<1>. DEFINE Small(n) == {s \in SUBSET S : Cardinality(s) <= n}
            P(n) == \E g : g = [s \in Small(n) |-> RunStep(of, gate, tokens, g, s)]
            B == {n \in Nat : ~P(n)}
<1>00. IsFiniteSet(S)
    BY <1>000, FS_Interval
<1>01. \A s \in SUBSET S : s # {} => Max(s) \in s
  <2>1. ASSUME NEW s \in SUBSET S, s # {} PROVE Max(s) \in s
    <3>1. s \subseteq 0 .. l
      BY <1>000
    <3>. QED  BY <2>1, <3>1, MaxIsGreatest
  <2>. QED  BY <2>1
<1>0. /\ \A s \in SUBSET S : IsFiniteSet(s) /\ Cardinality(s) \in Nat
      /\ \A s \in SUBSET S : s # {} => Max(s) \in s
    BY <1>00, <1>01, FS_Subset, FS_CardinalityType
<1>1. ASSUME B # {} PROVE FALSE
  <2>1. PICK n \in B : \A m \in B : n <= m
    <3>. HIDE DEF P
    <3>. QED  BY <1>1, Least
  <2>2. CASE n = 0
    <3>. DEFINE g == [s \in Small(0) |-> gate]
    <3>1. \A s \in Small(0) : s = {}
      <4>1. ASSUME NEW s \in Small(0) PROVE s = {}
        <5>1. Cardinality(s) = 0 /\ IsFiniteSet(s)
          BY <1>0
        <5>. QED  BY <5>1, FS_EmptySet
      <4>. QED  BY <4>1
    <3>2. g = [s \in Small(0) |-> RunStep(of, gate, tokens, g, s)]
      BY <3>1 DEF RunStep
    <3>. QED  BY <2>1, <2>2, <3>2
  <2>3. CASE n # 0
    <3>1. n - 1 \in Nat /\ n \in Nat /\ n - 1 \notin B
      <4>. HIDE DEF P
      <4>. QED  BY <2>1, <2>3
    <3>2. PICK g : g = [s \in Small(n - 1) |-> RunStep(of, gate, tokens, g, s)]
      BY <3>1
    <3>. DEFINE h == [s \in Small(n) |-> IF s \in Small(n - 1) THEN g[s] ELSE RunStep(of, gate, tokens, g, s)]
    <3>3. ASSUME NEW s \in Small(n) PROVE h[s] = RunStep(of, gate, tokens, h, s)
      <4>1. CASE s = {}
        <5>1. s \in Small(n - 1)
          BY <4>1, <3>1, FS_EmptySet
        <5>. QED  BY <3>2, <4>1, <5>1 DEF RunStep
      <4>2. CASE s # {}
        <5>. DEFINE x == Max(s)
        <5>1. x \in s /\ s \ {x} \in SUBSET S /\ IsFiniteSet(s) /\ Cardinality(s) <= n
          BY <1>0, <4>2
        <5>. HIDE DEF x
        <5>2. Cardinality(s \ {x}) = Cardinality(s) - 1 /\ Cardinality(s) \in Nat \ {0}
          BY <5>1, OneLess
        <5>3. Cardinality(s \ {x}) <= n - 1 /\ Cardinality(s \ {x}) <= n
          BY <5>1, <5>2, <3>1
        <5>4. s \ {x} \in Small(n - 1) /\ s \ {x} \in Small(n)
          BY <5>1, <5>3
        <5>5. h[s \ {x}] = g[s \ {x}]
          BY <5>4
        <5>6. RunStep(of, gate, tokens, h, s) = RunStep(of, gate, tokens, g, s)
          <6>1. h[s \ {Max(s)}] = g[s \ {Max(s)}]
            BY <5>5 DEF x
          <6>. HIDE DEF h
          <6>. QED  BY <6>1, RunSame
        <5>7. s \in Small(n - 1) => g[s] = RunStep(of, gate, tokens, g, s)
          BY <3>2
        <5>. QED  BY <5>6, <5>7
      <4>. QED  BY <4>1, <4>2
    <3>4. h = [s \in Small(n) |-> RunStep(of, gate, tokens, h, s)]
      BY <3>3
    <3>. QED  BY <2>1, <3>4
  <2>. QED  BY <2>2, <2>3
<1>2. \A s \in SUBSET S : Cardinality(s) <= Cardinality(S)
    BY <1>00, FS_Subset
<1>3. Small(Cardinality(S)) = SUBSET S /\ Cardinality(S) \in Nat
    BY <1>00, <1>2, FS_CardinalityType
<1>4. P(Cardinality(S))
    BY <1>1, <1>3
<1>. QED  BY <1>000, <1>3, <1>4 DEF Runs

\* Induction over the places of a run.
LEMMA RunInduction ==
    ASSUME NEW l \in Nat, NEW G, {} \in G,
           \A s \in SUBSET (1 .. l) : s # {} /\ s \ {Max(s)} \in G => s \in G
    PROVE  1 .. l \in G
<1>. DEFINE S == 1 .. l
            N == {n \in Nat : \E s \in SUBSET S : Cardinality(s) = n /\ s \notin G}
<1>1. IsFiniteSet(S) /\ S \subseteq 0 .. l
    BY FS_Interval
<1>2. ASSUME N # {} PROVE FALSE
  <2>1. PICK n \in N : \A m \in N : n <= m
    BY <1>2, Least
  <2>2. PICK s \in SUBSET S : Cardinality(s) = n /\ s \notin G
    OBVIOUS
  <2>3. s # {}
    BY <2>2
  <2>4. PICK x : x = Max(s)
    OBVIOUS
  <2>5. x \in s
    <3>1. s \subseteq 0 .. l
      BY <1>1
    <3>. QED  BY <2>3, <2>4, <3>1, MaxIsGreatest
  <2>6. IsFiniteSet(s)
    BY <1>1, FS_Subset
  <2>7. Cardinality(s \ {x}) = n - 1 /\ n \in Nat \ {0}
    BY <2>2, <2>5, <2>6, OneLess
  <2>8. n - 1 \notin N /\ n - 1 \in Nat
    <3>. HIDE DEF N
    <3>1. ~(n <= n - 1)
      BY <2>7
    <3>. QED  BY <2>1, <2>7, <3>1
  <2>9. s \ {x} \in G
    BY <2>7, <2>8
  <2>. QED  BY <2>2, <2>3, <2>4, <2>9
<1>3. Cardinality(S) \in Nat
    BY <1>1, FS_CardinalityType
<1>. QED  BY <1>2, <1>3

\* The reasoning gate is a gate after any run of tokens.
LEMMA CommitRunTypes ==
    ASSUME NEW gate \in Gates, NEW tokens \in Seq(Tokens)
    PROVE  CommitRun(gate, tokens) \in Gates
<1>. DEFINE l == Len(tokens)
            S == DOMAIN tokens
            iter == CHOOSE g : g = [s \in SUBSET S |-> RunStep("think", gate, tokens, g, s)]
<1>1. S = 1 .. l /\ l \in Nat
    OBVIOUS
<1>2. CommitRun(gate, tokens) = iter[S]
    BY DEF CommitRun, FoldLeft, MapThenFoldSet, RunStep
<1>. HIDE DEF l, S
<1>3. \E g : g = [s \in SUBSET S |-> RunStep("think", gate, tokens, g, s)]
  <2>1. PICK of, gate0 : of = "think" /\ gate0 = gate
    OBVIOUS
  <2>2. \E g : Runs(of, gate0, tokens, l, g)
    BY <1>1, RunExists
  <2>. QED  BY <1>1, <2>1, <2>2 DEF Runs
<1>4. iter = [s \in SUBSET S |-> RunStep("think", gate, tokens, iter, s)]
    BY <1>3
<1>. HIDE DEF iter
<1>. DEFINE G == {s \in SUBSET S : iter[s] \in Gates}
<1>5. {} \in G
  <2>1. iter[{}] = gate
    BY <1>4 DEF RunStep
  <2>. QED  BY <2>1
<1>6. ASSUME NEW s \in SUBSET S, s # {}, s \ {Max(s)} \in G PROVE s \in G
  <2>1. PICK x : x = Max(s)
    OBVIOUS
  <2>2. x \in s /\ tokens[x] \in Tokens
    <3>1. s \subseteq 0 .. l
      BY <1>1
    <3>2. x \in s
      BY <1>1, <1>6, <2>1, <3>1, MaxIsGreatest
    <3>. QED  BY <1>1, <3>2 DEF l
  <2>3. PICK g \in Gates : g = iter[s \ {x}]
    BY <1>6, <2>1
  <2>4. iter[s] = IF g.at = "armed" THEN CommitThink(g, tokens[x]) ELSE g
    <3>1. iter[s] = RunStep("think", gate, tokens, iter, s)
      BY <1>4
    <3>. QED  BY <1>6, <2>1, <2>3, <3>1 DEF RunStep
  <2>5. iter[s] \in Gates
    <3>1. g.at = "armed" => CommitThink(g, tokens[x]) \in Gates
      BY <2>2, CommitThinkTypes
    <3>. QED  BY <2>3, <2>4, <3>1
  <2>. QED  BY <2>5
<1>7. S \in G
  <2>. HIDE DEF G
  <2>. QED  BY <1>1, <1>5, <1>6, RunInduction
<1>. QED  BY <1>2, <1>7

\* A tool gate that is off stays off, whatever is committed.
LEMMA CommitToolRunOff ==
    ASSUME NEW tokens \in Seq(Tokens)
    PROVE  CommitToolRun(Off, tokens) = Off
<1>. DEFINE l == Len(tokens)
            S == DOMAIN tokens
            iter == CHOOSE g : g = [s \in SUBSET S |-> RunStep("tool", Off, tokens, g, s)]
<1>1. S = 1 .. l /\ l \in Nat
    OBVIOUS
<1>2. CommitToolRun(Off, tokens) = iter[S]
    BY DEF CommitToolRun, FoldLeft, MapThenFoldSet, RunStep
<1>. HIDE DEF l, S
<1>3. \E g : g = [s \in SUBSET S |-> RunStep("tool", Off, tokens, g, s)]
  <2>1. PICK of, gate0 : of = "tool" /\ gate0 = Off
    OBVIOUS
  <2>2. \E g : Runs(of, gate0, tokens, l, g)
    BY <1>1, RunExists
  <2>. QED  BY <1>1, <2>1, <2>2 DEF Runs
<1>4. iter = [s \in SUBSET S |-> RunStep("tool", Off, tokens, iter, s)]
    BY <1>3
<1>. HIDE DEF iter
<1>. DEFINE G == {s \in SUBSET S : iter[s] = Off}
<1>5. {} \in G
  <2>1. iter[{}] = Off
    BY <1>4 DEF RunStep
  <2>. QED  BY <2>1
<1>6. ASSUME NEW s \in SUBSET S, s # {}, s \ {Max(s)} \in G PROVE s \in G
  <2>1. iter[s] = RunStep("tool", Off, tokens, iter, s)
    BY <1>4
  <2>2. iter[s] = CommitTool(Off, tokens[Max(s)])
    BY <1>6, <2>1 DEF RunStep
  <2>3. \A x : CommitTool(Off, x) = Off
    BY DEF CommitTool, Off
  <2>. QED  BY <2>2, <2>3
<1>7. S \in G
  <2>. HIDE DEF G
  <2>. QED  BY <1>1, <1>5, <1>6, RunInduction
<1>. QED  BY <1>2, <1>7

----------------------------------------------------------------------------
(* Pages and locations.                                                    *)

\* The sizes of pages and pool are positive.
LEMMA PageSizeIs == PageSize \in Nat \ {0} /\ NumPages \in Nat \ {0}
BY SpecAssumption

\* A length is its whole pages and a rest.
LEMMA Division ==
    ASSUME NEW n \in Nat
    PROVE  /\ n \div PageSize \in Nat
           /\ n % PageSize \in 0..PageSize - 1
           /\ n = (n \div PageSize) * PageSize + (n % PageSize)
    BY PageSizeIs, SMT

\* Nothing else divides it.
LEMMA DivisionUnique ==
    ASSUME NEW k \in Nat, NEW r \in 0..PageSize - 1
    PROVE  /\ k * PageSize + r \in Nat
           /\ (k * PageSize + r) \div PageSize = k
           /\ (k * PageSize + r) % PageSize = r
<1>1. k * PageSize \in Nat
    BY PageSizeIs, SMT
<1>2. k * PageSize + r \in Nat
    BY <1>1, PageSizeIs, SMT
<1>. DEFINE n == k * PageSize + r
            q == n \div PageSize
            s == n % PageSize
<1>3. q \in Nat /\ s \in 0..PageSize - 1 /\ n = q * PageSize + s
    BY <1>2, Division
<1>. HIDE DEF q, s
<1>4. k * PageSize + r = q * PageSize + s
    BY <1>3
<1>5. k = q
  <2>1. ASSUME k < q PROVE FALSE
    <3>1. (k + 1) * PageSize <= q * PageSize
        BY <1>3, <2>1, PageSizeIs, SMT
    <3>2. (k + 1) * PageSize = k * PageSize + PageSize
        BY PageSizeIs, SMT
    <3>. QED  BY <1>1, <1>3, <1>4, <3>1, <3>2, PageSizeIs, SMT
  <2>2. ASSUME q < k PROVE FALSE
    <3>1. (q + 1) * PageSize <= k * PageSize
        BY <1>3, <2>2, PageSizeIs, SMT
    <3>2. (q + 1) * PageSize = q * PageSize + PageSize
        BY <1>3, PageSizeIs, SMT
    <3>3. q * PageSize \in Nat
        BY <1>3, PageSizeIs, SMT
    <3>. QED  BY <1>1, <1>3, <1>4, <3>1, <3>2, <3>3, PageSizeIs, SMT
  <2>. QED  BY <1>3, <2>1, <2>2
<1>6. r = s
    BY <1>1, <1>3, <1>4, <1>5, PageSizeIs, SMT
<1>. QED  BY <1>2, <1>5, <1>6 DEF q, s

\* One page more than another begins where that ends, or later.
LEMMA NextPage ==
    ASSUME NEW j \in Nat, NEW k \in Nat, j < k
    PROVE  j * PageSize \in Nat /\ k * PageSize \in Nat /\ j * PageSize + PageSize <= k * PageSize
<1>1. (j + 1) * PageSize <= k * PageSize
    BY PageSizeIs, SMT
<1>2. (j + 1) * PageSize = j * PageSize + PageSize
    BY PageSizeIs, SMT
<1>3. j * PageSize \in Nat /\ k * PageSize \in Nat
    BY PageSizeIs, SMT
<1>. QED  BY <1>1, <1>2, <1>3

\* Pages hold the tokens they are for, and not a whole page more.
LEMMA PagesForIs ==
    ASSUME NEW n \in Nat
    PROVE  /\ PagesFor(n) \in Nat /\ PagesFor(n) * PageSize \in Nat
           /\ n <= PagesFor(n) * PageSize /\ PagesFor(n) * PageSize <= n + PageSize - 1
<1>. DEFINE m == n + PageSize - 1
            k == m \div PageSize
            r == m % PageSize
<1>1. m \in Nat
    BY PageSizeIs
<1>2. k \in Nat /\ r \in 0 .. PageSize - 1 /\ m = k * PageSize + r
    BY <1>1, Division
<1>3. PagesFor(n) = k
    BY DEF PagesFor
<1>4. k * PageSize \in Nat
    BY <1>2, PageSizeIs, SMT
<1>5. m = n + PageSize - 1
    OBVIOUS
<1>. HIDE DEF m, k, r
<1>6. n <= k * PageSize /\ k * PageSize <= n + PageSize - 1
    BY <1>1, <1>2, <1>4, <1>5, PageSizeIs
<1>. QED  BY <1>2, <1>3, <1>4, <1>6

\* More tokens take no fewer pages.
LEMMA PagesGrow ==
    ASSUME NEW m \in Nat, NEW n \in Nat, m <= n
    PROVE  PagesFor(m) <= PagesFor(n)
<1>1. /\ PagesFor(m) \in Nat /\ PagesFor(n) \in Nat
      /\ PagesFor(m) * PageSize <= m + PageSize - 1 /\ n <= PagesFor(n) * PageSize
    BY PagesForIs
<1>2. ASSUME PagesFor(n) < PagesFor(m) PROVE FALSE
  <2>1. PICK j \in Nat, k \in Nat : j = PagesFor(n) /\ k = PagesFor(m)
    BY <1>1
  <2>2. j * PageSize \in Nat /\ k * PageSize \in Nat /\ j * PageSize + PageSize <= k * PageSize
    BY <1>2, <2>1, NextPage
  <2>3. n <= j * PageSize /\ k * PageSize <= m + PageSize - 1
    BY <1>1, <2>1
  <2>. QED  BY <2>2, <2>3, PageSizeIs
<1>. QED  BY <1>1, <1>2

\* No tokens take no page.
LEMMA PagesForNone == PagesFor(0) = 0
<1>1. PagesFor(0) \in Nat /\ PagesFor(0) * PageSize <= 0 + PageSize - 1
    BY PagesForIs
<1>2. PICK k \in Nat : k = PagesFor(0)
    BY <1>1
<1>3. ASSUME 0 < k PROVE FALSE
  <2>1. 0 * PageSize + PageSize <= k * PageSize /\ k * PageSize \in Nat
    BY <1>3, NextPage
  <2>2. 0 * PageSize = 0
    BY PageSizeIs
  <2>. QED  BY <1>1, <1>2, <2>1, <2>2, PageSizeIs
<1>. QED  BY <1>2, <1>3

\* The page of a token.
LEMMA PageIndex ==
    ASSUME NEW n \in Nat, NEW m \in Nat, n < m
    PROVE  (n \div PageSize) + 1 \in 1 .. PagesFor(m) /\ n % PageSize \in 0 .. PageSize - 1
<1>. DEFINE k == n \div PageSize
            r == n % PageSize
<1>1. k \in Nat /\ r \in 0 .. PageSize - 1 /\ n = k * PageSize + r
    BY Division
<1>2. PagesFor(m) \in Nat /\ m <= PagesFor(m) * PageSize
    BY PagesForIs
<1>. HIDE DEF k, r
<1>3. PICK p \in Nat : p = PagesFor(m)
    BY <1>2
<1>4. k * PageSize \in Nat
    BY <1>1, PageSizeIs, SMT
<1>5. ASSUME p <= k PROVE FALSE
  <2>1. p * PageSize <= k * PageSize
    BY <1>1, <1>5, PageSizeIs, SMT
  <2>2. m <= p * PageSize /\ p * PageSize \in Nat
    BY <1>2, <1>3, PageSizeIs, SMT
  <2>. QED  BY <1>1, <1>4, <2>1, <2>2
<1>6. k + 1 \in 1 .. p
    BY <1>1, <1>5
<1>. QED  BY <1>1, <1>3, <1>6 DEF k, r

\* The location of a token is on its page, and tells which token it is.
LEMMA LocationIs ==
    ASSUME NEW pages \in Seq(Pages), NEW n \in Nat, (n \div PageSize) + 1 \in 1 .. Len(pages)
    PROVE  /\ Location(pages, n) \in Locations
           /\ pages[(n \div PageSize) + 1] \in ToSet(pages)
           /\ Location(pages, n) \div PageSize = pages[(n \div PageSize) + 1]
           /\ Location(pages, n) % PageSize = n % PageSize
<1>. DEFINE i == (n \div PageSize) + 1
            r == n % PageSize
<1>1. i \in 1 .. Len(pages) /\ r \in 0 .. PageSize - 1
    BY Division
<1>2. Location(pages, n) = pages[i] * PageSize + r
    BY DEF Location
<1>. HIDE DEF i, r
<1>3. PICK p : p = pages[i]
    OBVIOUS
<1>4. p \in 1 .. NumPages /\ p \in ToSet(pages)
  <2>1. p \in Pages
    BY <1>1, <1>3, ElementOfSeq
  <2>2. p \in ToSet(pages)
    BY <1>1, <1>3 DEF ToSet
  <2>. QED  BY <2>1, <2>2 DEF Pages
<1>5. p \in Nat /\ 0 < p /\ p < NumPages + 1 /\ NumPages + 1 \in Nat
    BY <1>4, PageSizeIs
<1>6. /\ (p * PageSize + r) \div PageSize = p /\ (p * PageSize + r) % PageSize = r
      /\ p * PageSize + r \in Nat
    BY <1>1, <1>5, DivisionUnique
<1>7. p * PageSize + r \in Locations
  <2>1. p * PageSize + PageSize <= (NumPages + 1) * PageSize /\ p * PageSize \in Nat
        /\ (NumPages + 1) * PageSize \in Nat
    BY <1>5, NextPage
  <2>2. 0 * PageSize + PageSize <= p * PageSize /\ 0 * PageSize = 0
    BY <1>5, NextPage, PageSizeIs
  <2>. QED  BY <1>1, <2>1, <2>2, PageSizeIs DEF Locations
<1>. QED  BY <1>2, <1>3, <1>4, <1>6, <1>7 DEF i, r

\* Two tokens at one location are on one page, and if their pages are those of
\* one row they are one.
LEMMA LocationsDiffer ==
    ASSUME NEW pages \in Seq(Pages), NEW n \in Nat, (n \div PageSize) + 1 \in 1 .. Len(pages),
           NEW more \in Seq(Pages), NEW k \in Nat, (k \div PageSize) + 1 \in 1 .. Len(more),
           Location(pages, n) = Location(more, k)
    PROVE  /\ ToSet(pages) \cap ToSet(more) # {}
           /\ pages = more /\ IsInjective(pages) => n = k
<1>1. PICK i, j : i = (n \div PageSize) + 1 /\ j = (k \div PageSize) + 1
    OBVIOUS
<1>2. /\ pages[i] = more[j] /\ n % PageSize = k % PageSize
      /\ pages[i] \in ToSet(pages) /\ more[j] \in ToSet(more)
    BY <1>1, LocationIs
<1>3. ASSUME pages = more, IsInjective(pages) PROVE n = k
  <2>1. i \in DOMAIN pages /\ j \in DOMAIN pages /\ pages[i] = pages[j]
    BY <1>1, <1>2, <1>3
  <2>2. i = j
    BY <1>3, <2>1 DEF IsInjective
  <2>. DEFINE a == n \div PageSize
              b == k \div PageSize
              r == n % PageSize
              s == k % PageSize
  <2>3. a \in Nat /\ b \in Nat /\ n = a * PageSize + r /\ k = b * PageSize + s
    BY Division
  <2>4. i = a + 1 /\ j = b + 1 /\ r = s
    BY <1>1, <1>2
  <2>. HIDE DEF a, b, r, s
  <2>5. a = b
    <3>1. a \in Nat /\ b \in Nat /\ a + 1 = b + 1
      BY <2>2, <2>3, <2>4
    <3>. QED  BY <3>1
  <2>. QED  BY <2>3, <2>4, <2>5
<1>. QED  BY <1>2, <1>3

----------------------------------------------------------------------------
(* The pages of a batch.                                                   *)

\* A finite set of naturals, not empty, has a greatest member.
LEMMA Greatest ==
    ASSUME NEW S, IsFiniteSet(S), S \subseteq Nat, S # {}
    PROVE  \E m \in S : \A x \in S : x <= m
<1>1. PICK n \in Nat : \A x \in S : x <= n
    BY FiniteMax
<1>2. S \subseteq 0 .. n
    BY <1>1
<1>3. Max(S) \in S /\ \A y \in S : Max(S) >= y
    BY <1>2, MaxIsGreatest
<1>4. \A y \in S : y \in Nat /\ Max(S) \in Nat
    BY <1>3
<1>5. \A y \in S : y <= Max(S)
    BY <1>3, <1>4
<1>. QED  BY <1>3, <1>5

\* need gives each request of B its share; before, where the shares of a list
\* begin that is dealt out in the order of B.
Dealt(B, need, before, total) ==
    /\ IsFiniteSet(B) /\ B \subseteq Nat /\ need \in [B -> Nat]
    /\ \A q \in B : before[q] = SumFunctionOnSet(need, {r \in B : r < q})
    /\ total = SumFunctionOnSet(need, B)

\* The pages of the requests up to m are those before m and those of m.
LEMMA DealtUp ==
    ASSUME NEW B, NEW need, NEW before, NEW total, Dealt(B, need, before, total),
           NEW A, A \subseteq B, NEW m \in A, \A r \in B : r \in A <=> r <= m
    PROVE  SumFunctionOnSet(need, A) = before[m] + need[m]
<1>0. IsFiniteSet(B) /\ B \subseteq Nat /\ need \in [B -> Nat]
    BY DEF Dealt
<1>1. PICK C : C = {r \in B : r < m}
    OBVIOUS
<1>2. before[m] = SumFunctionOnSet(need, C)
    BY <1>1 DEF Dealt
<1>3. A = C \cup {m} /\ m \notin C /\ C \subseteq B /\ m \in B
  <2>1. \A r \in B : r \in Nat /\ m \in Nat
    BY <1>0
  <2>2. \A r \in B : r <= m <=> r < m \/ r = m
    BY <2>1
  <2>3. ~(m < m)
    BY <2>1
  <2>. QED  BY <1>1, <2>2, <2>3
<1>4. IsFiniteSet(C)
    BY <1>0, <1>3, FS_Subset
<1>5. need \in [B -> Int]
    BY <1>0
<1>6. SumFunctionOnSet(need, C \cup {m}) = need[m] + SumFunctionOnSet(need, C)
  <2>1. C \in SUBSET B /\ m \in B \ C
    BY <1>3
  <2>. QED  BY <1>4, <1>5, <2>1, SumIn
<1>7. SumFunctionOnSet(need, C) \in Int /\ need[m] \in Int
  <2>1. C \in SUBSET B
    BY <1>3
  <2>. QED  BY <1>3, <1>4, <1>5, <2>1, SumOut
<1>. QED  BY <1>2, <1>3, <1>6, <1>7

\* What is dealt is a number of pages, and fewer requests take no more.
LEMMA DealtTypes ==
    ASSUME NEW B, NEW need, NEW before, NEW total, Dealt(B, need, before, total)
    PROVE  /\ total \in Nat /\ \A q \in B : before[q] \in Nat /\ need[q] \in Nat
           /\ \A A \in SUBSET B : SumFunctionOnSet(need, A) \in Nat /\ SumFunctionOnSet(need, A) <= total
           /\ \A C \in SUBSET B : \A A \in SUBSET C : SumFunctionOnSet(need, A) <= SumFunctionOnSet(need, C)
<1>0. IsFiniteSet(B) /\ need \in [B -> Nat] /\ total = SumFunctionOnSet(need, B)
    BY DEF Dealt
<1>1. ASSUME NEW C \in SUBSET B
      PROVE  /\ SumFunctionOnSet(need, C) \in Nat
             /\ \A A \in SUBSET C : SumFunctionOnSet(need, A) <= SumFunctionOnSet(need, C)
  <2>1. IsFiniteSet(C)
    BY <1>0, FS_Subset
  <2>. QED  BY <1>0, <2>1, SumOfNats
<1>2. B \in SUBSET B
    OBVIOUS
<1>3. total \in Nat /\ \A A \in SUBSET B : SumFunctionOnSet(need, A) <= total
    BY <1>0, <1>1, <1>2
<1>4. \A q \in B : before[q] \in Nat /\ need[q] \in Nat
  <2>1. ASSUME NEW q \in B PROVE before[q] \in Nat /\ need[q] \in Nat
    <3>1. PICK C : C = {r \in B : r < q}
      OBVIOUS
    <3>2. C \in SUBSET B /\ before[q] = SumFunctionOnSet(need, C)
      BY <3>1 DEF Dealt
    <3>. QED  BY <1>0, <1>1, <3>2
  <2>. QED  BY <2>1
<1>. QED  BY <1>1, <1>3, <1>4

\* The shares do not overlap, and nothing is left between them.
LEMMA DealtApart ==
    ASSUME NEW B, NEW need, NEW before, NEW total, Dealt(B, need, before, total)
    PROVE  /\ \A q \in B : before[q] + need[q] <= total
           /\ \A q, r \in B : q < r => before[q] + need[q] <= before[r]
           /\ \A i \in 1 .. total : \E q \in B : before[q] < i /\ i <= before[q] + need[q]
<1>0. IsFiniteSet(B) /\ B \subseteq Nat /\ total = SumFunctionOnSet(need, B)
    BY DEF Dealt
<1>1. /\ total \in Nat /\ \A q \in B : before[q] \in Nat /\ need[q] \in Nat
      /\ \A A \in SUBSET B : SumFunctionOnSet(need, A) <= total
      /\ \A C \in SUBSET B : \A A \in SUBSET C : SumFunctionOnSet(need, A) <= SumFunctionOnSet(need, C)
    BY DealtTypes
<1>2. ASSUME NEW q \in B
      PROVE  LET A == {r \in B : r <= q} IN
             A \in SUBSET B /\ q \in A /\ SumFunctionOnSet(need, A) = before[q] + need[q]
  <2>1. PICK A : A = {r \in B : r <= q}
    OBVIOUS
  <2>2. A \subseteq B /\ q \in A /\ \A r \in B : r \in A <=> r <= q
    BY <1>0, <2>1
  <2>3. SumFunctionOnSet(need, A) = before[q] + need[q]
    BY <2>2, DealtUp
  <2>. QED  BY <2>1, <2>2, <2>3
<1>3. \A q \in B : before[q] + need[q] <= total
    BY <1>1, <1>2
<1>4. ASSUME NEW q \in B, NEW r \in B, q < r PROVE before[q] + need[q] <= before[r]
  <2>1. PICK A, C : A = {x \in B : x <= q} /\ C = {x \in B : x < r}
    OBVIOUS
  <2>2. SumFunctionOnSet(need, A) = before[q] + need[q]
    BY <1>2, <2>1
  <2>3. before[r] = SumFunctionOnSet(need, C)
    BY <2>1 DEF Dealt
  <2>4. \A x \in B : x <= q => x < r
    BY <1>0, <1>4
  <2>5. C \in SUBSET B /\ A \in SUBSET C
    BY <2>1, <2>4
  <2>. QED  BY <1>1, <2>2, <2>3, <2>5
<1>5. ASSUME NEW i \in 1 .. total
      PROVE  \E q \in B : before[q] < i /\ i <= before[q] + need[q]
  <2>. DEFINE H == {q \in B : i <= before[q] + need[q]}
  <2>1. ASSUME H = {} PROVE FALSE
    <3>1. CASE B = {}
      <4>1. {} \in SUBSET B /\ {} = B
        BY <3>1
      <4>2. total = 0
        <5>1. IsFiniteSet({}) /\ need \in [B -> Int] /\ {} \in SUBSET B
          BY <4>1, FS_EmptySet DEF Dealt
        <5>2. SumFunctionOnSet(need, {}) = 0
          BY <5>1, SumOut
        <5>. QED  BY <1>0, <4>1, <5>2
      <4>. QED  BY <4>2
    <3>2. CASE B # {}
      <4>1. PICK m \in B : \A x \in B : x <= m
        BY <1>0, <3>2, Greatest
      <4>2. SumFunctionOnSet(need, B) = before[m] + need[m]
        <5>1. B \subseteq B /\ m \in B /\ \A r \in B : r \in B <=> r <= m
          BY <4>1
        <5>. QED  BY <5>1, DealtUp
      <4>3. ~(i <= before[m] + need[m])
        BY <2>1
      <4>. QED  BY <1>0, <1>1, <4>2, <4>3
    <3>. QED  BY <3>1, <3>2
  <2>2. PICK q \in H : \A x \in H : q <= x
    <3>1. H \in SUBSET Nat
      BY <1>0
    <3>. HIDE DEF H
    <3>. QED  BY <2>1, <3>1, Least
  <2>3. q \in B /\ i <= before[q] + need[q]
    OBVIOUS
  <2>4. ASSUME i <= before[q] PROVE FALSE
    <3>1. PICK C : C = {r \in B : r < q}
      OBVIOUS
    <3>2. before[q] = SumFunctionOnSet(need, C) /\ C \subseteq B /\ IsFiniteSet(C) /\ C \subseteq Nat
      BY <1>0, <3>1, <2>3, FS_Subset DEF Dealt
    <3>3. CASE C = {}
      <4>1. need \in [B -> Int] /\ {} \in SUBSET B /\ IsFiniteSet({})
        BY FS_EmptySet DEF Dealt
      <4>2. SumFunctionOnSet(need, {}) = 0
        BY <4>1, SumOut
      <4>. QED  BY <2>4, <3>2, <3>3, <4>2
    <3>4. CASE C # {}
      <4>1. PICK m \in C : \A x \in C : x <= m
        BY <3>2, <3>4, Greatest
      <4>2. m \in B /\ m < q
        BY <3>1
      <4>3. \A r \in B : r \in C <=> r <= m
        <5>1. ASSUME NEW r \in B, r <= m PROVE r < q
          BY <1>0, <2>3, <4>2, <5>1
        <5>. QED  BY <3>1, <4>1, <5>1
      <4>4. SumFunctionOnSet(need, C) = before[m] + need[m]
        <5>1. PICK A, l : A = C /\ l = m
          OBVIOUS
        <5>2. A \subseteq B
          BY <3>2, <5>1
        <5>3. l \in A
          BY <5>1
        <5>4. \A r \in B : r \in A <=> r <= l
          BY <4>3, <5>1
        <5>5. SumFunctionOnSet(need, A) = before[l] + need[l]
          BY <5>2, <5>3, <5>4, DealtUp
        <5>. QED  BY <5>1, <5>5
      <4>5. m \in H
        BY <2>4, <3>2, <4>2, <4>4
      <4>6. q <= m /\ m \in Nat /\ q \in Nat
        <5>. HIDE DEF H
        <5>. QED  BY <1>0, <2>2, <2>3, <4>2, <4>5
      <4>. QED  BY <4>2, <4>6
    <3>. QED  BY <3>3, <3>4
  <2>5. before[q] < i
    <3>. HIDE DEF H
    <3>. QED  BY <1>1, <2>3, <2>4
  <2>. QED  BY <2>3, <2>5
<1>. QED  BY <1>3, <1>4, <1>5

\* A part of a sequence.
LEMMA PartIs ==
    ASSUME NEW T, NEW s, s \in Seq(T), NEW m \in Nat, NEW n \in Nat, 1 <= m, m <= n + 1, n <= Len(s)
    PROVE  /\ SubSeq(s, m, n) \in Seq(T) /\ Len(SubSeq(s, m, n)) = n - m + 1
           /\ \A i \in 1 .. n - m + 1 : SubSeq(s, m, n)[i] = s[m + i - 1]
           /\ \A x : x \in ToSet(SubSeq(s, m, n)) <=> \E i \in m .. n : x = s[i]
           /\ IsInjective(s) => IsInjective(SubSeq(s, m, n))
<1>1. Len(s) \in Nat /\ DOMAIN s = 1 .. Len(s)
    BY LenProperties
<1>2. \A i \in m .. n : i \in 1 .. Len(s)
    BY <1>1
<1>3. \A i \in m .. n : s[i] \in T
    BY <1>2, ElementOfSeq
<1>4. PICK t : t = SubSeq(s, m, n)
    OBVIOUS
<1>5. m \in Int /\ n \in Int
    OBVIOUS
<1>6. /\ SubSeq(s, m, n) \in Seq(T)
      /\ Len(SubSeq(s, m, n)) = IF m <= n THEN n - m + 1 ELSE 0
      /\ \A i \in 1 .. n - m + 1 : SubSeq(s, m, n)[i] = s[m + i - 1]
    BY <1>3, <1>5, SubSeqProperties
<1>7. PICK l \in Nat : l = n - m + 1
    BY n - m + 1 \in Nat
<1>8. t \in Seq(T) /\ Len(t) = l /\ \A i \in 1 .. l : t[i] = s[m + i - 1]
  <2>1. (IF m <= n THEN n - m + 1 ELSE 0) = l
    BY <1>7
  <2>. QED  BY <1>4, <1>6, <1>7, <2>1
<1>9. DOMAIN t = 1 .. l
    BY <1>8, LenProperties
<1>10. ASSUME NEW x PROVE x \in ToSet(t) <=> \E i \in m .. n : x = s[i]
  <2>1. ASSUME x \in ToSet(t) PROVE \E i \in m .. n : x = s[i]
    <3>1. PICK i \in 1 .. l : x = t[i]
      BY <1>9, <2>1 DEF ToSet
    <3>2. m + i - 1 \in m .. n /\ x = s[m + i - 1]
      BY <1>7, <1>8, <3>1
    <3>. QED  BY <3>2
  <2>2. ASSUME NEW i \in m .. n, x = s[i] PROVE x \in ToSet(t)
    <3>1. i - m + 1 \in 1 .. l /\ m + (i - m + 1) - 1 = i
      BY <1>7
    <3>2. t[i - m + 1] = s[i]
      BY <1>8, <3>1
    <3>. QED  BY <1>9, <2>2, <3>1, <3>2 DEF ToSet
  <2>. QED  BY <2>1, <2>2
<1>11. ASSUME IsInjective(s) PROVE IsInjective(t)
  <2>1. ASSUME NEW i \in 1 .. l, NEW j \in 1 .. l, t[i] = t[j] PROVE i = j
    <3>1. m + i - 1 \in 1 .. Len(s) /\ m + j - 1 \in 1 .. Len(s)
      BY <1>1, <1>7
    <3>2. s[m + i - 1] = s[m + j - 1]
      BY <1>8, <2>1
    <3>3. m + i - 1 = m + j - 1
      BY <1>1, <1>11, <3>1, <3>2 DEF IsInjective
    <3>. QED  BY <3>3
  <2>. QED  BY <1>9, <2>1 DEF IsInjective
<1>. QED  BY <1>4, <1>7, <1>8, <1>10, <1>11

\* What a forward is given: tokens for some requests, and pages for them.
Batch(block) ==
    /\ DOMAIN block \subseteq Requests
    /\ \A q \in DOMAIN block : block[q] \in Seq(Tokens) /\ Len(block[q]) >= 1
    /\ ~TooFewPages(block)

NeedOf(block) == [q \in DOMAIN block |-> PagesNeeded(q, block)]
BeforeOf(block) == [q \in DOMAIN block |-> PagesTaken(block, {r \in DOMAIN block : r < q})]
TakenBy(block) == PagesTaken(block, DOMAIN block)

\* The pages a batch takes are dealt in its order, and the free list has them.
LEMMA BatchDealt ==
    ASSUME Types, NEW block, Batch(block)
    PROVE  /\ Dealt(DOMAIN block, NeedOf(block), BeforeOf(block), TakenBy(block))
           /\ \A q \in DOMAIN block :
                 /\ NeedOf(block)[q] \in Nat /\ PagesFor(cached[q]) \in Nat
                 /\ cached[q] + Len(block[q]) \in Nat /\ Len(block[q]) \in Nat
                 /\ PagesFor(cached[q]) + NeedOf(block)[q] = PagesFor(cached[q] + Len(block[q]))
           /\ TakenBy(block) <= Len(free) /\ Len(free) \in Nat
<1>. DEFINE B == DOMAIN block
            need == NeedOf(block)
<1>1. B \subseteq Requests /\ B \subseteq Nat /\ IsFiniteSet(B)
    BY SpecAssumption, FS_Subset DEF Batch
<1>2. ASSUME NEW q \in B
      PROVE  /\ need[q] \in Nat /\ PagesFor(cached[q]) \in Nat
             /\ cached[q] + Len(block[q]) \in Nat /\ Len(block[q]) \in Nat
             /\ PagesFor(cached[q]) + need[q] = PagesFor(cached[q] + Len(block[q]))
  <2>1. cached[q] \in Nat /\ Len(block[q]) \in Nat
    <3>1. q \in Requests /\ block[q] \in Seq(Tokens)
      BY <1>1 DEF Batch
    <3>. QED  BY <3>1, LenProperties DEF Types
  <2>2. PICK c, n : c = cached[q] /\ n = cached[q] + Len(block[q])
    OBVIOUS
  <2>3. c \in Nat /\ n \in Nat /\ c <= n
    BY <2>1, <2>2
  <2>4. PagesFor(c) \in Nat /\ PagesFor(n) \in Nat /\ PagesFor(c) <= PagesFor(n)
    BY <2>3, PagesForIs, PagesGrow
  <2>5. need[q] = PagesFor(n) - PagesFor(c)
    BY <2>2 DEF NeedOf, PagesNeeded
  <2>. HIDE DEF need
  <2>6. need[q] \in Nat /\ PagesFor(c) + need[q] = PagesFor(n)
    BY <2>4, <2>5
  <2>. QED  BY <2>1, <2>2, <2>3, <2>4, <2>6
<1>3. need \in [B -> Nat]
    BY <1>2 DEF NeedOf
<1>4. ASSUME NEW S, S \subseteq B PROVE PagesTaken(block, S) = SumFunctionOnSet(need, S)
  <2>1. PICK f : f = [q \in S |-> PagesNeeded(q, block)]
    OBVIOUS
  <2>2. \A q \in S : f[q] = need[q]
    BY <1>4, <2>1 DEF NeedOf
  <2>3. f \in [S -> Int] /\ need \in [B -> Int]
    <3>. HIDE DEF need
    <3>1. \A q \in S : need[q] \in Int
      BY <1>3, <1>4
    <3>2. need \in [B -> Int]
      BY <1>3
    <3>. QED  BY <2>1, <2>2, <3>1, <3>2
  <2>4. IsFiniteSet(S) /\ S \in SUBSET (S \cap B)
    BY <1>1, <1>4, FS_Subset
  <2>. HIDE DEF need
  <2>5. SumFunctionOnSet(f, S) = SumFunctionOnSet(need, S)
    BY <2>2, <2>3, <2>4, SumSame
  <2>. QED  BY <2>1, <2>5 DEF PagesTaken
<1>5. \A q \in B : BeforeOf(block)[q] = SumFunctionOnSet(need, {r \in B : r < q})
  <2>1. ASSUME NEW q \in B
        PROVE  BeforeOf(block)[q] = SumFunctionOnSet(need, {r \in B : r < q})
    <3>1. BeforeOf(block)[q] = PagesTaken(block, {r \in B : r < q})
      BY DEF BeforeOf
    <3>2. {r \in B : r < q} \subseteq B
      OBVIOUS
    <3>. HIDE DEF need
    <3>. QED  BY <1>4, <3>1, <3>2
  <2>. QED  BY <2>1
<1>6. TakenBy(block) = SumFunctionOnSet(need, B)
    BY <1>4 DEF TakenBy
<1>7. Dealt(B, need, BeforeOf(block), TakenBy(block))
    BY <1>1, <1>3, <1>5, <1>6 DEF Dealt
<1>8. TakenBy(block) <= Len(free) /\ Len(free) \in Nat
  <2>1. TakenBy(block) \in Nat
    BY <1>7, DealtTypes
  <2>2. Len(free) \in Nat
    BY LenProperties DEF Types
  <2>3. ~(TakenBy(block) > Len(free))
    BY DEF Batch, TooFewPages, TakenBy
  <2>. QED  BY <2>1, <2>2, <2>3
<1>. QED  BY <1>2, <1>7, <1>8

\* A share of the free list.
Share(block, q) ==
    {free[i] : i \in BeforeOf(block)[q] + 1 .. BeforeOf(block)[q] + NeedOf(block)[q]}

\* The row of a request of the batch: the pages it has, then its share.
LEMMA RowsAre ==
    ASSUME Types, PagesOK, NEW block, Batch(block), NEW q \in DOMAIN block
    PROVE  /\ RowsFor(block)[q] \in Seq(Pages) /\ IsInjective(RowsFor(block)[q])
           /\ Len(RowsFor(block)[q]) = PagesFor(cached[q] + Len(block[q]))
           /\ \A i \in 1 .. Len(row[q]) : RowsFor(block)[q][i] = row[q][i]
           /\ ToSet(RowsFor(block)[q]) = ToSet(row[q]) \cup Share(block, q)
           /\ Share(block, q) \subseteq ToSet(free)
<1>. DEFINE b == BeforeOf(block)[q]
            n == NeedOf(block)[q]
            c == PagesFor(cached[q])
            s == row[q]
            old == SubSeq(s, 1, c)
            new == SubSeq(free, b + 1, b + n)
<1>1. /\ Dealt(DOMAIN block, NeedOf(block), BeforeOf(block), TakenBy(block))
      /\ n \in Nat /\ c \in Nat /\ c + n = PagesFor(cached[q] + Len(block[q]))
      /\ TakenBy(block) <= Len(free) /\ Len(free) \in Nat
    BY BatchDealt
<1>2. b \in Nat /\ b + n <= TakenBy(block) /\ TakenBy(block) \in Nat
  <2>1. PICK B, need, before, total :
            /\ B = DOMAIN block /\ need = NeedOf(block) /\ before = BeforeOf(block)
            /\ total = TakenBy(block)
    OBVIOUS
  <2>2. Dealt(B, need, before, total)
    BY <1>1, <2>1
  <2>3. total \in Nat /\ before[q] \in Nat
    BY <2>1, <2>2, DealtTypes
  <2>4. before[q] + need[q] <= total
    BY <2>1, <2>2, DealtApart
  <2>. QED  BY <2>1, <2>3, <2>4
<1>3. q \in Requests /\ s \in Seq(Pages) /\ IsInjective(s) /\ Len(s) = c
      /\ ToSet(s) \cap ToSet(free) = {} /\ free \in Seq(Pages) /\ IsInjective(free)
    BY DEF Types, PagesOK, Batch
<1>4. RowsFor(block)[q] = old \o new
    BY DEF RowsFor, BeforeOf, NeedOf
<1>5. Share(block, q) = {free[i] : i \in b + 1 .. b + n}
    BY DEF Share
<1>. HIDE DEF b, n, c, s
<1>6. old = s
    BY <1>3, SubSeqFull
<1>7. /\ new \in Seq(Pages) /\ Len(new) = n /\ IsInjective(new)
      /\ \A x : x \in ToSet(new) <=> \E i \in b + 1 .. b + n : x = free[i]
  <2>1. PICK m, k : m = b + 1 /\ k = b + n
    OBVIOUS
  <2>2. m \in Nat /\ k \in Nat /\ 1 <= m /\ m <= k + 1 /\ k <= Len(free) /\ k - m + 1 = n
    BY <1>1, <1>2, <2>1
  <2>3. /\ SubSeq(free, m, k) \in Seq(Pages) /\ Len(SubSeq(free, m, k)) = k - m + 1
        /\ \A x : x \in ToSet(SubSeq(free, m, k)) <=> \E i \in m .. k : x = free[i]
        /\ IsInjective(free) => IsInjective(SubSeq(free, m, k))
    BY <1>3, <2>2, PartIs
  <2>. QED  BY <1>3, <2>1, <2>2, <2>3
<1>. HIDE DEF new, old
<1>8. ToSet(new) = Share(block, q)
    BY <1>5, <1>7
<1>9. Share(block, q) \subseteq ToSet(free)
  <2>1. \A i \in b + 1 .. b + n : i \in 1 .. Len(free)
    BY <1>1, <1>2
  <2>2. DOMAIN free = 1 .. Len(free)
    BY <1>3, LenProperties
  <2>. QED  BY <1>5, <2>1, <2>2 DEF ToSet
<1>10. PICK r : r = s \o new
    OBVIOUS
<1>11. /\ r \in Seq(Pages) /\ Len(r) = c + n
       /\ \A i \in 1 .. Len(s) : r[i] = s[i]
  <2>1. /\ r \in Seq(Pages) /\ Len(r) = Len(s) + Len(new)
        /\ \A i \in 1 .. Len(s) + Len(new) : r[i] = IF i <= Len(s) THEN s[i] ELSE new[i - Len(s)]
    <3>1. s \in Seq(Pages) /\ new \in Seq(Pages)
      BY <1>3, <1>7
    <3>2. PICK u : u = new
      OBVIOUS
    <3>3. /\ s \o u \in Seq(Pages) /\ Len(s \o u) = Len(s) + Len(u)
          /\ \A i \in 1 .. Len(s) + Len(u) : (s \o u)[i] = IF i <= Len(s) THEN s[i] ELSE u[i - Len(s)]
      BY <3>1, <3>2, ConcatProperties
    <3>. QED  BY <1>10, <3>2, <3>3
  <2>2. \A i \in 1 .. Len(s) : i \in 1 .. Len(s) + Len(new) /\ i <= Len(s)
    BY <1>1, <1>3, <1>7
  <2>. QED  BY <1>3, <1>7, <2>1, <2>2
<1>12. ToSet(r) = ToSet(s) \cup ToSet(new) /\ IsInjective(r)
  <2>1. ToSet(s) \cap ToSet(new) = {}
    BY <1>3, <1>8, <1>9
  <2>. QED  BY <1>3, <1>7, <1>10, <2>1, ConcatElements
<1>. QED  BY <1>1, <1>4, <1>6, <1>8, <1>9, <1>10, <1>11, <1>12 DEF s

\* Every page is still in one place: in a row, or in what is left of the list.
LEMMA PagesDealt ==
    ASSUME Types, PagesOK, NEW block, Batch(block)
    PROVE  /\ FreeAfter(block) \in Seq(Pages) /\ IsInjective(FreeAfter(block))
           /\ \A q \in DOMAIN block : ToSet(RowsFor(block)[q]) \cap ToSet(FreeAfter(block)) = {}
           /\ \A q, r \in DOMAIN block :
                 q # r => ToSet(RowsFor(block)[q]) \cap ToSet(RowsFor(block)[r]) = {}
           /\ \A q \in DOMAIN block : \A r \in Requests :
                 q # r => ToSet(RowsFor(block)[q]) \cap ToSet(row[r]) = {}
           /\ \A r \in Requests : ToSet(row[r]) \cap ToSet(FreeAfter(block)) = {}
           /\ \A p \in ToSet(free) : p \in ToSet(FreeAfter(block))
                 \/ \E q \in DOMAIN block : p \in ToSet(RowsFor(block)[q])
<1>. DEFINE B == DOMAIN block
            need == NeedOf(block)
            before == BeforeOf(block)
            total == TakenBy(block)
            rest == FreeAfter(block)
            rows == RowsFor(block)
            share(q) == Share(block, q)
<1>1. /\ Dealt(B, need, before, total) /\ total <= Len(free) /\ Len(free) \in Nat
    BY BatchDealt
<1>2. /\ total \in Nat /\ \A q \in B : before[q] \in Nat /\ need[q] \in Nat
      /\ \A q \in B : before[q] + need[q] <= total
      /\ \A q, r \in B : q < r => before[q] + need[q] <= before[r]
      /\ \A i \in 1 .. total : \E q \in B : before[q] < i /\ i <= before[q] + need[q]
  <2>. HIDE DEF need, before, total, B
  <2>. QED  BY <1>1, DealtTypes, DealtApart
<1>3. B \subseteq Requests /\ B \subseteq Nat
    BY SpecAssumption DEF Batch
<1>4. \A q \in B : share(q) = {free[i] : i \in before[q] + 1 .. before[q] + need[q]}
    BY DEF Share
<1>5. \A q \in B : share(q) \subseteq ToSet(free) /\ ToSet(rows[q]) = ToSet(row[q]) \cup share(q)
    BY RowsAre
<1>6. /\ free \in Seq(Pages) /\ IsInjective(free) /\ DOMAIN free = 1 .. Len(free)
      /\ \A q \in Requests : ToSet(row[q]) \cap ToSet(free) = {}
      /\ \A q, r \in Requests : q # r => ToSet(row[q]) \cap ToSet(row[r]) = {}
    BY LenProperties DEF Types, PagesOK
<1>7. rest = SubSeq(free, total + 1, Len(free))
    BY DEF FreeAfter, TakenBy
<1>. HIDE DEF B, need, before, total, rest, rows, share
<1>8. /\ rest \in Seq(Pages) /\ IsInjective(rest)
      /\ \A x : x \in ToSet(rest) <=> \E i \in total + 1 .. Len(free) : x = free[i]
  <2>1. PICK m, k, f : m = total + 1 /\ k = Len(free) /\ f = free
    OBVIOUS
  <2>2. m \in Nat /\ k \in Nat /\ 1 <= m /\ m <= k + 1 /\ k <= Len(f)
    BY <1>1, <1>2, <2>1
  <2>3. f \in Seq(Pages) /\ IsInjective(f)
    BY <1>6, <2>1
  <2>4. /\ SubSeq(f, m, k) \in Seq(Pages)
        /\ \A x : x \in ToSet(SubSeq(f, m, k)) <=> \E i \in m .. k : x = f[i]
        /\ IsInjective(f) => IsInjective(SubSeq(f, m, k))
    BY <2>2, <2>3, PartIs
  <2>5. rest = SubSeq(f, m, k)
    BY <1>7, <2>1
  <2>6. rest \in Seq(Pages) /\ IsInjective(rest)
    BY <2>3, <2>4, <2>5
  <2>7. \A x : x \in ToSet(rest) <=> \E i \in m .. k : x = f[i]
    BY <2>4, <2>5
  <2>. QED  BY <2>1, <2>6, <2>7
<1>9. \A i, j \in 1 .. Len(free) : free[i] = free[j] => i = j
    BY <1>6 DEF IsInjective
<1>10. \A q \in B : \A i \in before[q] + 1 .. before[q] + need[q] : i \in 1 .. Len(free) /\ i <= total
    BY <1>1, <1>2
<1>11. ToSet(rest) \subseteq ToSet(free)
  <2>1. \A i \in total + 1 .. Len(free) : i \in 1 .. Len(free)
    BY <1>1, <1>2
  <2>. QED  BY <1>6, <1>8, <2>1 DEF ToSet
<1>12. ASSUME NEW q \in B PROVE share(q) \cap ToSet(rest) = {}
  <2>1. ASSUME NEW x \in share(q), x \in ToSet(rest) PROVE FALSE
    <3>1. PICK i \in before[q] + 1 .. before[q] + need[q] : x = free[i]
      BY <1>4, <2>1
    <3>2. PICK j \in total + 1 .. Len(free) : x = free[j]
      BY <1>8, <2>1
    <3>3. i \in 1 .. Len(free) /\ i <= total /\ j \in 1 .. Len(free)
      BY <1>1, <1>2, <1>10
    <3>4. i = j
      BY <1>9, <3>1, <3>2, <3>3
    <3>. QED  BY <1>2, <3>2, <3>3, <3>4
  <2>. QED  BY <2>1
<1>13. ASSUME NEW q \in B, NEW r \in B, q < r PROVE share(q) \cap share(r) = {}
  <2>1. ASSUME NEW x \in share(q), x \in share(r) PROVE FALSE
    <3>1. PICK i \in before[q] + 1 .. before[q] + need[q] : x = free[i]
      BY <1>4, <2>1
    <3>2. PICK j \in before[r] + 1 .. before[r] + need[r] : x = free[j]
      BY <1>4, <2>1
    <3>3. i = j
      BY <1>9, <1>10, <3>1, <3>2
    <3>4. before[q] + need[q] <= before[r] /\ before[q] \in Nat /\ need[q] \in Nat /\ before[r] \in Nat
      BY <1>2, <1>13
    <3>. QED  BY <3>1, <3>2, <3>3, <3>4
  <2>. QED  BY <2>1
<1>14. ASSUME NEW q \in B, NEW r \in B, q # r PROVE share(q) \cap share(r) = {}
  <2>1. q < r \/ r < q
    BY <1>3, <1>14
  <2>. QED  BY <1>13, <2>1
<1>15. \A q \in B : ToSet(rows[q]) \cap ToSet(rest) = {}
    BY <1>3, <1>5, <1>6, <1>11, <1>12
<1>16. ASSUME NEW q \in B, NEW r \in Requests, q # r PROVE ToSet(rows[q]) \cap ToSet(row[r]) = {}
    BY <1>3, <1>5, <1>6, <1>16
<1>17. ASSUME NEW q \in B, NEW r \in B, q # r PROVE ToSet(rows[q]) \cap ToSet(rows[r]) = {}
  <2>1. ToSet(rows[q]) \cap ToSet(row[r]) = {} /\ ToSet(rows[r]) \cap ToSet(row[q]) = {}
    BY <1>3, <1>16, <1>17
  <2>2. share(q) \cap share(r) = {}
    BY <1>14, <1>17
  <2>. QED  BY <1>5, <2>1, <2>2
<1>18. \A r \in Requests : ToSet(row[r]) \cap ToSet(rest) = {}
    BY <1>6, <1>11
<1>19. ASSUME NEW p \in ToSet(free)
       PROVE  p \in ToSet(rest) \/ \E q \in B : p \in ToSet(rows[q])
  <2>1. PICK i \in 1 .. Len(free) : p = free[i]
    BY <1>6 DEF ToSet
  <2>2. CASE i \in 1 .. total
    <3>1. PICK q \in B : before[q] < i /\ i <= before[q] + need[q]
      BY <1>2, <2>2
    <3>2. i \in before[q] + 1 .. before[q] + need[q]
      BY <1>2, <3>1
    <3>3. p \in share(q)
      BY <1>4, <2>1, <3>2
    <3>. QED  BY <1>5, <3>3
  <2>3. CASE i \notin 1 .. total
    <3>1. i \in total + 1 .. Len(free)
      BY <1>1, <1>2, <2>3
    <3>. QED  BY <1>8, <2>1, <3>1
  <2>. QED  BY <2>2, <2>3
<1>. QED  BY <1>8, <1>15, <1>16, <1>17, <1>18, <1>19 DEF B, rest, rows

----------------------------------------------------------------------------
(* What a forward writes.                                                  *)

\* A block has some tokens for each request of the batch.
LEMMA BlockTypes ==
    ASSUME Types, NEW block, Batch(block), NEW q \in DOMAIN block
    PROVE  /\ q \in Requests /\ cached[q] \in Nat /\ block[q] \in Seq(Tokens)
           /\ Len(block[q]) \in Nat \ {0} /\ DOMAIN block[q] = 1 .. Len(block[q])
<1>1. q \in Requests /\ block[q] \in Seq(Tokens) /\ Len(block[q]) >= 1
    BY DEF Batch
<1>2. Len(block[q]) \in Nat /\ DOMAIN block[q] = 1 .. Len(block[q])
    BY <1>1, LenProperties
<1>. QED  BY <1>1, <1>2 DEF Types

\* Each token of the batch has a location of its own.
LEMMA PlacesDiffer ==
    ASSUME Types, PagesOK, NEW block, Batch(block), NEW q \in DOMAIN block,
           NEW n \in 0 .. cached[q] + Len(block[q]) - 1
    PROVE  /\ Location(RowsFor(block)[q], n) \in Locations
           /\ \A r \in DOMAIN block : \A m \in 0 .. cached[r] + Len(block[r]) - 1 :
                 Location(RowsFor(block)[q], n) = Location(RowsFor(block)[r], m) => q = r /\ n = m
           /\ \A r \in Requests : r # q => \A m \in 0 .. cached[r] - 1 :
                 Location(RowsFor(block)[q], n) # Location(row[r], m)
           /\ n < cached[q] => Location(RowsFor(block)[q], n) = Location(row[q], n)
<1>. DEFINE rows == RowsFor(block)
<1>1. ASSUME NEW r \in DOMAIN block, NEW m \in 0 .. cached[r] + Len(block[r]) - 1
      PROVE  /\ rows[r] \in Seq(Pages) /\ IsInjective(rows[r]) /\ m \in Nat
             /\ (m \div PageSize) + 1 \in 1 .. Len(rows[r])
  <2>1. rows[r] \in Seq(Pages) /\ IsInjective(rows[r])
        /\ Len(rows[r]) = PagesFor(cached[r] + Len(block[r]))
    BY RowsAre
  <2>2. PICK k : k = cached[r] + Len(block[r])
    OBVIOUS
  <2>3. k \in Nat /\ m \in Nat /\ m < k
    BY <2>2, BlockTypes
  <2>4. (m \div PageSize) + 1 \in 1 .. PagesFor(k)
    BY <2>3, PageIndex
  <2>. QED  BY <2>1, <2>2, <2>3, <2>4
<1>2. ASSUME NEW r \in Requests, NEW m \in 0 .. cached[r] - 1
      PROVE  /\ row[r] \in Seq(Pages) /\ m \in Nat
             /\ (m \div PageSize) + 1 \in 1 .. Len(row[r])
  <2>1. row[r] \in Seq(Pages) /\ Len(row[r]) = PagesFor(cached[r]) /\ cached[r] \in Nat
    BY DEF Types, PagesOK
  <2>2. PICK k : k = cached[r]
    OBVIOUS
  <2>3. k \in Nat /\ m \in Nat /\ m < k
    BY <2>1, <2>2
  <2>4. (m \div PageSize) + 1 \in 1 .. PagesFor(k)
    BY <2>3, PageIndex
  <2>. QED  BY <2>1, <2>2, <2>3, <2>4
<1>3. PICK s : s = rows[q]
    OBVIOUS
<1>4. s \in Seq(Pages) /\ IsInjective(s) /\ n \in Nat /\ (n \div PageSize) + 1 \in 1 .. Len(s)
    BY <1>1, <1>3
<1>5. Location(s, n) \in Locations
    BY <1>4, LocationIs
<1>6. ASSUME NEW r \in DOMAIN block, NEW m \in 0 .. cached[r] + Len(block[r]) - 1,
             Location(s, n) = Location(rows[r], m)
      PROVE  q = r /\ n = m
  <2>1. PICK t : t = rows[r]
    OBVIOUS
  <2>2. t \in Seq(Pages) /\ m \in Nat /\ (m \div PageSize) + 1 \in 1 .. Len(t)
    BY <1>1, <2>1
  <2>3. ToSet(s) \cap ToSet(t) # {} /\ (s = t /\ IsInjective(s) => n = m)
    <3>1. Location(s, n) = Location(t, m)
      BY <1>6, <2>1
    <3>. QED  BY <1>4, <2>2, <3>1, LocationsDiffer
  <2>4. q = r
    BY <1>3, <2>1, <2>3, PagesDealt
  <2>. QED  BY <1>3, <1>4, <2>1, <2>3, <2>4
<1>7. ASSUME NEW r \in Requests, r # q, NEW m \in 0 .. cached[r] - 1,
             Location(s, n) = Location(row[r], m)
      PROVE  FALSE
  <2>1. PICK t : t = row[r]
    OBVIOUS
  <2>2. t \in Seq(Pages) /\ m \in Nat /\ (m \div PageSize) + 1 \in 1 .. Len(t)
    BY <1>2, <2>1
  <2>3. ToSet(s) \cap ToSet(t) # {}
    <3>1. Location(s, n) = Location(t, m)
      BY <1>7, <2>1
    <3>. QED  BY <1>4, <2>2, <3>1, LocationsDiffer
  <2>. QED  BY <1>3, <1>7, <2>1, <2>3, PagesDealt
<1>8. ASSUME n < cached[q] PROVE Location(s, n) = Location(row[q], n)
  <2>1. q \in Requests /\ cached[q] \in Nat
    BY BlockTypes
  <2>2. n \in 0 .. cached[q] - 1
    BY <1>4, <1>8, <2>1
  <2>3. (n \div PageSize) + 1 \in 1 .. Len(row[q])
    BY <1>2, <2>1, <2>2
  <2>4. \A i \in 1 .. Len(row[q]) : s[i] = row[q][i]
    BY <1>3, RowsAre
  <2>5. s[(n \div PageSize) + 1] = row[q][(n \div PageSize) + 1]
    BY <2>3, <2>4
  <2>. QED  BY <2>5 DEF Location
<1>. QED  BY <1>3, <1>5, <1>6, <1>7, <1>8

\* A forward writes the tokens of the batch, each where its row says, and leaves
\* what the other tokens of every request left.
LEMMA WrittenIs ==
    ASSUME Types, PagesOK, NEW block, Batch(block)
    PROVE  /\ Written(block) \in [Locations -> Tokens]
           /\ \A q \in DOMAIN block : \A j \in 1 .. Len(block[q]) :
                 Written(block)[Location(RowsFor(block)[q], cached[q] + j - 1)] = block[q][j]
           /\ \A q \in DOMAIN block : \A n \in 0 .. cached[q] - 1 :
                 Written(block)[Location(RowsFor(block)[q], n)] = kv[Location(row[q], n)]
           /\ \A q \in Requests \ DOMAIN block : \A n \in 0 .. cached[q] - 1 :
                 Written(block)[Location(row[q], n)] = kv[Location(row[q], n)]
<1>. DEFINE B == DOMAIN block
            place(q, n) == Location(RowsFor(block)[q], n)
            W == UNION {{<<place(q, cached[q] + j - 1), block[q][j]>> : j \in DOMAIN block[q]} : q \in B}
            new == Written(block)
<1>1. new = [l \in Locations |->
                IF \E w \in W : w[1] = l THEN (CHOOSE w \in W : w[1] = l)[2] ELSE kv[l]]
    BY DEF Written
<1>2. \A q \in B : /\ q \in Requests /\ cached[q] \in Nat /\ block[q] \in Seq(Tokens)
                   /\ Len(block[q]) \in Nat \ {0} /\ DOMAIN block[q] = 1 .. Len(block[q])
    BY BlockTypes
<1>3. \A q \in B : \A j \in 1 .. Len(block[q]) :
          /\ cached[q] + j - 1 \in 0 .. cached[q] + Len(block[q]) - 1
          /\ block[q][j] \in Tokens
  <2>1. ASSUME NEW q \in B, NEW j \in 1 .. Len(block[q])
        PROVE  cached[q] + j - 1 \in 0 .. cached[q] + Len(block[q]) - 1 /\ block[q][j] \in Tokens
    <3>1. block[q] \in Seq(Tokens) /\ Len(block[q]) \in Nat /\ cached[q] \in Nat
      BY <1>2
    <3>. QED  BY <3>1, ElementOfSeq
  <2>. QED  BY <2>1
<1>4. \A q \in B : \A n \in 0 .. cached[q] + Len(block[q]) - 1 : 
          /\ place(q, n) \in Locations
          /\ \A r \in B : \A m \in 0 .. cached[r] + Len(block[r]) - 1 :
                 place(q, n) = place(r, m) => q = r /\ n = m
          /\ \A r \in Requests : r # q => \A m \in 0 .. cached[r] - 1 : place(q, n) # Location(row[r], m)
          /\ n < cached[q] => place(q, n) = Location(row[q], n)
    BY PlacesDiffer
<1>5. kv \in [Locations -> Tokens]
    BY DEF Types
<1>6. \A w : w \in W <=> \E q \in B : \E j \in 1 .. Len(block[q]) :
                             w = <<place(q, cached[q] + j - 1), block[q][j]>>
  <2>. HIDE DEF place
  <2>. QED  BY <1>2
<1>. HIDE DEF new, W, place, B
<1>7. ASSUME NEW q \in B, NEW j \in 1 .. Len(block[q])
      PROVE  new[place(q, cached[q] + j - 1)] = block[q][j]
  <2>1. PICK l, v : l = place(q, cached[q] + j - 1) /\ v = <<l, block[q][j]>>
    OBVIOUS
  <2>2. v \in W /\ v[1] = l /\ v[2] = block[q][j]
    BY <1>6, <2>1
  <2>3. l \in Locations
    BY <1>3, <1>4, <2>1
  <2>4. ASSUME NEW w \in W, w[1] = l PROVE w[2] = block[q][j]
    <3>1. PICK r \in B : \E i \in 1 .. Len(block[r]) :
              w = <<place(r, cached[r] + i - 1), block[r][i]>>
      BY <1>6
    <3>2. PICK i \in 1 .. Len(block[r]) : w = <<place(r, cached[r] + i - 1), block[r][i]>>
      BY <3>1
    <3>3. place(q, cached[q] + j - 1) = place(r, cached[r] + i - 1)
      BY <2>1, <2>4, <3>2
    <3>4. q = r /\ cached[q] + j - 1 = cached[r] + i - 1
      BY <1>3, <1>4, <3>3
    <3>5. i = j
      BY <1>2, <3>4
    <3>. QED  BY <3>2, <3>4, <3>5
  <2>5. new[l] = (CHOOSE w \in W : w[1] = l)[2]
    BY <1>1, <2>2, <2>3
  <2>. QED  BY <2>1, <2>2, <2>4, <2>5
<1>8. ASSUME NEW l \in Locations,
             \A q \in B : \A j \in 1 .. Len(block[q]) : place(q, cached[q] + j - 1) # l
      PROVE  new[l] = kv[l]
  <2>1. ~ \E w \in W : w[1] = l
    BY <1>6, <1>8
  <2>. QED  BY <1>1, <2>1
<1>9. ASSUME NEW q \in B, NEW n \in 0 .. cached[q] - 1
      PROVE  new[place(q, n)] = kv[Location(row[q], n)]
  <2>1. n \in 0 .. cached[q] + Len(block[q]) - 1 /\ n < cached[q] /\ n \in Nat /\ cached[q] \in Nat
    BY <1>2
  <2>2. PICK l : l = place(q, n)
    OBVIOUS
  <2>3. l \in Locations /\ l = Location(row[q], n)
    BY <1>4, <2>1, <2>2
  <2>4. ASSUME NEW r \in B, NEW j \in 1 .. Len(block[r]), place(r, cached[r] + j - 1) = l PROVE FALSE
    <3>1. q = r /\ n = cached[r] + j - 1
      BY <1>3, <1>4, <2>1, <2>2, <2>4
    <3>. QED  BY <2>1, <2>4, <3>1
  <2>. QED  BY <1>8, <2>2, <2>3, <2>4
<1>10. ASSUME NEW q \in Requests \ B, NEW n \in 0 .. cached[q] - 1
       PROVE  new[Location(row[q], n)] = kv[Location(row[q], n)]
  <2>1. PICK l : l = Location(row[q], n)
    OBVIOUS
  <2>2. l \in Locations
    <3>1. row[q] \in Seq(Pages) /\ Len(row[q]) = PagesFor(cached[q]) /\ cached[q] \in Nat
      BY DEF Types, PagesOK
    <3>2. PICK k, s : k = cached[q] /\ s = row[q]
      OBVIOUS
    <3>3. k \in Nat /\ n \in Nat /\ n < k /\ s \in Seq(Pages) /\ Len(s) = PagesFor(k)
      BY <3>1, <3>2
    <3>4. (n \div PageSize) + 1 \in 1 .. Len(s)
      BY <3>3, PageIndex
    <3>. QED  BY <2>1, <3>2, <3>3, <3>4, LocationIs
  <2>3. ASSUME NEW r \in B, NEW j \in 1 .. Len(block[r]), place(r, cached[r] + j - 1) = l PROVE FALSE
    <3>1. q # r /\ cached[r] + j - 1 \in 0 .. cached[r] + Len(block[r]) - 1
      BY <1>3
    <3>. QED  BY <1>4, <2>1, <2>3, <3>1
  <2>. QED  BY <1>8, <2>1, <2>2, <2>3
<1>11. new \in [Locations -> Tokens]
  <2>1. ASSUME NEW l \in Locations PROVE new[l] \in Tokens
    <3>1. CASE \E w \in W : w[1] = l
      <4>1. (CHOOSE w \in W : w[1] = l) \in W
        BY <3>1
      <4>2. \A w \in W : w[2] \in Tokens
        BY <1>3, <1>6
      <4>. QED  BY <1>1, <3>1, <4>1, <4>2
    <3>2. CASE ~ \E w \in W : w[1] = l
      BY <1>1, <1>5, <3>2
    <3>. QED  BY <3>1, <3>2
  <2>. QED  BY <1>1, <2>1
<1>. QED  BY <1>7, <1>9, <1>10, <1>11 DEF new, place, B

\* The pages of the first n tokens of a row, and the others.
LEMMA SplitRow ==
    ASSUME NEW rows, NEW q, rows[q] \in Seq(Pages), IsInjective(rows[q]), NEW n \in Nat, NEW m \in Nat,
           n <= m, Len(rows[q]) = PagesFor(m)
    PROVE  /\ KeptPages(q, rows, n) \in Seq(Pages) /\ Dropped(q, rows, n) \in Seq(Pages)
           /\ Len(KeptPages(q, rows, n)) = PagesFor(n)
           /\ \A i \in 1 .. PagesFor(n) : KeptPages(q, rows, n)[i] = rows[q][i]
           /\ IsInjective(KeptPages(q, rows, n)) /\ IsInjective(Dropped(q, rows, n))
           /\ ToSet(rows[q]) = ToSet(KeptPages(q, rows, n)) \cup ToSet(Dropped(q, rows, n))
           /\ ToSet(KeptPages(q, rows, n)) \cap ToSet(Dropped(q, rows, n)) = {}
<1>1. PICK s, k, l : s = rows[q] /\ k = PagesFor(n) /\ l = Len(s)
    OBVIOUS
<1>2. s \in Seq(Pages) /\ IsInjective(s) /\ k \in Nat /\ l \in Nat /\ k <= l
  <2>1. PagesFor(n) \in Nat /\ PagesFor(m) \in Nat /\ PagesFor(n) <= PagesFor(m)
    BY PagesForIs, PagesGrow
  <2>. QED  BY <1>1, <2>1
<1>3. PICK a, b : a = SubSeq(s, 1, k) /\ b = SubSeq(s, k + 1, l)
    OBVIOUS
<1>4. KeptPages(q, rows, n) = a /\ Dropped(q, rows, n) = b
    BY <1>1, <1>3 DEF KeptPages, Dropped
<1>5. /\ a \in Seq(Pages) /\ Len(a) = k /\ IsInjective(a) /\ \A i \in 1 .. k : a[i] = s[i]
      /\ \A x : x \in ToSet(a) <=> \E i \in 1 .. k : x = s[i]
  <2>1. k <= Len(s) /\ 1 <= k + 1 /\ 1 \in Nat
    BY <1>1, <1>2
  <2>2. /\ SubSeq(s, 1, k) \in Seq(Pages) /\ Len(SubSeq(s, 1, k)) = k - 1 + 1
        /\ \A i \in 1 .. k - 1 + 1 : SubSeq(s, 1, k)[i] = s[1 + i - 1]
        /\ \A x : x \in ToSet(SubSeq(s, 1, k)) <=> \E i \in 1 .. k : x = s[i]
        /\ IsInjective(s) => IsInjective(SubSeq(s, 1, k))
    BY <1>2, <2>1, PartIs
  <2>3. k - 1 + 1 = k /\ \A i \in 1 .. k : 1 + i - 1 = i
    BY <1>2
  <2>. QED  BY <1>2, <1>3, <2>2, <2>3
<1>6. /\ b \in Seq(Pages) /\ IsInjective(b)
      /\ \A x : x \in ToSet(b) <=> \E i \in k + 1 .. l : x = s[i]
  <2>1. PICK j : j = k + 1
    OBVIOUS
  <2>2. j \in Nat /\ 1 <= j /\ j <= l + 1 /\ l <= Len(s)
    BY <1>1, <1>2, <2>1
  <2>3. /\ SubSeq(s, j, l) \in Seq(Pages)
        /\ \A x : x \in ToSet(SubSeq(s, j, l)) <=> \E i \in j .. l : x = s[i]
        /\ IsInjective(s) => IsInjective(SubSeq(s, j, l))
    BY <1>2, <2>2, PartIs
  <2>. QED  BY <1>2, <1>3, <2>1, <2>3
<1>7. DOMAIN s = 1 .. l
    BY <1>1, <1>2, LenProperties
<1>8. ToSet(s) = ToSet(a) \cup ToSet(b)
  <2>1. \A i : i \in 1 .. l <=> i \in 1 .. k \/ i \in k + 1 .. l
    BY <1>2
  <2>2. \A x : x \in ToSet(s) <=> \E i \in 1 .. l : x = s[i]
    BY <1>7 DEF ToSet
  <2>. QED  BY <1>5, <1>6, <2>1, <2>2
<1>9. ToSet(a) \cap ToSet(b) = {}
  <2>1. ASSUME NEW i \in 1 .. k, NEW j \in k + 1 .. l, s[i] = s[j] PROVE FALSE
    <3>1. i \in 1 .. l /\ j \in 1 .. l /\ i < j
      BY <1>2
    <3>2. i = j
      BY <1>2, <1>7, <2>1, <3>1 DEF IsInjective
    <3>. QED  BY <3>1, <3>2
  <2>. QED  BY <1>5, <1>6, <2>1
<1>. QED  BY <1>1, <1>4, <1>5, <1>6, <1>8, <1>9

\* What attention reads for a request is cached_len tokens.
LEMMA ContextTypes ==
    ASSUME Types, PagesOK, NEW q \in Requests
    PROVE  /\ Context(q) \in Seq(Tokens) /\ Len(Context(q)) = cached[q]
           /\ \A n \in 1 .. cached[q] : Context(q)[n] = kv[Location(row[q], n - 1)]
<1>1. cached[q] \in Nat /\ row[q] \in Seq(Pages) /\ Len(row[q]) = PagesFor(cached[q])
      /\ kv \in [Locations -> Tokens]
    BY DEF Types, PagesOK
<1>2. PICK k, s : k = cached[q] /\ s = row[q]
    OBVIOUS
<1>3. ASSUME NEW n \in 1 .. k PROVE kv[Location(s, n - 1)] \in Tokens
  <2>1. PICK i : i = n - 1
    OBVIOUS
  <2>2. i \in Nat /\ i < k /\ k \in Nat /\ s \in Seq(Pages) /\ Len(s) = PagesFor(k)
    BY <1>1, <1>2, <2>1
  <2>3. (i \div PageSize) + 1 \in 1 .. Len(s)
    BY <2>2, PageIndex
  <2>4. Location(s, i) \in Locations
    BY <2>2, <2>3, LocationIs
  <2>. QED  BY <1>1, <2>1, <2>4
<1>4. PICK f : f = [n \in 1 .. k |-> kv[Location(s, n - 1)]]
    OBVIOUS
<1>5. f \in [1 .. k -> Tokens] /\ k \in Nat
    BY <1>1, <1>2, <1>3, <1>4
<1>6. f \in Seq(Tokens) /\ Len(f) = k
    BY <1>5, SeqDef, LenProperties
<1>. QED  BY <1>2, <1>4, <1>6 DEF Context

\* What a request of the batch reads after the step, if n tokens are left.
Reading(block, q, n) ==
    [i \in 1 .. n |-> Written(block)[Location(KeptPages(q, RowsFor(block), n), i - 1)]]

\* It is what it read before, and the tokens of its block it was left; any other
\* request reads what it read.
LEMMA ContextAfter ==
    ASSUME Types, PagesOK, NEW block, Batch(block), NEW q \in DOMAIN block,
           NEW t \in 1 .. Len(block[q]), NEW length, length = cached[q] + t
    PROVE  Reading(block, q, length) = Context(q) \o SubSeq(block[q], 1, t)
<1>. DEFINE rows == RowsFor(block)
            pages == KeptPages(q, rows, length)
            new == Written(block)
            more == SubSeq(block[q], 1, t)
            f == [n \in 1 .. length |-> new[Location(pages, n - 1)]]
<1>1. /\ q \in Requests /\ cached[q] \in Nat /\ block[q] \in Seq(Tokens)
      /\ Len(block[q]) \in Nat \ {0}
    BY BlockTypes
<1>2. PICK c, l, m : c = cached[q] /\ l = Len(block[q]) /\ m = cached[q] + Len(block[q])
    OBVIOUS
<1>3. c \in Nat /\ l \in Nat /\ t \in 1 .. l /\ length = c + t /\ m = c + l /\ length \in Nat /\ m \in Nat /\ length <= m
    BY <1>1, <1>2
<1>4. rows[q] \in Seq(Pages) /\ IsInjective(rows[q]) /\ Len(rows[q]) = PagesFor(m)
    BY <1>2, RowsAre
<1>5. \A i \in 1 .. PagesFor(length) : pages[i] = rows[q][i]
  <2>1. PICK r : r = rows
    OBVIOUS
  <2>2. r[q] \in Seq(Pages) /\ IsInjective(r[q]) /\ Len(r[q]) = PagesFor(m)
    BY <1>4, <2>1
  <2>3. \A i \in 1 .. PagesFor(length) : KeptPages(q, r, length)[i] = r[q][i]
    <3>1. PICK n \in Nat, d \in Nat, k \in DOMAIN block : n = length /\ n <= d /\ d = m /\ k = q
      BY <1>3
    <3>2. r[k] \in Seq(Pages) /\ IsInjective(r[k]) /\ Len(r[k]) = PagesFor(d)
      BY <2>2, <3>1
    <3>3. \A i \in 1 .. PagesFor(n) : KeptPages(k, r, n)[i] = r[k][i]
      BY <3>1, <3>2, SplitRow
    <3>. QED  BY <3>1, <3>3
  <2>. QED  BY <2>1, <2>3
<1>6. ASSUME NEW n \in 1 .. length PROVE Location(pages, n - 1) = Location(rows[q], n - 1)
  <2>1. PICK i : i = n - 1
    OBVIOUS
  <2>2. i \in Nat /\ i < length
    BY <1>3, <2>1
  <2>3. (i \div PageSize) + 1 \in 1 .. PagesFor(length)
    BY <1>3, <2>2, PageIndex
  <2>4. pages[(i \div PageSize) + 1] = rows[q][(i \div PageSize) + 1]
    BY <1>5, <2>3
  <2>. QED  BY <2>1, <2>4 DEF Location
<1>7. /\ \A j \in 1 .. l : new[Location(rows[q], c + j - 1)] = block[q][j]
      /\ \A n \in 0 .. c - 1 : new[Location(rows[q], n)] = kv[Location(row[q], n)]
    BY <1>2, WrittenIs
<1>8. /\ Context(q) \in Seq(Tokens) /\ Len(Context(q)) = c
      /\ \A n \in 1 .. c : Context(q)[n] = kv[Location(row[q], n - 1)]
    BY <1>1, <1>2, ContextTypes
<1>9. more \in Seq(Tokens) /\ Len(more) = t /\ \A j \in 1 .. t : more[j] = block[q][j]
  <2>1. t \in Nat /\ t <= Len(block[q]) /\ 1 <= t + 1 /\ 1 \in Nat /\ t - 1 + 1 = t
        /\ \A j \in 1 .. t : 1 + j - 1 = j
    BY <1>2, <1>3
  <2>2. /\ SubSeq(block[q], 1, t) \in Seq(Tokens) /\ Len(SubSeq(block[q], 1, t)) = t - 1 + 1
        /\ \A j \in 1 .. t - 1 + 1 : SubSeq(block[q], 1, t)[j] = block[q][1 + j - 1]
    BY <1>1, <2>1, PartIs
  <2>. QED  BY <2>1, <2>2
<1>. HIDE DEF rows, pages, new, more
<1>10. PICK g, w : g = Context(q) /\ w = g \o more
    OBVIOUS
<1>11. /\ w \in Seq(Tokens) /\ Len(w) = length
       /\ \A n \in 1 .. length : w[n] = IF n <= c THEN Context(q)[n] ELSE more[n - c]
  <2>1. g \in Seq(Tokens) /\ Len(g) = c
    BY <1>8, <1>10
  <2>2. /\ w \in Seq(Tokens) /\ Len(w) = Len(g) + Len(more)
        /\ \A n \in 1 .. Len(g) + Len(more) : w[n] = IF n <= Len(g) THEN g[n] ELSE more[n - Len(g)]
    BY <1>9, <1>10, <2>1, ConcatProperties
  <2>. QED  BY <1>3, <1>9, <1>10, <2>1, <2>2
<1>12. ASSUME NEW n \in 1 .. length PROVE f[n] = w[n]
  <2>1. f[n] = new[Location(rows[q], n - 1)]
    BY <1>6
  <2>2. CASE n <= c
    <3>1. n - 1 \in 0 .. c - 1 /\ n \in 1 .. c
      BY <1>3, <2>2
    <3>. QED  BY <1>7, <1>8, <1>11, <2>1, <2>2, <3>1
  <2>3. CASE ~(n <= c)
    <3>1. PICK j : j = n - c
      OBVIOUS
    <3>2. j \in 1 .. t /\ j \in 1 .. l /\ c + j - 1 = n - 1
      BY <1>3, <2>3, <3>1
    <3>3. new[Location(rows[q], c + j - 1)] = block[q][j]
      BY <1>7, <3>2
    <3>. QED  BY <1>9, <1>11, <2>1, <2>3, <3>1, <3>2, <3>3
  <2>. QED  BY <2>2, <2>3
<1>13. f \in Seq(Tokens) /\ Len(f) = length
  <2>1. \A n \in 1 .. length : f[n] \in Tokens
    BY <1>11, <1>12, ElementOfSeq
  <2>2. f \in [1 .. length -> Tokens]
    BY <2>1
  <2>. HIDE DEF f
  <2>. QED  BY <1>3, <2>2, SeqDef, LenProperties
<1>14. f = w
  <2>. HIDE DEF f
  <2>. QED  BY <1>11, <1>12, <1>13, SeqEqual
<1>. QED  BY <1>10, <1>14 DEF rows, pages, new, more, Reading

\* A forward changes nothing of what attention reads for who is not of the batch.
LEMMA ContextElse ==
    ASSUME Types, PagesOK, NEW block, Batch(block), NEW q \in Requests \ DOMAIN block
    PROVE  [n \in 1 .. cached[q] |-> Written(block)[Location(row[q], n - 1)]] = Context(q)
<1>1. \A n \in 0 .. cached[q] - 1 :
          Written(block)[Location(row[q], n)] = kv[Location(row[q], n)]
    BY WrittenIs
<1>2. cached[q] \in Nat
    BY DEF Types
<1>3. ASSUME NEW n \in 1 .. cached[q]
      PROVE  Written(block)[Location(row[q], n - 1)] = kv[Location(row[q], n - 1)]
  <2>1. n - 1 \in 0 .. cached[q] - 1
    BY <1>2
  <2>. QED  BY <1>1, <2>1
<1>. QED  BY <1>3 DEF Context

----------------------------------------------------------------------------
(* The end of a step.                                                      *)

\* What a forward may give: tokens for each request of the batch, and cached_len
\* over as much of its block as those tokens follow.
Results(block, kept, length) ==
    /\ Batch(block) /\ DOMAIN kept = DOMAIN block
    /\ \A q \in DOMAIN block :
          /\ kept[q] \in Seq(Tokens) /\ kept[q] # << >>
          /\ Len(text[q] \o kept[q]) <= Limit(q)
          /\ \E t \in 1 .. Len(block[q]) :
                /\ length[q] = cached[q] + t
                /\ Context(q) \o SubSeq(block[q], 1, t) = Front(text[q] \o kept[q])

\* cached_len stays within the block after a step.
LEMMA LengthIs ==
    ASSUME Types, NEW block, NEW kept, NEW length, Results(block, kept, length),
           NEW q \in DOMAIN block
    PROVE  length[q] \in Nat /\ length[q] <= cached[q] + Len(block[q])
<1>1. PICK t \in 1 .. Len(block[q]) : length[q] = cached[q] + t
    BY DEF Results
<1>2. cached[q] \in Nat /\ Len(block[q]) \in Nat
    BY BlockTypes DEF Results
<1>. QED  BY <1>1, <1>2

\* The pages of the batch are given back or stay.
LEMMA CommitPages ==
    ASSUME Types, PagesOK, NEW block, NEW kept, NEW length, NEW state, NEW thinks, NEW tools,
           Results(block, kept, length), Commit(block, kept, length, state, thinks, tools)
    PROVE  PagesOK' /\ free' \in Seq(Pages) /\ row' \in [Requests -> Seq(Pages)]
           /\ cached' \in [Requests -> Nat]
<1>. DEFINE batch == DOMAIN block
            over == Over(kept, length)
            rows == RowsFor(block)
            stay == [q \in batch |-> KeptPages(q, rows, length[q])]
            drop == [q \in batch |-> Dropped(q, rows, length[q])]
            rest == FreeAfter(block)
            dropped == InOrder(batch, drop)
            done == InOrder(over, stay)
<1>1. Batch(block) /\ batch \subseteq Requests /\ over \subseteq batch
    BY DEF Results, Batch, Over
<1>2. \A q \in Requests :
          /\ q \in over => row'[q] = << >> /\ cached'[q] = 0
          /\ q \in batch \ over => row'[q] = stay[q] /\ cached'[q] = length[q]
          /\ q \notin batch => row'[q] = row[q] /\ cached'[q] = cached[q]
  <2>1. row' = [q \in Requests |-> IF q \in over THEN << >> ELSE IF q \in batch THEN stay[q] ELSE row[q]]
    BY DEF Commit
  <2>2. cached' = [q \in Requests |-> IF q \in over THEN 0 ELSE IF q \in batch THEN length[q] ELSE cached[q]]
    BY DEF Commit
  <2>. HIDE DEF batch, over, stay
  <2>. QED  BY <1>1, <2>1, <2>2
<1>3. DOMAIN row' = Requests /\ DOMAIN cached' = Requests
      /\ row' = [q \in Requests |-> row'[q]] /\ cached' = [q \in Requests |-> cached'[q]]
    BY DEF Commit
<1>4. free' = rest \o dropped \o done
    BY DEF Commit
<1>5. ASSUME NEW q \in batch
      PROVE  /\ stay[q] \in Seq(Pages) /\ drop[q] \in Seq(Pages) /\ Len(stay[q]) = PagesFor(length[q])
             /\ length[q] \in Nat /\ IsInjective(stay[q]) /\ IsInjective(drop[q])
             /\ ToSet(rows[q]) = ToSet(stay[q]) \cup ToSet(drop[q])
             /\ ToSet(stay[q]) \cap ToSet(drop[q]) = {} /\ ToSet(row[q]) \subseteq ToSet(rows[q])
  <2>1. PICK n, m, r : n = length[q] /\ m = cached[q] + Len(block[q]) /\ r = rows
    OBVIOUS
  <2>2. n \in Nat /\ n <= m
    BY <2>1, LengthIs
  <2>3. m \in Nat
    BY <1>1, <2>1, BlockTypes
  <2>4. r[q] \in Seq(Pages) /\ IsInjective(r[q]) /\ Len(r[q]) = PagesFor(m)
        /\ ToSet(row[q]) \subseteq ToSet(r[q])
    <3>1. RowsFor(block)[q] \in Seq(Pages) /\ IsInjective(RowsFor(block)[q])
      BY <1>1, RowsAre
    <3>2. Len(RowsFor(block)[q]) = PagesFor(cached[q] + Len(block[q]))
      BY <1>1, RowsAre
    <3>3. ToSet(RowsFor(block)[q]) = ToSet(row[q]) \cup Share(block, q)
      BY <1>1, RowsAre
    <3>4. r[q] = RowsFor(block)[q]
      BY <2>1
    <3>. QED  BY <2>1, <3>1, <3>2, <3>3, <3>4
  <2>. HIDE DEF stay, drop, rows, rest, dropped, done, over
  <2>5. /\ KeptPages(q, r, n) \in Seq(Pages) /\ Dropped(q, r, n) \in Seq(Pages)
        /\ Len(KeptPages(q, r, n)) = PagesFor(n)
        /\ IsInjective(KeptPages(q, r, n)) /\ IsInjective(Dropped(q, r, n))
        /\ ToSet(r[q]) = ToSet(KeptPages(q, r, n)) \cup ToSet(Dropped(q, r, n))
        /\ ToSet(KeptPages(q, r, n)) \cap ToSet(Dropped(q, r, n)) = {}
    <3>1. /\ r[q] \in Seq(Pages) /\ IsInjective(r[q]) /\ n \in Nat /\ m \in Nat
          /\ n <= m /\ Len(r[q]) = PagesFor(m)
      BY <2>2, <2>3, <2>4
    <3>. QED  BY <3>1, SplitRow
  <2>6. stay[q] = KeptPages(q, r, n) /\ drop[q] = Dropped(q, r, n)
    BY <2>1 DEF stay, drop, rows
  <2>. QED  BY <2>1, <2>2, <2>4, <2>5, <2>6
<1>6. /\ rest \in Seq(Pages) /\ IsInjective(rest)
      /\ \A q \in batch : ToSet(rows[q]) \cap ToSet(rest) = {}
      /\ \A q, r \in batch : q # r => ToSet(rows[q]) \cap ToSet(rows[r]) = {}
      /\ \A q \in batch : \A r \in Requests : q # r => ToSet(rows[q]) \cap ToSet(row[r]) = {}
      /\ \A r \in Requests : ToSet(row[r]) \cap ToSet(rest) = {}
      /\ \A p \in ToSet(free) : p \in ToSet(rest) \/ \E q \in batch : p \in ToSet(rows[q])
    BY <1>1, PagesDealt
<1>7. batch \subseteq Nat /\ IsFiniteSet(batch) /\ over \subseteq Nat /\ IsFiniteSet(over)
    BY <1>1, SpecAssumption, FS_Subset
<1>8. /\ \A q \in Requests : /\ IsInjective(row[q]) /\ Len(row[q]) = PagesFor(cached[q])
                             /\ row[q] \in Seq(Pages) /\ cached[q] \in Nat
      /\ \A q, r \in Requests : q # r => ToSet(row[q]) \cap ToSet(row[r]) = {}
      /\ \A p \in Pages : p \in ToSet(free) \/ \E q \in Requests : p \in ToSet(row[q])
    BY DEF Types, PagesOK
<1>. HIDE DEF batch, over, rows, stay, drop, rest
<1>9. /\ dropped \in Seq(Pages) /\ \A x : x \in ToSet(dropped) <=> \E q \in batch : x \in ToSet(drop[q])
      /\ IsInjective(dropped)
  <2>1. \A q \in batch : drop[q] \in Seq(Pages)
    BY <1>5
  <2>2. PICK z : z = [q \in batch |-> Len(drop[q])]
    OBVIOUS
  <2>3. Joined(Pages, batch, drop, dropped, z)
    BY <1>7, <2>1, <2>2, InOrderIs
  <2>4. /\ \A q \in batch : IsInjective(drop[q])
        /\ \A q, r \in batch : q # r => ToSet(drop[q]) \cap ToSet(drop[r]) = {}
    BY <1>5, <1>6
  <2>. HIDE DEF dropped
  <2>. QED  BY <2>3, <2>4 DEF Joined
<1>10. /\ done \in Seq(Pages) /\ \A x : x \in ToSet(done) <=> \E q \in over : x \in ToSet(stay[q])
       /\ IsInjective(done)
  <2>1. \A q \in over : stay[q] \in Seq(Pages)
    BY <1>1, <1>5
  <2>2. PICK z : z = [q \in over |-> Len(stay[q])]
    OBVIOUS
  <2>3. Joined(Pages, over, stay, done, z)
    BY <1>7, <2>1, <2>2, InOrderIs
  <2>4. /\ \A q \in over : IsInjective(stay[q])
        /\ \A q, r \in over : q # r => ToSet(stay[q]) \cap ToSet(stay[r]) = {}
    BY <1>1, <1>5, <1>6
  <2>. HIDE DEF done
  <2>. QED  BY <2>3, <2>4 DEF Joined
<1>. HIDE DEF dropped, done
<1>11. PICK f, g : f = rest \o dropped /\ g = f \o done
    OBVIOUS
<1>12. /\ f \in Seq(Pages) /\ IsInjective(f) /\ ToSet(f) = ToSet(rest) \cup ToSet(dropped)
  <2>1. ToSet(rest) \cap ToSet(dropped) = {}
    BY <1>5, <1>6, <1>9
  <2>2. rest \o dropped \in Seq(Pages)
    BY <1>6, <1>9, ConcatProperties
  <2>. QED  BY <1>6, <1>9, <1>11, <2>1, <2>2, ConcatElements
<1>13. g \in Seq(Pages) /\ IsInjective(g) /\ ToSet(g) = ToSet(rest) \cup ToSet(dropped) \cup ToSet(done)
  <2>1. ToSet(f) \cap ToSet(done) = {}
    <3>1. ASSUME NEW q \in over PROVE ToSet(stay[q]) \cap ToSet(rest) = {}
      BY <1>1, <1>5, <1>6
    <3>2. ASSUME NEW q \in over, NEW r \in batch PROVE ToSet(stay[q]) \cap ToSet(drop[r]) = {}
      <4>1. CASE q = r
        BY <1>5, <4>1
      <4>2. CASE q # r
        BY <1>1, <1>5, <1>6, <4>2
      <4>. QED  BY <4>1, <4>2
    <3>. QED  BY <1>9, <1>10, <1>12, <3>1, <3>2
  <2>2. f \o done \in Seq(Pages)
    BY <1>10, <1>12, ConcatProperties
  <2>3. PICK h : h = done
    OBVIOUS
  <2>4. f \in Seq(Pages) /\ h \in Seq(Pages) /\ IsInjective(f) /\ IsInjective(h) /\ ToSet(f) \cap ToSet(h) = {}
    BY <1>10, <1>12, <2>1, <2>3
  <2>5. ToSet(f \o h) = ToSet(f) \cup ToSet(h) /\ IsInjective(f \o h)
    BY <2>4, ConcatElements
  <2>. QED  BY <1>11, <1>12, <2>2, <2>3, <2>5
<1>14. free' = g
    BY <1>4, <1>11
<1>15. \A q \in Requests : ToSet(row'[q]) \subseteq ToSet(row[q]) \/ (q \in batch /\ ToSet(row'[q]) \subseteq ToSet(rows[q]))
  <2>1. ToSet(<< >>) = {}
    BY DEF ToSet
  <2>. QED  BY <1>2, <1>5, <2>1
<1>16. ASSUME NEW q \in Requests
       PROVE  /\ IsInjective(row'[q]) /\ Len(row'[q]) = PagesFor(cached'[q])
              /\ row'[q] \in Seq(Pages) /\ cached'[q] \in Nat
              /\ ToSet(row'[q]) \cap ToSet(free') = {}
  <2>1. CASE q \in over
    <3>1. row'[q] = << >> /\ cached'[q] = 0
      BY <1>2, <2>1
    <3>2. IsInjective(<< >>) /\ Len(<< >>) = 0 /\ << >> \in Seq(Pages) /\ ToSet(<< >>) = {}
      BY DEF IsInjective, ToSet
    <3>. QED  BY <3>1, <3>2, PagesForNone
  <2>2. CASE q \in batch \ over
    <3>1. row'[q] = stay[q] /\ cached'[q] = length[q]
      BY <1>2, <2>2
    <3>2. ToSet(stay[q]) \cap ToSet(rest) = {}
      BY <1>5, <1>6, <2>2
    <3>3. ASSUME NEW r \in batch PROVE ToSet(stay[q]) \cap ToSet(drop[r]) = {}
      <4>1. CASE q = r
        BY <1>5, <4>1
      <4>2. CASE q # r
        BY <1>5, <1>6, <2>2, <4>2
      <4>. QED  BY <4>1, <4>2
    <3>4. ASSUME NEW r \in over PROVE ToSet(stay[q]) \cap ToSet(stay[r]) = {}
      <4>1. q # r /\ r \in batch
        BY <1>1, <2>2
      <4>. QED  BY <1>5, <1>6, <2>2, <4>1
    <3>5. ToSet(stay[q]) \cap ToSet(g) = {}
      BY <1>9, <1>10, <1>13, <3>2, <3>3, <3>4
    <3>. QED  BY <1>5, <1>14, <2>2, <3>1, <3>5
  <2>3. CASE q \notin batch
    <3>1. row'[q] = row[q] /\ cached'[q] = cached[q]
      BY <1>2, <2>3
    <3>2. ASSUME NEW r \in batch PROVE ToSet(row[q]) \cap ToSet(drop[r]) = {} /\ ToSet(row[q]) \cap ToSet(stay[r]) = {}
      BY <1>5, <1>6, <2>3
    <3>3. ToSet(row[q]) \cap ToSet(g) = {}
      BY <1>1, <1>6, <1>9, <1>10, <1>13, <3>2
    <3>. QED  BY <1>8, <1>14, <3>1, <3>3
  <2>. QED  BY <2>1, <2>2, <2>3
<1>17. ASSUME NEW q \in Requests, NEW r \in Requests, q # r PROVE ToSet(row'[q]) \cap ToSet(row'[r]) = {}
    BY <1>6, <1>8, <1>15, <1>17
<1>18. ASSUME NEW p \in Pages PROVE p \in ToSet(free') \/ \E q \in Requests : p \in ToSet(row'[q])
  <2>1. CASE p \in ToSet(rest)
    BY <1>13, <1>14, <2>1
  <2>2. ASSUME NEW q \in batch, p \in ToSet(rows[q])
        PROVE  p \in ToSet(free') \/ \E r \in Requests : p \in ToSet(row'[r])
    <3>1. CASE p \in ToSet(drop[q])
      BY <1>9, <1>13, <1>14, <3>1
    <3>2. CASE p \in ToSet(stay[q]) /\ q \in over
      BY <1>10, <1>13, <1>14, <3>2
    <3>3. CASE p \in ToSet(stay[q]) /\ q \notin over
      BY <1>1, <1>2, <3>3
    <3>. QED  BY <1>5, <2>2, <3>1, <3>2, <3>3
  <2>3. ASSUME NEW q \in Requests, p \in ToSet(row[q]), q \notin batch
        PROVE  \E r \in Requests : p \in ToSet(row'[r])
    BY <1>2, <2>3
  <2>4. \A q \in batch : ToSet(row[q]) \subseteq ToSet(rows[q])
    BY <1>5
  <2>. QED  BY <1>6, <1>8, <2>1, <2>2, <2>3, <2>4
<1>19. PagesOK'
    BY <1>13, <1>14, <1>16, <1>17, <1>18 DEF PagesOK, Pages
<1>20. row' \in [Requests -> Seq(Pages)] /\ cached' \in [Requests -> Nat]
    BY <1>3, <1>16
<1>. QED  BY <1>13, <1>14, <1>19, <1>20

\* What a forward leaves in the recurrent slots and the gates of its batch.
Outcome(kept, length, state, thinks, tools) ==
    \A q \in DOMAIN kept :
       LET read == Front(text[q] \o kept[q])
       IN  /\ thinks[q] \in Gates
           /\ (q \notin Thinks => thinks[q] = Off) /\ (q \notin HasTools => tools[q] = Off)
           /\ RollsBack(server) /\ q \notin Over(kept, length)
                  => state[q] = [conv |-> read, ssm |-> read]
           /\ AlwaysOnRing(server) /\ q \in Over(kept, length) => state[q].ssm = read

\* A text and the tokens that are kept.
LEMMA JoinIs ==
    ASSUME NEW s \in Seq(Tokens), NEW t \in Seq(Tokens), t # << >>
    PROVE  /\ s \o t \in Seq(Tokens) /\ s \o t # << >> /\ Last(s \o t) = Last(t)
           /\ Len(s \o t) = Len(s) + Len(t) /\ Len(t) \in Nat \ {0} /\ Len(s) \in Nat
           /\ Front(s \o t) \in Seq(Tokens) /\ Len(Front(s \o t)) = Len(s \o t) - 1
           /\ Front(s \o t) = SubSeq(s \o t, 1, Len(s \o t) - 1)
<1>1. Len(s) \in Nat /\ Len(t) \in Nat \ {0}
    BY EmptySeq, LenProperties
<1>2. PICK w : w = s \o t
    OBVIOUS
<1>3. /\ w \in Seq(Tokens) /\ Len(w) = Len(s) + Len(t)
      /\ \A i \in 1 .. Len(s) + Len(t) : w[i] = IF i <= Len(s) THEN s[i] ELSE t[i - Len(s)]
    BY <1>2, ConcatProperties
<1>4. w[Len(w)] = t[Len(t)]
  <2>1. Len(w) \in 1 .. Len(s) + Len(t) /\ ~(Len(w) <= Len(s)) /\ Len(w) - Len(s) = Len(t)
    BY <1>1, <1>3
  <2>. QED  BY <1>3, <2>1
<1>5. w # << >>
  <2>1. Len(w) # 0
    BY <1>1, <1>3
  <2>. QED  BY <2>1, EmptySeq
<1>6. PICK k : k = Len(w) - 1
    OBVIOUS
<1>7. k \in Nat /\ k <= Len(w) /\ 1 <= k + 1 /\ 1 \in Nat /\ k - 1 + 1 = k
    BY <1>1, <1>3, <1>6
<1>8. SubSeq(w, 1, k) \in Seq(Tokens) /\ Len(SubSeq(w, 1, k)) = k - 1 + 1
    BY <1>3, <1>7, PartIs
<1>9. Front(w) = SubSeq(w, 1, k)
    BY <1>6 DEF Front
<1>. QED  BY <1>1, <1>2, <1>3, <1>4, <1>5, <1>6, <1>7, <1>8, <1>9 DEF Last

\* A snapshot of nothing is exact.
LEMMA NoneLeft == \A t : NoSnap.state.ssm = SubSeq(t, 1, NoSnap.len)
<1>1. NoSnap.state.ssm = << >> /\ NoSnap.len = 0
    BY DEF NoSnap, NoState
<1>2. \A t : SubSeq(t, 1, 0) = << >>
    BY SubSeqEmpty, 1 \in Int, 0 \in Int, 0 < 1
<1>. QED  BY <1>1, <1>2

\* The text of a request of the batch with what is kept for it.
Joins(block, kept, length, q) ==
    /\ q \in Requests /\ text[q] \in Seq(Tokens) /\ kept[q] \in Seq(Tokens) /\ kept[q] # << >>
    /\ text[q] \o kept[q] \in Seq(Tokens) /\ text[q] \o kept[q] # << >>
    /\ Last(text[q] \o kept[q]) = Last(kept[q]) /\ Last(kept[q]) \in Tokens
    /\ Front(text[q] \o kept[q]) = SubSeq(text[q] \o kept[q], 1, length[q])
    /\ length[q] \in Nat /\ Len(text[q] \o kept[q]) = length[q] + 1
    /\ Len(text[q] \o kept[q]) <= Limit(q)
    /\ Reading(block, q, length[q]) = Front(text[q] \o kept[q])

\* The results of a forward join the texts of its batch.
LEMMA JoinedIs ==
    ASSUME Types, PagesOK, NEW block, NEW kept, NEW length, Results(block, kept, length),
           NEW q \in DOMAIN block
    PROVE  Joins(block, kept, length, q)
<1>. DEFINE w(r) == text[r] \o kept[r]
<1>0. Batch(block) /\ DOMAIN block \subseteq Requests
    BY DEF Results, Batch
<1>1. q \in Requests /\ text[q] \in Seq(Tokens) /\ kept[q] \in Seq(Tokens) /\ kept[q] # << >>
      /\ Len(w(q)) <= Limit(q)
  BY <1>0 DEF Types, Results
<1>2. PICK s, r : s = text[q] /\ r = kept[q]
  OBVIOUS
<1>3. /\ s \o r \in Seq(Tokens) /\ s \o r # << >> /\ Last(s \o r) = Last(r)
      /\ Len(r) \in Nat \ {0} /\ Len(s \o r) = Len(s) + Len(r) /\ Len(s) \in Nat
      /\ Len(Front(s \o r)) = Len(s \o r) - 1
      /\ Front(s \o r) = SubSeq(s \o r, 1, Len(s \o r) - 1)
  BY <1>1, <1>2, JoinIs
<1>4. Last(r) \in Tokens
  <2>1. Len(r) \in 1 .. Len(r) /\ r \in Seq(Tokens)
    BY <1>1, <1>2, <1>3
  <2>. QED  BY <2>1, ElementOfSeq DEF Last
<1>5. PICK t \in 1 .. Len(block[q]) :
          length[q] = cached[q] + t /\ Context(q) \o SubSeq(block[q], 1, t) = Front(w(q))
  BY DEF Results
<1>6. cached[q] \in Nat /\ block[q] \in Seq(Tokens) /\ Len(block[q]) \in Nat \ {0}
  BY <1>0, BlockTypes
<1>7. length[q] \in Nat
  BY <1>5, <1>6
<1>8. Len(w(q)) = length[q] + 1
  <2>1. PICK c, d : c = Context(q) /\ d = SubSeq(block[q], 1, t)
    OBVIOUS
  <2>2. c \in Seq(Tokens) /\ Len(c) = cached[q]
    BY <1>1, <2>1, ContextTypes
  <2>3. d \in Seq(Tokens) /\ Len(d) = t
    BY <1>5, <1>6, <2>1, PrefixOfPrefix
  <2>4. Len(c \o d) = Len(c) + Len(d)
    BY <2>2, <2>3, ConcatProperties
  <2>5. Len(Front(s \o r)) = length[q]
    BY <1>2, <1>5, <2>1, <2>2, <2>3, <2>4
  <2>6. PICK x : x = s \o r
    OBVIOUS
  <2>7. w(q) = x
    BY <1>2, <2>6
  <2>8. PICK n, l : n = length[q] /\ l = Len(x)
    OBVIOUS
  <2>9. l = Len(s) + Len(r) /\ l - 1 = n
    BY <1>3, <2>5, <2>6, <2>8
  <2>10. l = n + 1
    BY <1>3, <2>9
  <2>. QED  BY <2>7, <2>8, <2>10
<1>9. Reading(block, q, length[q]) = Front(w(q))
  <2>1. PICK l : l = length[q]
    OBVIOUS
  <2>2. Reading(block, q, l) = Context(q) \o SubSeq(block[q], 1, t)
    BY <1>0, <1>5, <2>1, ContextAfter
  <2>. QED  BY <1>5, <2>1, <2>2
<1>10. /\ w(q) \in Seq(Tokens) /\ w(q) # << >> /\ Last(w(q)) = Last(kept[q])
       /\ Last(kept[q]) \in Tokens /\ Front(w(q)) = SubSeq(w(q), 1, Len(w(q)) - 1)
  BY <1>2, <1>3, <1>4
<1>11. Front(w(q)) = SubSeq(w(q), 1, length[q])
  <2>1. PICK n, l : n = length[q] /\ l = Len(w(q))
    OBVIOUS
  <2>2. l - 1 = n
    BY <1>7, <1>8, <2>1
  <2>. QED  BY <1>10, <2>1, <2>2
<1>. QED  BY <1>1, <1>7, <1>8, <1>9, <1>10, <1>11 DEF Joins

\* A step keeps what holds between two steps, if what is committed is what the
\* caches have read and one token more.
LEMMA CommitKeeps ==
    ASSUME Types, Idle, PagesOK, Following, Snapped,
           NEW block, NEW kept, NEW length, NEW state, NEW thinks, NEW tools,
           Results(block, kept, length), Outcome(kept, length, state, thinks, tools),
           Commit(block, kept, length, state, thinks, tools),
           \A q \in DOMAIN block : stage[q] \in {"waiting", "running"},
           UNCHANGED <<server, up>>, queue' \in Seq(Requests), IsInjective(queue'),
           ToSet(queue') = ToSet(queue) \ DOMAIN block
    PROVE  Types' /\ Idle' /\ PagesOK' /\ Following' /\ Snapped'
<1>. DEFINE batch == DOMAIN block
            over == Over(kept, length)
            w(q) == text[q] \o kept[q]
<1>1. Batch(block) /\ batch \subseteq Requests /\ over \subseteq batch /\ DOMAIN kept = batch
    BY DEF Results, Batch, Over
<1>2. \A q \in Requests :
          /\ q \in over => /\ stage'[q] = "done" /\ cached'[q] = 0 /\ device'[q] = 0
                           /\ row'[q] = << >> /\ rec'[q] = NoState /\ think'[q] = Off
                           /\ tool'[q] = Off /\ snap'[q] = SnapshotOf(length[q], state[q])
          /\ q \in batch \ over =>
                           /\ stage'[q] = "running" /\ cached'[q] = length[q]
                           /\ device'[q] = length[q] + 1
                           /\ row'[q] = KeptPages(q, RowsFor(block), length[q])
                           /\ rec'[q] = state[q] /\ think'[q] = thinks[q] /\ tool'[q] = tools[q]
                           /\ snap'[q] = snap[q]
          /\ q \in batch => text'[q] = w(q) /\ input'[q] = Last(kept[q])
          /\ q \notin batch => /\ stage'[q] = stage[q] /\ cached'[q] = cached[q]
                               /\ device'[q] = device[q] /\ row'[q] = row[q] /\ rec'[q] = rec[q]
                               /\ think'[q] = think[q] /\ tool'[q] = tool[q] /\ snap'[q] = snap[q]
                               /\ text'[q] = text[q] /\ input'[q] = input[q]
  <2>. DEFINE stay == [q \in batch |-> KeptPages(q, RowsFor(block), length[q])]
              set(f, g, gone) == [q \in Requests |->
                  IF q \in over THEN gone ELSE IF q \in batch THEN g[q] ELSE f[q]]
              device1 == [q \in batch |-> length[q] + 1]
  <2>1. /\ stage' = [q \in Requests |->
              IF q \in over THEN "done" ELSE IF q \in batch THEN "running" ELSE stage[q]]
        /\ text' = [q \in Requests |-> IF q \in batch THEN w(q) ELSE text[q]]
        /\ input' = [q \in Requests |-> IF q \in batch THEN Last(kept[q]) ELSE input[q]]
        /\ snap' = [q \in Requests |->
              IF q \in over THEN SnapshotOf(length[q], state[q]) ELSE snap[q]]
    BY DEF Commit
  <2>2. /\ cached' = set(cached, length, 0)
        /\ device' = set(device, device1, 0)
        /\ row' = set(row, stay, << >>)
        /\ rec' = set(rec, state, NoState)
        /\ think' = set(think, thinks, Off) /\ tool' = set(tool, tools, Off)
    BY DEF Commit
  <2>3. \A q \in batch : stay[q] = KeptPages(q, RowsFor(block), length[q])
                         /\ device1[q] = length[q] + 1
    OBVIOUS
  <2>. HIDE DEF batch, over, stay, device1, w
  <2>. QED  BY <1>1, <2>1, <2>2, <2>3
<1>3. /\ stage' = [q \in Requests |-> stage'[q]] /\ text' = [q \in Requests |-> text'[q]]
      /\ input' = [q \in Requests |-> input'[q]] /\ snap' = [q \in Requests |-> snap'[q]]
      /\ device' = [q \in Requests |-> device'[q]] /\ rec' = [q \in Requests |-> rec'[q]]
      /\ think' = [q \in Requests |-> think'[q]] /\ tool' = [q \in Requests |-> tool'[q]]
    BY DEF Commit
<1>4. kv' = Written(block)
    BY DEF Commit
<1>5. PagesOK' /\ free' \in Seq(Pages) /\ row' \in [Requests -> Seq(Pages)] /\ cached' \in [Requests -> Nat]
    BY CommitPages
<1>6. ASSUME NEW q \in batch
      PROVE  /\ text[q] \in Seq(Tokens) /\ kept[q] \in Seq(Tokens) /\ kept[q] # << >>
             /\ w(q) \in Seq(Tokens) /\ w(q) # << >> /\ Last(w(q)) = Last(kept[q])
             /\ Last(kept[q]) \in Tokens
             /\ Front(w(q)) = SubSeq(w(q), 1, length[q])
             /\ length[q] \in Nat /\ Len(w(q)) = length[q] + 1 /\ Len(w(q)) <= Limit(q)
             /\ Reading(block, q, length[q]) = Front(w(q))
  <2>1. Joins(block, kept, length, q)
    BY JoinedIs
  <2>. QED  BY <2>1 DEF Joins
<1>7. \A q \in batch : /\ q \notin over => length[q] + 1 < Limit(q)
                       /\ Limit(q) \in Nat
  <2>1. ASSUME NEW q \in batch PROVE Limit(q) \in Nat
    <3>1. q \in Requests /\ Prompt[q] \in Seq(Tokens) /\ MaxTokens[q] \in Nat
      BY <1>1, SpecAssumption
    <3>. QED  BY <3>1, LenProperties DEF Limit
  <2>2. ASSUME NEW q \in batch, q \notin over PROVE length[q] + 1 < Limit(q)
    <3>1. ~(length[q] + 1 >= Limit(q))
      BY <1>1, <2>2 DEF Over
    <3>2. length[q] \in Nat
      BY <1>6, <2>2
    <3>3. PICK a, b : a = length[q] /\ b = Limit(q)
      OBVIOUS
    <3>4. a \in Nat /\ b \in Nat /\ ~(a + 1 >= b)
      BY <2>1, <3>1, <3>2, <3>3
    <3>5. a + 1 < b
      BY <3>4
    <3>. QED  BY <3>3, <3>5
  <2>. QED  BY <2>1, <2>2
<1>8. ASSUME NEW q \in batch
      PROVE  /\ thinks[q] \in Gates
             /\ (q \notin Thinks => thinks[q] = Off) /\ (q \notin HasTools => tools[q] = Off)
             /\ RollsBack(server) /\ q \notin over
                    => state[q] = [conv |-> Front(w(q)), ssm |-> Front(w(q))]
             /\ AlwaysOnRing(server) /\ q \in over => state[q].ssm = Front(w(q))
    BY <1>1 DEF Outcome
<1>9. stage \in [Requests -> {"new", "waiting", "running", "done"}]
      /\ \A q \in batch : stage[q] \in {"waiting", "running"}
    BY DEF Types
<1>. HIDE DEF batch, over, w
<1>10. Types'
  <2>1. stage' \in [Requests -> {"new", "waiting", "running", "done"}]
    <3>1. \A q \in Requests : stage'[q] \in {"new", "waiting", "running", "done"}
      BY <1>2, <1>9
    <3>. QED  BY <1>3, <3>1
  <2>2. text' \in [Requests -> Seq(Tokens) \ {<< >>}] /\ input' \in [Requests -> Tokens]
    <3>1. text \in [Requests -> Seq(Tokens) \ {<< >>}] /\ input \in [Requests -> Tokens]
      BY DEF Types
    <3>2. \A q \in Requests : text'[q] \in Seq(Tokens) \ {<< >>} /\ input'[q] \in Tokens
      BY <1>2, <1>6, <3>1
    <3>. QED  BY <1>3, <3>2
  <2>3. device' \in [Requests -> Nat]
    <3>1. device \in [Requests -> Nat]
      BY DEF Types
    <3>2. \A q \in batch : length[q] + 1 \in Nat
      BY <1>6
    <3>3. \A q \in Requests : device'[q] \in Nat
      BY <1>2, <3>1, <3>2
    <3>. QED  BY <1>3, <3>3
  <2>4. think' \in [Requests -> Gates]
        /\ \A q \in Requests : (q \notin Thinks => think'[q] = Off) /\ (q \notin HasTools => tool'[q] = Off)
    <3>1. think \in [Requests -> Gates] /\ Off \in Gates
          /\ \A q \in Requests : (q \notin Thinks => think[q] = Off) /\ (q \notin HasTools => tool[q] = Off)
      BY DEF Types, Gates
    <3>2. \A q \in Requests : think'[q] \in Gates /\ (q \notin Thinks => think'[q] = Off)
                              /\ (q \notin HasTools => tool'[q] = Off)
      <4>1. ASSUME NEW q \in Requests
            PROVE  think'[q] \in Gates /\ (q \notin Thinks => think'[q] = Off)
                   /\ (q \notin HasTools => tool'[q] = Off)
        <5>1. CASE q \in over
          BY <1>2, <3>1, <5>1
        <5>2. CASE q \in batch /\ q \notin over
          <6>1. think'[q] = thinks[q] /\ tool'[q] = tools[q]
            BY <1>2, <5>2
          <6>. QED  BY <1>8, <5>2, <6>1
        <5>3. CASE q \notin batch
          <6>1. think'[q] = think[q] /\ tool'[q] = tool[q]
            BY <1>2, <5>3
          <6>. QED  BY <3>1, <6>1
        <5>. QED  BY <5>1, <5>2, <5>3
      <4>. QED  BY <4>1
    <3>. QED  BY <1>3, <3>2
  <2>5. kv' \in [Locations -> Tokens]
    BY <1>1, <1>4, WrittenIs
  <2>6. server' \in Servers /\ up' \in BOOLEAN /\ queue' \in Seq(Requests)
    BY DEF Types
  <2>7. rec' = [q \in Requests |-> rec'[q]] /\ snap' = [q \in Requests |-> snap'[q]]
        /\ tool' = [q \in Requests |-> tool'[q]]
    BY <1>3
  <2>. QED  BY <1>5, <2>1, <2>2, <2>3, <2>4, <2>5, <2>6, <2>7 DEF Types
<1>11. Idle'
  <2>1. /\ \A q \in Requests : q \in ToSet(queue) <=> stage[q] = "waiting"
        /\ \A q \in Requests : stage[q] # "running" =>
              /\ cached[q] = 0 /\ row[q] = << >> /\ rec[q] = NoState
              /\ think[q] = Off /\ tool[q] = Off
        /\ \A q \in Requests : stage[q] \in {"new", "waiting"} => text[q] = Prompt[q]
    BY DEF Idle
  <2>2. \A q \in Requests : q \in ToSet(queue') <=> stage'[q] = "waiting"
    BY <1>2, <2>1 DEF batch
  <2>3. \A q \in Requests : stage'[q] # "running" =>
              /\ cached'[q] = 0 /\ row'[q] = << >> /\ rec'[q] = NoState
              /\ think'[q] = Off /\ tool'[q] = Off
    BY <1>2, <2>1
  <2>4. \A q \in Requests : stage'[q] \in {"new", "waiting"} => text'[q] = Prompt[q]
    BY <1>2, <2>1
  <2>. QED  BY <2>2, <2>3, <2>4 DEF Idle
<1>12. Following'
  <2>1. ASSUME NEW q \in Requests, stage'[q] = "running" PROVE Followed(q)'
    <3>1. CASE q \in batch
      <4>1. q \notin over
        BY <1>2, <2>1
      <4>2. text'[q] = w(q) /\ cached'[q] = length[q] /\ device'[q] = length[q] + 1
            /\ input'[q] = Last(kept[q]) /\ rec'[q] = state[q]
            /\ row'[q] = KeptPages(q, RowsFor(block), length[q])
        BY <1>2, <3>1, <4>1
      <4>3. cached'[q] = Len(text'[q]) - 1 /\ Len(text'[q]) < Limit(q) /\ device'[q] = Len(text'[q])
        <5>1. length[q] \in Nat /\ Len(w(q)) = length[q] + 1 /\ length[q] + 1 < Limit(q)
          BY <1>6, <1>7, <3>1, <4>1
        <5>2. Len(w(q)) - 1 = length[q]
          BY <5>1
        <5>. QED  BY <4>2, <5>1, <5>2
      <4>4. input'[q] = Last(text'[q])
        BY <1>6, <3>1, <4>2
      <4>5. Context(q)' = Front(text'[q])
        <5>1. Context(q)' = Reading(block, q, length[q])
          BY <1>4, <4>2 DEF Context, Location, Reading
        <5>. QED  BY <1>6, <3>1, <4>2, <5>1
      <4>6. RollsBack(server') => rec'[q] = [conv |-> Front(text'[q]), ssm |-> Front(text'[q])]
        BY <1>8, <3>1, <4>1, <4>2
      <4>. QED  BY <4>3, <4>4, <4>5, <4>6 DEF Followed, Limit
    <3>2. CASE q \notin batch
      <4>1. /\ stage[q] = "running" /\ cached'[q] = cached[q]
            /\ device'[q] = device[q] /\ row'[q] = row[q] /\ rec'[q] = rec[q]
            /\ text'[q] = text[q] /\ input'[q] = input[q]
        BY <1>2, <2>1, <3>2
      <4>2. Followed(q)
        BY <4>1 DEF Following, Running
      <4>3. Context(q)' = Context(q)
        <5>1. Context(q)' = [n \in 1 .. cached[q] |-> Written(block)[Location(row[q], n - 1)]]
          BY <1>4, <4>1 DEF Context, Location
        <5>2. q \in Requests \ DOMAIN block
          BY <3>2 DEF batch
        <5>. QED  BY <1>1, <5>1, <5>2, ContextElse
      <4>. QED  BY <4>1, <4>2, <4>3 DEF Followed, Limit
    <3>. QED  BY <3>1, <3>2
  <2>. QED  BY <2>1 DEF Following, Running
<1>13. Snapped'
  <2>1. ASSUME NEW q \in Requests, stage'[q] # "done" PROVE snap'[q] = NoSnap
    <3>1. \A r \in Requests : stage[r] # "done" => snap[r] = NoSnap
      BY DEF Snapped
    <3>. QED  BY <1>2, <1>9, <2>1, <3>1
  <2>2. ASSUME AlwaysOnRing(server'), NEW q \in Requests
        PROVE  snap'[q].state.ssm = SubSeq(text'[q], 1, snap'[q].len)
    <3>1. CASE q \in over
      <4>1. q \in batch
        BY <1>1, <3>1 DEF batch
      <4>2. snap'[q] = SnapshotOf(length[q], state[q]) /\ text'[q] = w(q)
        BY <1>2, <3>1, <4>1
      <4>3. CASE length[q] % PageSize = 0
        <5>1. snap'[q] = [len |-> length[q], state |-> state[q]]
          BY <4>2, <4>3 DEF SnapshotOf
        <5>2. state[q].ssm = Front(w(q)) /\ Front(w(q)) = SubSeq(w(q), 1, length[q])
          BY <1>6, <1>8, <2>2, <3>1, <4>1
        <5>. QED  BY <4>2, <5>1, <5>2
      <4>4. CASE ~(length[q] % PageSize = 0)
        <5>1. snap'[q] = NoSnap
          BY <4>2, <4>4 DEF SnapshotOf
        <5>. QED  BY <5>1, NoneLeft
      <4>. QED  BY <4>3, <4>4
    <3>2. CASE q \in batch /\ q \notin over
      <4>1. stage'[q] # "done"
        BY <1>2, <3>2
      <4>2. snap'[q] = NoSnap
        BY <2>1, <4>1
      <4>. QED  BY <4>2, NoneLeft
    <3>3. CASE q \notin batch
      <4>1. snap'[q] = snap[q] /\ text'[q] = text[q]
        BY <1>2, <3>3
      <4>2. snap[q].state.ssm = SubSeq(text[q], 1, snap[q].len)
        BY <2>2 DEF Snapped, SnapshotsAreExact
      <4>. QED  BY <4>1, <4>2
    <3>. QED  BY <3>1, <3>2, <3>3
  <2>. QED  BY <2>1, <2>2 DEF Snapped, SnapshotsAreExact
<1>. QED  BY <1>5, <1>10, <1>11, <1>12, <1>13

----------------------------------------------------------------------------
(* The normal lane.                                                        *)

\* The model's answer is a token.
Answers == \A m, t, s, allowed : Argmax(m, t, s, allowed) \in Tokens

\* The reasoning gate a forward is sampled with is a gate.
LEMMA ArmedThinkIs ==
    ASSUME Types, NEW q \in Requests
    PROVE  ArmedThink(q) \in Gates /\ (q \notin Thinks => ArmedThink(q) = Off)
<1>1. think[q] \in Gates /\ (q \notin Thinks => think[q] = Off)
    BY DEF Types
<1>2. Budget[q] \in Int /\ MaxTokens[q] \in Nat
    BY SpecAssumption
<1>. QED  BY <1>1, <1>2, ArmThinkTypes DEF ArmedThink

\* The normal lane samples, or forces, a token.
LEMMA PlainTokenIs ==
    ASSUME Types, Answers, NEW q \in Requests, NEW block
    PROVE  PlainToken(q, block) \in Tokens
<1>1. CASE Spent(ArmedThink(q))
  <2>1. ArmedThink(q) \in Gates
    BY ArmedThinkIs
  <2>2. PICK g : g = ArmedThink(q)
    OBVIOUS
  <2>3. g \in Gates /\ g.at = "armed"
    BY <1>1, <2>1, <2>2 DEF Spent
  <2>4. ForceBase(g) \in 1 .. Len(Close) /\ Close \in Seq(Tokens)
    BY <2>3, ForceBaseIn, SpecAssumption
  <2>5. ForcedNext(g) \in Tokens
    BY <2>4, ElementOfSeq DEF ForcedNext
  <2>. QED  BY <1>1, <2>2, <2>5 DEF PlainToken
<1>2. CASE ~Spent(ArmedThink(q))
    BY <1>2 DEF PlainToken, TokenAt, Answers
<1>. QED  BY <1>1, <1>2

\* A text and one token more.
LEMMA FrontOfAppend ==
    ASSUME NEW s \in Seq(Tokens), NEW x \in Tokens
    PROVE  Front(s \o <<x>>) = s /\ Len(s \o <<x>>) = Len(s) + 1 /\ Len(s) \in Nat
<1>1. PICK t, w : t = <<x>> /\ w = s \o t
    OBVIOUS
<1>2. t \in Seq(Tokens) /\ Len(t) = 1 /\ Len(s) \in Nat
    BY <1>1, LenProperties
<1>3. /\ w \in Seq(Tokens) /\ Len(w) = Len(s) + 1
      /\ \A i \in 1 .. Len(s) + 1 : w[i] = IF i <= Len(s) THEN s[i] ELSE t[i - Len(s)]
    BY <1>1, <1>2, ConcatProperties
<1>4. PICK k : k = Len(s)
    OBVIOUS
<1>5. k \in Nat /\ k <= Len(w) /\ k <= Len(s) /\ \A i \in 1 .. k : w[i] = s[i]
    BY <1>2, <1>3, <1>4
<1>6. SubSeq(w, 1, k) = SubSeq(s, 1, k)
    BY <1>3, <1>5, SameStart
<1>7. SubSeq(s, 1, k) = s
    BY <1>4, SubSeqFull
<1>8. Len(w) - 1 = k
    BY <1>2, <1>3, <1>4
<1>. QED  BY <1>1, <1>2, <1>3, <1>6, <1>7, <1>8 DEF Front

\* A block of the normal lane is what is left to read of the text.
Reads(block) ==
    \A q \in DOMAIN block :
       /\ Context(q) \o block[q] = text[q] /\ Len(text[q]) + 1 <= Limit(q)
       /\ RollsBack(server) => rec[q].conv \o block[q] = text[q] /\ rec[q].ssm \o block[q] = text[q]

\* Each token of a run is the one greedy decoding takes, and the turn ends with
\* none of them but the last.
NextAll(w, run) ==
    \A i \in 1 .. Len(run) :
       /\ run[i] = NextToken(server.model, w \o SubSeq(run, 1, i - 1))
       /\ i < Len(run) => run[i] # Eos

\* A step that commits what a forward may give.
Commits(block) ==
    /\ \A q \in DOMAIN block : stage[q] \in {"waiting", "running"}
    /\ \E kept, length, state, thinks, tools :
          /\ Commit(block, kept, length, state, thinks, tools)
          /\ Results(block, kept, length) /\ Outcome(kept, length, state, thinks, tools)
          /\ RollsBack(server) => \A q \in DOMAIN block \cap Ungated : NextAll(text[q], kept[q])

\* Such a step keeps what holds between two steps.
LEMMA CommitsKeeps ==
    ASSUME Types, Idle, PagesOK, Following, Snapped, NEW block, Commits(block),
           UNCHANGED <<server, up>>, queue' \in Seq(Requests), IsInjective(queue'),
           ToSet(queue') = ToSet(queue) \ DOMAIN block
    PROVE  Types' /\ Idle' /\ PagesOK' /\ Following' /\ Snapped'
<1>1. \A q \in DOMAIN block : stage[q] \in {"waiting", "running"}
    BY DEF Commits
<1>2. PICK kept, length, state, thinks, tools :
          /\ Commit(block, kept, length, state, thinks, tools)
          /\ Results(block, kept, length) /\ Outcome(kept, length, state, thinks, tools)
    BY DEF Commits
<1>. QED  BY <1>1, <1>2, CommitKeeps

\* A single token is greedy if it follows the text.
LEMMA OneToken ==
    ASSUME NEW w \in Seq(Tokens), NEW x, x = NextToken(server.model, w)
    PROVE  NextAll(w, <<x>>)
<1>1. PICK run : run = <<x>>
    OBVIOUS
<1>2. Len(run) = 1 /\ run[1] = x
    BY <1>1
<1>3. SubSeq(run, 1, 0) = << >>
    BY SubSeqEmpty, 1 \in Int, 0 \in Int, 0 < 1
<1>4. w \o << >> = w
    BY ConcatEmptySeq
<1>5. ASSUME NEW i \in 1 .. 1
      PROVE  run[i] = NextToken(server.model, w \o SubSeq(run, 1, i - 1)) /\ ~(i < 1)
  <2>1. i = 1 /\ i - 1 = 0 /\ ~(i < 1)
    OBVIOUS
  <2>2. PICK k : k = i - 1
    OBVIOUS
  <2>3. SubSeq(run, 1, k) = << >>
    BY <1>3, <2>1, <2>2
  <2>4. w \o SubSeq(run, 1, k) = w
    BY <1>4, <2>3
  <2>5. run[i] = NextToken(server.model, w)
    BY <1>2, <2>1
  <2>. QED  BY <2>1, <2>2, <2>4, <2>5
<1>. QED  BY <1>1, <1>2, <1>5 DEF NextAll

\* Nothing holds the choice of a request without gates.
LEMMA UngatedIs ==
    ASSUME Types, NEW q \in Ungated
    PROVE  /\ q \in Requests /\ ArmedThink(q) = Off /\ think[q] = Off /\ tool[q] = Off
           /\ ~Spent(Off) /\ ~Held(q)
<1>1. q \in Requests /\ q \notin Thinks /\ q \notin HasTools
    BY DEF Ungated
<1>2. think[q] = Off /\ tool[q] = Off
    BY <1>1 DEF Types
<1>3. ArmedThink(q) = Off
    BY <1>1, <1>2 DEF ArmedThink
<1>. QED  BY <1>1, <1>2, <1>3 DEF Spent, Held, ThinkHolds, ToolHolds, Off

\* A step of the normal lane commits what a forward may give.
LEMMA PlainCommits ==
    ASSUME Types, Answers, NEW block, Batch(block), Reads(block), PlainStep(block),
           \A q \in DOMAIN block : stage[q] \in {"waiting", "running"}
    PROVE  Commits(block)
<1>. DEFINE B == DOMAIN block
            token == [q \in B |-> PlainToken(q, block)]
            moves(q) == ArmedThink(q).at = "armed"
            kept0 == [q \in B |-> <<token[q]>>]
            length0 == [q \in B |-> cached[q] + Len(block[q])]
            state0 == [q \in B |-> After(rec[q], block[q])]
            thinks0 == [q \in B |->
                   IF moves(q) THEN CommitThink(ArmedThink(q), token[q]) ELSE ArmedThink(q)]
            tools0 == [q \in B |->
                   IF moves(q) THEN CommitTool(ArmedTool(q), token[q]) ELSE ArmedTool(q)]
<1>1. Commit(block, kept0, length0, state0, thinks0, tools0)
    BY DEF PlainStep
<1>2. PICK kept, length, state, thinks, tools :
          kept = kept0 /\ length = length0 /\ state = state0 /\ thinks = thinks0 /\ tools = tools0
    OBVIOUS
<1>3. Commit(block, kept, length, state, thinks, tools)
    BY <1>1, <1>2
<1>4. DOMAIN kept = B
    BY <1>2
<1>5. ASSUME NEW q \in B
      PROVE  /\ q \in Requests /\ token[q] \in Tokens /\ kept[q] = <<token[q]>>
             /\ token[q] = PlainToken(q, block)
             /\ length[q] = cached[q] + Len(block[q]) /\ state[q] = After(rec[q], block[q])
             /\ thinks[q] = IF moves(q) THEN CommitThink(ArmedThink(q), token[q]) ELSE ArmedThink(q)
             /\ tools[q] = IF moves(q) THEN CommitTool(ArmedTool(q), token[q]) ELSE ArmedTool(q)
  <2>1. q \in Requests
    BY BlockTypes
  <2>2. token[q] \in Tokens /\ token[q] = PlainToken(q, block)
    BY <2>1, PlainTokenIs
  <2>. HIDE DEF moves, token
  <2>. QED  BY <1>2, <2>1, <2>2
<1>. HIDE DEF token, moves, B, kept0, length0, state0, thinks0, tools0
<1>6. ASSUME NEW q \in B
      PROVE  /\ text[q] \in Seq(Tokens) /\ Front(text[q] \o kept[q]) = text[q]
             /\ Len(text[q] \o kept[q]) = Len(text[q]) + 1
  <2>1. text[q] \in Seq(Tokens)
    BY <1>5 DEF Types
  <2>2. PICK s, x : s = text[q] /\ x = token[q]
    OBVIOUS
  <2>3. Front(s \o <<x>>) = s /\ Len(s \o <<x>>) = Len(s) + 1
    BY <1>5, <2>1, <2>2, FrontOfAppend
  <2>. QED  BY <1>5, <2>1, <2>2, <2>3
<1>7. Results(block, kept, length)
  <2>1. ASSUME NEW q \in B
        PROVE  /\ kept[q] \in Seq(Tokens) /\ kept[q] # << >>
               /\ Len(text[q] \o kept[q]) <= Limit(q)
               /\ \E t \in 1 .. Len(block[q]) :
                     /\ length[q] = cached[q] + t
                     /\ Context(q) \o SubSeq(block[q], 1, t) = Front(text[q] \o kept[q])
    <3>1. kept[q] \in Seq(Tokens) /\ kept[q] # << >>
      <4>1. PICK x \in Tokens : kept[q] = <<x>>
        BY <1>5, <2>1
      <4>. QED  BY <4>1
    <3>2. Len(text[q] \o kept[q]) <= Limit(q)
      BY <1>6, <2>1 DEF Reads, B
    <3>3. block[q] \in Seq(Tokens) /\ Len(block[q]) \in 1 .. Len(block[q])
      <4>1. block[q] \in Seq(Tokens) /\ Len(block[q]) \in Nat \ {0}
        BY <2>1, BlockTypes DEF B
      <4>. QED  BY <4>1
    <3>4. SubSeq(block[q], 1, Len(block[q])) = block[q]
      BY <3>3, SubSeqFull
    <3>5. Context(q) \o SubSeq(block[q], 1, Len(block[q])) = Front(text[q] \o kept[q])
      BY <1>6, <2>1, <3>4 DEF Reads, B
    <3>. QED  BY <1>5, <3>1, <3>2, <3>3, <3>5
  <2>. QED  BY <1>4, <2>1 DEF Results, B
<1>8. Outcome(kept, length, state, thinks, tools)
  <2>1. ASSUME NEW q \in B
        PROVE  /\ thinks[q] \in Gates
               /\ (q \notin Thinks => thinks[q] = Off) /\ (q \notin HasTools => tools[q] = Off)
    <3>1. ArmedThink(q) \in Gates /\ (q \notin Thinks => ArmedThink(q) = Off)
      BY <1>5, ArmedThinkIs
    <3>2. CASE moves(q)
      <4>1. thinks[q] \in Gates
        <5>1. PICK g : g = ArmedThink(q)
          OBVIOUS
        <5>2. g \in Gates /\ g.at = "armed"
          BY <3>1, <3>2, <5>1 DEF moves
        <5>3. CommitThink(g, token[q]) \in Gates
          BY <1>5, <5>2, CommitThinkTypes
        <5>. QED  BY <1>5, <3>2, <5>1, <5>3
      <4>2. q \in Thinks
        BY <3>1, <3>2 DEF moves, Off
      <4>3. q \notin HasTools => tools[q] = Off
        <5>1. ASSUME q \notin HasTools PROVE ArmedTool(q) = Off
          BY <1>5, <5>1 DEF ArmedTool, Types
        <5>2. \A x : CommitTool(Off, x) = Off
          BY DEF CommitTool, Off
        <5>. QED  BY <1>5, <3>2, <5>1, <5>2
      <4>. QED  BY <4>1, <4>2, <4>3
    <3>3. CASE ~moves(q)
      <4>1. q \notin HasTools => ArmedTool(q) = Off
        BY <1>5 DEF ArmedTool, Types
      <4>. QED  BY <1>5, <3>1, <3>3, <4>1
    <3>. QED  BY <3>2, <3>3
  <2>2. ASSUME NEW q \in B, RollsBack(server)
        PROVE  state[q] = [conv |-> Front(text[q] \o kept[q]), ssm |-> Front(text[q] \o kept[q])]
    <3>1. rec[q].conv \o block[q] = text[q] /\ rec[q].ssm \o block[q] = text[q]
      BY <2>2 DEF Reads, B
    <3>2. After(rec[q], block[q]) = [conv |-> text[q], ssm |-> text[q]]
      BY <3>1 DEF After
    <3>. QED  BY <1>5, <1>6, <2>2, <3>2
  <2>3. ASSUME NEW q \in B, AlwaysOnRing(server)
        PROVE  state[q].ssm = Front(text[q] \o kept[q])
    <3>1. PICK r : r = Front(text[q] \o kept[q])
      OBVIOUS
    <3>2. RollsBack(server)
      BY <2>3, OnRingRollsBack DEF Types
    <3>3. state[q] = [conv |-> r, ssm |-> r]
      BY <2>2, <3>1, <3>2
    <3>. QED  BY <3>1, <3>3
  <2>. QED  BY <1>4, <2>1, <2>2, <2>3 DEF Outcome
<1>9. ASSUME RollsBack(server), NEW q \in B \cap Ungated PROVE NextAll(text[q], kept[q])
  <2>1. /\ text[q] \in Seq(Tokens) /\ kept[q] = <<token[q]>> /\ token[q] = PlainToken(q, block)
    BY <1>5, <1>6
  <2>2. /\ ArmedThink(q) = Off /\ ~Spent(Off) /\ ~Held(q)
    BY UngatedIs
  <2>3. Tokens \ {} = Tokens
    OBVIOUS
  <2>4. PlainToken(q, block) = TokenAt(q, block, Len(block[q]), Tokens)
    BY <2>2, <2>3 DEF PlainToken
  <2>5. SubSeq(block[q], 1, Len(block[q])) = block[q]
    <3>1. block[q] \in Seq(Tokens)
      BY BlockTypes DEF B
    <3>. QED  BY <3>1, SubSeqFull
  <2>6. /\ Context(q) \o block[q] = text[q]
        /\ rec[q].conv \o block[q] = text[q] /\ rec[q].ssm \o block[q] = text[q]
    BY <1>9 DEF Reads, B
  <2>7. After(rec[q], block[q]) = [conv |-> text[q], ssm |-> text[q]]
    BY <2>6 DEF After
  <2>8. TokenAt(q, block, Len(block[q]), Tokens) = NextToken(server.model, text[q])
    BY <2>5, <2>6, <2>7 DEF TokenAt, NextToken
  <2>9. PICK w, x : w = text[q] /\ x = token[q]
    OBVIOUS
  <2>10. w \in Seq(Tokens) /\ x = NextToken(server.model, w)
    BY <2>1, <2>4, <2>8, <2>9
  <2>11. NextAll(w, <<x>>)
    BY <2>10, OneToken
  <2>. QED  BY <2>1, <2>9, <2>11
<1>. QED  BY <1>3, <1>7, <1>8, <1>9 DEF Commits, B

----------------------------------------------------------------------------
(* Counting pages.                                                         *)

\* The requests are finitely many naturals, and so are those that run.
LEMMA RequestsAre == Requests \subseteq Nat /\ IsFiniteSet(Requests) /\ IsFiniteSet(Running)
                     /\ Running \subseteq Requests
<1>1. Requests \subseteq Nat /\ IsFiniteSet(Requests)
    BY SpecAssumption
<1>2. Running \subseteq Requests
    BY DEF Running
<1>. QED  BY <1>1, <1>2, FS_Subset

\* Every page is in the free list or in a row, once.
LEMMA PagesCounted ==
    ASSUME Types, PagesOK
    PROVE  PagesFollowLength
<1>. DEFINE rows == InOrder(Requests, row)
            size == [q \in Requests |-> Len(row[q])]
<1>1. /\ free \in Seq(Pages) /\ IsInjective(free)
      /\ \A q \in Requests : /\ row[q] \in Seq(Pages) /\ IsInjective(row[q])
                             /\ ToSet(row[q]) \cap ToSet(free) = {}
                             /\ Len(row[q]) = PagesFor(cached[q])
      /\ \A q, r \in Requests : q # r => ToSet(row[q]) \cap ToSet(row[r]) = {}
      /\ \A p \in Pages : p \in ToSet(free) \/ \E q \in Requests : p \in ToSet(row[q])
    BY DEF Types, PagesOK
<1>2. /\ rows \in Seq(Pages) /\ IsInjective(rows) /\ Len(rows) = SumFunctionOnSet(size, Requests)
      /\ \A x : x \in ToSet(rows) <=> \E q \in Requests : x \in ToSet(row[q])
  <2>1. PICK f, z : f = row /\ z = size
    OBVIOUS
  <2>2. \A q \in Requests : f[q] \in Seq(Pages)
    BY <1>1, <2>1
  <2>3. Joined(Pages, Requests, f, InOrder(Requests, f), [q \in Requests |-> Len(f[q])])
    BY <2>2, RequestsAre, InOrderIs
  <2>4. Joined(Pages, Requests, f, rows, size)
    BY <2>1, <2>3
  <2>. HIDE DEF rows, size
  <2>. QED  BY <1>1, <2>1, <2>4 DEF Joined
<1>. HIDE DEF rows, size
<1>3. PICK w, r : w = free \o r /\ r = rows
    OBVIOUS
<1>4. w \in Seq(Pages) /\ Len(w) = Len(free) + Len(rows)
    BY <1>1, <1>2, <1>3, ConcatProperties
<1>5. IsInjective(w) /\ ToSet(w) = ToSet(free) \cup ToSet(rows)
  <2>1. ToSet(free) \cap ToSet(r) = {}
    BY <1>1, <1>2, <1>3
  <2>2. r \in Seq(Pages) /\ IsInjective(r) /\ free \in Seq(Pages) /\ IsInjective(free)
    BY <1>1, <1>2, <1>3
  <2>3. ToSet(free \o r) = ToSet(free) \cup ToSet(r) /\ IsInjective(free \o r)
    BY <2>1, <2>2, ConcatElements
  <2>. QED  BY <1>3, <2>3
<1>6. ToSet(w) = Pages
  <2>1. \A p \in Pages : p \in ToSet(w)
    BY <1>1, <1>2, <1>5
  <2>2. ToSet(w) \subseteq Pages
    <3>1. DOMAIN w = 1 .. Len(w) /\ \A i \in 1 .. Len(w) : w[i] \in Pages
      BY <1>4, LenProperties, ElementOfSeq
    <3>. QED  BY <3>1 DEF ToSet
  <2>. QED  BY <2>1, <2>2
<1>7. PICK l \in Nat : l = Len(w)
    BY <1>4, LenProperties
<1>8. w \in [1 .. l -> Pages] /\ DOMAIN w = 1 .. l
    BY <1>4, <1>7, LenProperties
<1>9. w \in Injection(1 .. l, Pages) /\ w \in Surjection(1 .. l, Pages)
  <2>1. \A i, j \in 1 .. l : w[i] = w[j] => i = j
    BY <1>5, <1>8 DEF IsInjective
  <2>2. \A p \in Pages : \E i \in 1 .. l : w[i] = p
    BY <1>6, <1>8 DEF ToSet
  <2>. QED  BY <1>8, <2>1, <2>2 DEF Injection, Surjection, IsInjective
<1>10. Cardinality(1 .. l) = l /\ IsFiniteSet(Pages) /\ Cardinality(Pages) = NumPages
  <2>1. NumPages \in Nat \ {0}
    BY PageSizeIs
  <2>2. IsFiniteSet(1 .. l) /\ Cardinality(1 .. l) = IF 1 > l THEN 0 ELSE l - 1 + 1
    BY FS_Interval
  <2>3. IsFiniteSet(1 .. NumPages) /\ Cardinality(1 .. NumPages) = IF 1 > NumPages THEN 0 ELSE NumPages - 1 + 1
    BY <2>1, FS_Interval
  <2>. QED  BY <2>1, <2>2, <2>3 DEF Pages
<1>11. Cardinality(1 .. l) = Cardinality(Pages)
    BY <1>9, <1>10, FS_Injection
<1>12. Len(free) + SumFunctionOnSet(size, Requests) = NumPages
    BY <1>2, <1>4, <1>7, <1>10, <1>11
<1>13. SumFunction([q \in Requests |-> Len(row[q])]) = SumFunctionOnSet(size, Requests)
    BY DEF SumFunction, size
<1>14. \A q \in Requests : Len(row[q]) = PagesFor(cached[q])
    BY <1>1
<1>. QED  BY <1>3, <1>5, <1>12, <1>13, <1>14 DEF PagesFollowLength, rows

\* The running requests have every page that is not free.
Held1 == [q \in Requests |-> PagesFor(cached[q])]

\* All pages are free or held by a running request.
LEMMA RunningHold ==
    ASSUME Types, Idle, PagesOK
    PROVE  Held1 \in [Requests -> Nat] /\ Len(free) + SumFunctionOnSet(Held1, Running) = NumPages
<1>1. \A q \in Requests : PagesFor(cached[q]) \in Nat /\ Len(row[q]) = PagesFor(cached[q])
    BY PagesForIs DEF Types, PagesOK
<1>2. Held1 \in [Requests -> Nat]
    BY <1>1 DEF Held1
<1>3. Held1 = [q \in Requests |-> Len(row[q])]
    BY <1>1 DEF Held1
<1>4. Len(free) + SumFunctionOnSet(Held1, Requests) = NumPages
  <2>1. Len(free) + SumFunction([q \in Requests |-> Len(row[q])]) = NumPages
    BY PagesCounted DEF PagesFollowLength
  <2>2. SumFunction(Held1) = SumFunctionOnSet(Held1, Requests)
    BY <1>2 DEF SumFunction
  <2>. QED  BY <1>3, <2>1, <2>2
<1>5. SumFunctionOnSet(Held1, Requests) = SumFunctionOnSet(Held1, Running)
  <2>1. \A q \in Requests \ Running : Held1[q] = 0
    BY PagesForNone DEF Idle, Running, Held1
  <2>2. Held1 \in [Requests -> Int] /\ Requests \in SUBSET Requests /\ Running \in SUBSET Requests
    BY <1>2, RequestsAre
  <2>3. PICK f, A, S : f = Held1 /\ A = Running /\ S = Requests
    OBVIOUS
  <2>4. /\ f \in [S -> Int] /\ S \in SUBSET S /\ IsFiniteSet(S) /\ A \in SUBSET S
        /\ \A q \in S \ A : f[q] = 0
    BY <2>1, <2>2, <2>3, RequestsAre
  <2>5. SumFunctionOnSet(f, S) = SumFunctionOnSet(f, A)
    BY <2>4, SumExtend
  <2>. QED  BY <2>3, <2>5
<1>. QED  BY <1>2, <1>4, <1>5

\* The limits are positive, and a prompt is shorter than its limit.
LEMMA ReserveIs ==
    /\ Reserve \in [Requests -> Nat] /\ Reserve \in [Requests -> Int]
    /\ \A q \in Requests : Limit(q) \in Nat /\ Limit(q) - 1 \in Nat /\ Len(Prompt[q]) \in Nat
                           /\ Len(Prompt[q]) < Limit(q) /\ Prompt[q] \in Seq(Tokens) /\ Len(Prompt[q]) >= 1
<1>1. ASSUME NEW q \in Requests
      PROVE  /\ Limit(q) \in Nat /\ Limit(q) - 1 \in Nat /\ Len(Prompt[q]) \in Nat
             /\ Len(Prompt[q]) < Limit(q) /\ Prompt[q] \in Seq(Tokens) /\ Len(Prompt[q]) >= 1
             /\ Reserve[q] \in Nat
  <2>1. Prompt[q] \in Seq(Tokens) /\ Prompt[q] # << >> /\ MaxTokens[q] \in Nat \ {0}
    BY SpecAssumption
  <2>2. Len(Prompt[q]) \in Nat \ {0}
    BY <2>1, EmptySeq, LenProperties
  <2>3. Limit(q) \in Nat /\ Limit(q) - 1 \in Nat /\ Len(Prompt[q]) < Limit(q)
    BY <2>1, <2>2 DEF Limit
  <2>4. PICK n : n = Limit(q) - 1
    OBVIOUS
  <2>5. PagesFor(n) \in Nat
    BY <2>3, <2>4, PagesForIs
  <2>. QED  BY <2>1, <2>2, <2>3, <2>4, <2>5 DEF Reserve
<1>2. Reserve \in [Requests -> Nat]
    BY <1>1 DEF Reserve
<1>. QED  BY <1>1, <1>2

\* Fewer requests need fewer pages.
LEMMA ReservedFewer ==
    ASSUME Reserved, Running' \subseteq Running
    PROVE  Reserved'
<1>1. PICK A, S : A = Running' /\ S = Running
    OBVIOUS
<1>2. S \in SUBSET Requests /\ IsFiniteSet(S) /\ A \in SUBSET S
    BY <1>1, RequestsAre
<1>3. SumFunctionOnSet(Reserve, A) <= SumFunctionOnSet(Reserve, S)
      /\ SumFunctionOnSet(Reserve, S) \in Nat
    BY <1>2, ReserveIs, SumOfNats
<1>4. SumFunctionOnSet(Reserve, A) \in Nat
  <2>1. A \in SUBSET Requests /\ IsFiniteSet(A)
    BY <1>2, FS_Subset
  <2>. QED  BY <2>1, ReserveIs, SumOfNats
<1>5. SumFunctionOnSet(Reserve, A) <= NumPages
  <2>1. SumFunctionOnSet(Reserve, S) <= NumPages
    BY <1>1 DEF Reserved
  <2>. QED  BY <1>3, <1>4, <2>1, PageSizeIs
<1>6. Reserve' = Reserve
    BY DEF Reserve, PagesFor, Limit
<1>. QED  BY <1>1, <1>5, <1>6 DEF Reserved

\* A multiple of a sum.
LEMMA SumScale ==
    ASSUME NEW S, IsFiniteSet(S), NEW f \in [S -> Int], NEW g \in [S -> Int], NEW k \in Nat,
           \A x \in S : g[x] = f[x] * k
    PROVE  SumFunctionOnSet(g, S) = SumFunctionOnSet(f, S) * k
<1>. DEFINE G == {A \in SUBSET S : SumFunctionOnSet(g, A) = SumFunctionOnSet(f, A) * k}
<1>1. {} \in G
  <2>1. {} \in SUBSET S /\ IsFiniteSet({})
    BY FS_EmptySet
  <2>2. SumFunctionOnSet(g, {}) = 0 /\ SumFunctionOnSet(f, {}) = 0
    BY <2>1, SumOut
  <2>3. 0 * k = 0
    BY SMT
  <2>. QED  BY <2>2, <2>3
<1>2. ASSUME NEW A \in SUBSET S, NEW x \in A, A \ {x} \in G PROVE A \in G
  <2>1. IsFiniteSet(A) /\ IsFiniteSet(A \ {x}) /\ A \ {x} \in SUBSET S
    BY FS_Subset
  <2>2. /\ SumFunctionOnSet(g, A) = g[x] + SumFunctionOnSet(g, A \ {x})
        /\ SumFunctionOnSet(f, A) = f[x] + SumFunctionOnSet(f, A \ {x})
        /\ SumFunctionOnSet(f, A \ {x}) \in Int
    <3>1. PICK C : C = A \ {x}
      OBVIOUS
    <3>2. A \in SUBSET S /\ C \in SUBSET S /\ IsFiniteSet(C) /\ IsFiniteSet(A)
      BY <2>1, <3>1
    <3>3. SumFunctionOnSet(g, A) = g[x] + SumFunctionOnSet(g, A \ {x})
      BY <3>2, SumOut
    <3>4. SumFunctionOnSet(f, A) = f[x] + SumFunctionOnSet(f, A \ {x})
      BY <3>2, SumOut
    <3>5. SumFunctionOnSet(f, C) \in Int
      BY <3>2, SumOut
    <3>. QED  BY <3>1, <3>3, <3>4, <3>5
  <2>3. PICK a \in Int, b \in Int : a = f[x] /\ b = SumFunctionOnSet(f, A \ {x})
    BY <2>2
  <2>4. SumFunctionOnSet(g, A \ {x}) = b * k /\ g[x] = a * k
    BY <1>2, <2>3
  <2>5. (a + b) * k = a * k + b * k
    BY SMT
  <2>6. SumFunctionOnSet(g, A) = SumFunctionOnSet(f, A) * k
    BY <2>2, <2>3, <2>4, <2>5
  <2>. QED  BY <2>6
<1>3. S \in G
  <2>. HIDE DEF G
  <2>. QED  BY <1>1, <1>2, FiniteInduction
<1>. QED  BY <1>3

\* For every running request there are tokens to come.
LEMMA RemainIs ==
    ASSUME Types, Following, up, NEW q \in Running
    PROVE  /\ q \in Requests /\ cached[q] \in Nat /\ device[q] = cached[q] + 1
           /\ Remain(q) \in Nat \ {0} /\ cached[q] + Remain(q) = Limit(q) - 1
<1>1. q \in Requests
    BY DEF Running
<1>2. /\ cached[q] = Len(text[q]) - 1 /\ Len(text[q]) < Limit(q) /\ device[q] = Len(text[q])
    BY DEF Following, Followed
<1>3. cached[q] \in Nat /\ Len(text[q]) \in Nat /\ Limit(q) \in Nat
    BY <1>1, ReserveIs, LenProperties DEF Types
<1>4. PICK a, b, c : a = cached[q] /\ b = Len(text[q]) /\ c = Limit(q)
    OBVIOUS
<1>5. Remain(q) = c - b
    BY <1>2, <1>4 DEF Remain
<1>6. a \in Nat /\ b \in Nat /\ c \in Nat /\ a = b - 1 /\ b < c
    BY <1>2, <1>3, <1>4
<1>. QED  BY <1>1, <1>2, <1>4, <1>5, <1>6

\* Where admission finds room, there are pages for all the tokens to come but
\* the last of each request.
LEMMA PrefillRoom ==
    ASSUME Types, Idle, PagesOK, Following, up, CanPrefill
    PROVE  /\ Head(queue) \in Requests /\ stage[Head(queue)] = "waiting"
           /\ SumFunctionOnSet(Reserve, Running \cup {Head(queue)}) <= NumPages
           /\ PagesFor(Len(Prompt[Head(queue)])) <= Len(free)
<1>. DEFINE h == Head(queue)
            f == [q \in Running |-> Remain(q) + PageSize - 1]
            u == [q \in Running |-> Held1[q] * PageSize]
            g == [q \in Running |-> Reserve[q] * PageSize]
            both == [q \in Running |-> u[q] + f[q]]
<1>1. h \in Requests /\ stage[h] = "waiting" /\ h \notin Running
  <2>1. queue \in Seq(Requests) /\ queue # << >>
    BY DEF Types, CanPrefill
  <2>2. 1 \in DOMAIN queue /\ h = queue[1] /\ h \in Requests
    <3>1. Len(queue) \in Nat \ {0} /\ DOMAIN queue = 1 .. Len(queue)
      BY <2>1, EmptySeq, LenProperties
    <3>2. 1 \in 1 .. Len(queue)
      BY <3>1
    <3>3. queue[1] \in Requests
      BY <2>1, <3>2, ElementOfSeq
    <3>4. h = queue[1]
      BY <2>1
    <3>. QED  BY <3>1, <3>2, <3>3, <3>4
  <2>3. h \in ToSet(queue)
    BY <2>2 DEF ToSet
  <2>. QED  BY <2>2, <2>3 DEF Idle, Running
<1>2. ASSUME NEW q \in Running
      PROVE  /\ f[q] \in Nat /\ u[q] \in Nat /\ g[q] \in Nat /\ g[q] <= u[q] + f[q]
             /\ both[q] = u[q] + f[q] /\ Held1[q] \in Nat /\ Reserve[q] \in Nat
  <2>1. /\ q \in Requests /\ cached[q] \in Nat
        /\ Remain(q) \in Nat \ {0} /\ cached[q] + Remain(q) = Limit(q) - 1
    BY RemainIs
  <2>2. PICK c, l, r : c = cached[q] /\ l = Limit(q) - 1 /\ r = Remain(q)
    OBVIOUS
  <2>3. c \in Nat /\ l \in Nat /\ r \in Nat \ {0} /\ c + r = l
    BY <2>1, <2>2, ReserveIs
  <2>4. /\ PagesFor(l) \in Nat /\ PagesFor(l) * PageSize \in Nat
        /\ PagesFor(l) * PageSize <= l + PageSize - 1
    BY <2>3, PagesForIs
  <2>5. /\ PagesFor(c) \in Nat /\ PagesFor(c) * PageSize \in Nat /\ c <= PagesFor(c) * PageSize
    BY <2>3, PagesForIs
  <2>6. Held1[q] = PagesFor(c) /\ Reserve[q] = PagesFor(l)
    BY <2>1, <2>2 DEF Held1, Reserve
  <2>7. PICK x, y, z : x = f[q] /\ y = u[q] /\ z = g[q]
    OBVIOUS
  <2>8. x = r + PageSize - 1 /\ y = PagesFor(c) * PageSize /\ z = PagesFor(l) * PageSize
    BY <2>2, <2>6, <2>7
  <2>9. both[q] = u[q] + f[q]
    OBVIOUS
  <2>. HIDE DEF f, u, g, both
  <2>10. x \in Nat /\ y \in Nat /\ z \in Nat /\ z <= y + x
    BY <2>3, <2>4, <2>5, <2>8, PageSizeIs
  <2>. QED  BY <2>4, <2>5, <2>6, <2>7, <2>9, <2>10
<1>3. InflightTokens = SumFunctionOnSet(f, Running)
    BY DEF InflightTokens, SumFunction
<1>4. DOMAIN f = Running /\ DOMAIN u = Running /\ DOMAIN g = Running /\ DOMAIN both = Running
      /\ f = [q \in Running |-> f[q]] /\ u = [q \in Running |-> u[q]] /\ g = [q \in Running |-> g[q]]
      /\ both = [q \in Running |-> both[q]]
      /\ (\A q \in Running : u[q] = Held1[q] * PageSize /\ g[q] = Reserve[q] * PageSize)
    OBVIOUS
<1>. HIDE DEF f, u, g, both
<1>5. PICK S : S = Running
    OBVIOUS
<1>6. IsFiniteSet(S) /\ S \subseteq Requests /\ S \in SUBSET S
    BY <1>5, RequestsAre
<1>7. f \in [S -> Int] /\ u \in [S -> Int] /\ g \in [S -> Int] /\ both \in [S -> Int]
      /\ f \in [S -> Nat]
  <2>1. \A q \in S : f[q] \in Int /\ u[q] \in Int /\ g[q] \in Int /\ both[q] \in Int /\ f[q] \in Nat
    <3>1. ASSUME NEW q \in S PROVE f[q] \in Int /\ u[q] \in Int /\ g[q] \in Int /\ both[q] \in Int /\ f[q] \in Nat
      <4>1. PICK x, y, z : x = f[q] /\ y = u[q] /\ z = both[q]
        OBVIOUS
      <4>2. x \in Nat /\ y \in Nat /\ g[q] \in Nat /\ z = y + x
        BY <1>2, <1>5, <4>1
      <4>3. z \in Int /\ x \in Int /\ y \in Int
        BY <4>2
      <4>. QED  BY <4>1, <4>2, <4>3
    <3>. QED  BY <3>1
  <2>. QED  BY <1>4, <1>5, <2>1
<1>8. SumFunctionOnSet(both, S) = SumFunctionOnSet(u, S) + SumFunctionOnSet(f, S)
  <2>1. PICK a, b, c : a = u /\ b = f /\ c = both
    OBVIOUS
  <2>2. a \in [S -> Int] /\ b \in [S -> Int] /\ c \in [S -> Int]
    BY <1>7, <2>1
  <2>3. S \in SUBSET (S \cap S \cap S) /\ \A q \in S : c[q] = a[q] + b[q]
    BY <1>2, <1>5, <2>1
  <2>4. SumFunctionOnSet(c, S) = SumFunctionOnSet(a, S) + SumFunctionOnSet(b, S)
    BY <1>6, <2>2, <2>3, SumLinear
  <2>. QED  BY <2>1, <2>4
<1>9. SumFunctionOnSet(g, S) <= SumFunctionOnSet(both, S)
  <2>1. S \in SUBSET (S \cap S \cap S) /\ \A q \in S : g[q] <= both[q]
    <3>1. \A q \in S : g[q] <= both[q]
      BY <1>2, <1>5
    <3>. QED  BY <3>1
  <2>. QED  BY <1>6, <1>7, <2>1, SumLinear
<1>10. SumFunctionOnSet(f, S) \in Nat /\ SumFunctionOnSet(u, S) \in Int /\ SumFunctionOnSet(g, S) \in Int
       /\ SumFunctionOnSet(both, S) \in Int
  <2>1. SumFunctionOnSet(f, S) \in Nat
    BY <1>6, <1>7, SumOfNats
  <2>2. SumFunctionOnSet(u, S) \in Int
    BY <1>6, <1>7, SumOut
  <2>3. SumFunctionOnSet(g, S) \in Int
    BY <1>6, <1>7, SumOut
  <2>4. SumFunctionOnSet(both, S) \in Int
    BY <1>6, <1>7, SumOut
  <2>. QED  BY <2>1, <2>2, <2>3, <2>4
<1>11. ASSUME NEW v, NEW w \in [S -> Int], v \in [Requests -> Nat], \A q \in S : w[q] = v[q] * PageSize
       PROVE  /\ SumFunctionOnSet(w, S) = SumFunctionOnSet(v, S) * PageSize
              /\ SumFunctionOnSet(v, S) \in Nat
  <2>1. PICK z : z = [q \in S |-> v[q]]
    OBVIOUS
  <2>2. z \in [S -> Int] /\ \A q \in S : z[q] = v[q]
    <3>1. \A q \in S : v[q] \in Int
      BY <1>6, <1>11
    <3>. QED  BY <2>1, <3>1
  <2>3. SumFunctionOnSet(w, S) = SumFunctionOnSet(z, S) * PageSize
    <3>1. \A q \in S : w[q] = z[q] * PageSize
      BY <1>11, <2>2
    <3>2. PageSize \in Nat
      BY PageSizeIs
    <3>. QED  BY <1>6, <1>11, <2>2, <3>1, <3>2, SumScale
  <2>4. SumFunctionOnSet(z, S) = SumFunctionOnSet(v, S)
    <3>1. v \in [Requests -> Int] /\ S \in SUBSET (S \cap Requests)
      BY <1>6, <1>11
    <3>. QED  BY <1>6, <2>2, <3>1, SumSame
  <2>5. SumFunctionOnSet(v, S) \in Nat
    <3>1. S \in SUBSET Requests
      BY <1>6
    <3>. QED  BY <1>6, <1>11, <3>1, SumOfNats
  <2>. QED  BY <2>3, <2>4, <2>5
<1>12. /\ SumFunctionOnSet(u, S) = SumFunctionOnSet(Held1, S) * PageSize
       /\ SumFunctionOnSet(Held1, S) \in Nat
  <2>1. PICK v : v = Held1
    OBVIOUS
  <2>2. v \in [Requests -> Nat] /\ \A q \in S : u[q] = v[q] * PageSize
    BY <1>4, <1>5, <2>1, RunningHold
  <2>. QED  BY <1>7, <1>11, <2>1, <2>2
<1>13. /\ SumFunctionOnSet(g, S) = SumFunctionOnSet(Reserve, S) * PageSize
       /\ SumFunctionOnSet(Reserve, S) \in Nat
  <2>1. PICK v : v = Reserve
    OBVIOUS
  <2>2. v \in [Requests -> Nat] /\ \A q \in S : g[q] = v[q] * PageSize
    BY <1>4, <1>5, <2>1, ReserveIs
  <2>. QED  BY <1>7, <1>11, <2>1, <2>2
<1>14. PICK A, H, F, I, l, R :
           /\ A = SumFunctionOnSet(Reserve, S) /\ H = SumFunctionOnSet(Held1, S) /\ F = Len(free)
           /\ I = SumFunctionOnSet(f, S) /\ l = Limit(h) /\ R = Reserve[h]
    OBVIOUS
<1>14a. A \in Nat /\ H \in Nat /\ F \in Nat /\ I \in Nat /\ R \in Nat
  <2>1. Reserve[h] \in Nat /\ Len(free) \in Nat
    BY <1>1, ReserveIs, LenProperties DEF Types
  <2>. QED  BY <1>10, <1>12, <1>13, <1>14, <2>1
<1>15. F + H = NumPages
    BY <1>5, <1>14, RunningHold
<1>16. l + I <= F * PageSize
    BY <1>3, <1>5, <1>14 DEF CanPrefill
<1>17. /\ R * PageSize <= (l - 1) + PageSize - 1 /\ R * PageSize \in Nat /\ l \in Nat /\ l - 1 \in Nat
       /\ R = PagesFor(l - 1)
  <2>1. PICK k : k = l - 1
    OBVIOUS
  <2>2. k \in Nat /\ l \in Nat /\ R = PagesFor(k)
    BY <1>1, <1>14, <2>1, ReserveIs DEF Reserve
  <2>3. PagesFor(k) * PageSize <= k + PageSize - 1 /\ PagesFor(k) * PageSize \in Nat
    BY <2>2, PagesForIs
  <2>. QED  BY <2>1, <2>2, <2>3
<1>18. A * PageSize <= H * PageSize + I
  <2>1. SumFunctionOnSet(g, S) <= SumFunctionOnSet(u, S) + SumFunctionOnSet(f, S)
    BY <1>8, <1>9
  <2>. QED  BY <1>12, <1>13, <1>14, <2>1
<1>19. A + R <= NumPages
  <2>1. ASSUME NumPages < A + R PROVE FALSE
    <3>1. PICK n, m : n = NumPages /\ m = A + R
      OBVIOUS
    <3>2. n \in Nat /\ m \in Nat /\ n < m
      BY <1>14a, <2>1, <3>1, PageSizeIs
    <3>3. n * PageSize + PageSize <= m * PageSize /\ n * PageSize \in Nat /\ m * PageSize \in Nat
      BY <3>2, NextPage
    <3>4. n * PageSize = F * PageSize + H * PageSize /\ m * PageSize = A * PageSize + R * PageSize
      <4>1. (F + H) * PageSize = F * PageSize + H * PageSize
        BY <1>14a, PageSizeIs, SMT
      <4>2. (A + R) * PageSize = A * PageSize + R * PageSize
        BY <1>14a, PageSizeIs, SMT
      <4>. QED  BY <1>15, <3>1, <4>1, <4>2
    <3>5. A * PageSize \in Nat /\ H * PageSize \in Nat /\ F * PageSize \in Nat
      BY <1>14a, PageSizeIs, SMT
    <3>6. PICK a \in Nat, b \in Nat, c \in Nat, d \in Nat :
              a = A * PageSize /\ b = H * PageSize /\ c = F * PageSize /\ d = R * PageSize
      BY <1>17, <3>5
    <3>7. c + b + PageSize <= a + d
      BY <3>3, <3>4, <3>6
    <3>8. a <= b + I /\ l + I <= c /\ d <= (l - 1) + PageSize - 1
      BY <1>16, <1>17, <1>18, <3>6
    <3>. QED  BY <1>14a, <1>17, <3>7, <3>8, PageSizeIs
  <2>. QED  BY <1>14a, <2>1, PageSizeIs
<1>20. SumFunctionOnSet(Reserve, S \cup {h}) = R + A
  <2>1. S \in SUBSET Requests /\ h \in Requests \ S
    BY <1>1, <1>5, <1>6
  <2>2. PICK v, x : v = Reserve /\ x = h
    OBVIOUS
  <2>3. v \in [Requests -> Int] /\ x \in Requests \ S
    BY <2>1, <2>2, ReserveIs
  <2>4. SumFunctionOnSet(v, S \cup {x}) = v[x] + SumFunctionOnSet(v, S)
    BY <1>6, <2>1, <2>3, SumIn
  <2>. QED  BY <1>14, <2>2, <2>4
<1>21. PagesFor(Len(Prompt[h])) <= F
  <2>1. PICK n : n = Len(Prompt[h])
    OBVIOUS
  <2>2. n \in Nat /\ n < l
    BY <1>1, <1>14, <2>1, ReserveIs
  <2>3. PICK k \in Nat : k = PagesFor(n) /\ k * PageSize <= n + PageSize - 1
    BY <2>2, PagesForIs
  <2>4. ASSUME F < k PROVE FALSE
    <3>1. F * PageSize + PageSize <= k * PageSize /\ F * PageSize \in Nat /\ k * PageSize \in Nat
      BY <1>14a, <2>4, NextPage
    <3>2. PICK a \in Nat, b \in Nat : a = F * PageSize /\ b = k * PageSize
      BY <3>1
    <3>3. a + PageSize <= b /\ b <= n + PageSize - 1 /\ l + I <= a
      BY <1>16, <2>3, <3>1, <3>2
    <3>. QED  BY <1>14a, <1>17, <2>2, <3>3, PageSizeIs
  <2>. QED  BY <1>14a, <2>1, <2>3, <2>4
<1>22. SumFunctionOnSet(Reserve, S \cup {h}) <= NumPages
  <2>1. R + A = A + R
    BY <1>14a
  <2>. QED  BY <1>19, <1>20, <2>1
<1>. QED  BY <1>1, <1>5, <1>14, <1>21, <1>22

\* What is left of a queue when its head is taken.
LEMMA TailElements ==
    ASSUME NEW T, NEW s \in Seq(T), s # << >>, IsInjective(s)
    PROVE  /\ Tail(s) \in Seq(T) /\ IsInjective(Tail(s)) /\ ToSet(Tail(s)) = ToSet(s) \ {Head(s)}
           /\ Head(s) \in ToSet(s) /\ Head(s) \in T
<1>1. PICK l \in Nat : l = Len(s) /\ l # 0 /\ DOMAIN s = 1 .. l
    BY EmptySeq, LenProperties
<1>2. PICK t : t = Tail(s)
    OBVIOUS
<1>3. t \in Seq(T) /\ Len(t) = l - 1 /\ \A i \in 1 .. l - 1 : t[i] = s[i + 1]
    BY <1>1, <1>2, HeadTailProperties
<1>4. DOMAIN t = 1 .. l - 1
    BY <1>3, LenProperties
<1>5. Head(s) = s[1] /\ 1 \in 1 .. l
    BY <1>1
<1>6. \A i, j \in 1 .. l : s[i] = s[j] => i = j
    BY <1>1 DEF IsInjective
<1>7. IsInjective(t)
  <2>1. ASSUME NEW i \in 1 .. l - 1, NEW j \in 1 .. l - 1, t[i] = t[j] PROVE i = j
    <3>1. i + 1 \in 1 .. l /\ j + 1 \in 1 .. l /\ s[i + 1] = s[j + 1]
      BY <1>1, <1>3, <2>1
    <3>2. i + 1 = j + 1
      BY <1>6, <3>1
    <3>. QED  BY <3>2
  <2>. QED  BY <1>4, <2>1 DEF IsInjective
<1>8. ToSet(t) = ToSet(s) \ {Head(s)}
  <2>1. ASSUME NEW x \in ToSet(t) PROVE x \in ToSet(s) \ {Head(s)}
    <3>1. PICK i \in 1 .. l - 1 : x = t[i]
      BY <1>4 DEF ToSet
    <3>2. i + 1 \in 1 .. l /\ x = s[i + 1] /\ i + 1 # 1
      BY <1>1, <1>3, <3>1
    <3>. QED  BY <1>1, <1>5, <1>6, <3>2 DEF ToSet
  <2>2. ASSUME NEW x \in ToSet(s) \ {Head(s)} PROVE x \in ToSet(t)
    <3>1. PICK i \in 1 .. l : x = s[i]
      BY <1>1 DEF ToSet
    <3>2. i # 1
      BY <1>5, <3>1
    <3>3. i - 1 \in 1 .. l - 1 /\ (i - 1) + 1 = i
      BY <1>1, <3>2
    <3>4. t[i - 1] = x
      BY <1>3, <3>1, <3>3
    <3>. QED  BY <1>4, <3>3, <3>4 DEF ToSet
  <2>. QED  BY <2>1, <2>2
<1>9. Head(s) \in ToSet(s)
    BY <1>1, <1>5 DEF ToSet
<1>10. Head(s) \in T
    BY <1>1, <1>5, ElementOfSeq
<1>. QED  BY <1>2, <1>3, <1>7, <1>8, <1>9, <1>10

\* A text is all but its last token, and that.
LEMMA FrontLast ==
    ASSUME NEW w \in Seq(Tokens), w # << >>
    PROVE  /\ Front(w) \o <<Last(w)>> = w /\ Front(w) \in Seq(Tokens) /\ Last(w) \in Tokens
           /\ Len(Front(w)) = Len(w) - 1 /\ Len(w) \in Nat \ {0}
<1>1. Len(w) \in Nat \ {0}
    BY EmptySeq, LenProperties
<1>2. 1 \in 1 .. Len(w) /\ Len(w) \in 1 .. Len(w)
    BY <1>1
<1>3. SubSeq(w, 1, Len(w)) = SubSeq(w, 1, Len(w) - 1) \o <<w[Len(w)]>>
    BY <1>2, SubSeqRecursiveSecond
<1>4. w[Len(w)] \in Tokens
    BY <1>2, ElementOfSeq
<1>5. PICK k : k = Len(w) - 1
    OBVIOUS
<1>6. k \in Nat /\ k <= Len(w) /\ 1 <= k + 1 /\ 1 \in Nat /\ k - 1 + 1 = k
    BY <1>1, <1>5
<1>7. SubSeq(w, 1, k) \in Seq(Tokens) /\ Len(SubSeq(w, 1, k)) = k - 1 + 1
    BY <1>6, PartIs
<1>. QED  BY <1>1, <1>3, <1>4, <1>5, <1>6, <1>7, SubSeqFull DEF Front, Last

\* After the step nobody runs who did not run before or was of the batch.
LEMMA RunningAfter ==
    ASSUME NEW block, NEW kept, NEW length, NEW state, NEW thinks, NEW tools,
           Commit(block, kept, length, state, thinks, tools)
    PROVE  Running' \subseteq Running \cup DOMAIN block
<1>1. stage' = [q \in Requests |-> IF q \in Over(kept, length) THEN "done"
                                   ELSE IF q \in DOMAIN block THEN "running" ELSE stage[q]]
    BY DEF Commit
<1>2. ASSUME NEW q \in Requests, stage'[q] = "running" PROVE q \in Running \cup DOMAIN block
  <2>1. CASE q \in Over(kept, length)
    BY <1>1, <1>2, <2>1
  <2>2. CASE q \notin Over(kept, length)
    BY <1>1, <1>2, <2>2 DEF Running
  <2>. QED  BY <2>1, <2>2
<1>. QED  BY <1>2 DEF Running

\* Only who ran or was of the batch runs after a step.
LEMMA CommitsRunning ==
    ASSUME NEW block, Commits(block)
    PROVE  Running' \subseteq Running \cup DOMAIN block
<1>1. PICK kept, length, state, thinks, tools : Commit(block, kept, length, state, thinks, tools)
    BY DEF Commits
<1>. QED  BY <1>1, RunningAfter

\* A prefill commits what a forward of the prompt may give.
LEMMA PrefillCommits ==
    ASSUME SInv, Answers, Prefill
    PROVE  Commits(PromptBlock)
<1>. DEFINE h == Head(queue)
            block == PromptBlock
<1>1. Types /\ Idle /\ PagesOK /\ Following /\ Snapped /\ Reserved
    BY DEF SInv
<1>2. up /\ CanPrefill /\ ~TooFewPages(block) /\ PlainStep(block) /\ queue' = Tail(queue)
      /\ UNCHANGED <<server, up>>
    BY DEF Prefill
<1>3. /\ h \in Requests /\ stage[h] = "waiting"
      /\ SumFunctionOnSet(Reserve, Running \cup {h}) <= NumPages
    BY <1>1, <1>2, PrefillRoom
<1>4. DOMAIN block = {h} /\ block[h] = Prompt[h]
    BY DEF PromptBlock
<1>. HIDE DEF block
<1>5. Prompt[h] \in Seq(Tokens) /\ Len(Prompt[h]) >= 1 /\ Len(Prompt[h]) \in Nat
      /\ Limit(h) \in Nat /\ Len(Prompt[h]) < Limit(h)
    BY <1>3, ReserveIs
<1>6. Batch(block)
    BY <1>2, <1>3, <1>4, <1>5 DEF Batch
<1>7. Reads(block)
  <2>1. text[h] = Prompt[h] /\ cached[h] = 0 /\ rec[h] = NoState
    BY <1>1, <1>3 DEF Idle
  <2>2. Context(h) = << >>
    <3>1. Context(h) \in Seq(Tokens) /\ Len(Context(h)) = 0
      BY <1>1, <1>3, <2>1, ContextTypes
    <3>. QED  BY <3>1, EmptySeq
  <2>3. << >> \o Prompt[h] = Prompt[h]
    BY <1>5, ConcatEmptySeq
  <2>4. NoState.conv = << >> /\ NoState.ssm = << >>
    BY DEF NoState
  <2>5. Len(text[h]) + 1 <= Limit(h)
    BY <1>5, <2>1
  <2>6. Context(h) \o block[h] = text[h] /\ rec[h].conv \o block[h] = text[h]
        /\ rec[h].ssm \o block[h] = text[h]
    BY <1>4, <2>1, <2>2, <2>3, <2>4
  <2>. QED  BY <1>4, <2>5, <2>6 DEF Reads
<1>8. \A q \in DOMAIN block : stage[q] \in {"waiting", "running"}
    BY <1>3, <1>4
<1>9. Commits(block)
    BY <1>1, <1>2, <1>6, <1>7, <1>8, PlainCommits
<1>. QED  BY <1>9 DEF block

\* A prefill keeps the invariant: admission has left room for the request.
LEMMA PrefillKeeps ==
    ASSUME SInv, Answers, Prefill
    PROVE  SInv'
<1>. DEFINE h == Head(queue)
            block == PromptBlock
<1>1. Types /\ Idle /\ PagesOK /\ Following /\ Snapped /\ Reserved
    BY DEF SInv
<1>2. up /\ CanPrefill /\ ~TooFewPages(block) /\ PlainStep(block) /\ queue' = Tail(queue)
      /\ UNCHANGED <<server, up>>
    BY DEF Prefill
<1>3. /\ h \in Requests /\ stage[h] = "waiting"
      /\ SumFunctionOnSet(Reserve, Running \cup {h}) <= NumPages
    BY <1>1, <1>2, PrefillRoom
<1>4. DOMAIN block = {h} /\ block[h] = Prompt[h]
    BY DEF PromptBlock
<1>5. Commits(block)
    BY PrefillCommits
<1>. HIDE DEF block
<1>8. /\ queue' \in Seq(Requests) /\ IsInjective(queue')
      /\ ToSet(queue') = ToSet(queue) \ DOMAIN block
  <2>1. queue \in Seq(Requests) /\ IsInjective(queue) /\ queue # << >>
    BY <1>1, <1>2 DEF Types, Idle, CanPrefill
  <2>. QED  BY <1>2, <1>4, <2>1, TailElements
<1>9. Types' /\ Idle' /\ PagesOK' /\ Following' /\ Snapped'
    BY <1>1, <1>2, <1>5, <1>8, CommitsKeeps
<1>10. Reserved'
  <2>1. Running' \subseteq Running \cup {h}
    BY <1>4, <1>5, CommitsRunning
  <2>2. PICK A, S : A = Running' /\ S = Running \cup {h}
    OBVIOUS
  <2>3. S \in SUBSET Requests /\ IsFiniteSet(S) /\ A \in SUBSET S
    <3>1. S \in SUBSET Requests
      BY <1>3, <2>2, RequestsAre
    <3>. QED  BY <2>1, <2>2, <3>1, RequestsAre, FS_Subset
  <2>4. SumFunctionOnSet(Reserve, A) <= SumFunctionOnSet(Reserve, S)
        /\ SumFunctionOnSet(Reserve, S) \in Nat
    BY <2>3, ReserveIs, SumOfNats
  <2>5. SumFunctionOnSet(Reserve, A) \in Nat
    <3>1. A \in SUBSET Requests /\ IsFiniteSet(A)
      BY <2>3, FS_Subset
    <3>. QED  BY <3>1, ReserveIs, SumOfNats
  <2>6. SumFunctionOnSet(Reserve, A) <= NumPages
    BY <1>3, <2>2, <2>4, <2>5, PageSizeIs
  <2>7. Reserve' = Reserve
    BY DEF Reserve, PagesFor, Limit
  <2>. QED  BY <2>2, <2>6, <2>7 DEF Reserved
<1>11. BlocksFit'
    BY <1>2 DEF BlocksFit
<1>. QED  BY <1>9, <1>10, <1>11 DEF SInv

\* So does a step of the normal lane for all who run.
LEMMA PlainDecodeCommits ==
    ASSUME SInv, Answers, PlainDecode
    PROVE  Commits(PlainBlock)
<1>. DEFINE block == PlainBlock
<1>1. Types /\ Idle /\ PagesOK /\ Following /\ Snapped /\ Reserved
    BY DEF SInv
<1>2. up /\ ~TooFewPages(block) /\ PlainStep(block) /\ queue' = queue
      /\ UNCHANGED <<server, up>>
    BY DEF PlainDecode
<1>3. DOMAIN block = Running /\ \A q \in Running : block[q] = <<input[q]>>
    BY DEF PlainBlock
<1>. HIDE DEF block
<1>4. ASSUME NEW q \in Running
      PROVE  /\ q \in Requests /\ text[q] \in Seq(Tokens) /\ text[q] # << >> /\ input[q] \in Tokens
             /\ block[q] = <<Last(text[q])>> /\ Context(q) = Front(text[q])
             /\ Len(text[q]) + 1 <= Limit(q)
             /\ RollsBack(server) => rec[q].conv = Front(text[q]) /\ rec[q].ssm = Front(text[q])
  <2>1. q \in Requests /\ text[q] \in Seq(Tokens) /\ text[q] # << >> /\ input[q] \in Tokens
    BY <1>1 DEF Types, Running
  <2>2. Followed(q)
    BY <1>1 DEF Following
  <2>3. Len(text[q]) \in Nat /\ Limit(q) \in Nat
    BY <2>1, LenProperties, ReserveIs
  <2>4. Len(text[q]) + 1 <= Limit(q)
    BY <2>2, <2>3 DEF Followed
  <2>. QED  BY <1>3, <2>1, <2>2, <2>4 DEF Followed
<1>5. Batch(block)
  <2>1. ASSUME NEW q \in Running PROVE block[q] \in Seq(Tokens) /\ Len(block[q]) >= 1
    <3>1. PICK x \in Tokens : block[q] = <<x>>
      BY <1>3, <1>4
    <3>. QED  BY <3>1
  <2>. QED  BY <1>2, <1>3, <1>4, <2>1 DEF Batch
<1>6. Reads(block)
  <2>1. ASSUME NEW q \in Running PROVE Front(text[q]) \o block[q] = text[q]
    BY <1>4, FrontLast
  <2>2. ASSUME NEW q \in Running
        PROVE  /\ Context(q) \o block[q] = text[q] /\ Len(text[q]) + 1 <= Limit(q)
               /\ RollsBack(server) => rec[q].conv \o block[q] = text[q] /\ rec[q].ssm \o block[q] = text[q]
    BY <1>4, <2>1
  <2>. QED  BY <1>3, <2>2 DEF Reads
<1>7. \A q \in DOMAIN block : stage[q] \in {"waiting", "running"}
    BY <1>3 DEF Running
<1>8. Commits(block)
    BY <1>1, <1>2, <1>5, <1>6, <1>7, PlainCommits
<1>. QED  BY <1>8 DEF block

\* A step of the normal lane keeps the invariant.
LEMMA PlainDecodeKeeps ==
    ASSUME SInv, Answers, PlainDecode
    PROVE  SInv'
<1>. DEFINE block == PlainBlock
<1>1. Types /\ Idle /\ PagesOK /\ Following /\ Snapped /\ Reserved
    BY DEF SInv
<1>2. up /\ ~TooFewPages(block) /\ PlainStep(block) /\ queue' = queue
      /\ UNCHANGED <<server, up>>
    BY DEF PlainDecode
<1>3. DOMAIN block = Running /\ \A q \in Running : block[q] = <<input[q]>>
    BY DEF PlainBlock
<1>4. Commits(block)
    BY PlainDecodeCommits
<1>. HIDE DEF block
<1>7. /\ queue' \in Seq(Requests) /\ IsInjective(queue')
      /\ ToSet(queue') = ToSet(queue) \ DOMAIN block
  <2>1. queue \in Seq(Requests) /\ IsInjective(queue)
    BY <1>1 DEF Types, Idle
  <2>2. ToSet(queue) \cap Running = {}
    BY <1>1 DEF Idle, Running
  <2>. QED  BY <1>2, <1>3, <2>1, <2>2
<1>8. Types' /\ Idle' /\ PagesOK' /\ Following' /\ Snapped'
    BY <1>1, <1>2, <1>4, <1>7, CommitsKeeps
<1>9. Reserved'
  <2>1. Running' \subseteq Running
    BY <1>3, <1>4, CommitsRunning
  <2>. QED  BY <1>1, <2>1, ReservedFewer
<1>10. BlocksFit'
    BY <1>2 DEF BlocksFit
<1>. QED  BY <1>8, <1>9, <1>10 DEF SInv

----------------------------------------------------------------------------
(* Messages, and the end of the scheduler.                                 *)

\* A running request whose row, cache and text do not change still follows.
LEMMA FollowedStill ==
    ASSUME NEW q, Followed(q), UNCHANGED <<server, kv, text, cached, row, input, rec>>,
           up' => up /\ device' = device
    PROVE  Followed(q)'
<1>1. Context(q)' = Context(q)
    BY DEF Context, Location
<1>2. Limit(q)' = Limit(q)
    BY DEF Limit
<1>. QED  BY <1>1, <1>2 DEF Followed

\* A request that comes is queued, and has nothing yet.
LEMMA ArriveKeeps ==
    ASSUME SInv, NEW q \in Requests, Arrive(q)
    PROVE  SInv'
<1>1. Types /\ Idle /\ PagesOK /\ Following /\ Snapped /\ Reserved
    BY DEF SInv
<1>2. /\ up /\ stage[q] = "new" /\ stage' = [stage EXCEPT ![q] = "waiting"] /\ queue' = Append(queue, q)
      /\ UNCHANGED <<server, up, text, cached, device, input, row, free, kv, rec, snap, think, tool>>
    BY DEF Arrive
<1>3. stage \in [Requests -> {"new", "waiting", "running", "done"}] /\ queue \in Seq(Requests)
    BY <1>1 DEF Types
<1>4. \A r \in Requests : stage'[r] = IF r = q THEN "waiting" ELSE stage[r]
    BY <1>2, <1>3
<1>5. q \notin ToSet(queue) /\ IsInjective(queue)
    BY <1>1, <1>2 DEF Idle
<1>6. queue' \in Seq(Requests) /\ ToSet(queue') = ToSet(queue) \cup {q} /\ IsInjective(queue')
  <2>1. Append(queue, q) \in Seq(Requests)
    BY <1>3
  <2>. QED  BY <1>2, <1>3, <1>5, <2>1, AppendElements
<1>7. Types'
  <2>1. stage' \in [Requests -> {"new", "waiting", "running", "done"}]
    BY <1>2, <1>3
  <2>. QED  BY <1>1, <1>2, <1>6, <2>1 DEF Types
<1>8. Idle'
    BY <1>1, <1>2, <1>4, <1>6 DEF Idle
<1>9. PagesOK'
    BY <1>1, <1>2 DEF PagesOK
<1>10. Running' = Running
    BY <1>2, <1>4 DEF Running
<1>11. Following'
  <2>1. ASSUME NEW r \in Running PROVE Followed(r)'
    BY <1>1, <1>2, FollowedStill DEF Following
  <2>. QED  BY <1>10, <2>1 DEF Following
<1>12. Snapped'
    BY <1>1, <1>2, <1>4 DEF Snapped, SnapshotsAreExact
<1>13. Reserved'
    BY <1>1, <1>10, ReservedFewer
<1>14. BlocksFit'
    BY <1>2 DEF BlocksFit
<1>. QED  BY <1>7, <1>8, <1>9, <1>11, <1>12, <1>13, <1>14 DEF SInv

\* A request that is given up leaves its pages, and a snapshot that is exact.
LEMMA AbortKeeps ==
    ASSUME SInv, NEW q \in Requests, Abort(q)
    PROVE  SInv'
<1>1. Types /\ Idle /\ PagesOK /\ Following /\ Snapped /\ Reserved
    BY DEF SInv
<1>2. /\ up /\ stage[q] \in {"waiting", "running"}
      /\ stage' = [stage EXCEPT ![q] = "done"] /\ queue' = Without(queue, {q})
      /\ free' = free \o row[q] /\ row' = [row EXCEPT ![q] = << >>]
      /\ cached' = [cached EXCEPT ![q] = 0] /\ device' = [device EXCEPT ![q] = 0]
      /\ rec' = [rec EXCEPT ![q] = NoState]
      /\ snap' = [snap EXCEPT ![q] = SnapshotOf(cached[q], rec[q])]
      /\ think' = [think EXCEPT ![q] = Off] /\ tool' = [tool EXCEPT ![q] = Off]
      /\ UNCHANGED <<server, up, text, input, kv>>
    BY DEF Abort
<1>3. /\ stage \in [Requests -> {"new", "waiting", "running", "done"}] /\ queue \in Seq(Requests)
      /\ cached \in [Requests -> Nat] /\ device \in [Requests -> Nat]
      /\ row \in [Requests -> Seq(Pages)] /\ free \in Seq(Pages) /\ think \in [Requests -> Gates]
      /\ rec = [r \in Requests |-> rec[r]] /\ snap = [r \in Requests |-> snap[r]]
      /\ tool = [r \in Requests |-> tool[r]]
    BY <1>1 DEF Types
<1>4. /\ stage'[q] = "done" /\ row'[q] = << >> /\ cached'[q] = 0 /\ device'[q] = 0
      /\ rec'[q] = NoState /\ think'[q] = Off /\ tool'[q] = Off
      /\ snap'[q] = SnapshotOf(cached[q], rec[q])
    BY <1>2, <1>3
<1>5. \A r \in Requests \ {q} :
          /\ stage'[r] = stage[r] /\ row'[r] = row[r] /\ cached'[r] = cached[r]
          /\ device'[r] = device[r] /\ rec'[r] = rec[r] /\ think'[r] = think[r]
          /\ tool'[r] = tool[r] /\ snap'[r] = snap[r]
    BY <1>2, <1>3
<1>6. queue' \in Seq(Requests) /\ ToSet(queue') = ToSet(queue) \ {q} /\ IsInjective(queue')
  <2>1. PICK K : K = ToSet(queue) \ {q}
    OBVIOUS
  <2>2. queue' = Only(queue, K)
    BY <1>2, <2>1 DEF Without
  <2>3. IsInjective(queue)
    BY <1>1 DEF Idle
  <2>4. /\ Only(queue, K) \in Seq(Requests) /\ ToSet(Only(queue, K)) = ToSet(queue) \cap K
        /\ IsInjective(queue) => IsInjective(Only(queue, K))
    BY <1>3, OnlyElements
  <2>. QED  BY <2>1, <2>2, <2>3, <2>4
<1>7. /\ IsInjective(free) /\ IsInjective(row[q]) /\ ToSet(row[q]) \cap ToSet(free) = {}
      /\ row[q] \in Seq(Pages)
    BY <1>1, <1>3 DEF PagesOK
<1>8. free' \in Seq(Pages) /\ ToSet(free') = ToSet(free) \cup ToSet(row[q]) /\ IsInjective(free')
  <2>1. PICK s : s = row[q]
    OBVIOUS
  <2>2. s \in Seq(Pages) /\ IsInjective(s) /\ ToSet(free) \cap ToSet(s) = {}
    BY <1>7, <2>1
  <2>3. ToSet(free \o s) = ToSet(free) \cup ToSet(s) /\ IsInjective(free \o s)
    BY <1>3, <1>7, <2>2, ConcatElements
  <2>4. free \o s \in Seq(Pages)
    BY <1>3, <2>2, ConcatProperties
  <2>. QED  BY <1>2, <2>1, <2>3, <2>4
<1>9. Types'
  <2>1. stage' \in [Requests -> {"new", "waiting", "running", "done"}]
    BY <1>2, <1>3
  <2>2. cached' \in [Requests -> Nat] /\ device' \in [Requests -> Nat]
    BY <1>2, <1>3
  <2>3. row' \in [Requests -> Seq(Pages)]
    BY <1>2, <1>3
  <2>4. Off \in Gates
    BY DEF Gates
  <2>5. think' \in [Requests -> Gates]
    BY <1>2, <1>3, <2>4
  <2>6. rec' = [r \in Requests |-> rec'[r]] /\ snap' = [r \in Requests |-> snap'[r]]
        /\ tool' = [r \in Requests |-> tool'[r]]
    BY <1>2, <1>3
  <2>7. \A r \in Requests : (r \notin Thinks => think'[r] = Off) /\ (r \notin HasTools => tool'[r] = Off)
    <3>1. \A r \in Requests : (r \notin Thinks => think[r] = Off) /\ (r \notin HasTools => tool[r] = Off)
      BY <1>1 DEF Types
    <3>. QED  BY <1>4, <1>5, <3>1
  <2>8. server' \in Servers /\ up' \in BOOLEAN /\ text' \in [Requests -> Seq(Tokens) \ {<< >>}]
        /\ input' \in [Requests -> Tokens] /\ kv' \in [Locations -> Tokens]
    BY <1>1, <1>2 DEF Types
  <2>. QED  BY <1>6, <1>8, <2>1, <2>2, <2>3, <2>5, <2>6, <2>7, <2>8 DEF Types
<1>10. Idle'
  <2>1. \A r \in Requests : r \in ToSet(queue') <=> stage'[r] = "waiting"
    BY <1>1, <1>4, <1>5, <1>6 DEF Idle
  <2>2. \A r \in Requests : stage'[r] # "running" =>
            /\ cached'[r] = 0 /\ row'[r] = << >> /\ rec'[r] = NoState
            /\ think'[r] = Off /\ tool'[r] = Off
    BY <1>1, <1>4, <1>5 DEF Idle
  <2>3. \A r \in Requests : stage'[r] \in {"new", "waiting"} => text'[r] = Prompt[r]
    BY <1>1, <1>2, <1>4, <1>5 DEF Idle
  <2>. QED  BY <1>6, <2>1, <2>2, <2>3 DEF Idle
<1>11. ToSet(<< >>) = {} /\ IsInjective(<< >>) /\ Len(<< >>) = 0
    BY DEF ToSet, IsInjective
<1>12. PagesOK'
  <2>1. ASSUME NEW r \in Requests
        PROVE  /\ IsInjective(row'[r]) /\ ToSet(row'[r]) \cap ToSet(free') = {}
               /\ Len(row'[r]) = PagesFor(cached'[r])
    <3>1. CASE r = q
      BY <1>4, <1>11, <3>1, PagesForNone
    <3>2. CASE r # q
      <4>1. /\ IsInjective(row[r]) /\ ToSet(row[r]) \cap ToSet(free) = {}
            /\ Len(row[r]) = PagesFor(cached[r]) /\ ToSet(row[r]) \cap ToSet(row[q]) = {}
        BY <1>1, <3>2 DEF PagesOK
      <4>. QED  BY <1>5, <1>8, <3>2, <4>1
    <3>. QED  BY <3>1, <3>2
  <2>2. ASSUME NEW r \in Requests, NEW s \in Requests, r # s
        PROVE  ToSet(row'[r]) \cap ToSet(row'[s]) = {}
    <3>1. CASE r = q \/ s = q
      BY <1>4, <1>11, <3>1
    <3>2. CASE r # q /\ s # q
      BY <1>1, <1>5, <2>2, <3>2 DEF PagesOK
    <3>. QED  BY <3>1, <3>2
  <2>3. ASSUME NEW p \in Pages PROVE p \in ToSet(free') \/ \E r \in Requests : p \in ToSet(row'[r])
    <3>1. p \in ToSet(free) \/ \E r \in Requests : p \in ToSet(row[r])
      BY <1>1 DEF PagesOK
    <3>. QED  BY <1>5, <1>8, <3>1
  <2>. QED  BY <1>8, <2>1, <2>2, <2>3 DEF PagesOK, PagesFor, Pages
<1>13. Running' = Running \ {q}
    BY <1>4, <1>5 DEF Running
<1>14. Following'
  <2>1. ASSUME NEW r \in Running, r # q PROVE Followed(r)'
    <3>1. r \in Requests \ {q} /\ Followed(r)
      BY <1>1, <2>1 DEF Following, Running
    <3>2. Context(r)' = Context(r)
      BY <1>2, <1>5, <3>1 DEF Context, Location
    <3>3. Limit(r)' = Limit(r)
      BY DEF Limit
    <3>. QED  BY <1>2, <1>5, <3>1, <3>2, <3>3 DEF Followed
  <2>. QED  BY <1>13, <2>1 DEF Following
<1>15. Snapped'
  <2>1. ASSUME NEW r \in Requests, stage'[r] # "done" PROVE snap'[r] = NoSnap
    BY <1>1, <1>4, <1>5, <2>1 DEF Snapped
  <2>2. ASSUME AlwaysOnRing(server'), NEW r \in Requests
        PROVE  snap'[r].state.ssm = SubSeq(text'[r], 1, snap'[r].len)
    <3>1. CASE r # q
      BY <1>1, <1>2, <1>5, <2>2, <3>1 DEF Snapped, SnapshotsAreExact
    <3>2. CASE r = q
      <4>1. rec[q].ssm = SubSeq(text[q], 1, cached[q])
        <5>1. CASE q \in Running
          <6>0. server \in Servers /\ AlwaysOnRing(server)
            BY <1>1, <1>2, <1>5, <2>2 DEF Types
          <6>1. Followed(q) /\ RollsBack(server)
            BY <1>1, <5>1, <6>0, OnRingRollsBack DEF Following
          <6>2. rec[q].ssm = Front(text[q]) /\ cached[q] = Len(text[q]) - 1
            BY <6>1 DEF Followed
          <6>. QED  BY <6>2 DEF Front
        <5>2. CASE q \notin Running
          <6>1. rec[q] = NoState /\ cached[q] = 0
            BY <1>1, <5>2 DEF Idle, Running
          <6>2. NoState = NoSnap.state /\ NoSnap.len = 0
            BY DEF NoSnap
          <6>. QED  BY <6>1, <6>2, NoneLeft
        <5>. QED  BY <5>1, <5>2
      <4>2. CASE cached[q] % PageSize = 0
        <5>1. snap'[q] = [len |-> cached[q], state |-> rec[q]]
          BY <1>4, <4>2 DEF SnapshotOf
        <5>. QED  BY <1>2, <3>2, <4>1, <5>1
      <4>3. CASE ~(cached[q] % PageSize = 0)
        <5>1. snap'[q] = NoSnap
          BY <1>4, <4>3 DEF SnapshotOf
        <5>. QED  BY <3>2, <5>1, NoneLeft
      <4>. QED  BY <4>2, <4>3
    <3>. QED  BY <3>1, <3>2
  <2>. QED  BY <2>1, <2>2 DEF Snapped, SnapshotsAreExact
<1>16. Reserved'
  <2>1. Running' \subseteq Running
    BY <1>13
  <2>. QED  BY <1>1, <2>1, ReservedFewer
<1>17. BlocksFit'
    BY <1>2 DEF BlocksFit
<1>. QED  BY <1>9, <1>10, <1>12, <1>14, <1>15, <1>16, <1>17 DEF SInv

----------------------------------------------------------------------------
(* The speculative lane.                                                   *)

\* A start of a concatenation that reaches into its second part.
LEMMA HeadOfConcat ==
    ASSUME NEW T, NEW s \in Seq(T), NEW b \in Seq(T), NEW t \in Nat, t <= Len(b)
    PROVE  SubSeq(s \o b, 1, Len(s) + t) = s \o SubSeq(b, 1, t)
<1>1. PICK k \in Nat, l \in Nat : k = Len(s) /\ l = Len(b)
    BY LenProperties
<1>2. PICK w, c : w = s \o b /\ c = SubSeq(b, 1, t)
    OBVIOUS
<1>3. /\ w \in Seq(T) /\ Len(w) = k + l
      /\ \A i \in 1 .. k + l : w[i] = IF i <= k THEN s[i] ELSE b[i - k]
    BY <1>1, <1>2, ConcatProperties
<1>4. c \in Seq(T) /\ Len(c) = t /\ \A i \in 1 .. t : c[i] = b[i]
  <2>1. 1 \in Nat /\ 1 <= 1 /\ 1 <= t + 1 /\ t - 1 + 1 = t /\ \A i \in 1 .. t : 1 + i - 1 = i
    OBVIOUS
  <2>2. /\ SubSeq(b, 1, t) \in Seq(T) /\ Len(SubSeq(b, 1, t)) = t - 1 + 1
        /\ \A i \in 1 .. t - 1 + 1 : SubSeq(b, 1, t)[i] = b[1 + i - 1]
    BY <2>1, PartIs
  <2>. QED  BY <1>2, <2>1, <2>2
<1>5. PICK v : v = s \o c
    OBVIOUS
<1>6. /\ v \in Seq(T) /\ Len(v) = k + t
      /\ \A i \in 1 .. k + t : v[i] = IF i <= k THEN s[i] ELSE c[i - k]
    BY <1>1, <1>4, <1>5, ConcatProperties
<1>7. PICK n \in Nat : n = k + t
    OBVIOUS
<1>8. PICK u : u = SubSeq(w, 1, n)
    OBVIOUS
<1>9. u \in Seq(T) /\ Len(u) = n /\ \A i \in 1 .. n : u[i] = w[i]
  <2>1. 1 \in Nat /\ 1 <= 1 /\ 1 <= n + 1 /\ n - 1 + 1 = n /\ (\A i \in 1 .. n : 1 + i - 1 = i)
        /\ n <= Len(w)
    BY <1>1, <1>3, <1>7
  <2>2. /\ SubSeq(w, 1, n) \in Seq(T) /\ Len(SubSeq(w, 1, n)) = n - 1 + 1
        /\ \A i \in 1 .. n - 1 + 1 : SubSeq(w, 1, n)[i] = w[1 + i - 1]
    BY <1>3, <2>1, PartIs
  <2>. QED  BY <1>8, <2>1, <2>2
<1>10. ASSUME NEW i \in 1 .. n PROVE u[i] = v[i]
  <2>1. i \in 1 .. k + l /\ i \in 1 .. k + t
    BY <1>1, <1>7
  <2>2. CASE i <= k
    BY <1>3, <1>6, <1>9, <2>1, <2>2
  <2>3. CASE ~(i <= k)
    <3>1. i - k \in 1 .. t
      BY <1>7, <2>3
    <3>. QED  BY <1>3, <1>4, <1>6, <1>9, <2>1, <2>3, <3>1
  <2>. QED  BY <2>2, <2>3
<1>11. u = v
    BY <1>6, <1>7, <1>9, <1>10, SeqEqual
<1>. QED  BY <1>1, <1>2, <1>5, <1>7, <1>8, <1>11

\* All but the last token of a text and what is added to it.
LEMMA FrontOfJoin ==
    ASSUME NEW s \in Seq(Tokens), NEW t \in Seq(Tokens), t # << >>
    PROVE  Front(s \o t) = s \o SubSeq(t, 1, Len(t) - 1)
<1>1. PICK m \in Nat : m = Len(t) - 1 /\ m <= Len(t)
  <2>1. PICK l : l = Len(t)
    OBVIOUS
  <2>2. l \in Nat /\ l # 0
    BY <2>1, EmptySeq, LenProperties
  <2>3. l - 1 \in Nat /\ l - 1 <= l
    BY <2>2
  <2>. QED  BY <2>1, <2>3
<1>2. SubSeq(s \o t, 1, Len(s) + m) = s \o SubSeq(t, 1, m)
    BY <1>1, HeadOfConcat
<1>3. Len(s \o t) - 1 = Len(s) + m
  <2>1. Len(s \o t) = Len(s) + Len(t) /\ Len(s) \in Nat /\ Len(t) \in Nat
    BY ConcatProperties, LenProperties
  <2>. QED  BY <1>1, <2>1
<1>. QED  BY <1>1, <1>2, <1>3 DEF Front

\* What is kept of a block agrees with what the forward read of it.
Agreed(kept, draft, m) == Len(kept) = m /\ \A i \in 1 .. m - 1 : kept[i] = draft[i]

\* If what is kept agrees with the drafts, the forward has read all but its last
\* token: what was drafted and padded after it does not matter.
LEMMA BlockRead ==
    ASSUME NEW w \in Seq(Tokens), w # << >>, NEW draft \in Seq(Tokens), NEW padding \in Seq(Tokens),
           NEW m \in 1 .. Len(draft) + 1, NEW kept \in Seq(Tokens), Agreed(kept, draft, m)
    PROVE  Front(w) \o SubSeq(<<Last(w)>> \o draft \o padding, 1, m) = Front(w \o kept)
<1>1. Len(draft) \in Nat
    BY LenProperties
<1>1a. Len(kept) = m /\ \A i \in 1 .. m - 1 : kept[i] = draft[i]
    BY DEF Agreed
<1>2. Front(w) \o SubSeq(<<Last(w)>> \o draft \o padding, 1, m) = w \o SubSeq(draft, 1, m - 1)
    BY ReadOn DEF Front, Last
<1>3. SubSeq(kept, 1, m - 1) = SubSeq(draft, 1, m - 1)
  <2>1. m - 1 \in Int /\ m - 1 <= Len(kept) /\ m - 1 <= Len(draft)
    BY <1>1, <1>1a
  <2>. QED  BY <1>1a, <2>1, SameStart
<1>4. kept # << >>
  <2>1. Len(kept) # 0
    BY <1>1a
  <2>. QED  BY <2>1, EmptySeq
<1>5. Front(w \o kept) = w \o SubSeq(kept, 1, m - 1)
    BY <1>1a, <1>4, FrontOfJoin
<1>. QED  BY <1>2, <1>3, <1>5

\* What is kept for a request of the batch, and how much of its block it follows.
Step(drafts, q, m) ==
    LET block == Staged(drafts)
        kept == Kept(q, Cut(drafts)[q], block)
    IN  /\ Verified(q, Cut(drafts)[q], block, m) /\ kept # << >>
        /\ block[q] \in Seq(Tokens) /\ m \in 1 .. Len(block[q])
        /\ Front(text[q]) \o SubSeq(block[q], 1, m) = Front(text[q] \o kept)
        /\ Len(text[q] \o kept) <= Limit(q)
        /\ ~Padded(drafts) => Len(block[q]) <= Remain(q) /\ Len(block[q]) <= 1 + NumDraft
        /\ Padded(drafts) =>
              /\ CapturedWidth(drafts) \in server.ladder /\ CapturedWidth(drafts) \in Nat
              /\ Len(block[q]) = 1 + CapturedWidth(drafts)

\* The speculative lane keeps some of each block, within the limit of the request.
LEMMA StepIs ==
    ASSUME Types, Following, up, Answers, NEW drafts \in Proposals, NEW q \in Running
    PROVE  \E m : Step(drafts, q, m)
<1>. DEFINE block == Staged(drafts)
            draft == Cut(drafts)[q]
            padding == Padding(drafts, q)
            kept == Kept(q, draft, block)
<1>1. server \in Servers /\ drafts \in [Running -> Drafts] /\ Len(drafts[q]) <= Remain(q) - 1
    BY DEF Types, Proposals
<1>2. /\ draft \in Seq(Tokens) /\ padding \in Seq(Tokens)
      /\ block[q] = <<input[q]>> \o draft \o padding
      /\ Len(draft) <= Len(drafts[q]) /\ Len(drafts[q]) \in Nat /\ Len(drafts[q]) <= NumDraft
      /\ ~Padded(drafts) => padding = << >>
      /\ Padded(drafts) =>
            /\ CapturedWidth(drafts) \in server.ladder /\ CapturedWidth(drafts) \in Nat
            /\ Len(draft) + Len(padding) = CapturedWidth(drafts)
    BY <1>1, StagedTypes
<1>3. /\ q \in Requests /\ cached[q] \in Nat /\ device[q] = cached[q] + 1
      /\ Remain(q) \in Nat \ {0} /\ cached[q] + Remain(q) = Limit(q) - 1
    BY RemainIs
<1>4. text[q] \in Seq(Tokens) /\ text[q] # << >> /\ input[q] = Last(text[q]) /\ input[q] \in Tokens
      /\ cached[q] = Len(text[q]) - 1 /\ Len(text[q]) \in Nat
    BY <1>3, LenProperties DEF Types, Following, Followed
<1>5. PICK w, d, p, b, x, k :
          w = text[q] /\ d = draft /\ p = padding /\ b = block /\ x = input[q] /\ k = kept
    OBVIOUS
<1>6. d \in Seq(Tokens) /\ p \in Seq(Tokens) /\ b[q] = <<x>> \o d \o p /\ x = Last(w) /\ x \in Tokens
      /\ w \in Seq(Tokens) /\ w # << >> /\ k = Kept(q, d, b)
    BY <1>2, <1>4, <1>5
<1>7. Answered(q, d, b)
    BY DEF Answered, TokenAt, Answers
<1>8. PICK m \in 1 .. Len(d) + 1 : Verified(q, d, b, m)
    BY <1>6, <1>7, KeptAre
<1>9. k \in Seq(Tokens) /\ Len(k) = m /\ \A i \in 1 .. m - 1 : k[i] = d[i]
    BY <1>6, <1>8 DEF Verified
<1>10. Front(w) \o SubSeq(b[q], 1, m) = Front(w \o k)
  <2>1. w \in Seq(Tokens) /\ w # << >> /\ d \in Seq(Tokens) /\ p \in Seq(Tokens)
        /\ m \in 1 .. Len(d) + 1 /\ k \in Seq(Tokens) /\ Len(k) = m
        /\ Agreed(k, d, m)
    BY <1>6, <1>9 DEF Agreed
  <2>2. Front(w) \o SubSeq(<<Last(w)>> \o d \o p, 1, m) = Front(w \o k)
    BY <2>1, BlockRead
  <2>. QED  BY <1>6, <2>2
<1>11. PICK l \in Nat, n \in Nat : l = Len(d) /\ n = Len(p)
    BY <1>6, LenProperties
<1>12. k # << >>
  <2>1. Len(k) # 0
    BY <1>9, <1>11
  <2>. QED  BY <2>1, EmptySeq
<1>13. b[q] \in Seq(Tokens) /\ Len(b[q]) = 1 + l + n
  <2>1. PICK s : s = <<x>>
    OBVIOUS
  <2>2. s \in Seq(Tokens) /\ Len(s) = 1
    BY <1>6, <2>1
  <2>3. d \in Seq(Tokens) /\ p \in Seq(Tokens)
    BY <1>6
  <2>4. s \o d \in Seq(Tokens) /\ Len(s \o d) = Len(s) + Len(d)
    BY <2>2, <2>3, ConcatProperties
  <2>5. PICK t : t = s \o d
    OBVIOUS
  <2>6. t \o p \in Seq(Tokens) /\ Len(t \o p) = Len(t) + Len(p)
    BY <2>3, <2>4, <2>5, ConcatProperties
  <2>7. b[q] = t \o p /\ Len(t) = 1 + l
    BY <1>6, <1>11, <2>1, <2>2, <2>4, <2>5
  <2>. QED  BY <1>11, <2>6, <2>7
<1>14. m \in 1 .. Len(b[q])
    BY <1>11, <1>13
<1>15. Len(w \o k) <= Limit(q)
  <2>1. Len(w \o k) = Len(w) + m
    BY <1>6, <1>9, ConcatProperties
  <2>2. PICK r \in Nat, a \in Nat, e \in Nat, z \in Nat :
            r = Remain(q) /\ a = cached[q] /\ e = Len(drafts[q]) /\ z = Limit(q)
    BY <1>2, <1>3, ReserveIs
  <2>3. a = Len(w) - 1 /\ a + r = z - 1 /\ l <= e /\ e <= r - 1 /\ m <= l + 1 /\ z \in Nat
    BY <1>1, <1>2, <1>3, <1>4, <1>5, <1>11, <2>2, ReserveIs
  <2>4. Len(w) \in Nat /\ Len(w) = a + 1
    BY <1>4, <1>5, <2>3
  <2>. QED  BY <2>1, <2>2, <2>3, <2>4
<1>16. ~Padded(drafts) => Len(b[q]) <= Remain(q) /\ Len(b[q]) <= 1 + NumDraft
  <2>1. ASSUME ~Padded(drafts) PROVE Len(b[q]) <= Remain(q) /\ Len(b[q]) <= 1 + NumDraft
    <3>1. n = 0
      BY <1>2, <1>5, <1>11, <2>1, EmptySeq
    <3>2. PICK r \in Nat, e \in Nat : r = Remain(q) /\ e = Len(drafts[q])
      BY <1>2, <1>3
    <3>3. l <= e /\ e <= r - 1
      BY <1>1, <1>2, <1>5, <1>11, <3>2
    <3>4. PICK c \in Nat : c = NumDraft
      BY SpecAssumption
    <3>5. e <= c
      BY <1>2, <3>2, <3>4
    <3>6. Len(b[q]) <= Remain(q)
      BY <1>11, <1>13, <3>1, <3>2, <3>3
    <3>7. Len(b[q]) <= 1 + c
      BY <1>11, <1>13, <3>1, <3>2, <3>3, <3>5
    <3>. QED  BY <3>4, <3>6, <3>7
  <2>. QED  BY <2>1
<1>17. Padded(drafts) =>
           /\ CapturedWidth(drafts) \in server.ladder /\ CapturedWidth(drafts) \in Nat
           /\ Len(b[q]) = 1 + CapturedWidth(drafts)
  <2>1. ASSUME Padded(drafts)
        PROVE  /\ CapturedWidth(drafts) \in server.ladder /\ CapturedWidth(drafts) \in Nat
               /\ Len(b[q]) = 1 + CapturedWidth(drafts)
    <3>1. PICK c : c = CapturedWidth(drafts)
      OBVIOUS
    <3>2. c \in Nat /\ l + n = c
      BY <1>2, <1>5, <1>11, <2>1, <3>1
    <3>3. Len(b[q]) = 1 + c
      BY <1>11, <1>13, <3>2
    <3>. QED  BY <1>2, <2>1, <3>1, <3>3
  <2>. QED  BY <2>1
<1>. QED  BY <1>5, <1>8, <1>10, <1>12, <1>13, <1>14, <1>15, <1>16, <1>17 DEF Step

\* A block has at least its input token, and at most NumDraft more.
LEMMA WindowIs ==
    ASSUME Types, Following, up, Answers, NEW drafts \in Proposals, Running # {}
    PROVE  Window(Staged(drafts)) \in 1 .. NumDraft + 1
<1>1. PICK block, top : block = Staged(drafts) /\ top = NumDraft + 1
    OBVIOUS
<1>2. DOMAIN block = Running
    BY <1>1 DEF Staged, Proposals
<1>3. NumDraft \in Nat /\ top \in Nat /\ server.ladder \subseteq 1..NumDraft
    BY <1>1, SpecAssumption DEF Types
<1>4. ASSUME NEW q \in Running PROVE Len(block[q]) \in 1..top
  <2>1. PICK m : Step(drafts, q, m)
    BY StepIs
  <2>2. block[q] \in Seq(Tokens) /\ m \in 1 .. Len(block[q])
    BY <1>1, <2>1 DEF Step
  <2>3. PICK n \in Nat : n = Len(block[q])
    BY <2>2, LenProperties
  <2>4. n <= 1 + NumDraft
    <3>1. CASE Padded(drafts)
      <4>1. PICK w \in server.ladder : n = 1 + w
        BY <1>1, <2>1, <2>3, <3>1 DEF Step
      <4>. QED  BY <1>3, <4>1
    <3>2. CASE ~Padded(drafts)
      BY <1>1, <2>1, <2>3, <3>2 DEF Step
    <3>. QED  BY <3>1, <3>2
  <2>5. m \in 1..n
    BY <2>2, <2>3
  <2>. QED  BY <1>1, <1>3, <2>3, <2>4, <2>5
<1>. DEFINE S == {Len(block[q]) : q \in DOMAIN block}
<1>5. S \subseteq 1..top /\ S # {}
  <2>1. \A x \in S : x \in 1..top
    BY <1>2, <1>4
  <2>. QED  BY <1>2, <2>1
<1>6. Window(block) = Max(S)
    BY DEF Window
<1>. HIDE DEF S
<1>7. S \subseteq 0..top
    BY <1>3, <1>5
<1>8. Max(S) \in S
    BY <1>3, <1>5, <1>7, MaxIsGreatest
<1>. QED  BY <1>1, <1>5, <1>6, <1>8

\* Blocks that are padded to a captured width, or the only ones of their batch,
\* are as long as the longest one.
LEMMA EqualLengths ==
    ASSUME Types, Following, up, Answers, MaySpeculate, EqualBlocks(server),
           NEW drafts \in Proposals, NEW q \in Running
    PROVE  Window(Staged(drafts)) = Len(Staged(drafts)[q]) /\ Len(Staged(drafts)[q]) \in Nat
<1>1. PICK block : block = Staged(drafts)
    OBVIOUS
<1>2. DOMAIN block = Running /\ DOMAIN drafts = Running
    BY <1>1 DEF Staged, Proposals
<1>3. ASSUME NEW r \in Running
      PROVE  Len(block[r]) \in Nat /\ (Padded(drafts) => Len(block[r]) = 1 + CapturedWidth(drafts))
  <2>1. PICK m : Step(drafts, r, m)
    BY StepIs
  <2>2. block[r] \in Seq(Tokens) /\ (Padded(drafts) => Len(block[r]) = 1 + CapturedWidth(drafts))
    BY <1>1, <2>1 DEF Step
  <2>. QED  BY <2>2, LenProperties
<1>4. PICK n \in Nat : n = Len(block[q])
    BY <1>3
<1>5. ASSUME NEW r \in Running PROVE Len(block[r]) = n
  <2>1. CASE Padded(drafts)
    BY <1>3, <1>4, <2>1
  <2>2. CASE ~Padded(drafts)
    <3>1. IsFiniteSet(Running)
      BY RequestsAre
    <3>2. PICK c \in Nat, v \in Nat, b \in Nat :
              c = Cardinality(Running) /\ v = VerifyBs /\ b = SpecMaxBs
      BY <3>1, FS_CardinalityType, SpecAssumption
    <3>3. c <= b
      BY <3>2 DEF MaySpeculate
    <3>4. ~(server.ladder # {} /\ c <= v)
      BY <1>2, <2>2, <3>2 DEF Padded
    <3>5. b = 1 \/ (server.ladder # {} /\ b <= v)
      BY <3>2 DEF EqualBlocks
    <3>6. c <= 1
      BY <3>2, <3>3, <3>4, <3>5
    <3>7. r = q
      <4>1. IsFiniteSet({q}) /\ Cardinality({q}) = 1
        BY FS_Singleton
      <4>2. {q} \cup {r} \subseteq Running
        OBVIOUS
      <4>3. Cardinality({q} \cup {r}) <= Cardinality(Running)
        BY <3>1, <4>2, FS_Subset
      <4>4. r \notin {q} => Cardinality({q} \cup {r}) = Cardinality({q}) + 1
        BY <4>1, FS_AddElement
      <4>. QED  BY <3>2, <3>6, <4>1, <4>3, <4>4
    <3>. QED  BY <1>4, <3>7
  <2>. QED  BY <2>1, <2>2
<1>. DEFINE S == {Len(block[r]) : r \in DOMAIN block}
<1>6. S = {n}
  <2>1. \A x : x \in S <=> x = n
    BY <1>2, <1>5
  <2>. QED  BY <2>1, Zenon
<1>7. Max({n}) = n
  <2>1. {n} \subseteq 0 .. n /\ {n} # {}
    OBVIOUS
  <2>2. Max({n}) \in {n}
    BY <2>1, MaxIsGreatest
  <2>. QED  BY <2>2
<1>8. Window(block) = Max(S)
    BY DEF Window
<1>. QED  BY <1>1, <1>4, <1>6, <1>7, <1>8

\* Where every window has room on the ring, none is verified off it.
LEMMA BlockOnRing ==
    ASSUME Types, Following, up, Answers, MaySpeculate, AlwaysOnRing(server),
           NEW drafts \in Proposals, NEW q \in Running
    PROVE  OnRing(Staged(drafts))
<1>1. EqualBlocks(server) /\ \A w \in WidthsOf(server) : w + 1 <= server.ring
    BY DEF AlwaysOnRing
<1>2. PICK n \in Nat : n = Len(Staged(drafts)[q]) /\ Window(Staged(drafts)) = n
    BY <1>1, EqualLengths
<1>3. /\ server.ring \in Nat /\ server.ladder \subseteq 1..NumDraft
      /\ NumDraft \in Nat \ {0} /\ SpecMaxBs \in Nat /\ VerifyBs \in Nat
    BY SpecAssumption DEF Types
<1>4. PICK m : Step(drafts, q, m)
    BY StepIs
<1>5. Padded(drafts) => CapturedWidth(drafts) \in server.ladder /\ n = 1 + CapturedWidth(drafts)
    BY <1>2, <1>4 DEF Step
<1>6. CASE server.ladder # {} /\ SpecMaxBs <= VerifyBs
  <2>1. Cardinality(Running) \in Nat /\ Cardinality(Running) <= SpecMaxBs
    BY RequestsAre, FS_CardinalityType DEF MaySpeculate
  <2>2. Cardinality(Running) <= VerifyBs
    BY <1>3, <1>6, <2>1
  <2>3. Padded(drafts)
    BY <1>6, <2>2 DEF Padded, Proposals
  <2>4. PICK w \in server.ladder : n = 1 + w
    BY <1>5, <2>3
  <2>5. w + 1 <= server.ring /\ w \in 1..NumDraft
    BY <1>1, <1>3, <1>6, <2>4 DEF WidthsOf
  <2>6. n <= server.ring
    BY <1>3, <2>4, <2>5
  <2>. QED  BY <1>2, <2>6 DEF OnRing
<1>7. CASE ~(server.ladder # {} /\ SpecMaxBs <= VerifyBs)
  <2>1. WidthsOf(server) = 1..NumDraft
    BY <1>7 DEF WidthsOf
  <2>2. NumDraft \in 1..NumDraft
    BY <1>3
  <2>3. NumDraft + 1 <= server.ring
    BY <1>1, <2>1, <2>2
  <2>4. n \in 1 .. NumDraft + 1
    BY <1>2, WindowIs
  <2>5. n <= server.ring
    BY <1>3, <2>3, <2>4
  <2>. QED  BY <1>2, <2>5 DEF OnRing
<1>. QED  BY <1>6, <1>7

\* The recurrent state of a request that goes on is that of the kept tokens, and
\* if it is always on the ring that of one that is over, too.
LEMMA StateLeft ==
    ASSUME Types, Following, up, Answers, MaySpeculate, NEW drafts \in Proposals,
           NEW q \in Running, RollsBack(server), NEW m, Step(drafts, q, m),
           NEW kept, NEW goOn, kept[q] = Kept(q, Cut(drafts)[q], Staged(drafts))
    PROVE  LET read == Front(text[q] \o kept[q])
           IN  /\ Installed(q, Staged(drafts), kept, goOn) = [conv |-> read, ssm |-> read]
               /\ AlwaysOnRing(server) => LeftBehind(q, Staged(drafts), kept).ssm = read
<1>1. PICK read, block, before :
          read = Front(text[q] \o kept[q]) /\ block = Staged(drafts) /\ before = Front(text[q])
    OBVIOUS
<1>2. /\ q \in Requests /\ text[q] \in Seq(Tokens) /\ text[q] # << >>
      /\ rec[q] = [conv |-> before, ssm |-> before]
    BY <1>1 DEF Types, Following, Followed, Running
<1>3. rec[q].conv = before /\ rec[q].ssm = before /\ before \in Seq(Tokens)
  <2>1. PICK w : w = text[q]
    OBVIOUS
  <2>2. w \in Seq(Tokens) /\ w # << >>
    BY <1>2, <2>1
  <2>3. Front(w) \in Seq(Tokens)
    BY <2>2, FrontLast
  <2>. QED  BY <1>1, <1>2, <2>1, <2>3
<1>4. /\ Len(kept[q]) = m /\ block[q] \in Seq(Tokens) /\ m \in 1 .. Len(block[q])
      /\ before \o SubSeq(block[q], 1, m) = read
    BY <1>1 DEF Step, Verified
<1>5. Captured(q, block, m) = [conv |-> read, ssm |-> read]
    BY <1>3, <1>4 DEF Captured, After
<1>6. ASSUME OnRing(block) PROVE Rewound(q, block, m) = read
  <2>1. EqualBlocks(server)
    <3>1. NumDraft \in Nat
      BY SpecAssumption
    <3>2. PICK n \in 1 .. NumDraft + 1 : n = Window(block)
      BY <1>1, WindowIs
    <3>3. server.ring # 0
      BY <1>6, <3>1, <3>2 DEF OnRing
    <3>. QED  BY <3>3 DEF RollsBack
  <2>2. PICK n \in Nat : n = Len(block[q]) /\ Window(block) = n
    BY <1>1, <2>1, EqualLengths
  <2>3. PICK run : run = before \o block[q]
    OBVIOUS
  <2>4. After(rec[q], block[q]).ssm = run
    BY <1>3, <2>3 DEF After
  <2>5. PICK k \in Nat : k = Len(before)
    BY <1>3, LenProperties
  <2>6. PICK b : b = block[q]
    OBVIOUS
  <2>7. b \in Seq(Tokens) /\ m \in Nat /\ m <= Len(b)
    BY <1>4, <2>2, <2>6
  <2>8. Len(run) = k + n
    BY <1>3, <2>2, <2>3, <2>5, <2>6, <2>7, ConcatProperties
  <2>9. Len(run) - (n - m) = k + m
    <3>1. m \in Nat
      BY <2>7
    <3>. QED  BY <2>8, <3>1
  <2>10. Rewound(q, block, m) = SubSeq(run, 1, Len(run) - (n - m))
    BY <2>2, <2>4 DEF Rewound
  <2>11. SubSeq(run, 1, k + m) = read
    <3>1. SubSeq(before \o b, 1, Len(before) + m) = before \o SubSeq(b, 1, m)
      BY <1>3, <2>7, HeadOfConcat
    <3>. QED  BY <1>4, <2>3, <2>5, <2>6, <3>1
  <2>. QED  BY <2>9, <2>10, <2>11
<1>7. Column(q, DOMAIN block, goOn) = q
    BY DEF Column, RollsBack
<1>8. Installed(q, block, kept, goOn) = [conv |-> read, ssm |-> read]
  <2>1. CASE OnRing(block)
    <3>1. Installed(q, block, kept, goOn) = [[conv |-> read, ssm |-> read] EXCEPT !.ssm = read]
      BY <1>4, <1>5, <1>6, <1>7, <2>1 DEF Installed
    <3>. QED  BY <3>1
  <2>2. CASE ~OnRing(block)
    BY <1>4, <1>5, <1>7, <2>2 DEF Installed
  <2>. QED  BY <2>1, <2>2
<1>9. ASSUME AlwaysOnRing(server) PROVE LeftBehind(q, block, kept).ssm = read
  <2>1. PICK run : run = After(rec[q], block[q])
    OBVIOUS
  <2>2. OnRing(block)
    BY <1>1, <1>9, BlockOnRing
  <2>3. LeftBehind(q, block, kept) = [run EXCEPT !.ssm = read]
    BY <1>4, <1>6, <2>1, <2>2 DEF LeftBehind
  <2>4. run = [conv |-> before \o block[q], ssm |-> before \o block[q]]
    BY <1>3, <2>1 DEF After
  <2>. QED  BY <2>3, <2>4
<1>. QED  BY <1>1, <1>8, <1>9

\* What follows of the text where no recurrent state is read from another's.
LEMMA FollowingIs ==
    ASSUME Types, Following, RollsBack(server)
    PROVE  StateFollowsText
<1>1. ASSUME NEW q \in Running
      PROVE  LET read == SubSeq(text[q], 1, Len(text[q]) - 1)
             IN  /\ up => cached[q] = Len(read) /\ device[q] = Len(text[q])
                 /\ input[q] = Last(text[q])
                 /\ Context(q) = read
                 /\ rec[q] = [conv |-> read, ssm |-> read]
  <2>1. text[q] \in Seq(Tokens) /\ text[q] # << >>
    BY DEF Types, Running
  <2>2. PICK w, read : w = text[q] /\ read = Front(w)
    OBVIOUS
  <2>3. Len(read) = Len(w) - 1 /\ SubSeq(w, 1, Len(w) - 1) = read
    BY <2>1, <2>2, FrontLast DEF Front
  <2>4. Followed(q)
    BY DEF Following
  <2>. QED  BY <2>2, <2>3, <2>4 DEF Followed
<1>. QED  BY <1>1 DEF StateFollowsText

\* What a step keeps for a request without gates is what greedy decoding takes.
LEMMA KeptIsGreedy ==
    ASSUME Types, Following, RollsBack(server), Answers, NEW drafts \in Proposals,
           NEW q \in Running \cap Ungated, NEW m, Step(drafts, q, m)
    PROVE  NextAll(text[q], Kept(q, Cut(drafts)[q], Staged(drafts)))
<1>1. PICK block, draft, padding, kept, w :
          /\ block = Staged(drafts) /\ draft = Cut(drafts)[q] /\ padding = Padding(drafts, q)
          /\ kept = Kept(q, draft, block) /\ w = text[q]
    OBVIOUS
<1>2. /\ draft \in Seq(Tokens) /\ padding \in Seq(Tokens)
      /\ StagedAs(q, block, draft, padding)
  <2>1. server \in Servers /\ drafts \in [Running -> Drafts]
    BY DEF Types, Proposals
  <2>. QED  BY <1>1, <2>1, StagedTypes DEF StagedAs
<1>3. text[q] \in Seq(Tokens) /\ text[q] # << >>
    BY DEF Types, Running
<1>4. Answered(q, draft, block)
    BY DEF TokenAt, Answers, Answered
<1>5. StateFollowsText
    BY FollowingIs
<1>6. \A i \in 1 .. Len(kept) :
         LET t == w \o SubSeq(kept, 1, i - 1)
         IN  kept[i] = Argmax(server.model, t, [conv |-> t, ssm |-> t], Allowed(q, i))
  <2>1. ModelsOwn(q, Kept(q, draft, block))
    BY <1>2, <1>3, <1>4, <1>5, KeptIsTheModels
  <2>. QED  BY <1>1, <2>1 DEF ModelsOwn
<1>7. ASSUME NEW i PROVE Allowed(q, i) = Tokens
  <2>1. think[q] = Off /\ ~Spent(Off) /\ ~Held(q)
    BY UngatedIs
  <2>2. Tokens \ {} = Tokens
    OBVIOUS
  <2>. QED  BY <2>1, <2>2 DEF Allowed
<1>8. ASSUME NEW i \in 1 .. Len(kept)
      PROVE  kept[i] = NextToken(server.model, w \o SubSeq(kept, 1, i - 1))
  <2>1. PICK t : t = w \o SubSeq(kept, 1, i - 1)
    OBVIOUS
  <2>2. kept[i] = Argmax(server.model, t, [conv |-> t, ssm |-> t], Allowed(q, i))
    BY <1>6, <2>1
  <2>. QED  BY <1>7, <2>1, <2>2 DEF NextToken
<1>9. Verified(q, draft, block, m)
    BY <1>1 DEF Step
<1>10. Len(kept) = m /\ \A i \in 1 .. m - 1 : kept[i] # Eos
    BY <1>1, <1>9 DEF Verified
<1>11. ASSUME NEW i \in 1 .. Len(kept), i < Len(kept) PROVE kept[i] # Eos
  <2>1. m \in Int
    <3>1. kept \in Seq(Tokens)
      BY <1>1, <1>9 DEF Verified
    <3>. QED  BY <1>10, <3>1, LenProperties
  <2>2. i \in 1 .. m - 1
    BY <1>10, <1>11, <2>1
  <2>. QED  BY <1>10, <2>2
<1>. QED  BY <1>1, <1>8, <1>11 DEF NextAll

\* A step of the speculative lane commits what a forward may give.
LEMMA SpecDecodeCommits ==
    ASSUME SInv, Answers, SpecDecode
    PROVE  \E block : DOMAIN block = Running /\ Commits(block)
<1>1. Types /\ Idle /\ PagesOK /\ Following /\ Snapped /\ Reserved
    BY DEF SInv
<1>2. up /\ MaySpeculate /\ queue' = queue /\ UNCHANGED <<server, up>>
    BY DEF SpecDecode
<1>3. PICK drafts \in Proposals : ~TooFewPages(Staged(drafts)) /\ SpecStep(drafts)
    BY DEF SpecDecode
<1>. DEFINE block0 == Staged(drafts)
            armed(q) == think[q].at = "armed"
            kept0 == [q \in Running |-> Kept(q, Cut(drafts)[q], block0)]
            length0 == [q \in Running |-> cached[q] + Len(kept0[q])]
            goOn0 == Running \ Over(kept0, length0)
            state0 == [q \in Running |-> IF q \in goOn0 THEN Installed(q, block0, kept0, goOn0)
                                         ELSE LeftBehind(q, block0, kept0)]
            thinks0 == [q \in Running |-> IF armed(q) THEN CommitRun(think[q], kept0[q]) ELSE think[q]]
            tools0 == [q \in Running |-> IF armed(q) THEN CommitToolRun(tool[q], kept0[q]) ELSE tool[q]]
<1>4. Commit(block0, kept0, length0, state0, thinks0, tools0)
    BY <1>3 DEF SpecStep
<1>5. PICK block, kept, length, goOn, state, thinks, tools :
          /\ block = block0 /\ kept = kept0 /\ length = length0 /\ goOn = goOn0
          /\ state = state0 /\ thinks = thinks0 /\ tools = tools0
    OBVIOUS
<1>6. Commit(block, kept, length, state, thinks, tools)
    BY <1>4, <1>5
<1>7. DOMAIN kept = Running /\ DOMAIN block = Running
    BY <1>5 DEF Staged, Proposals
<1>8. ASSUME NEW q \in Running
      PROVE  /\ kept[q] = Kept(q, Cut(drafts)[q], Staged(drafts))
             /\ length[q] = cached[q] + Len(kept[q])
             /\ state[q] = IF q \in goOn THEN Installed(q, block, kept, goOn)
                           ELSE LeftBehind(q, block, kept)
             /\ thinks[q] = IF armed(q) THEN CommitRun(think[q], kept[q]) ELSE think[q]
             /\ tools[q] = IF armed(q) THEN CommitToolRun(tool[q], kept[q]) ELSE tool[q]
  <2>1. kept[q] = Kept(q, Cut(drafts)[q], Staged(drafts))
    BY <1>5
  <2>2. /\ length0[q] = cached[q] + Len(kept0[q])
        /\ state0[q] = IF q \in goOn0 THEN Installed(q, block0, kept0, goOn0)
                       ELSE LeftBehind(q, block0, kept0)
        /\ thinks0[q] = IF armed(q) THEN CommitRun(think[q], kept0[q]) ELSE think[q]
        /\ tools0[q] = IF armed(q) THEN CommitToolRun(tool[q], kept0[q]) ELSE tool[q]
    OBVIOUS
  <2>. HIDE DEF armed, kept0, length0, goOn0, state0, thinks0, tools0, block0
  <2>. QED  BY <1>5, <2>1, <2>2
<1>9. goOn = Running \ Over(kept, length) /\ block = Staged(drafts)
    BY <1>5
<1>. HIDE DEF armed, kept0, length0, goOn0, state0, thinks0, tools0, block0
<1>10. ASSUME NEW q \in Running PROVE \E m : Step(drafts, q, m)
    BY <1>1, <1>2, StepIs
<1>11. ASSUME NEW q \in Running
       PROVE  /\ q \in Requests /\ kept[q] \in Seq(Tokens) /\ kept[q] # << >>
              /\ block[q] \in Seq(Tokens) /\ Len(block[q]) >= 1
              /\ Len(text[q] \o kept[q]) <= Limit(q)
              /\ \E t \in 1 .. Len(block[q]) :
                    /\ length[q] = cached[q] + t
                    /\ Context(q) \o SubSeq(block[q], 1, t) = Front(text[q] \o kept[q])
  <2>1. PICK m : Step(drafts, q, m)
    BY <1>10
  <2>2. /\ kept[q] \in Seq(Tokens) /\ Len(kept[q]) = m /\ kept[q] # << >>
        /\ block[q] \in Seq(Tokens) /\ m \in 1 .. Len(block[q])
        /\ Front(text[q]) \o SubSeq(block[q], 1, m) = Front(text[q] \o kept[q])
        /\ Len(text[q] \o kept[q]) <= Limit(q)
    BY <1>8, <1>9, <2>1 DEF Step, Verified
  <2>3. q \in Requests /\ Context(q) = Front(text[q])
    BY <1>1 DEF Following, Followed, Running
  <2>4. Len(block[q]) >= 1
    <3>1. PICK n \in Nat : n = Len(block[q])
      BY <2>2, LenProperties
    <3>. QED  BY <2>2, <3>1
  <2>. QED  BY <1>8, <2>2, <2>3, <2>4
<1>12. Batch(block)
    BY <1>3, <1>7, <1>9, <1>11 DEF Batch
<1>13. Results(block, kept, length)
    BY <1>7, <1>11, <1>12 DEF Results
<1>14. Outcome(kept, length, state, thinks, tools)
  <2>1. ASSUME NEW q \in Running
        PROVE  /\ thinks[q] \in Gates
               /\ (q \notin Thinks => thinks[q] = Off) /\ (q \notin HasTools => tools[q] = Off)
    <3>1. /\ think[q] \in Gates /\ (q \notin Thinks => think[q] = Off)
          /\ (q \notin HasTools => tool[q] = Off)
      BY <1>1, <1>11, <2>1 DEF Types
    <3>2. CASE armed(q)
      <4>1. PICK g, k : g = think[q] /\ k = kept[q]
        OBVIOUS
      <4>2. g \in Gates /\ k \in Seq(Tokens)
        BY <1>11, <2>1, <3>1, <4>1
      <4>3. CommitRun(g, k) \in Gates /\ CommitToolRun(Off, k) = Off
        BY <4>2, CommitRunTypes, CommitToolRunOff
      <4>4. q \in Thinks
        BY <3>1, <3>2 DEF armed, Off
      <4>. QED  BY <1>8, <2>1, <3>1, <3>2, <4>1, <4>3, <4>4
    <3>3. CASE ~armed(q)
      BY <1>8, <2>1, <3>1, <3>3
    <3>. QED  BY <3>2, <3>3
  <2>2. ASSUME NEW q \in Running, RollsBack(server)
        PROVE  LET read == Front(text[q] \o kept[q])
               IN  /\ q \notin Over(kept, length) => state[q] = [conv |-> read, ssm |-> read]
                   /\ AlwaysOnRing(server) /\ q \in Over(kept, length) => state[q].ssm = read
    <3>1. PICK m : Step(drafts, q, m)
      BY <1>10
    <3>2. PICK read : read = Front(text[q] \o kept[q])
      OBVIOUS
    <3>3. kept[q] = Kept(q, Cut(drafts)[q], Staged(drafts))
      BY <1>8
    <3>4. /\ Installed(q, Staged(drafts), kept, goOn) = [conv |-> read, ssm |-> read]
          /\ AlwaysOnRing(server) => LeftBehind(q, Staged(drafts), kept).ssm = read
      <4>1. Types /\ Following /\ up /\ MaySpeculate /\ Answers /\ RollsBack(server)
        BY <1>1, <1>2, <2>2
      <4>. QED  BY <3>1, <3>2, <3>3, <4>1, StateLeft, Zenon
    <3>5. q \in goOn <=> q \notin Over(kept, length)
      BY <1>9
    <3>. QED  BY <1>8, <1>9, <3>2, <3>4, <3>5
  <2>3. AlwaysOnRing(server) => RollsBack(server)
    BY <1>1, OnRingRollsBack DEF Types
  <2>. QED  BY <1>7, <2>1, <2>2, <2>3 DEF Outcome
<1>15. ASSUME RollsBack(server), NEW q \in Running \cap Ungated PROVE NextAll(text[q], kept[q])
  <2>1. PICK m : Step(drafts, q, m)
    BY <1>10
  <2>2. NextAll(text[q], Kept(q, Cut(drafts)[q], Staged(drafts)))
    BY <1>1, <1>15, <2>1, KeptIsGreedy
  <2>. QED  BY <1>8, <2>2
<1>16. \A q \in DOMAIN block : stage[q] \in {"waiting", "running"}
    BY <1>7 DEF Running
<1>17. Commits(block)
    BY <1>6, <1>7, <1>13, <1>14, <1>15, <1>16 DEF Commits
<1>. QED  BY <1>7, <1>17

\* A step of the speculative lane keeps the invariant.
LEMMA SpecDecodeKeeps ==
    ASSUME SInv, Answers, SpecDecode
    PROVE  SInv'
<1>1. Types /\ Idle /\ PagesOK /\ Following /\ Snapped /\ Reserved
    BY DEF SInv
<1>2. up /\ queue' = queue /\ UNCHANGED <<server, up>>
    BY DEF SpecDecode
<1>3. PICK block : DOMAIN block = Running /\ Commits(block)
    BY SpecDecodeCommits
<1>4. /\ queue' \in Seq(Requests) /\ IsInjective(queue')
      /\ ToSet(queue') = ToSet(queue) \ DOMAIN block
  <2>1. queue \in Seq(Requests) /\ IsInjective(queue)
    BY <1>1 DEF Types, Idle
  <2>2. ToSet(queue) \cap Running = {}
    BY <1>1 DEF Idle, Running
  <2>. QED  BY <1>2, <1>3, <2>1, <2>2
<1>5. Types' /\ Idle' /\ PagesOK' /\ Following' /\ Snapped'
    BY <1>1, <1>2, <1>3, <1>4, CommitsKeeps
<1>6. Reserved'
  <2>1. Running' \subseteq Running
    BY <1>3, CommitsRunning
  <2>. QED  BY <1>1, <2>1, ReservedFewer
<1>7. BlocksFit'
    BY <1>2 DEF BlocksFit
<1>. QED  BY <1>5, <1>6, <1>7 DEF SInv

Added(S, f, g, h) ==
    /\ IsFiniteSet(S) /\ f \in [S -> Int] /\ g \in [S -> Int] /\ h \in [S -> Int]
    /\ \A x \in S : h[x] = f[x] + g[x]

\* The sum of two functions is that of their sums.
LEMMA SumTwo ==
    ASSUME NEW S, NEW f, NEW g, NEW h, Added(S, f, g, h)
    PROVE  SumFunctionOnSet(h, S) = SumFunctionOnSet(f, S) + SumFunctionOnSet(g, S)
<1>1. S \in SUBSET (S \cap S \cap S)
    OBVIOUS
<1>2. IsFiniteSet(S) /\ f \in [S -> Int] /\ g \in [S -> Int] /\ h \in [S -> Int]
    BY DEF Added
<1>3. (\A x \in S : h[x] = f[x] + g[x]) =>
          SumFunctionOnSet(h, S) = SumFunctionOnSet(f, S) + SumFunctionOnSet(g, S)
    BY <1>1, <1>2, SumLinear
<1>. QED  BY <1>3 DEF Added

\* There are pages for a block that stays below the limits of its requests.
LEMMA BatchRoom ==
    ASSUME Types, Idle, PagesOK, Reserved, NEW block, DOMAIN block = Running,
           \A q \in Running : Len(block[q]) \in Nat /\ cached[q] + Len(block[q]) < Limit(q)
    PROVE  ~TooFewPages(block)
<1>1. PICK S, need, held, reserve, both :
          /\ S = Running /\ need = [q \in Running |-> PagesNeeded(q, block)]
          /\ held = [q \in Running |-> Held1[q]] /\ reserve = [q \in Running |-> Reserve[q]]
          /\ both = [q \in Running |-> need[q] + held[q]]
    OBVIOUS
<1>2. IsFiniteSet(S) /\ S \in SUBSET Requests
    BY <1>1, RequestsAre
<1>3. ASSUME NEW q \in S
      PROVE  /\ need[q] \in Int /\ held[q] \in Int /\ reserve[q] \in Int /\ both[q] \in Int
             /\ both[q] = need[q] + held[q] /\ both[q] <= reserve[q]
  <2>1. PICK c, n, l : c = cached[q] /\ n = Len(block[q]) /\ l = Limit(q) - 1
    OBVIOUS
  <2>2. q \in Requests /\ cached[q] \in Nat /\ Limit(q) \in Nat /\ Limit(q) - 1 \in Nat
    BY <1>2, ReserveIs DEF Types
  <2>3. c \in Nat /\ n \in Nat /\ l \in Nat /\ c + n < l + 1
    BY <1>1, <2>1, <2>2
  <2>4. PICK e \in Nat : e = c + n
    BY <2>3
  <2>5. e <= l
    BY <2>3, <2>4
  <2>6. PagesFor(c) \in Nat /\ PagesFor(e) \in Nat /\ PagesFor(l) \in Nat /\ PagesFor(e) <= PagesFor(l)
    BY <2>3, <2>4, <2>5, PagesForIs, PagesGrow
  <2>7. need[q] = PagesFor(e) - PagesFor(c)
    BY <1>1, <2>1, <2>4 DEF PagesNeeded
  <2>8. held[q] = PagesFor(c) /\ reserve[q] = PagesFor(l)
    BY <1>1, <2>1, <2>2 DEF Held1, Reserve
  <2>9. both[q] = need[q] + held[q]
    BY <1>1
  <2>10. PICK x \in Nat, y \in Nat, z \in Nat : x = PagesFor(e) /\ y = PagesFor(c) /\ z = PagesFor(l)
    BY <2>6
  <2>11. need[q] = x - y /\ held[q] = y /\ reserve[q] = z /\ x <= z
    BY <2>6, <2>7, <2>8, <2>10
  <2>12. both[q] = x
    BY <2>9, <2>10, <2>11
  <2>13. x - y \in Int
    BY <2>10
  <2>. QED  BY <2>9, <2>10, <2>11, <2>12, <2>13
<1>4. need \in [S -> Int] /\ held \in [S -> Int] /\ reserve \in [S -> Int] /\ both \in [S -> Int]
  <2>1. need = [q \in S |-> need[q]] /\ held = [q \in S |-> held[q]]
        /\ reserve = [q \in S |-> reserve[q]] /\ both = [q \in S |-> both[q]]
    BY <1>1
  <2>. QED  BY <1>3, <2>1
<1>5. S \in SUBSET (S \cap S \cap S)
    OBVIOUS
<1>6. /\ SumFunctionOnSet(both, S) = SumFunctionOnSet(need, S) + SumFunctionOnSet(held, S)
      /\ SumFunctionOnSet(both, S) <= SumFunctionOnSet(reserve, S)
  <2>1. SumFunctionOnSet(both, S) = SumFunctionOnSet(need, S) + SumFunctionOnSet(held, S)
    <3>1. Added(S, need, held, both)
      BY <1>2, <1>3, <1>4 DEF Added
    <3>. QED  BY <3>1, SumTwo
  <2>2. SumFunctionOnSet(both, S) <= SumFunctionOnSet(reserve, S)
    <3>1. \A x \in S : both[x] <= reserve[x]
      BY <1>3
    <3>. QED  BY <1>2, <1>4, <1>5, <3>1, SumLinear
  <2>. QED  BY <2>1, <2>2
<1>7. SumFunctionOnSet(held, S) = SumFunctionOnSet(Held1, S)
      /\ SumFunctionOnSet(reserve, S) = SumFunctionOnSet(Reserve, S)
  <2>1. PICK h, r : h = Held1 /\ r = Reserve
    OBVIOUS
  <2>2. h \in [Requests -> Int] /\ r \in [Requests -> Int]
    <3>1. h \in [Requests -> Nat]
      BY <2>1, RunningHold
    <3>. QED  BY <2>1, <3>1, ReserveIs
  <2>3. S \in SUBSET (S \cap Requests) /\ IsFiniteSet(S)
    BY <1>2
  <2>4. SumFunctionOnSet(held, S) = SumFunctionOnSet(h, S)
    <3>1. held \in [S -> Int] /\ h \in [Requests -> Int] /\ \A x \in S : held[x] = h[x]
      BY <1>1, <1>4, <2>1, <2>2
    <3>. QED  BY <2>3, <3>1, SumSame
  <2>5. SumFunctionOnSet(reserve, S) = SumFunctionOnSet(r, S)
    <3>1. reserve \in [S -> Int] /\ r \in [Requests -> Int] /\ \A x \in S : reserve[x] = r[x]
      BY <1>1, <1>4, <2>1, <2>2
    <3>. QED  BY <2>3, <3>1, SumSame
  <2>. QED  BY <2>1, <2>4, <2>5
<1>8. SumFunctionOnSet(need, S) \in Int /\ SumFunctionOnSet(held, S) \in Int
      /\ SumFunctionOnSet(both, S) \in Int /\ SumFunctionOnSet(reserve, S) \in Int
  <2>1. S \in SUBSET S
    OBVIOUS
  <2>. QED  BY <1>2, <1>4, <2>1, SumOut
<1>9. Len(free) + SumFunctionOnSet(Held1, S) = NumPages /\ SumFunctionOnSet(Reserve, S) <= NumPages
    BY <1>1, RunningHold DEF Reserved
<1>10. PICK n \in Int, h \in Int, b \in Int, r \in Int, F \in Nat :
           /\ n = SumFunctionOnSet(need, S) /\ h = SumFunctionOnSet(held, S)
           /\ b = SumFunctionOnSet(both, S) /\ r = SumFunctionOnSet(reserve, S) /\ F = Len(free)
  <2>1. Len(free) \in Nat
    BY LenProperties DEF Types
  <2>. QED  BY <1>8, <2>1
<1>11. b = n + h /\ b <= r /\ F + h = NumPages /\ r <= NumPages
    BY <1>6, <1>7, <1>9, <1>10
<1>12. n <= F
    BY <1>10, <1>11, PageSizeIs
<1>13. PagesTaken(block, DOMAIN block) = n
    BY <1>1, <1>10 DEF PagesTaken
<1>. QED  BY <1>10, <1>12, <1>13 DEF TooFewPages

\* Where admission finds room there are pages for the prompt.
LEMMA PromptRoom ==
    ASSUME Types, Idle, PagesOK, Following, up, CanPrefill
    PROVE  ~TooFewPages(PromptBlock)
<1>1. PICK h, need, S : h = Head(queue) /\ S = {h} /\ need = [q \in S |-> PagesNeeded(q, PromptBlock)]
    OBVIOUS
<1>2. h \in Requests /\ stage[h] = "waiting" /\ PagesFor(Len(Prompt[h])) <= Len(free)
    BY <1>1, PrefillRoom
<1>3. PICK n \in Nat, F \in Nat : n = PagesFor(Len(Prompt[h])) /\ F = Len(free)
  <2>1. Len(Prompt[h]) \in Nat
    BY <1>2, ReserveIs
  <2>2. PagesFor(Len(Prompt[h])) \in Nat
    BY <2>1, PagesForIs
  <2>3. Len(free) \in Nat
    BY LenProperties DEF Types
  <2>. QED  BY <2>2, <2>3
<1>4. need[h] = n
  <2>1. cached[h] = 0
    BY <1>2 DEF Idle
  <2>2. PromptBlock[h] = Prompt[h]
    BY <1>1 DEF PromptBlock
  <2>3. Len(Prompt[h]) \in Nat
    BY <1>2, ReserveIs
  <2>4. 0 + Len(Prompt[h]) = Len(Prompt[h])
    BY <2>3
  <2>5. need[h] = PagesFor(0 + Len(Prompt[h])) - PagesFor(0)
    BY <1>1, <2>1, <2>2 DEF PagesNeeded
  <2>. QED  BY <1>3, <2>4, <2>5, PagesForNone
<1>5. need \in [S -> Int] /\ S \in SUBSET S /\ IsFiniteSet(S) /\ h \in S
  <2>1. IsFiniteSet(S)
    BY <1>1, FS_Singleton
  <2>. QED  BY <1>1, <1>3, <1>4, <2>1
<1>6. SumFunctionOnSet(need, S) = need[h] + SumFunctionOnSet(need, S \ {h})
      /\ SumFunctionOnSet(need, {}) = 0
    BY <1>5, SumOut
<1>7. SumFunctionOnSet(need, S) = n
  <2>1. S \ {h} = {}
    BY <1>1
  <2>2. SumFunctionOnSet(need, S \ {h}) = 0
    BY <1>6, <2>1
  <2>3. n + 0 = n
    BY <1>3
  <2>. QED  BY <1>4, <1>6, <2>2, <2>3
<1>8. DOMAIN PromptBlock = S
    BY <1>1 DEF PromptBlock
<1>9. PagesTaken(PromptBlock, DOMAIN PromptBlock) = n
    BY <1>1, <1>7, <1>8 DEF PagesTaken
<1>. QED  BY <1>2, <1>3, <1>9 DEF TooFewPages

\* A block only finds too few pages if it was padded past the limit of a request.
LEMMA OutOfPagesKeeps ==
    ASSUME SInv, Answers, OutOfPages
    PROVE  SInv'
<1>1. Types /\ Idle /\ PagesOK /\ Following /\ Snapped /\ Reserved
    BY DEF SInv
<1>2. /\ up /\ up' = FALSE
      /\ UNCHANGED <<server, stage, queue, text, cached, input, row, free, kv, rec, snap, think, tool>>
    BY DEF OutOfPages
<1>3. PICK block \in Blocks :
          /\ TooFewPages(block)
          /\ device' = [q \in Requests |->
                IF q \in DOMAIN block THEN cached[q] + Len(block[q]) ELSE device[q]]
    BY DEF OutOfPages
<1>4. ~CanPrefill /\ Running # {} /\ (block = PlainBlock \/ \E drafts \in Proposals : block = Staged(drafts))
  <2>1. CASE CanPrefill
    <3>1. block = PromptBlock
      BY <1>3, <2>1 DEF Blocks
    <3>. QED  BY <1>1, <1>2, <1>3, <2>1, <3>1, PromptRoom
  <2>2. CASE ~CanPrefill
    BY <1>3, <2>2 DEF Blocks
  <2>. QED  BY <2>1, <2>2
<1>5. ASSUME NEW q \in Running
      PROVE  /\ q \in Requests /\ Limit(q) \in Nat /\ cached[q] \in Nat /\ Remain(q) \in Nat \ {0}
             /\ cached[q] + Remain(q) = Limit(q) - 1
  <2>1. /\ q \in Requests /\ cached[q] \in Nat /\ Remain(q) \in Nat \ {0}
        /\ cached[q] + Remain(q) = Limit(q) - 1
    BY <1>1, <1>2, RemainIs
  <2>. QED  BY <2>1, ReserveIs
<1>6. /\ DOMAIN block = Running /\ \A q \in Running : Len(block[q]) \in Nat
      /\ server.ladder = {} => \A q \in Running : Len(block[q]) <= Remain(q)
  <2>1. CASE block = PlainBlock
    <3>1. ASSUME NEW q \in Running PROVE Len(block[q]) \in Nat /\ Len(block[q]) <= Remain(q)
      <4>1. block[q] = <<input[q]>>
        BY <2>1 DEF PlainBlock
      <4>2. PICK x : x = input[q]
        OBVIOUS
      <4>3. Len(<<x>>) = 1
        OBVIOUS
      <4>4. PICK r \in Nat : r = Remain(q) /\ r # 0
        BY <1>5
      <4>5. 1 <= r
        BY <4>4
      <4>. QED  BY <4>1, <4>2, <4>3, <4>4, <4>5
    <3>3. DOMAIN block = Running
      BY <2>1 DEF PlainBlock
    <3>. QED  BY <3>1, <3>3
  <2>2. CASE \E drafts \in Proposals : block = Staged(drafts)
    <3>1. PICK drafts \in Proposals : block = Staged(drafts)
      BY <2>2
    <3>2. DOMAIN block = Running
      BY <3>1 DEF Staged, Proposals
    <3>3. ASSUME NEW q \in Running
          PROVE  Len(block[q]) \in Nat /\ (server.ladder = {} => Len(block[q]) <= Remain(q))
      <4>1. PICK m : Step(drafts, q, m)
        BY <1>1, <1>2, StepIs
      <4>2. block[q] \in Seq(Tokens) /\ (~Padded(drafts) => Len(block[q]) <= Remain(q))
        BY <3>1, <4>1 DEF Step
      <4>3. server.ladder = {} => ~Padded(drafts)
        BY DEF Padded
      <4>. QED  BY <4>2, <4>3, LenProperties
    <3>. QED  BY <3>2, <3>3
  <2>. QED  BY <1>4, <2>1, <2>2
<1>7. PICK q \in Running : ~(cached[q] + Len(block[q]) < Limit(q))
    BY <1>1, <1>3, <1>6, BatchRoom
<1>8. PICK c \in Nat, n \in Nat, l \in Nat, r \in Nat :
          c = cached[q] /\ n = Len(block[q]) /\ l = Limit(q) /\ r = Remain(q)
    BY <1>5, <1>6
<1>9. ~(c + n < l) /\ c + r = l - 1 /\ (server.ladder = {} => n <= r)
    BY <1>5, <1>6, <1>7, <1>8
<1>10. server.ladder # {} /\ c + n >= l
    BY <1>8, <1>9
<1>11. device'[q] >= Limit(q)
  <2>1. device'[q] = c + n
    BY <1>3, <1>5, <1>6, <1>8
  <2>. QED  BY <1>8, <1>10, <2>1
<1>12. Running' = Running /\ \A r0 \in Requests : Limit(r0)' = Limit(r0)
    BY <1>2 DEF Running, Limit
<1>13. BlocksFit'
    BY <1>2, <1>5, <1>10, <1>11, <1>12 DEF BlocksFit
<1>14. Types'
  <2>1. device' \in [Requests -> Nat]
    <3>1. \A r0 \in Requests : cached[r0] \in Nat /\ device[r0] \in Nat
      BY <1>1 DEF Types
    <3>2. \A r0 \in Requests : (IF r0 \in DOMAIN block THEN cached[r0] + Len(block[r0]) ELSE device[r0]) \in Nat
      BY <1>6, <3>1
    <3>. QED  BY <1>3, <3>2
  <2>. QED  BY <1>1, <1>2, <2>1 DEF Types
<1>15. Idle' /\ PagesOK' /\ Snapped'
  <2>1. Idle'
    BY <1>1, <1>2 DEF Idle
  <2>2. PagesOK'
    BY <1>1, <1>2 DEF PagesOK, PagesFor, Pages
  <2>3. Snapped'
    BY <1>1, <1>2 DEF Snapped, SnapshotsAreExact
  <2>. QED  BY <2>1, <2>2, <2>3
<1>16. Following'
  <2>1. ASSUME NEW r0 \in Running PROVE Followed(r0)'
    BY <1>1, <1>2, FollowedStill DEF Following
  <2>. QED  BY <1>12, <2>1 DEF Following
<1>17. Reserved'
    BY <1>1, <1>12, ReservedFewer
<1>. QED  BY <1>13, <1>14, <1>15, <1>16, <1>17 DEF SInv

----------------------------------------------------------------------------
(* The invariant holds.                                                    *)

\* The invariant holds at the start,
LEMMA SInvInit ==
    ASSUME Init
    PROVE  SInv
<1>1. /\ server \in Servers /\ up = TRUE
      /\ stage = [q \in Requests |-> "new"] /\ queue = << >>
      /\ text = Prompt /\ input = [q \in Requests |-> Filler]
      /\ cached = [q \in Requests |-> 0] /\ device = [q \in Requests |-> 0]
      /\ row = [q \in Requests |-> << >>] /\ free = [i \in Pages |-> i]
      /\ kv = [l \in Locations |-> Filler]
      /\ rec = [q \in Requests |-> NoState] /\ snap = [q \in Requests |-> NoSnap]
      /\ think = [q \in Requests |-> Off] /\ tool = [q \in Requests |-> Off]
    BY DEF Init
<1>2. ToSet(<< >>) = {} /\ IsInjective(<< >>) /\ Len(<< >>) = 0
    BY DEF ToSet, IsInjective
<1>3. PICK n \in Nat : n = NumPages /\ Pages = 1 .. n
    BY PageSizeIs DEF Pages
<1>4. free \in Seq(Pages) /\ DOMAIN free = Pages /\ \A i \in Pages : free[i] = i
  <2>1. free \in [1 .. n -> Pages]
    BY <1>1, <1>3
  <2>2. free \in Seq(Pages)
    BY <2>1, SeqDef
  <2>. QED  BY <1>1, <2>2
<1>5. ToSet(free) = Pages /\ IsInjective(free)
    BY <1>4 DEF ToSet, IsInjective
<1>6. Types
  <2>1. << >> \in Seq(Requests) /\ << >> \in Seq(Pages) /\ Filler \in Tokens /\ 0 \in Nat
        /\ Prompt \in [Requests -> Seq(Tokens) \ {<< >>}]
    BY EmptySeq, SpecAssumption
  <2>2. Off \in Gates
    BY DEF Gates
  <2>3. /\ rec = [q \in Requests |-> rec[q]] /\ snap = [q \in Requests |-> snap[q]]
        /\ tool = [q \in Requests |-> tool[q]] /\ think \in [Requests -> Gates]
        /\ \A q \in Requests : (q \notin Thinks => think[q] = Off) /\ (q \notin HasTools => tool[q] = Off)
    BY <1>1, <2>2
  <2>4. /\ server \in Servers /\ up \in BOOLEAN
        /\ stage \in [Requests -> {"new", "waiting", "running", "done"}] /\ queue \in Seq(Requests)
        /\ text \in [Requests -> Seq(Tokens) \ {<< >>}] /\ input \in [Requests -> Tokens]
        /\ cached \in [Requests -> Nat] /\ device \in [Requests -> Nat]
        /\ row \in [Requests -> Seq(Pages)] /\ kv \in [Locations -> Tokens]
    BY <1>1, <2>1
  <2>. QED  BY <1>4, <2>3, <2>4 DEF Types
<1>7. Idle
    BY <1>1, <1>2 DEF Idle
<1>8. PagesOK
  <2>1. ASSUME NEW q \in Requests
        PROVE  row[q] = << >> /\ cached[q] = 0
    BY <1>1
  <2>. QED  BY <1>2, <1>5, <2>1, PagesForNone DEF PagesOK
<1>9. Running = {}
    BY <1>1 DEF Running
<1>10. Following
    BY <1>9 DEF Following
<1>11. Snapped
  <2>1. \A q \in Requests : snap[q] = NoSnap
    BY <1>1
  <2>. QED  BY <2>1, NoneLeft DEF Snapped, SnapshotsAreExact
<1>12. Reserved
  <2>1. SumFunctionOnSet(Reserve, {}) = 0
    <3>1. PICK f : f = Reserve
      OBVIOUS
    <3>2. f \in [Requests -> Int] /\ {} \in SUBSET Requests /\ IsFiniteSet({})
      BY <3>1, ReserveIs, FS_EmptySet
    <3>3. SumFunctionOnSet(f, {}) = 0
      BY <3>2, SumOut
    <3>. QED  BY <3>1, <3>3
  <2>. QED  BY <1>9, <2>1, PageSizeIs DEF Reserved
<1>13. BlocksFit
    BY <1>1 DEF BlocksFit
<1>. QED  BY <1>6, <1>7, <1>8, <1>10, <1>11, <1>12, <1>13 DEF SInv

\* every step keeps it,
LEMMA SInvStep ==
    ASSUME SInv, Answers, [Next]_vars
    PROVE  SInv'
<1>1. CASE \E q \in Requests : Arrive(q)
    BY <1>1, ArriveKeeps
<1>2. CASE \E q \in Requests : Abort(q)
    BY <1>2, AbortKeeps
<1>3. CASE Prefill
    BY <1>3, PrefillKeeps
<1>4. CASE PlainDecode
    BY <1>4, PlainDecodeKeeps
<1>5. CASE SpecDecode
    BY <1>5, SpecDecodeKeeps
<1>6. CASE OutOfPages
    BY <1>6, OutOfPagesKeeps
<1>7. CASE UNCHANGED vars
  <2>1. Types' /\ Idle'
    BY <1>7 DEF SInv, Types, Idle, vars
  <2>2. PagesOK'
    BY <1>7 DEF SInv, PagesOK, PagesFor, Pages, vars
  <2>3. Running' = Running
    BY <1>7 DEF Running, vars
  <2>4. Following'
    <3>1. ASSUME NEW q \in Running PROVE Followed(q)'
      BY <1>7, FollowedStill DEF SInv, Following, vars
    <3>. QED  BY <2>3, <3>1 DEF Following
  <2>5. Snapped'
    BY <1>7 DEF SInv, Snapped, SnapshotsAreExact, vars
  <2>6. Reserved'
    BY <2>3, ReservedFewer DEF SInv
  <2>7. BlocksFit'
    BY <1>7, <2>3 DEF SInv, BlocksFit, Limit, vars
  <2>. QED  BY <2>1, <2>2, <2>4, <2>5, <2>6, <2>7 DEF SInv
<1>. QED  BY <1>1, <1>2, <1>3, <1>4, <1>5, <1>6, <1>7 DEF Next

\* and so it always holds, if the model answers with tokens.
LEMMA SInvHolds ==
    ASSUME Answers
    PROVE  Spec => []SInv
<1>1. Init => SInv
    BY SInvInit
<1>2. SInv /\ [Next]_vars => SInv'
    BY SInvStep
<1>. QED  BY <1>1, <1>2, PTL DEF Spec

----------------------------------------------------------------------------
(* What it says.                                                           *)

\* However the server is started, it has GDN state, and either no ring or blocks
\* that are equally long in a batch.
AllRollBack == \A s \in Servers : RollsBack(s)

\* The roll-back of _spec_decode_step leaves nothing of a rejected draft: the
\* pages, the input and both halves of the recurrent state are always those of
\* the committed text, whatever the proposers draft and the model answers, and
\* also if some of the captured widths are verified on the ring and some off it.
\* Not so for CCA state, nor on the ring with blocks of different lengths.
THEOREM StateAlwaysFollowsText ==
    ASSUME Answers, AllRollBack
    PROVE  Spec => []StateFollowsText
<1>1. Spec => []SInv
    BY SInvHolds
<1>2. SInv => StateFollowsText
  <2>1. ASSUME SInv PROVE StateFollowsText
    <3>1. Types /\ Following
      BY <2>1 DEF SInv
    <3>2. RollsBack(server)
      BY <3>1 DEF Types, AllRollBack
    <3>. QED  BY <3>1, <3>2, FollowingIs
  <2>. QED  BY <2>1
<1>. QED  BY <1>1, <1>2, PTL

\* _free, the drop of the draft pages and the end of a request give every page
\* back once: on any kind of server each is free or in one row, and a row has
\* those its cached tokens take.
THEOREM PagesAlwaysFollowLength ==
    ASSUME Answers
    PROVE  Spec => []PagesFollowLength
<1>1. Spec => []SInv
    BY SInvHolds
<1>2. SInv => PagesFollowLength
    BY PagesCounted DEF SInv
<1>. QED  BY <1>1, <1>2, PTL

\* The rewind of finished requests: where the blocks of a batch are equally long
\* and every window has room on the ring, what is left to the cache is the ssm
\* state of exactly the tokens in the pages.  Nothing is said of other servers.
THEOREM SnapshotsAreAlwaysExact ==
    ASSUME Answers
    PROVE  Spec => []SnapshotsAreExact
<1>1. Spec => []SInv
    BY SInvHolds
<1>2. SInv => SnapshotsAreExact
    BY DEF SInv, Snapped
<1>. QED  BY <1>1, <1>2, PTL

\* Admission sets enough aside: whatever the page size and the token limits,
\* the allocator never runs out of pages for a prompt, a plain step or a block
\* without padding, and else only for one that reached a limit.
THEOREM BlocksAlwaysFit ==
    ASSUME Answers
    PROVE  Spec => []BlocksFit
<1>1. Spec => []SInv
    BY SInvHolds
<1>2. SInv => BlocksFit
    BY DEF SInv
<1>. QED  BY <1>1, <1>2, PTL

----------------------------------------------------------------------------
(* Greedy decoding is implemented.                                         *)

\* What is after p in t is the model's choice, and nothing follows an end of turn.
Follows(p, t) ==
    \A i \in Len(p) + 1 .. Len(t) :
       /\ t[i] = NextToken(server.model, SubSeq(t, 1, i - 1))
       /\ i < Len(t) => t[i] # Eos

\* What a running request without gates was sent is what greedy decoding gives,
\* and the turn has not ended.
Grown(p, t) ==
    /\ IsPrefix(p, t)
    /\ \A i \in Len(p) + 1 .. Len(t) :
          t[i] = NextToken(server.model, SubSeq(t, 1, i - 1)) /\ t[i] # Eos
GreedyInv == \A q \in Running \cap Ungated : Grown(Prompt[q], text[q])

\* A text that follows the prompt still does when a greedy run is added.
Longer(p, w, t) ==
    /\ IsStrictPrefix(w, t) /\ IsStrictPrefix(p, t) /\ Follows(p, t)
    /\ Last(t) # Eos => Grown(p, t)

\* Greedy tokens after greedy tokens are greedy.
LEMMA GrownOn ==
    ASSUME NEW p \in Seq(Tokens), NEW w \in Seq(Tokens), NEW k \in Seq(Tokens), k # << >>,
           Grown(p, w), NextAll(w, k)
    PROVE  Longer(p, w, w \o k)
<1>1. PICK t : t = w \o k
    OBVIOUS
<1>2. PICK a \in Nat, b \in Nat, c \in Nat : a = Len(p) /\ b = Len(w) /\ c = Len(k)
    BY LenProperties
<1>3. c # 0 /\ a <= b
    BY <1>2, EmptySeq DEF Grown, IsPrefix
<1>4. /\ t \in Seq(Tokens) /\ Len(t) = b + c
      /\ \A i \in 1 .. b + c : t[i] = IF i <= b THEN w[i] ELSE k[i - b]
    BY <1>1, <1>2, ConcatProperties
<1>5. ASSUME NEW n \in Nat, n <= b PROVE SubSeq(t, 1, n) = SubSeq(w, 1, n)
  <2>1. n \in Int /\ n <= Len(t) /\ n <= Len(w) /\ \A j \in 1 .. n : t[j] = w[j]
    BY <1>2, <1>4, <1>5
  <2>. QED  BY <1>4, <2>1, SameStart
<1>6. ASSUME NEW n \in Nat, n <= c PROVE SubSeq(t, 1, b + n) = w \o SubSeq(k, 1, n)
    BY <1>1, <1>2, <1>6, HeadOfConcat
<1>7. SubSeq(w, 1, b) = SubSeq(t, 1, b) /\ SubSeq(p, 1, a) = SubSeq(t, 1, a)
  <2>1. SubSeq(p, 1, a) = SubSeq(w, 1, a)
    BY <1>2 DEF Grown, IsPrefix
  <2>. QED  BY <1>3, <1>5, <2>1
<1>8. IsStrictPrefix(w, t) /\ IsStrictPrefix(p, t) /\ IsPrefix(p, t)
  <2>1. b <= Len(t) /\ a <= Len(t) /\ Len(t) # b /\ Len(t) # a
    BY <1>3, <1>4
  <2>2. w # t /\ p # t
    BY <1>2, <2>1
  <2>. QED  BY <1>2, <1>7, <2>1, <2>2 DEF IsStrictPrefix, IsPrefix
<1>9. ASSUME NEW i \in a + 1 .. b + c
      PROVE  /\ t[i] = NextToken(server.model, SubSeq(t, 1, i - 1))
             /\ i < b + c => t[i] # Eos
  <2>1. CASE i <= b
    <3>1. i \in a + 1 .. b /\ i - 1 \in Nat /\ i - 1 <= b /\ i \in 1 .. b + c
      BY <1>2, <2>1
    <3>2. w[i] = NextToken(server.model, SubSeq(w, 1, i - 1)) /\ w[i] # Eos
      BY <1>2, <3>1 DEF Grown
    <3>3. t[i] = w[i]
      BY <1>4, <2>1, <3>1
    <3>4. SubSeq(t, 1, i - 1) = SubSeq(w, 1, i - 1)
      BY <1>5, <3>1
    <3>. QED  BY <3>2, <3>3, <3>4
  <2>2. CASE ~(i <= b)
    <3>1. PICK j : j = i - b
      OBVIOUS
    <3>2. j \in 1 .. c /\ i \in 1 .. b + c /\ (i < b + c => j < c) /\ i - 1 = b + (j - 1)
          /\ j - 1 \in Nat /\ j - 1 <= c
      BY <1>2, <2>2, <3>1
    <3>3. /\ k[j] = NextToken(server.model, w \o SubSeq(k, 1, j - 1))
          /\ j < c => k[j] # Eos
      BY <1>2, <3>2 DEF NextAll
    <3>4. t[i] = k[j]
      BY <1>4, <2>2, <3>1, <3>2
    <3>5. SubSeq(t, 1, i - 1) = w \o SubSeq(k, 1, j - 1)
      BY <1>6, <3>2
    <3>. QED  BY <3>2, <3>3, <3>4, <3>5
  <2>. QED  BY <2>1, <2>2
<1>10. Follows(p, t)
    BY <1>2, <1>4, <1>9 DEF Follows
<1>11. ASSUME Last(t) # Eos PROVE Grown(p, t)
  <2>1. ASSUME NEW i \in a + 1 .. b + c PROVE t[i] # Eos
    <3>1. CASE i < b + c
      BY <1>9, <3>1
    <3>2. CASE ~(i < b + c)
      <4>1. PICK m \in Nat : m = b + c /\ m = Len(t)
        BY <1>4
      <4>2. i \in a + 1 .. m /\ ~(i < m)
        BY <3>2, <4>1
      <4>3. i = m
        BY <4>2
      <4>. QED  BY <1>11, <4>1, <4>3 DEF Last
    <3>. QED  BY <3>1, <3>2
  <2>. QED  BY <1>2, <1>4, <1>8, <1>9, <2>1 DEF Grown
<1>. QED  BY <1>1, <1>8, <1>10, <1>11 DEF Longer

\* What a step does to a request without gates, as greedy decoding sees it.
Grows(q) ==
    /\ stage[q] # "done"
    /\ IsStrictPrefix(text[q], text'[q]) /\ IsStrictPrefix(Prompt[q], text'[q])
    /\ Len(text'[q]) <= Limit(q) /\ Follows(Prompt[q], text'[q])
    /\ stage'[q] = "done" <=> (Last(text'[q]) = Eos \/ Len(text'[q]) = Limit(q))
Stays(q) == text'[q] = text[q] /\ (stage[q] = "done" => stage'[q] = "done")

\* If every request without gates grows or stays, the step is one of GreedyDecode.
LEMMA GreedyStep ==
    ASSUME server' = server, \A q \in Ungated : Grows(q) \/ Stays(q)
    PROVE  Greedy!Next
<1>. DEFINE words == [q \in Ungated |-> text[q]]
            ended == {q \in Ungated : stage[q] = "done"}
<1>1. /\ words = [q \in Ungated |-> text[q]] /\ words' = [q \in Ungated |-> text'[q]]
      /\ \A q \in Ungated : /\ words[q] = text[q] /\ words'[q] = text'[q]
                            /\ q \in ended <=> stage[q] = "done"
                            /\ q \in ended' <=> stage'[q] = "done"
    OBVIOUS
<1>2. /\ \A s : Greedy!Last(s) = Last(s)
      /\ \A s, t : Greedy!IsStrictPrefix(s, t) <=> IsStrictPrefix(s, t)
    BY DEF Greedy!Last, Last, Greedy!IsStrictPrefix, Greedy!IsPrefix, IsStrictPrefix, IsPrefix
<1>3. ASSUME NEW q \in Ungated, Grows(q) PROVE Greedy!Grow(q)
  <2>1. PICK t : t = text'[q]
    OBVIOUS
  <2>2. Greedy!Continues(q, t)
    BY <1>2, <1>3, <2>1 DEF Grows, Greedy!Continues, Follows, Limit
  <2>3. Greedy!Ended(q, t) <=> (Last(t) = Eos \/ Len(t) = Limit(q))
    BY <1>2 DEF Greedy!Ended, Limit
  <2>. HIDE DEF words, ended
  <2>4. /\ q \notin ended /\ Greedy!IsStrictPrefix(words[q], words'[q])
        /\ Greedy!Continues(q, words'[q])
        /\ q \in ended' <=> Greedy!Ended(q, words'[q])
    BY <1>1, <1>2, <1>3, <2>1, <2>2, <2>3 DEF Grows
  <2>. QED  BY <2>4 DEF Greedy!Grow, words, ended
<1>4. ASSUME NEW q \in Ungated, Stays(q) PROVE Greedy!Stay(q)
  <2>. HIDE DEF words, ended
  <2>1. words'[q] = words[q] /\ (q \in ended => q \in ended')
    BY <1>1, <1>4 DEF Stays
  <2>. QED  BY <2>1 DEF Greedy!Stay, words, ended
<1>5. DOMAIN words' = Ungated
    OBVIOUS
<1>6. \A q \in Ungated : Greedy!Grow(q) \/ Greedy!Stay(q)
    BY <1>3, <1>4
<1>. QED  BY <1>5, <1>6 DEF Greedy!Next

\* A step that commits extends the texts of its batch, as greedy decoding does.
LEMMA CommitsGrow ==
    ASSUME Types, Idle, PagesOK, GreedyInv, NEW block, Commits(block), RollsBack(server),
           NEW q \in Ungated
    PROVE  /\ Grows(q) \/ Stays(q)
           /\ server' = server /\ stage'[q] = "running" => Grown(Prompt[q], text[q])'
<1>. DEFINE batch == DOMAIN block
<1>1. \A r \in batch : stage[r] \in {"waiting", "running"}
    BY DEF Commits
<1>2. PICK kept, length, state, thinks, tools :
          /\ Commit(block, kept, length, state, thinks, tools)
          /\ Results(block, kept, length)
          /\ RollsBack(server) => \A r \in DOMAIN block \cap Ungated : NextAll(text[r], kept[r])
    BY DEF Commits
<1>. DEFINE over == Over(kept, length)
<1>3. q \in Requests /\ DOMAIN kept = batch
    BY <1>2 DEF Ungated, Results
<1>4. /\ q \in over => stage'[q] = "done"
      /\ q \in batch /\ q \notin over => stage'[q] = "running"
      /\ q \in batch => text'[q] = text[q] \o kept[q]
      /\ q \notin batch => stage'[q] = stage[q] /\ text'[q] = text[q]
  <2>1. /\ stage' = [r \in Requests |->
              IF r \in over THEN "done" ELSE IF r \in batch THEN "running" ELSE stage[r]]
        /\ text' = [r \in Requests |-> IF r \in batch THEN text[r] \o kept[r] ELSE text[r]]
    BY <1>2 DEF Commit
  <2>2. over \subseteq batch
    BY <1>3 DEF Over
  <2>. HIDE DEF over, batch
  <2>. QED  BY <1>3, <2>1, <2>2
<1>5. CASE q \in batch
  <2>1. Joins(block, kept, length, q)
    BY <1>2, <1>5, JoinedIs
  <2>2. PICK p, w, k, t, n :
            p = Prompt[q] /\ w = text[q] /\ k = kept[q] /\ t = w \o k /\ n = length[q]
    OBVIOUS
  <2>3. /\ p \in Seq(Tokens) /\ w \in Seq(Tokens) /\ k \in Seq(Tokens) /\ k # << >>
        /\ Last(t) = Last(k) /\ n \in Nat /\ Len(t) = n + 1 /\ Len(t) <= Limit(q)
    BY <1>3, <2>1, <2>2, ReserveIs DEF Joins
  <2>4. Grown(p, w)
    <3>1. CASE stage[q] = "running"
      BY <1>3, <2>2, <3>1 DEF GreedyInv, Running
    <3>2. CASE stage[q] = "waiting"
      <4>1. w = p
        BY <1>3, <2>2, <3>2 DEF Idle
      <4>2. Grown(p, p)
        <5>1. Len(p) \in Nat
          BY <2>3, LenProperties
        <5>2. Len(p) <= Len(p) /\ \A i : i \notin Len(p) + 1 .. Len(p)
          BY <5>1
        <5>. QED  BY <5>2 DEF Grown, IsPrefix
      <4>. QED  BY <4>1, <4>2
    <3>. QED  BY <1>1, <1>5, <3>1, <3>2
  <2>5. NextAll(w, k)
    BY <1>2, <1>5, <2>2
  <2>6. Longer(p, w, t)
    BY <2>2, <2>3, <2>4, <2>5, GrownOn
  <2>7. q \in over <=> (Last(t) = Eos \/ Len(t) = Limit(q))
    <3>1. PICK l \in Nat : l = Limit(q)
      BY <1>3, ReserveIs
    <3>2. n + 1 >= l <=> Len(t) = l
      BY <2>3, <3>1
    <3>3. q \in over <=> (Last(k) = Eos \/ n + 1 >= l)
      BY <1>3, <1>5, <2>2, <3>1 DEF Over
    <3>. QED  BY <2>3, <3>1, <3>2, <3>3
  <2>8. text'[q] = t
    BY <1>4, <1>5, <2>2
  <2>9. stage'[q] = "done" <=> q \in over
    BY <1>4, <1>5
  <2>10. stage[q] # "done"
    BY <1>1, <1>5
  <2>11. Grows(q)
    BY <2>2, <2>3, <2>6, <2>7, <2>8, <2>9, <2>10 DEF Longer, Grows
  <2>12. ASSUME server' = server, stage'[q] = "running" PROVE Grown(Prompt[q], text[q])'
    <3>1. Last(t) # Eos
      BY <2>7, <2>9, <2>12
    <3>2. Grown(p, t)
      BY <2>6, <3>1 DEF Longer
    <3>. QED  BY <2>2, <2>8, <2>12, <3>2 DEF Grown, NextToken
  <2>. QED  BY <2>11, <2>12
<1>6. CASE q \notin batch
  <2>1. Stays(q)
    BY <1>4, <1>6 DEF Stays
  <2>2. ASSUME server' = server, stage'[q] = "running" PROVE Grown(Prompt[q], text[q])'
    <3>1. Grown(Prompt[q], text[q])
      BY <1>3, <1>4, <1>6, <2>2 DEF GreedyInv, Running
    <3>. QED  BY <1>4, <1>6, <2>2, <3>1 DEF Grown, NextToken
  <2>. QED  BY <2>1, <2>2
<1>. QED  BY <1>5, <1>6

\* Every step is one of greedy decoding, or changes nothing of it.
LEMMA GreedyNext ==
    ASSUME SInv, GreedyInv, Answers, AllRollBack, [Next]_vars
    PROVE  GreedyInv' /\ (Greedy!Next \/ UNCHANGED <<server, text, stage>>)
<1>1. Types /\ Idle /\ PagesOK
    BY DEF SInv
<1>2. RollsBack(server)
    BY <1>1 DEF Types, AllRollBack
<1>3. ASSUME NEW block, Commits(block), server' = server
      PROVE  GreedyInv' /\ Greedy!Next
  <2>1. \A q \in Ungated : Grows(q) \/ Stays(q)
    BY <1>1, <1>2, <1>3, CommitsGrow
  <2>2. ASSUME NEW q \in Ungated, stage'[q] = "running" PROVE Grown(Prompt[q], text[q])'
    BY <1>1, <1>2, <1>3, <2>2, CommitsGrow
  <2>3. GreedyInv'
    BY <2>2 DEF GreedyInv, Running
  <2>. QED  BY <1>3, <2>1, <2>3, GreedyStep
<1>4. ASSUME server' = server, text' = text,
             \A q \in Requests : /\ stage'[q] = "running" => stage[q] = "running"
                                 /\ stage[q] = "done" => stage'[q] = "done"
      PROVE  GreedyInv' /\ Greedy!Next
  <2>1. \A q \in Ungated : q \in Requests
    BY DEF Ungated
  <2>2. \A q \in Ungated : Stays(q)
    BY <1>4, <2>1 DEF Stays
  <2>3. ASSUME NEW q \in Ungated, stage'[q] = "running" PROVE Grown(Prompt[q], text[q])'
    <3>1. Grown(Prompt[q], text[q])
      BY <1>4, <2>1, <2>3 DEF GreedyInv, Running
    <3>. QED  BY <1>4, <3>1 DEF Grown, NextToken
  <2>4. GreedyInv'
    BY <2>3 DEF GreedyInv, Running
  <2>. QED  BY <1>4, <2>2, <2>4, GreedyStep
<1>5. CASE \E q \in Requests : Arrive(q) \/ Abort(q)
  <2>1. PICK q \in Requests : Arrive(q) \/ Abort(q)
    BY <1>5
  <2>2. PICK to \in {"waiting", "done"} :
            /\ stage' = [stage EXCEPT ![q] = to] /\ (stage[q] = "done" => to = "done")
            /\ server' = server /\ text' = text
    BY <2>1 DEF Arrive, Abort
  <2>3. DOMAIN stage = Requests
    BY <1>1 DEF Types
  <2>4. ASSUME NEW r \in Requests
        PROVE  /\ stage'[r] = "running" => stage[r] = "running"
               /\ stage[r] = "done" => stage'[r] = "done"
    BY <2>2, <2>3
  <2>. QED  BY <1>4, <2>2, <2>4
<1>6. CASE Prefill
  <2>1. Commits(PromptBlock) /\ server' = server
    BY <1>6, PrefillCommits DEF Prefill
  <2>. QED  BY <1>3, <2>1
<1>7. CASE PlainDecode
  <2>1. Commits(PlainBlock) /\ server' = server
    BY <1>7, PlainDecodeCommits DEF PlainDecode
  <2>. QED  BY <1>3, <2>1
<1>8. CASE SpecDecode
  <2>1. \E block : Commits(block)
    BY <1>8, SpecDecodeCommits
  <2>2. server' = server
    BY <1>8 DEF SpecDecode
  <2>. QED  BY <1>3, <2>1, <2>2
<1>9. CASE OutOfPages
    BY <1>4, <1>9 DEF OutOfPages
<1>10. CASE UNCHANGED vars
  <2>1. UNCHANGED <<server, text, stage>>
    BY <1>10 DEF vars
  <2>. QED  BY <1>4, <2>1
<1>. QED  BY <1>5, <1>6, <1>7, <1>8, <1>9, <1>10 DEF Next

\* Speculation changes no text (verify_greedy, _spec_decode_step): whatever the
\* proposers draft, however it is cut, padded and batched, prefilled or decoded
\* in the normal lane or the other, each request without gates gets the tokens
\* of plain greedy decoding, and ends where that ends, if the server takes back
\* what a forward did to the recurrent state.
THEOREM SpeculationImplementsGreedy ==
    ASSUME Answers, AllRollBack
    PROVE  Spec => Lossless
<1>1. Spec => []SInv
    BY SInvHolds
<1>2. Init => GreedyInv /\ Greedy!Init
  <2>1. ASSUME Init PROVE GreedyInv /\ Greedy!Init
    <3>1. text = Prompt /\ \A q \in Requests : stage[q] = "new"
      BY <2>1 DEF Init
    <3>. QED  BY <3>1 DEF GreedyInv, Running, Greedy!Init, Ungated
  <2>. QED  BY <2>1
<1>3. SInv /\ GreedyInv /\ [Next]_vars => GreedyInv' /\ [Greedy!Next]_(Greedy!vars)
  <2>1. ASSUME UNCHANGED <<server, text, stage>> PROVE UNCHANGED Greedy!vars
    BY <2>1 DEF Greedy!vars
  <2>. QED  BY <2>1, GreedyNext
<1>. QED  BY <1>1, <1>2, <1>3, PTL DEF Spec, Lossless, Greedy!Spec
=============================================================================
