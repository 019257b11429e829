----------------------- MODULE RequestPipeline_proofs -----------------------
(***************************************************************************)
(* What is proved of RequestPipeline, for any requests, replicas, bounds   *)
(* and interleaving of its processes.                                      *)
(*                                                                         *)
(* Types and Recorded (a record in the metrics is closed once, by the way  *)
(* its handler is left) are inductive with any number of tokenizers.       *)
(* The rest assumes Tokenizers = {}, the default: one process is tokenizer *)
(* and detokenizer, and both a request and its abort pass through its      *)
(* queue toWorker[D].  With tokenizers of their own an abort may overtake  *)
(* its request (finding 6), and nothing of what follows holds.             *)
(*                                                                         *)
(*   Structure   where a request is: a request is asked for once, then     *)
(*               routed once, and only then worked on, by one replica;     *)
(*               a batch of replies names a request once, and what a       *)
(*               replica sends last is last.                               *)
(*   Chased      adds that once a request is over for its client (it left, *)
(*               or its last reply is on its way) the request is           *)
(*               followed, wherever it still is, by its abort: behind it   *)
(*               in the same queue, or not yet sent at all.  The order     *)
(*               of each queue does the rest.                              *)
(*   Streams     numbers the replies of a request along their way: those   *)
(*               shown, those in its ackMap, those in the batches to the   *)
(*               frontend, and what the detokenizer has counted, with      *)
(*               nothing behind a reply that ends the request (InOrder:    *)
(*               the function f gives the number of replies before each    *)
(*               batch, or Ended).                                         *)
(***************************************************************************)
EXTENDS RequestPipeline, SequenceTheorems, FiniteSetTheorems, WellFoundedInduction, TLAPS

----------------------------------------------------------------------------
(* Sequences.                                                              *)

\* A set of numbers has a least one.
LEMMA Least ==
    ASSUME NEW S \in SUBSET Nat, S # {}
    PROVE  \E n \in S : \A m \in S : n <= m
<1>1. PICK n \in S : \A m \in S : ~(<<m, n>> \in OpToRel(<, Nat))
    BY NatLessThanWellFounded, WFMin
<1>2. \A m \in S : ~(m < n)
    BY <1>1 DEF OpToRel
<1>3. \A m \in S : n <= m
    BY <1>2
<1>. QED  BY <1>3

\* What Append and \o do to the elements of a sequence.
LEMMA AppendElements ==
    ASSUME NEW T, NEW s \in Seq(T), NEW x \in T
    PROVE  /\ ToSet(Append(s, x)) = ToSet(s) \cup {x}
           /\ IsInjective(s) /\ x \notin ToSet(s) => IsInjective(Append(s, x))
<1>1. DOMAIN s = 1 .. Len(s) /\ DOMAIN Append(s, x) = 1 .. Len(s) + 1 /\ Len(s) \in Nat
    OBVIOUS
<1>2. \A i \in 1 .. Len(s) : Append(s, x)[i] = s[i]
    OBVIOUS
<1>3. Append(s, x)[Len(s) + 1] = x
    OBVIOUS
<1>4. ToSet(Append(s, x)) = ToSet(s) \cup {x}
  <2>1. ToSet(Append(s, x)) \subseteq ToSet(s) \cup {x}
    BY <1>1, <1>2, <1>3 DEF ToSet
  <2>2. ToSet(s) \subseteq ToSet(Append(s, x))
    BY <1>1, <1>2 DEF ToSet
  <2>3. x \in ToSet(Append(s, x))
    BY <1>1, <1>3 DEF ToSet
  <2>. QED  BY <2>1, <2>2, <2>3
<1>5. ASSUME IsInjective(s), x \notin ToSet(s) PROVE IsInjective(Append(s, x))
    BY <1>1, <1>2, <1>3, <1>5 DEF IsInjective, ToSet
<1>. QED  BY <1>4, <1>5

LEMMA ConcatElements ==
    ASSUME NEW T, NEW s \in Seq(T), NEW t \in Seq(T)
    PROVE  /\ ToSet(s \o t) = ToSet(s) \cup ToSet(t)
           /\ IsInjective(s) /\ IsInjective(t) /\ ToSet(s) \cap ToSet(t) = {}
                 => IsInjective(s \o t)
<1>1. /\ DOMAIN s = 1 .. Len(s) /\ DOMAIN t = 1 .. Len(t)
      /\ DOMAIN (s \o t) = 1 .. Len(s) + Len(t) /\ Len(s) \in Nat /\ Len(t) \in Nat
    OBVIOUS
<1>2. \A i \in 1 .. Len(s) : (s \o t)[i] = s[i]
    OBVIOUS
<1>3. \A i \in 1 .. Len(t) : (s \o t)[Len(s) + i] = t[i]
    OBVIOUS
<1>4. \A i \in 1 .. Len(s) + Len(t) :
         i \in 1 .. Len(s) \/ (i - Len(s) \in 1 .. Len(t) /\ (s \o t)[i] = t[i - Len(s)])
    BY <1>1, <1>3
<1>5. ToSet(s \o t) = ToSet(s) \cup ToSet(t)
  <2>1. ToSet(s \o t) \subseteq ToSet(s) \cup ToSet(t)
    BY <1>1, <1>2, <1>4 DEF ToSet
  <2>2. ToSet(s) \subseteq ToSet(s \o t)
    BY <1>1, <1>2 DEF ToSet
  <2>3. ToSet(t) \subseteq ToSet(s \o t)
    <3>1. \A i \in DOMAIN t : Len(s) + i \in DOMAIN (s \o t)
      BY <1>1
    <3>. QED  BY <3>1, <1>1, <1>3 DEF ToSet
  <2>. QED  BY <2>1, <2>2, <2>3
<1>6. ASSUME IsInjective(s), IsInjective(t), ToSet(s) \cap ToSet(t) = {},
             NEW i \in 1 .. Len(s) + Len(t), NEW j \in 1 .. Len(s) + Len(t),
             (s \o t)[i] = (s \o t)[j]
      PROVE  i = j
  <2>1. CASE i \in 1 .. Len(s) /\ j \in 1 .. Len(s)
    BY <2>1, <1>1, <1>2, <1>6 DEF IsInjective
  <2>2. CASE i \in 1 .. Len(s) /\ j \notin 1 .. Len(s)
    BY <2>2, <1>1, <1>2, <1>4, <1>6 DEF ToSet
  <2>3. CASE i \notin 1 .. Len(s) /\ j \in 1 .. Len(s)
    BY <2>3, <1>1, <1>2, <1>4, <1>6 DEF ToSet
  <2>4. CASE i \notin 1 .. Len(s) /\ j \notin 1 .. Len(s)
    <3>1. i - Len(s) = j - Len(s)
      BY <2>4, <1>1, <1>4, <1>6 DEF IsInjective
    <3>. QED  BY <3>1, <1>1
  <2>. QED  BY <2>1, <2>2, <2>3, <2>4
<1>. QED  BY <1>1, <1>5, <1>6 DEF IsInjective

\* The definition of Only, one element of the sequence at a time.
OnlyStep(s, keys, only, i) ==
    IF i = 0 THEN << >>
    ELSE IF s[i] \in keys THEN Append(only[i - 1], s[i]) ELSE only[i - 1]

LEMMA OnlyExists ==
    ASSUME NEW T, NEW s \in Seq(T), NEW keys
    PROVE  \A n \in 0 .. Len(s) : \E f : f = [i \in 0 .. n |-> OnlyStep(s, keys, f, i)]
<1>. DEFINE P(n) == \E f : f = [i \in 0 .. n |-> OnlyStep(s, keys, f, i)]
            B == {n \in 0 .. Len(s) : ~P(n)}
<1>1. SUFFICES ASSUME B # {} PROVE FALSE
    OBVIOUS
<1>2. B \in SUBSET Nat
    BY LenProperties
<1>3. PICK n \in B : \A m \in B : n <= m
    BY <1>1, <1>2, Least
<1>4. CASE n = 0
  <2>. DEFINE f == [i \in 0 .. 0 |-> << >>]
  <2>1. f = [i \in 0 .. n |-> OnlyStep(s, keys, f, i)]
    BY <1>4 DEF OnlyStep
  <2>. QED  BY <2>1
<1>5. CASE n # 0
  <2>1. n - 1 \in 0 .. Len(s) /\ n - 1 \notin B /\ n \in Nat \ {0}
    BY <1>3, <1>5, LenProperties
  <2>2. PICK g : g = [i \in 0 .. n - 1 |-> OnlyStep(s, keys, g, i)]
    BY <2>1
  <2>. DEFINE f == [i \in 0 .. n |-> IF i < n THEN g[i] ELSE OnlyStep(s, keys, g, n)]
  <2>3. \A i \in 0 .. n : f[i] = OnlyStep(s, keys, f, i)
    <3>1. ASSUME NEW i \in 0 .. n PROVE f[i] = OnlyStep(s, keys, f, i)
      <4>1. i # 0 => f[i - 1] = g[i - 1]
        BY <2>1
      <4>2. CASE i < n
        <5>1. i \in 0 .. n - 1 /\ f[i] = g[i]
          BY <4>2, <2>1
        <5>2. g[i] = OnlyStep(s, keys, g, i)
          BY <5>1, <2>2
        <5>. QED  BY <4>1, <5>1, <5>2 DEF OnlyStep
      <4>3. CASE i = n
        <5>1. f[i] = OnlyStep(s, keys, g, i)
          BY <4>3, <2>1
        <5>. QED  BY <4>1, <5>1 DEF OnlyStep
      <4>. QED  BY <4>2, <4>3, <2>1
    <3>. QED  BY <3>1
  <2>4. f = [i \in 0 .. n |-> OnlyStep(s, keys, f, i)]
    BY <2>3
  <2>. QED  BY <2>4
<1>. QED  BY <1>4, <1>5

\* Only keeps the elements that are in the set.
LEMMA OnlyElements ==
    ASSUME NEW T, NEW s \in Seq(T), NEW keys
    PROVE  /\ Only(s, keys) \in Seq(T) /\ ToSet(Only(s, keys)) = ToSet(s) \cap keys
           /\ IsInjective(s) => IsInjective(Only(s, keys))
<1>. DEFINE f == CHOOSE f : f = [i \in 0 .. Len(s) |-> OnlyStep(s, keys, f, i)]
<1>0. Len(s) \in Nat /\ DOMAIN s = 1 .. Len(s)
    OBVIOUS
<1>1. f = [i \in 0 .. Len(s) |-> OnlyStep(s, keys, f, i)]
    BY OnlyExists, <1>0
<1>2. Only(s, keys) = f[Len(s)]
    BY DEF Only, OnlyStep
<1>3. \A i \in 0 .. Len(s) : f[i] = OnlyStep(s, keys, f, i)
    BY <1>1
<1>. HIDE DEF f
<1>. DEFINE Seen(i) == {s[j] : j \in 1 .. i}
            P(i) == /\ f[i] \in Seq(T) /\ ToSet(f[i]) = Seen(i) \cap keys
                    /\ IsInjective(s) => IsInjective(f[i])
            B == {i \in 0 .. Len(s) : ~P(i)}
<1>. HIDE DEF P
<1>4. ASSUME B # {} PROVE FALSE
  <2>0. B \in SUBSET Nat
    BY <1>0
  <2>1. PICK n \in B : \A m \in B : n <= m
    BY <1>4, <2>0, Least
  <2>2. CASE n = 0
    <3>1. f[n] = << >>
      BY <1>3, <2>2, <1>0 DEF OnlyStep
    <3>2. P(n)
      BY <3>1, <2>2 DEF ToSet, IsInjective, P
    <3>. QED  BY <3>2
  <2>3. CASE n # 0
    <3>1. n - 1 \in 0 .. Len(s) /\ n \in 1 .. Len(s) /\ n - 1 \notin B
      BY <2>1, <2>3, <1>0
    <3>2. P(n - 1)
      BY <3>1
    <3>3. f[n] = IF s[n] \in keys THEN Append(f[n - 1], s[n]) ELSE f[n - 1]
      BY <1>3, <3>1, <2>3 DEF OnlyStep
    <3>4. Seen(n) = Seen(n - 1) \cup {s[n]}
      <4>1. 1 .. n = (1 .. n - 1) \cup {n}
        BY <3>1, <1>0
      <4>. QED  BY <4>1
    <3>5. s[n] \in T
      BY <3>1, <1>0
    <3>6. IsInjective(s) => s[n] \notin Seen(n - 1)
      BY <3>1, <1>0 DEF IsInjective
    <3>7. P(n)
      <4>1. CASE s[n] \in keys
        <5>1. f[n] = Append(f[n - 1], s[n])
          BY <3>3, <4>1
        <5>2. /\ ToSet(f[n]) = ToSet(f[n - 1]) \cup {s[n]}
              /\ IsInjective(f[n - 1]) /\ s[n] \notin ToSet(f[n - 1]) => IsInjective(f[n])
          BY <5>1, <3>2, <3>5, AppendElements DEF P
        <5>3. f[n] \in Seq(T)
          BY <5>1, <3>2, <3>5 DEF P
        <5>. QED  BY <5>2, <5>3, <3>2, <3>4, <3>6, <4>1 DEF P
      <4>2. CASE s[n] \notin keys
        BY <4>2, <3>2, <3>3, <3>4 DEF P
      <4>. QED  BY <4>1, <4>2
    <3>. QED  BY <3>7
  <2>. QED  BY <2>2, <2>3
<1>5. P(Len(s))
    BY <1>4, <1>0
<1>6. Seen(Len(s)) = ToSet(s)
    BY <1>0 DEF ToSet
<1>. QED  BY <1>2, <1>5, <1>6 DEF P

\* A finite set as a sequence: each element, once.
LEMMA Listing ==
    ASSUME NEW S, IsFiniteSet(S)
    PROVE  /\ SetToSeq(S) \in Seq(S)
           /\ ToSet(SetToSeq(S)) = S
           /\ IsInjective(SetToSeq(S))
           /\ Len(SetToSeq(S)) = Cardinality(S)
<1> DEFINE n == Cardinality(S)
<1>1. n \in Nat /\ ExistsBijection(1..n, S) BY FS_CardinalityType
<1>2. \E f \in [1..n -> S] : IsInjective(f)
    BY <1>1 DEF ExistsBijection, Bijection, Injection
<1>3. SetToSeq(S) \in [1..n -> S] /\ IsInjective(SetToSeq(S))
    BY <1>2 DEF SetToSeq
<1> DEFINE f == SetToSeq(S)
<1>4. f \in [1..n -> S] /\ f \in Injection(1..n, S) BY <1>3 DEF Injection
<1>5. IsFiniteSet(1..n) /\ Cardinality(1..n) = n BY <1>1, FS_Interval
<1> HIDE DEF f
<1>6. f \in Surjection(1..n, S) BY <1>4, <1>5, FS_Injection
<1>7. \A e \in S : \E i \in 1..n : f[i] = e BY <1>6 DEF Surjection
<1>8. ToSet(f) = S BY <1>4, <1>7 DEF ToSet
<1>9. f \in Seq(S) /\ Len(f) = n
    <2>1. f \in UNION {[1..m -> S] : m \in Nat} BY <1>1, <1>4
    <2>2. f \in Seq(S) BY <2>1, SeqDef
    <2>3. DOMAIN f = 1..Len(f) /\ DOMAIN f = 1..n /\ Len(f) \in Nat
        BY <1>4, <2>2, LenProperties
    <2>4. QED BY <2>2, <2>3, <1>1
<1>10. QED BY <1>3, <1>8, <1>9 DEF f

\* A message is at a place of a queue.
At(s, m, i) == i \in DOMAIN s /\ s[i] = m

\* What sending to and receiving from a queue does to its places.
LEMMA Received ==
    ASSUME NEW T, NEW s \in Seq(T), s # << >>
    PROVE  /\ Head(s) \in T /\ Tail(s) \in Seq(T) /\ Len(Tail(s)) = Len(s) - 1
           /\ Head(s) = s[1] /\ 1 \in DOMAIN s
           /\ DOMAIN s = 1 .. Len(s) /\ DOMAIN Tail(s) = 1 .. Len(s) - 1 /\ Len(s) \in Nat \ {0}
           /\ \A i \in DOMAIN Tail(s) : i + 1 \in DOMAIN s /\ Tail(s)[i] = s[i + 1]
           /\ \A i \in DOMAIN s : i # 1 => i - 1 \in DOMAIN Tail(s) /\ Tail(s)[i - 1] = s[i]
           /\ ToSet(s) = {Head(s)} \cup ToSet(Tail(s))
<1>1. /\ DOMAIN s = 1 .. Len(s) /\ Len(s) \in Nat \ {0} /\ Head(s) = s[1] /\ Head(s) \in T
      /\ Tail(s) \in Seq(T) /\ Len(Tail(s)) = Len(s) - 1 /\ DOMAIN Tail(s) = 1 .. Len(s) - 1
    OBVIOUS
<1>2. \A i \in DOMAIN Tail(s) : i + 1 \in DOMAIN s /\ Tail(s)[i] = s[i + 1]
    BY <1>1
<1>3. \A i \in DOMAIN s : i # 1 => i - 1 \in DOMAIN Tail(s) /\ Tail(s)[i - 1] = s[i]
    BY <1>1
<1>4. ToSet(s) = {Head(s)} \cup ToSet(Tail(s))
    BY <1>1, <1>2, <1>3 DEF ToSet
<1>. QED  BY <1>1, <1>2, <1>3, <1>4

LEMMA AtTail ==
    ASSUME NEW T, NEW s \in Seq(T), s # << >>, NEW m
    PROVE  /\ \A i : At(Tail(s), m, i) => i \in Nat \ {0} /\ At(s, m, i + 1)
           /\ \A i : At(s, m, i) => i \in Nat /\ (i # 1 => At(Tail(s), m, i - 1))
           /\ At(s, m, 1) <=> Head(s) = m
    BY Received DEF At

LEMMA AtAppend ==
    ASSUME NEW T, NEW s \in Seq(T), NEW x \in T, NEW m
    PROVE  /\ Append(s, x) \in Seq(T)
           /\ \A i : At(s, m, i) => At(Append(s, x), m, i) /\ i \in Nat /\ i < Len(s) + 1
           /\ \A i : At(Append(s, x), m, i) => At(s, m, i) \/ (i = Len(s) + 1 /\ x = m)
           /\ Len(s) + 1 \in Nat /\ At(Append(s, x), x, Len(s) + 1)
<1>1. /\ DOMAIN s = 1 .. Len(s) /\ DOMAIN Append(s, x) = 1 .. Len(s) + 1 /\ Len(s) \in Nat
      /\ Append(s, x) \in Seq(T)
    OBVIOUS
<1>2. /\ \A i \in 1 .. Len(s) : Append(s, x)[i] = s[i]
      /\ Append(s, x)[Len(s) + 1] = x
    OBVIOUS
<1>. QED  BY <1>1, <1>2 DEF At

LEMMA AtConcat ==
    ASSUME NEW T, NEW s \in Seq(T), NEW t \in Seq(T), NEW m
    PROVE  /\ s \o t \in Seq(T)
           /\ \A i : At(s, m, i) => At(s \o t, m, i)
           /\ \A i : At(s \o t, m, i) => At(s, m, i) \/ (i \in Nat /\ i > Len(s) /\ m \in ToSet(t))
           /\ m \in ToSet(t) => \E j \in Nat : j > Len(s) /\ At(s \o t, m, j)
           /\ \A i : At(s, m, i) => i \in Nat /\ i <= Len(s)
           /\ Len(s) \in Nat
<1>1. /\ DOMAIN s = 1 .. Len(s) /\ DOMAIN t = 1 .. Len(t)
      /\ DOMAIN (s \o t) = 1 .. Len(s) + Len(t) /\ Len(s) \in Nat /\ Len(t) \in Nat
      /\ s \o t \in Seq(T)
    OBVIOUS
<1>2. \A i \in 1 .. Len(s) : (s \o t)[i] = s[i]
    OBVIOUS
<1>3. \A i \in 1 .. Len(t) : (s \o t)[Len(s) + i] = t[i] /\ Len(s) + i \in 1 .. Len(s) + Len(t)
    BY <1>1
<1>4. \A i \in 1 .. Len(s) + Len(t) :
         i \in 1 .. Len(s)
         \/ (i - Len(s) \in 1 .. Len(t) /\ (s \o t)[i] = t[i - Len(s)] /\ i > Len(s))
    BY <1>1, <1>3
<1>5. \A i : At(s, m, i) => At(s \o t, m, i)
    BY <1>1, <1>2 DEF At
<1>6. \A i : At(s \o t, m, i) => At(s, m, i) \/ (i \in Nat /\ i > Len(s) /\ m \in ToSet(t))
    BY <1>1, <1>2, <1>4 DEF At, ToSet
<1>7. ASSUME m \in ToSet(t) PROVE \E j \in Nat : j > Len(s) /\ At(s \o t, m, j)
  <2>1. PICK k \in 1 .. Len(t) : t[k] = m
    BY <1>1, <1>7 DEF ToSet
  <2>2. Len(s) + k \in Nat /\ Len(s) + k > Len(s)
    BY <1>1, <2>1
  <2>3. At(s \o t, m, Len(s) + k)
    BY <1>1, <1>3, <2>1 DEF At
  <2>. QED  BY <2>2, <2>3
<1>. QED  BY <1>1, <1>5, <1>6, <1>7 DEF At

LEMMA OneElement == ASSUME NEW T, NEW x \in T PROVE <<x>> \in Seq(T) /\ ToSet(<<x>>) = {x}
    BY DEF ToSet

LEMMA InList ==
    ASSUME NEW s, NEW m
    PROVE  m \in ToSet(s) <=> \E i : At(s, m, i)
    BY DEF ToSet, At

----------------------------------------------------------------------------
(* Types.                                                                  *)

USE PipelineAssumption

Texts == {"eos", "text", "stop", "error", "cut"}
Answers == [uid : Uids \cup {0}, count : Int, fin : BOOLEAN, known : BOOLEAN, text : Texts]
Mail == [type : {"tokenize", "abort"}, uid : Uids]
Calls == [type : {"user", "abort"}, uid : Uids]
Pieces == [uid : Uids, token : {"eos", "text", "stop", "error"}, fin : BOOLEAN]

\* The type of every variable.
Types ==
    /\ kind \in [Uids -> {"plain", "stop", "image", "long"}]
    /\ client \in [Uids -> {"new", "waiting", "done", "gone"}]
    /\ metric \in [Uids -> {"none", "open", "success", "aborted"}]
    /\ ackMap \in [Uids -> Seq(Answers)]
    /\ shown \in [Uids -> [replies : Nat, last : Answers]]
    /\ aborts \in [Uids -> Nat]
    /\ toWorker \in [Workers -> Seq(Mail)]
    /\ toReplica \in [Workers -> [Replicas -> Seq(Calls)]]
    /\ toWorkerBack \in [Replicas -> Seq(Seq(Pieces))]
    /\ toFrontend \in [Workers -> Seq(Seq(Answers))]
    /\ prompts \in [Workers -> SUBSET Uids] /\ stops \in [Workers -> SUBSET Uids]
    /\ decoded \in [Uids -> Nat]
    /\ cursor \in [Workers -> Replicas]
    /\ active \in [Replicas -> SUBSET Uids] /\ flight \in [Replicas -> SUBSET Uids]
    /\ launched \in [Uids -> Nat]
    /\ \A r \in Replicas : IsFiniteSet(active[r]) /\ IsFiniteSet(flight[r])

LEMMA ReplyIsAnswer ==
    ASSUME NEW u \in Uids, NEW n \in Int, NEW fin \in BOOLEAN, NEW known \in BOOLEAN,
           NEW text \in Texts
    PROVE  Reply(u, n, fin, known, text) \in Answers
    BY DEF Reply, Answers

LEMMA RoutersAre ==
    /\ Detokenizer \in Workers /\ Ingress \subseteq Workers /\ 0 \in Replicas
    /\ \A c \in Replicas : NextReplica(c) \in Replicas
<1>1. Detokenizer \in Workers /\ Ingress \subseteq Workers
    BY DEF Workers, Ingress
<1>2. 0 \in Replicas
    BY DEF Replicas
<1>3. \A c \in Replicas : NextReplica(c) \in Replicas
  <2>. SUFFICES ASSUME NEW c \in Replicas PROVE (c + 1) % DpSize \in 0 .. DpSize - 1
    BY DEF NextReplica, Replicas
  <2>1. c + 1 \in Nat /\ DpSize \in Nat \ {0}
    BY DEF Replicas
  <2>. QED  BY <2>1
<1>. QED  BY <1>1, <1>2, <1>3

LEMMA InitTypes == Init => Types
<1>. SUFFICES ASSUME Init PROVE Types
    OBVIOUS
<1>1. NoneShown \in [replies : Nat, last : Answers]
    BY DEF NoneShown, Reply, Answers, Texts
<1>2. << >> \in Seq(Answers) /\ << >> \in Seq(Mail) /\ << >> \in Seq(Calls)
      /\ << >> \in Seq(Seq(Pieces)) /\ << >> \in Seq(Seq(Answers))
    OBVIOUS
<1>3. kind \in [Uids -> {"plain", "stop", "image", "long"}]
    BY DEF Init
<1>. QED  BY <1>1, <1>2, <1>3, RoutersAre, FS_EmptySet DEF Init, Types

\* Which messages are sent.
LEMMA PushTypes ==
    ASSUME Types, NEW u \in Uids, NEW type \in {"tokenize", "abort"}, Push(u, type)
    PROVE  toWorker' \in [Workers -> Seq(Mail)]
<1>1. PICK w \in Ingress : toWorker' = [toWorker EXCEPT ![w] = Append(@, Message(type, u))]
    BY DEF Push
<1>2. Message(type, u) \in Mail
    BY DEF Message, Mail
<1>. QED  BY <1>1, <1>2, RoutersAre, AppendProperties DEF Types

Aborts(us) == [i \in DOMAIN us |-> Message("abort", us[i])]

LEMMA AbortsTypes ==
    ASSUME Types, NEW w \in Workers, NEW us \in Seq(Uids)
    PROVE  /\ Aborts(us) \in Seq(Calls)
           /\ AbortEverywhere(w, us) = [r \in Replicas |-> toReplica[w][r] \o Aborts(us)]
           /\ AbortEverywhere(w, us) \in [Replicas -> Seq(Calls)]
           /\ \A m \in ToSet(Aborts(us)) : \E u \in ToSet(us) : m = Message("abort", u)
           /\ \A u \in ToSet(us) : Message("abort", u) \in ToSet(Aborts(us))
<1>0. DOMAIN us = 1 .. Len(us) /\ Len(us) \in Nat /\ \A i \in DOMAIN us : us[i] \in Uids
    OBVIOUS
<1>1. DOMAIN Aborts(us) = DOMAIN us /\ \A i \in DOMAIN us : Aborts(us)[i] = Message("abort", us[i])
    BY DEF Aborts
<1>2. Aborts(us) \in Seq(Calls)
  <2>1. Aborts(us) \in [1 .. Len(us) -> Calls]
    BY <1>0 DEF Message, Calls, Aborts
  <2>. QED  BY <1>0, <2>1, SeqDef
<1>3. AbortEverywhere(w, us) = [r \in Replicas |-> toReplica[w][r] \o Aborts(us)]
    BY Zenon DEF AbortEverywhere, Aborts
<1>4. \A r \in Replicas : toReplica[w][r] \in Seq(Calls)
    BY DEF Types
<1>. QED  BY <1>1, <1>2, <1>3, <1>4, ConcatProperties DEF ToSet

\* The batch a replica sends: one piece for each request of the batch in flight.
LEMMA BatchesTypes ==
    ASSUME Types, NEW r \in Replicas, NEW spent \in [Uids -> Nat],
           NEW batch \in Batches(SetToSeq(flight[r]), spent)
    PROVE  /\ batch \in Seq(Pieces) /\ ToSet(batch) \subseteq Pieces
           /\ \A i, j \in DOMAIN batch : batch[i].uid = batch[j].uid => i = j
           /\ \A m \in ToSet(batch) :
                 /\ m.uid \in flight[r]
                 /\ m.token \in {"eos", "error"} => m.fin
                 /\ m.token = "stop" => kind[m.uid] = "stop"
<1>. DEFINE us == SetToSeq(flight[r])
<1>1. us \in Seq(flight[r]) /\ ToSet(us) = flight[r] /\ IsInjective(us)
    BY Listing DEF Types
<1>2. flight[r] \subseteq Uids
    BY DEF Types
<1>3. DOMAIN us = 1 .. Len(us) /\ Len(us) \in Nat /\ \A i \in DOMAIN us : us[i] \in flight[r]
    BY <1>1
<1>. HIDE DEF us
<1>4. DOMAIN batch = DOMAIN us /\ \A i \in DOMAIN us : batch[i] \in Outcomes(us[i], spent[us[i]])
    BY DEF Batches, us
<1>5. \A u \in Uids, n \in Nat : \A m \in Outcomes(u, n) :
         /\ m \in Pieces /\ m.uid = u
         /\ m.token \in {"eos", "error"} => m.fin
         /\ m.token = "stop" => kind[u] = "stop"
  <2>. SUFFICES ASSUME NEW u \in Uids, NEW n \in Nat, NEW m \in Outcomes(u, n)
                PROVE  /\ m \in Pieces /\ m.uid = u
                       /\ m.token \in {"eos", "error"} => m.fin
                       /\ m.token = "stop" => kind[u] = "stop"
    OBVIOUS
  <2>1. PICK last \in BOOLEAN :
           \/ m = Token(u, "eos", TRUE)
           \/ m = Token(u, "text", last)
           \/ m = Token(u, "stop", last) /\ kind[u] = "stop"
    <3>1. (n = MaxTokens[u]) \in BOOLEAN
      OBVIOUS
    <3>. QED  BY <3>1, Zenon DEF Outcomes
  <2>2. CASE m = Token(u, "eos", TRUE)
    BY <2>2 DEF Token, Pieces
  <2>3. CASE m = Token(u, "text", last)
    BY <2>3 DEF Token, Pieces
  <2>4. CASE m = Token(u, "stop", last) /\ kind[u] = "stop"
    BY <2>4 DEF Token, Pieces
  <2>. QED  BY <2>1, <2>2, <2>3, <2>4
<1>6. \A i \in DOMAIN us : /\ batch[i] \in Pieces /\ batch[i].uid = us[i]
                           /\ batch[i].token \in {"eos", "error"} => batch[i].fin
                           /\ batch[i].token = "stop" => kind[us[i]] = "stop"
    BY <1>2, <1>3, <1>4, <1>5
<1>7. batch \in [1 .. Len(us) -> Pieces]
  <2>1. batch = [i \in DOMAIN us |-> batch[i]]
    BY DEF Batches, us
  <2>. QED  BY <2>1, <1>3, <1>6
<1>8. batch \in Seq(Pieces)
    BY <1>3, <1>7, SeqDef
<1>9. \A i, j \in DOMAIN batch : batch[i].uid = batch[j].uid => i = j
    BY <1>1, <1>4, <1>6 DEF IsInjective
<1>10. \A m \in ToSet(batch) : \E i \in DOMAIN us : m = batch[i]
    BY <1>4 DEF ToSet
<1>. QED  BY <1>3, <1>6, <1>8, <1>9, <1>10

----------------------------------------------------------------------------
(* Types, action by action.                                                *)

LEMMA SubmitTypes == ASSUME Types, NEW u \in Uids, Submit(u) PROVE Types'
<1>1. toWorker' \in [Workers -> Seq(Mail)]
    BY PushTypes DEF Submit
<1>. QED  BY <1>1 DEF Types, Submit, workerVars, replicaVars

LEMMA SendAbortTypes == ASSUME Types, NEW u \in Uids, SendAbort(u) PROVE Types'
<1>1. toWorker' \in [Workers -> Seq(Mail)]
    BY PushTypes DEF SendAbort
<1>2. aborts' \in [Uids -> Nat]
  <2>1. aborts \in [Uids -> Nat] /\ aborts[u] > 0
        /\ aborts' = [aborts EXCEPT ![u] = aborts[u] - 1]
    BY DEF Types, SendAbort
  <2>. QED  BY <2>1
<1>. QED  BY <1>1, <1>2 DEF Types, SendAbort, workerVars, replicaVars

\* A handler is handed its own replies of the batch.
LEMMA ListenTypes ==
    ASSUME Types, NEW w \in Workers, Listen(w)
    PROVE  /\ Types'
           /\ Head(toFrontend[w]) \in Seq(Answers) /\ toFrontend[w] # << >>
           /\ \A u \in Uids :
                LET mine == Only(Head(toFrontend[w]),
                                 {rep \in ToSet(Head(toFrontend[w])) : rep.uid = u})
                IN  /\ mine \in Seq(Answers)
                    /\ ToSet(mine) = {rep \in ToSet(Head(toFrontend[w])) : rep.uid = u}
<1>. DEFINE batch == Head(toFrontend[w])
            mine(u) == Only(batch, {rep \in ToSet(batch) : rep.uid = u})
<1>1. toFrontend[w] \in Seq(Seq(Answers)) /\ toFrontend[w] # << >>
    BY DEF Types, Listen
<1>2. batch \in Seq(Answers) /\ Tail(toFrontend[w]) \in Seq(Seq(Answers))
    BY <1>1, Received
<1>3. \A u \in Uids : mine(u) \in Seq(Answers)
                      /\ ToSet(mine(u)) = {rep \in ToSet(batch) : rep.uid = u}
    BY <1>2, OnlyElements
<1>. HIDE DEF mine, batch
<1>4. ackMap' = [u \in Uids |-> IF client[u] = "waiting" THEN ackMap[u] \o mine(u) ELSE ackMap[u]]
    BY DEF Listen, mine, batch
<1>5. ackMap' \in [Uids -> Seq(Answers)]
  <2>1. \A u \in Uids : ackMap[u] \in Seq(Answers)
    BY DEF Types
  <2>. QED  BY <1>3, <1>4, <2>1, ConcatProperties
<1>6. metric' \in [Uids -> {"none", "open", "success", "aborted"}]
    BY DEF Types, Listen
<1>7. toFrontend' \in [Workers -> Seq(Seq(Answers))]
    BY <1>2 DEF Types, Listen
<1>8. Types'
    BY <1>5, <1>6, <1>7 DEF Types, Listen, workerVars, replicaVars
<1>. QED  BY <1>1, <1>2, <1>3, <1>8 DEF mine, batch

LEMMA TakeReplyTypes == ASSUME Types, NEW u \in Uids, TakeReply(u) PROVE Types'
<1>1. ackMap[u] \in Seq(Answers) /\ ackMap[u] # << >>
    BY DEF Types, TakeReply
<1>2. PICK rep \in Answers : rep = Head(ackMap[u])
    BY <1>1, Received
<1>3. Tail(ackMap[u]) \in Seq(Answers) /\ << >> \in Seq(Answers)
    BY <1>1, Received
<1>4. /\ shown' = [shown EXCEPT ![u] = [replies |-> @.replies + 1, last |-> rep]]
      /\ client' = [client EXCEPT ![u] = IF rep.fin THEN "done" ELSE @]
      /\ ackMap' = [ackMap EXCEPT ![u] = IF rep.fin THEN << >> ELSE Tail(@)]
    BY <1>2 DEF TakeReply
<1>5. shown' \in [Uids -> [replies : Nat, last : Answers]]
  <2>1. shown \in [Uids -> [replies : Nat, last : Answers]] /\ shown[u].replies + 1 \in Nat
    BY DEF Types
  <2>. QED  BY <1>4, <2>1
<1>6. client' \in [Uids -> {"new", "waiting", "done", "gone"}]
    BY <1>4 DEF Types
<1>7. ackMap' \in [Uids -> Seq(Answers)]
    BY <1>3, <1>4 DEF Types
<1>. QED  BY <1>5, <1>6, <1>7 DEF Types, TakeReply, workerVars, replicaVars

LEMMA DisconnectTypes == ASSUME Types, NEW u \in Uids, Disconnect(u) PROVE Types'
<1>1. metric' \in [Uids -> {"none", "open", "success", "aborted"}]
    BY DEF Types, Disconnect, MetricAborted
<1>2. ackMap' \in [Uids -> Seq(Answers)]
  <2>1. << >> \in Seq(Answers)
    OBVIOUS
  <2>. QED  BY <2>1 DEF Types, Disconnect
<1>3. client' \in [Uids -> {"new", "waiting", "done", "gone"}] /\ aborts' \in [Uids -> Nat]
    BY DEF Types, Disconnect
<1>. QED  BY <1>1, <1>2, <1>3 DEF Types, Disconnect, workerVars, replicaVars

\* The head of a worker's queue is a request's uid, and the rest is left.
LEMMA MailTypes ==
    ASSUME Types, NEW w \in Workers, toWorker[w] # << >>
    PROVE  /\ toWorker[w] \in Seq(Mail) /\ Head(toWorker[w]) \in Mail
           /\ Head(toWorker[w]).uid \in Uids
           /\ [toWorker EXCEPT ![w] = Tail(@)] \in [Workers -> Seq(Mail)]
<1>1. toWorker[w] \in Seq(Mail)
    BY DEF Types
<1>2. Head(toWorker[w]) \in Mail /\ Tail(toWorker[w]) \in Seq(Mail)
    BY <1>1, Received
<1>. QED  BY <1>1, <1>2 DEF Types, Mail

LEMMA TokenizeTypes == ASSUME Types, NEW w \in Workers, Tokenize(w) PROVE Types'
<1>. DEFINE u == Head(toWorker[w]).uid
<1>1. u \in Uids /\ toWorker' \in [Workers -> Seq(Mail)]
    BY MailTypes DEF Tokenize
<1>. HIDE DEF u
<1>2. CASE /\ kind[u] = "image"
           /\ toFrontend' = [toFrontend EXCEPT ![w] =
                  Append(@, <<Reply(u, 0, TRUE, FALSE, "error")>>)]
           /\ UNCHANGED <<prompts, stops, cursor, toReplica>>
  <2>1. Reply(u, 0, TRUE, FALSE, "error") \in Answers
    BY <1>1 DEF Reply, Answers, Texts
  <2>2. <<Reply(u, 0, TRUE, FALSE, "error")>> \in Seq(Answers)
    BY <2>1, OneElement
  <2>3. toFrontend' \in [Workers -> Seq(Seq(Answers))]
    <3>1. Append(toFrontend[w], <<Reply(u, 0, TRUE, FALSE, "error")>>) \in Seq(Seq(Answers))
      BY <2>2, AppendProperties DEF Types
    <3>. QED  BY <1>2, <3>1 DEF Types
  <2>. QED  BY <1>1, <1>2, <2>3 DEF Types, Tokenize, frontVars, replicaVars
<1>3. CASE /\ kind[u] # "image"
           /\ prompts' = [prompts EXCEPT ![w] = @ \cup {u}]
           /\ stops' = IF kind[u] = "stop" THEN [stops EXCEPT ![w] = @ \cup {u}] ELSE stops
           /\ toReplica' = [toReplica EXCEPT ![w][cursor[w]] = Append(@, Message("user", u))]
           /\ cursor' = [cursor EXCEPT ![w] = NextReplica(@)]
           /\ UNCHANGED toFrontend
  <2>1. Message("user", u) \in Calls /\ cursor[w] \in Replicas
    BY <1>1 DEF Message, Calls, Types
  <2>2. Append(toReplica[w][cursor[w]], Message("user", u)) \in Seq(Calls)
    BY <2>1, AppendProperties DEF Types
  <2>3. toReplica' \in [Workers -> [Replicas -> Seq(Calls)]]
    BY <1>3, <2>1, <2>2 DEF Types
  <2>4. cursor' \in [Workers -> Replicas]
    BY <1>3, RoutersAre DEF Types
  <2>5. prompts' \in [Workers -> SUBSET Uids] /\ stops' \in [Workers -> SUBSET Uids]
    BY <1>1, <1>3 DEF Types
  <2>. QED  BY <1>1, <1>3, <2>3, <2>4, <2>5 DEF Types, Tokenize, frontVars, replicaVars
<1>. QED  BY <1>2, <1>3 DEF Tokenize, u

LEMMA ForwardAbortTypes == ASSUME Types, NEW w \in Workers, ForwardAbort(w) PROVE Types'
<1>1. Head(toWorker[w]).uid \in Uids /\ toWorker' \in [Workers -> Seq(Mail)]
    BY MailTypes DEF ForwardAbort
<1>2. toReplica' \in [Workers -> [Replicas -> Seq(Calls)]]
  <2>1. <<Head(toWorker[w]).uid>> \in Seq(Uids)
    BY <1>1
  <2>2. AbortEverywhere(w, <<Head(toWorker[w]).uid>>) \in [Replicas -> Seq(Calls)]
    BY <2>1, AbortsTypes
  <2>. QED  BY <2>2 DEF Types, ForwardAbort
<1>. QED  BY <1>1, <1>2 DEF Types, ForwardAbort, frontVars, workerVars, replicaVars

\* The reply to a piece, ...
LEMMA ReplyToTypes ==
    ASSUME Types, NEW m \in Pieces
    PROVE  /\ ReplyTo(m) \in Answers /\ ReplyTo(m).uid = m.uid
           /\ ReplyTo(m).fin <=> Ends(m)
           /\ ReplyTo(m).count = decoded[m.uid] + (IF m.token \in {"eos", "error"} THEN 0 ELSE 1)
           /\ ReplyTo(m).known <=> m.uid \in prompts[Detokenizer]
           /\ ReplyTo(m).text = IF StopHit(m) THEN "cut" ELSE m.token
           /\ m.uid \in Uids /\ m.fin \in BOOLEAN /\ Ends(m) \in BOOLEAN
<1>1. m.uid \in Uids /\ m.fin \in BOOLEAN /\ m.token \in {"eos", "text", "stop", "error"}
    BY DEF Pieces
<1>2. CountWith(m) \in Int
    BY <1>1 DEF CountWith, Types
<1>3. Ends(m) \in BOOLEAN /\ (m.uid \in prompts[Detokenizer]) \in BOOLEAN
    BY <1>1 DEF Ends
<1>4. (IF StopHit(m) THEN "cut" ELSE m.token) \in Texts
    BY <1>1 DEF Texts
<1>5. ReplyTo(m) \in Answers
    BY <1>1, <1>2, <1>3, <1>4, ReplyIsAnswer DEF ReplyTo
<1>. QED  BY <1>1, <1>3, <1>5 DEF ReplyTo, Reply, CountWith

\* ... and what the detokenizer does with a batch of them.
LEMMA DetokenizeTypes ==
    ASSUME Types, NEW r \in Replicas, Detokenize(r)
    PROVE  /\ Types'
           /\ toWorkerBack[r] \in Seq(Seq(Pieces)) /\ toWorkerBack[r] # << >>
           /\ Head(toWorkerBack[r]) \in Seq(Pieces)
           /\ ToSet(Head(toWorkerBack[r])) \subseteq Pieces
           /\ LET batch == Head(toWorkerBack[r])
                  replies == [i \in DOMAIN batch |-> ReplyTo(batch[i])]
                  early == Only(batch, { m \in ToSet(batch) : StopHit(m) /\ ~m.fin })
                  us == [i \in DOMAIN early |-> early[i].uid]
              IN  /\ replies \in Seq(Answers)
                  /\ ToSet(replies) = {ReplyTo(m) : m \in ToSet(batch)}
                  /\ us \in Seq(Uids)
                  /\ ToSet(us) = {m.uid : m \in {b \in ToSet(batch) : StopHit(b) /\ ~b.fin}}
                  /\ toFrontend' = [toFrontend EXCEPT ![Detokenizer] = Append(@, replies)]
                  /\ toReplica' = [toReplica EXCEPT ![Detokenizer] =
                                     AbortEverywhere(Detokenizer, us)]
<1>. DEFINE batch == Head(toWorkerBack[r])
            over == { m.uid : m \in { b \in ToSet(batch) : Ends(b) } }
            early == Only(batch, { m \in ToSet(batch) : StopHit(m) /\ ~m.fin })
            replies == [i \in DOMAIN batch |-> ReplyTo(batch[i])]
            us == [i \in DOMAIN early |-> early[i].uid]
<1>1. toWorkerBack[r] \in Seq(Seq(Pieces)) /\ toWorkerBack[r] # << >>
    BY DEF Types, Detokenize
<1>2. batch \in Seq(Pieces) /\ Tail(toWorkerBack[r]) \in Seq(Seq(Pieces))
    BY <1>1, Received
<1>. HIDE DEF batch
<1>3. /\ DOMAIN batch = 1 .. Len(batch) /\ Len(batch) \in Nat /\ ToSet(batch) \subseteq Pieces
      /\ \A i \in DOMAIN batch : batch[i] \in Pieces
      /\ \A m : m \in ToSet(batch) <=> \E i \in DOMAIN batch : m = batch[i]
    BY <1>2 DEF ToSet
<1>4. replies \in Seq(Answers) /\ ToSet(replies) = {ReplyTo(m) : m \in ToSet(batch)}
  <2>1. replies \in [1 .. Len(batch) -> Answers]
    BY <1>3, ReplyToTypes
  <2>2. replies \in Seq(Answers)
    BY <1>3, <2>1, SeqDef
  <2>3. DOMAIN replies = DOMAIN batch /\ \A i \in DOMAIN batch : replies[i] = ReplyTo(batch[i])
    OBVIOUS
  <2>. HIDE DEF replies
  <2>4. ToSet(replies) = {ReplyTo(m) : m \in ToSet(batch)}
    BY <1>3, <2>3 DEF ToSet
  <2>. QED  BY <2>2, <2>4
<1>5. early \in Seq(Pieces) /\ ToSet(early) = { m \in ToSet(batch) : StopHit(m) /\ ~m.fin }
    BY <1>2, OnlyElements
<1>. HIDE DEF early
<1>6. us \in Seq(Uids)
      /\ ToSet(us) = {m.uid : m \in {b \in ToSet(batch) : StopHit(b) /\ ~b.fin}}
  <2>1. DOMAIN early = 1 .. Len(early) /\ Len(early) \in Nat
        /\ \A i \in DOMAIN early : early[i] \in Pieces
    BY <1>5
  <2>2. us \in [1 .. Len(early) -> Uids]
    BY <2>1 DEF Pieces
  <2>3. us \in Seq(Uids)
    BY <2>1, <2>2, SeqDef
  <2>4. DOMAIN us = DOMAIN early /\ \A i \in DOMAIN early : us[i] = early[i].uid
    OBVIOUS
  <2>. HIDE DEF us
  <2>5. ToSet(us) = {m.uid : m \in ToSet(early)}
    BY <2>1, <2>4 DEF ToSet
  <2>. QED  BY <1>5, <2>3, <2>5
<1>. HIDE DEF us, replies
<1>7. /\ toFrontend' = [toFrontend EXCEPT ![Detokenizer] = Append(@, replies)]
      /\ toReplica' = [toReplica EXCEPT ![Detokenizer] = AbortEverywhere(Detokenizer, us)]
      /\ decoded' = [u \in Uids |->
              IF u \in over THEN 0
              ELSE decoded[u] + Cardinality({ i \in DOMAIN batch : batch[i].uid = u })]
      /\ prompts' = [prompts EXCEPT ![Detokenizer] = @ \ over]
      /\ stops' = [stops EXCEPT ![Detokenizer] = @ \ over]
    BY DEF Detokenize, batch, us, early, replies
<1>8. toFrontend' \in [Workers -> Seq(Seq(Answers))]
  <2>1. Append(toFrontend[Detokenizer], replies) \in Seq(Seq(Answers))
    BY <1>4, RoutersAre, AppendProperties DEF Types
  <2>. QED  BY <1>7, <2>1 DEF Types
<1>9. toReplica' \in [Workers -> [Replicas -> Seq(Calls)]]
  <2>1. AbortEverywhere(Detokenizer, us) \in [Replicas -> Seq(Calls)]
    BY <1>6, RoutersAre, AbortsTypes
  <2>. QED  BY <1>7, <2>1 DEF Types
<1>10. decoded' \in [Uids -> Nat]
  <2>1. ASSUME NEW u \in Uids PROVE Cardinality({ i \in DOMAIN batch : batch[i].uid = u }) \in Nat
    <3>1. IsFiniteSet(1 .. Len(batch))
      BY <1>3, FS_Interval
    <3>2. IsFiniteSet({ i \in DOMAIN batch : batch[i].uid = u })
      BY <1>3, <3>1, FS_Subset
    <3>. QED  BY <3>2, FS_CardinalityType
  <2>2. \A u \in Uids : decoded[u] \in Nat
    BY DEF Types
  <2>. QED  BY <1>7, <2>1, <2>2
<1>11. prompts' \in [Workers -> SUBSET Uids] /\ stops' \in [Workers -> SUBSET Uids]
    BY <1>7 DEF Types
<1>12. toWorkerBack' \in [Replicas -> Seq(Seq(Pieces))]
    BY <1>2 DEF Types, Detokenize, batch
<1>13. Types'
    BY <1>8, <1>9, <1>10, <1>11, <1>12 DEF Types, Detokenize, frontVars, replicaVars
<1>. QED  BY <1>1, <1>2, <1>3, <1>4, <1>6, <1>7, <1>13 DEF batch, us, replies, early

LEMMA ReceiveTypes ==
    ASSUME Types, NEW r \in Replicas, NEW w \in Workers, Receive(r, w)
    PROVE  /\ Types'
           /\ toReplica[w][r] \in Seq(Calls) /\ toReplica[w][r] # << >>
           /\ Head(toReplica[w][r]) \in Calls /\ Head(toReplica[w][r]).uid \in Uids
<1>. DEFINE m == Head(toReplica[w][r])
<1>1. toReplica[w][r] \in Seq(Calls) /\ toReplica[w][r] # << >>
    BY DEF Types, Receive
<1>2. m \in Calls /\ Tail(toReplica[w][r]) \in Seq(Calls)
    BY <1>1, Received
<1>3. m.uid \in Uids
    BY <1>2 DEF Calls
<1>. HIDE DEF m
<1>4. toReplica' \in [Workers -> [Replicas -> Seq(Calls)]]
    BY <1>2 DEF Types, Receive
<1>5. /\ active' \in [Replicas -> SUBSET Uids]
      /\ \A q \in Replicas : IsFiniteSet(active'[q])
      /\ toWorkerBack' \in [Replicas -> Seq(Seq(Pieces))]
  <2>1. CASE active' = [active EXCEPT ![r] = @ \ {m.uid}] /\ UNCHANGED toWorkerBack
    <3>1. IsFiniteSet(active[r] \ {m.uid})
      BY FS_Subset DEF Types
    <3>. QED  BY <1>3, <2>1, <3>1 DEF Types
  <2>2. CASE toWorkerBack' = [toWorkerBack EXCEPT ![r] = Append(@, Rejection(m.uid))]
             /\ UNCHANGED active
    <3>1. Rejection(m.uid) \in Seq(Pieces)
      <4>1. Token(m.uid, "error", TRUE) \in Pieces
        BY <1>3 DEF Token, Pieces
      <4>. QED  BY <4>1, OneElement DEF Rejection
    <3>2. Append(toWorkerBack[r], Rejection(m.uid)) \in Seq(Seq(Pieces))
      BY <3>1, AppendProperties DEF Types
    <3>. QED  BY <2>2, <3>2 DEF Types
  <2>3. CASE active' = [active EXCEPT ![r] = @ \cup {m.uid}] /\ UNCHANGED toWorkerBack
    <3>1. IsFiniteSet(active[r] \cup {m.uid})
      BY FS_AddElement DEF Types
    <3>. QED  BY <1>3, <2>3, <3>1 DEF Types
  <2>. QED  BY <2>1, <2>2, <2>3 DEF Receive, m
<1>6. Types'
    BY <1>4, <1>5 DEF Types, Receive, frontVars, workerVars
<1>. QED  BY <1>1, <1>2, <1>3, <1>6 DEF m

\* The step of an iteration: what is launched, and what is sent.
Sends(r, S, spent, batch) ==
    LET can   == { u \in active[r] : launched[u] < MaxTokens[u] }
        fresh == { u \in can : launched[u] = 0 }
    IN  /\ S \in {fresh, can \ fresh}
        /\ spent = [u \in Uids |-> IF u \in S THEN launched[u] + 1 ELSE launched[u]]
        /\ flight' = [flight EXCEPT ![r] = S]
        /\ launched' = spent
        /\ batch \in Batches(SetToSeq(flight[r]), spent)
        /\ active' = [active EXCEPT
               ![r] = @ \ { m.uid : m \in { b \in ToSet(batch) : b.fin } }]
        /\ toWorkerBack' = IF batch = << >> THEN toWorkerBack
                           ELSE [toWorkerBack EXCEPT ![r] = Append(@, batch)]
        /\ UNCHANGED <<frontVars, toWorker, toReplica, toFrontend, workerVars>>

LEMMA IterateTypes ==
    ASSUME Types, NEW r \in Replicas, Iterate(r)
    PROVE  /\ Types'
           /\ \E S, spent, batch : /\ Sends(r, S, spent, batch) /\ S \subseteq active[r]
                                   /\ spent \in [Uids -> Nat]
<1>. DEFINE can   == { u \in active[r] : launched[u] < MaxTokens[u] }
            fresh == { u \in can : launched[u] = 0 }
<1>1. PICK S \in {fresh, can \ fresh} :
         LET spent == [u \in Uids |-> IF u \in S THEN launched[u] + 1 ELSE launched[u]]
         IN  /\ flight' = [flight EXCEPT ![r] = S]
             /\ launched' = spent
             /\ \E batch \in Batches(SetToSeq(flight[r]), spent) :
                  /\ active' = [active EXCEPT
                         ![r] = @ \ { m.uid : m \in { b \in ToSet(batch) : b.fin } }]
                  /\ toWorkerBack' = IF batch = << >> THEN toWorkerBack
                                     ELSE [toWorkerBack EXCEPT ![r] = Append(@, batch)]
    BY DEF Iterate
<1>. DEFINE spent == [u \in Uids |-> IF u \in S THEN launched[u] + 1 ELSE launched[u]]
<1>2. PICK batch \in Batches(SetToSeq(flight[r]), spent) :
         /\ active' = [active EXCEPT
                ![r] = @ \ { m.uid : m \in { b \in ToSet(batch) : b.fin } }]
         /\ toWorkerBack' = IF batch = << >> THEN toWorkerBack
                            ELSE [toWorkerBack EXCEPT ![r] = Append(@, batch)]
    BY <1>1
<1>3. S \subseteq active[r] /\ active[r] \subseteq Uids
    BY DEF Types
<1>4. spent \in [Uids -> Nat]
    BY DEF Types
<1>5. Sends(r, S, spent, batch)
    BY <1>1, <1>2 DEF Sends, Iterate
<1>. HIDE DEF can, fresh, spent
<1>6. batch \in Seq(Pieces)
    BY <1>4, BatchesTypes
<1>7. toWorkerBack' \in [Replicas -> Seq(Seq(Pieces))]
  <2>1. Append(toWorkerBack[r], batch) \in Seq(Seq(Pieces))
    BY <1>6, AppendProperties DEF Types
  <2>. QED  BY <1>2, <2>1 DEF Types
<1>8. /\ active' \in [Replicas -> SUBSET Uids] /\ flight' \in [Replicas -> SUBSET Uids]
      /\ \A q \in Replicas : IsFiniteSet(active'[q]) /\ IsFiniteSet(flight'[q])
  <2>1. active[r] \subseteq Uids /\ IsFiniteSet(active[r])
    BY DEF Types
  <2>2. PICK X : active' = [active EXCEPT ![r] = X] /\ X \subseteq active[r]
    BY <1>2
  <2>3. IsFiniteSet(X) /\ IsFiniteSet(S)
    BY <1>3, <2>1, <2>2, FS_Subset
  <2>. QED  BY <1>1, <1>3, <2>1, <2>2, <2>3 DEF Types
<1>9. launched' \in [Uids -> Nat]
    BY <1>4, <1>5 DEF Sends
<1>10. Types'
    BY <1>7, <1>8, <1>9 DEF Types, Iterate, frontVars, workerVars
<1>. QED  BY <1>3, <1>4, <1>5, <1>10

LEMMA TypesStep == Types /\ [Next]_vars => Types'
<1>. SUFFICES ASSUME Types, [Next]_vars PROVE Types'
    OBVIOUS
<1>1. CASE UNCHANGED vars
    BY <1>1 DEF Types, vars, frontVars, workerVars, replicaVars
<1>2. CASE Next
    BY <1>2, SubmitTypes, DisconnectTypes, TakeReplyTypes, SendAbortTypes, TokenizeTypes,
       ForwardAbortTypes, ListenTypes, DetokenizeTypes, IterateTypes, ReceiveTypes
       DEF Next, Frontend
<1>. QED  BY <1>1, <1>2

----------------------------------------------------------------------------
(* Metrics.                                                                *)

\* The metrics record of a request follows what its handler has or will see.
Recorded ==
    \A u \in Uids :
        /\ client[u] = "new" => metric[u] = "none" /\ ackMap[u] = << >>
        /\ client[u] = "waiting" =>
              /\ metric[u] \in {"open", "success"}
              /\ \A rep \in ToSet(ackMap[u]) : rep.fin => metric[u] = "success"
        /\ client[u] = "done" => metric[u] = "success"
        /\ client[u] = "gone" => metric[u] \in {"success", "aborted"}

LEMMA RecordedStep == Types /\ Recorded /\ [Next]_vars => Recorded'
<1>. SUFFICES ASSUME Types, Recorded, [Next]_vars PROVE Recorded'
    OBVIOUS
<1>0. /\ client \in [Uids -> {"new", "waiting", "done", "gone"}]
      /\ metric \in [Uids -> {"none", "open", "success", "aborted"}]
      /\ ackMap \in [Uids -> Seq(Answers)]
    BY DEF Types
<1>e. ToSet(<< >>) = {}
    BY DEF ToSet
<1>1. ASSUME UNCHANGED <<client, metric, ackMap>> PROVE Recorded'
    BY <1>1 DEF Recorded
<1>2. ASSUME NEW v \in Uids, Submit(v) PROVE Recorded'
    BY <1>0, <1>2, <1>e DEF Recorded, Submit
<1>3. ASSUME NEW v \in Uids, TakeReply(v) PROVE Recorded'
  <2>1. ackMap[v] \in Seq(Answers) /\ ackMap[v] # << >> /\ client[v] = "waiting"
    BY <1>0, <1>3 DEF TakeReply
  <2>2. PICK rep \in Answers : rep = Head(ackMap[v])
    BY <2>1, Received
  <2>3. ToSet(ackMap[v]) = {rep} \cup ToSet(Tail(ackMap[v]))
    BY <2>1, <2>2, Received
  <2>4. /\ client' = [client EXCEPT ![v] = IF rep.fin THEN "done" ELSE @]
        /\ ackMap' = [ackMap EXCEPT ![v] = IF rep.fin THEN << >> ELSE Tail(@)]
        /\ metric' = metric
    BY <1>3, <2>2 DEF TakeReply
  <2>5. CASE rep.fin
    <3>1. /\ client' = [client EXCEPT ![v] = "done"] /\ metric[v] = "success"
          /\ ackMap' = [ackMap EXCEPT ![v] = << >>]
      BY <2>1, <2>3, <2>4, <2>5 DEF Recorded
    <3>. QED  BY <1>0, <2>4, <3>1 DEF Recorded
  <2>6. CASE ~rep.fin
    <3>1. client' = client /\ ackMap' = [ackMap EXCEPT ![v] = Tail(@)]
      BY <1>0, <2>4, <2>6
    <3>. QED  BY <1>0, <2>1, <2>3, <2>4, <3>1 DEF Recorded
  <2>. QED  BY <2>5, <2>6
<1>4. ASSUME NEW v \in Uids, Disconnect(v) PROVE Recorded'
    BY <1>0, <1>4 DEF Recorded, Disconnect, MetricAborted
<1>5. ASSUME NEW w \in Workers, Listen(w) PROVE Recorded'
  <2>. DEFINE mine(u) == Only(Head(toFrontend[w]),
                              {rep \in ToSet(Head(toFrontend[w])) : rep.uid = u})
              ends(u) == \E i \in DOMAIN mine(u) : mine(u)[i].fin
  <2>1. \A u \in Uids : mine(u) \in Seq(Answers)
    BY <1>5, ListenTypes
  <2>2. /\ ackMap' = [u \in Uids |->
                IF client[u] = "waiting" THEN ackMap[u] \o mine(u) ELSE ackMap[u]]
        /\ metric' = [u \in Uids |->
                IF client[u] = "waiting" /\ metric[u] = "open" /\ ends(u)
                THEN "success" ELSE metric[u]]
        /\ client' = client
    BY <1>5 DEF Listen
  <2>. HIDE DEF mine
  <2>3. ASSUME NEW u \in Uids, client[u] = "waiting"
        PROVE  /\ metric'[u] \in {"open", "success"}
               /\ \A rep \in ToSet(ackMap'[u]) : rep.fin => metric'[u] = "success"
    <3>1. metric[u] \in {"open", "success"}
          /\ \A rep \in ToSet(ackMap[u]) : rep.fin => metric[u] = "success"
      BY <2>3 DEF Recorded
    <3>2. ackMap'[u] = ackMap[u] \o mine(u)
          /\ metric'[u] = IF metric[u] = "open" /\ ends(u) THEN "success" ELSE metric[u]
      BY <2>2, <2>3
    <3>3. ToSet(ackMap'[u]) = ToSet(ackMap[u]) \cup ToSet(mine(u))
      BY <1>0, <2>1, <3>2, ConcatElements
    <3>4. \A rep \in ToSet(mine(u)) : rep.fin => ends(u)
      BY DEF ToSet
    <3>. HIDE DEF ends
    <3>. QED  BY <3>1, <3>2, <3>3, <3>4
  <2>4. \A u \in Uids : client[u] # "waiting" =>
           ackMap'[u] = ackMap[u] /\ metric'[u] = metric[u]
    BY <2>2
  <2>. QED  BY <2>2, <2>3, <2>4 DEF Recorded
<1>6. CASE UNCHANGED vars
    BY <1>1, <1>6 DEF vars, frontVars
<1>7. ASSUME NEW v \in Uids, SendAbort(v) PROVE Recorded'
    BY <1>1, <1>7 DEF SendAbort
<1>8. ASSUME NEW w \in Workers, Tokenize(w) \/ ForwardAbort(w) PROVE Recorded'
    BY <1>1, <1>8 DEF Tokenize, ForwardAbort, frontVars
<1>9. ASSUME NEW r \in Replicas,
             Detokenize(r) \/ Iterate(r) \/ \E w \in Workers : Receive(r, w)
      PROVE  Recorded'
    BY <1>1, <1>9 DEF Detokenize, Iterate, Receive, frontVars
<1>. QED  BY <1>2, <1>3, <1>4, <1>5, <1>6, <1>7, <1>8, <1>9 DEF Next, Frontend

\* Types and Recorded are inductive, whatever workers there are.
LEMMA RecordsKept == Spec => [](Types /\ Recorded)
<1>1. Init => Types /\ Recorded
  <2>1. Init => Recorded
    BY DEF Init, Recorded
  <2>. QED  BY <2>1, InitTypes
<1>2. Types /\ Recorded /\ [Next]_vars => (Types /\ Recorded)'
    BY TypesStep, RecordedStep
<1>. QED  BY <1>1, <1>2, PTL DEF Spec

\* Every variable keeps its type: in particular, each queue holds only messages
\* its receiver has a branch for, naming a request, and every cursor is on a
\* replica.
THEOREM PipelineTypesCorrect == Spec => []Types
    BY RecordsKept, PTL

\* The in-flight gauge is honest: no exit of a handler leaves a request counted,
\* or counts it twice, with any number of workers and replicas.
THEOREM InflightStaysHonest == Spec => []InflightHonest
<1>1. Types /\ Recorded => InflightHonest
    BY DEF Types, Recorded, InflightHonest
<1>. QED  BY <1>1, RecordsKept, PTL

----------------------------------------------------------------------------
(* Where a request is, when one worker does both directions.               *)

D == Detokenizer

\* The places of a request: the i-th message of the worker's queue or of a
\* replica's asks for it, or it is worked on, up to its last reply.
Asked(u, i) == At(toWorker[D], Message("tokenize", u), i)
Called(u, r, i) == At(toReplica[D][r], Message("user", u), i)
Names(u, b) == \E m \in ToSet(b) : m.uid = u
Sent(u, r) == \E b \in ToSet(toWorkerBack[r]) : Names(u, b)
Working(u, r) == u \in active[r] \/ u \in flight[r] \/ Sent(u, r)

\* It is asked for once, ...
AskedOnce(u) ==
    \A i : Asked(u, i) =>
        /\ \A j : Asked(u, j) => j = i
        /\ decoded[u] = 0
        /\ \A r \in Replicas : ~Working(u, r) /\ \A j : ~Called(u, r, j)

\* ... is routed once, and only then worked on, ...
CalledOnce(u) ==
    \A r \in Replicas : \A i : Called(u, r, i) =>
        /\ decoded[u] = 0
        /\ \A q \in Replicas : /\ \A j : Called(u, q, j) => q = r /\ j = i
                               /\ ~Working(u, q)

\* ... by one replica; and before it was submitted it is nowhere.
OneHome(u) ==
    \A q, r \in Replicas : Working(u, q) /\ Working(u, r) => q = r

Unsent(u) ==
    client[u] = "new" =>
        /\ \A i : ~Asked(u, i)
        /\ \A r \in Replicas : ~Working(u, r) /\ \A i : ~Called(u, r, i)
        /\ \A b \in ToSet(toFrontend[D]) : ~Names(u, b)
        /\ shown[u] = NoneShown /\ decoded[u] = 0 /\ aborts[u] = 0

Placed(u) == AskedOnce(u) /\ CalledOnce(u) /\ OneHome(u) /\ Unsent(u)

\* What replicas and workers send: one message for a request in a batch, and
\* the last one of a request they do not work on any more.
Single(b) == \A i, j \in DOMAIN b : b[i].uid = b[j].uid => i = j

Piece(m) ==
    /\ m.token \in {"eos", "error"} => m.fin
    /\ m.token = "stop" => kind[m.uid] = "stop"
    /\ m.fin => \A q \in Replicas : m.uid \notin active[q]

Told ==
    /\ \A r \in Replicas : \A b \in ToSet(toWorkerBack[r]) :
          Single(b) /\ \A m \in ToSet(b) : Piece(m)
    /\ \A b \in ToSet(toFrontend[D]) : Single(b)

Structure == Types /\ (\A u \in Uids : Placed(u)) /\ Told

\* A step that brings a request nowhere it was not: what is gone from a queue's
\* head moves the rest by one place.
AskedFades(u) == \E k \in {0, 1} : \A i : Asked(u, i)' => i \in Nat /\ Asked(u, i + k)
CalledFades(u) ==
    \A r \in Replicas : \E k \in {0, 1} : \A i : Called(u, r, i)' => i \in Nat /\ Called(u, r, i + k)
WorkFades(u) == \A r \in Replicas : Working(u, r)' => Working(u, r)

LEMMA Faded ==
    ASSUME NEW u \in Uids, Placed(u), AskedFades(u), CalledFades(u), WorkFades(u),
           decoded'[u] \in {0, decoded[u]} \/ \E r \in Replicas : Working(u, r)
    PROVE  AskedOnce(u)' /\ CalledOnce(u)' /\ OneHome(u)'
<1>1. PICK k \in {0, 1} : \A i : Asked(u, i)' => i \in Nat /\ Asked(u, i + k)
    BY DEF AskedFades
<1>2. \A r \in Replicas : \A i : Called(u, r, i)' => i \in Nat /\ \E j : Called(u, r, j)
    BY DEF CalledFades
<1>3. \A r \in Replicas : Working(u, r)' => Working(u, r)
    BY DEF WorkFades
<1>4. AskedOnce(u)'
  <2>. SUFFICES ASSUME NEW i, Asked(u, i)'
                PROVE  /\ \A j : Asked(u, j)' => j = i
                       /\ decoded'[u] = 0
                       /\ \A r \in Replicas : ~Working(u, r)' /\ \A j : ~Called(u, r, j)'
    BY DEF AskedOnce
  <2>1. i \in Nat /\ Asked(u, i + k)
    BY <1>1
  <2>2. /\ \A j : Asked(u, j) => j = i + k
        /\ decoded[u] = 0
        /\ \A r \in Replicas : ~Working(u, r) /\ \A j : ~Called(u, r, j)
    BY <2>1 DEF Placed, AskedOnce
  <2>3. \A j : Asked(u, j)' => j = i
    BY <1>1, <2>1, <2>2
  <2>. QED  BY <1>2, <1>3, <2>2, <2>3
<1>5. CalledOnce(u)'
  <2>. SUFFICES ASSUME NEW r \in Replicas, NEW i, Called(u, r, i)'
                PROVE  /\ decoded'[u] = 0
                       /\ \A q \in Replicas : /\ \A j : Called(u, q, j)' => q = r /\ j = i
                                              /\ ~Working(u, q)'
    BY DEF CalledOnce
  <2>1. PICK l \in {0, 1} : \A j : Called(u, r, j)' => j \in Nat /\ Called(u, r, j + l)
    BY DEF CalledFades
  <2>2. i \in Nat /\ Called(u, r, i + l)
    BY <2>1
  <2>3. /\ decoded[u] = 0
        /\ \A q \in Replicas : /\ \A j : Called(u, q, j) => q = r /\ j = i + l
                               /\ ~Working(u, q)
    BY <2>2 DEF Placed, CalledOnce
  <2>4. \A q \in Replicas : \A j : Called(u, q, j)' => q = r /\ j = i
    BY <1>2, <2>1, <2>2, <2>3
  <2>. QED  BY <1>3, <2>3, <2>4
<1>6. OneHome(u)'
    BY <1>3 DEF Placed, OneHome
<1>. QED  BY <1>4, <1>5, <1>6

\* Queues nobody touched.
LEMMA StillAsked == ASSUME NEW u, Types, toWorker' = toWorker PROVE AskedFades(u)
<1>1. toWorker[D] \in Seq(Mail)
    BY RoutersAre DEF Types, D
<1>2. \A i : Asked(u, i)' => i \in Nat /\ Asked(u, i + 0)
    BY <1>1 DEF Asked, At
<1>. QED  BY <1>2 DEF AskedFades

LEMMA StillCalled ==
    ASSUME NEW u, Types, NEW r \in Replicas, toReplica'[D][r] = toReplica[D][r]
    PROVE  \A i : Called(u, r, i)' => i \in Nat /\ Called(u, r, i + 0)
<1>1. toReplica[D][r] \in Seq(Calls)
    BY RoutersAre DEF Types, D
<1>. QED  BY <1>1 DEF Called, At

LEMMA StillWorking ==
    ASSUME NEW u, UNCHANGED <<toWorkerBack, active, flight>>
    PROVE  WorkFades(u)
    BY DEF WorkFades, Working, Sent, Names

\* What a worker takes from its queue.
LEMMA WorkerTakes ==
    ASSUME Types, toWorker[D] # << >>, toWorker' = [toWorker EXCEPT ![D] = Tail(@)]
    PROVE  /\ Head(toWorker[D]) \in Mail /\ Head(toWorker[D]).uid \in Uids
           /\ \A u : AskedFades(u)
           /\ \A u : \A i : Asked(u, i)' => i \in Nat \ {0} /\ Asked(u, i + 1)
           /\ \A u : Head(toWorker[D]) = Message("tokenize", u) => Asked(u, 1)
<1>1. /\ toWorker[D] \in Seq(Mail) /\ toWorker'[D] = Tail(toWorker[D])
      /\ Head(toWorker[D]) \in Mail /\ Head(toWorker[D]).uid \in Uids
    BY RoutersAre, MailTypes DEF Types, D
<1>2. \A u : \A i : Asked(u, i)' => i \in Nat \ {0} /\ Asked(u, i + 1)
    BY <1>1, AtTail DEF Asked
<1>3. \A u : AskedFades(u)
    BY <1>2 DEF AskedFades
<1>4. \A u : Head(toWorker[D]) = Message("tokenize", u) => Asked(u, 1)
    BY <1>1, AtTail DEF Asked
<1>. QED  BY <1>1, <1>2, <1>3, <1>4

\* Messages by their type and request.
LEMMA MessagesDiffer ==
    \A t, v, u, s : Message(s, v) = Message(t, u) <=> s = t /\ v = u
    BY DEF Message

\* Aborts sent to every replica are behind everything else.
LEMMA AbortsSent ==
    ASSUME Types, NEW us \in Seq(Uids),
           toReplica' = [toReplica EXCEPT ![D] = AbortEverywhere(D, us)]
    PROVE  /\ \A u : CalledFades(u)
           /\ \A u : \A r \in Replicas : \A i :
                 /\ Called(u, r, i)' => Called(u, r, i) /\ i \in Nat /\ i <= Len(toReplica[D][r])
                 /\ At(toReplica[D][r], Message("abort", u), i) =>
                       At(toReplica'[D][r], Message("abort", u), i)
           /\ \A u \in ToSet(us) : \A r \in Replicas :
                 \E j \in Nat : /\ j > Len(toReplica[D][r])
                                /\ At(toReplica'[D][r], Message("abort", u), j)
           /\ \A r \in Replicas : Len(toReplica[D][r]) \in Nat
<1>1. /\ Aborts(us) \in Seq(Calls)
      /\ \A m \in ToSet(Aborts(us)) : \E u \in ToSet(us) : m = Message("abort", u)
      /\ \A u \in ToSet(us) : Message("abort", u) \in ToSet(Aborts(us))
    BY AbortsTypes, RoutersAre
<1>2. \A r \in Replicas : toReplica'[D][r] = toReplica[D][r] \o Aborts(us)
                          /\ toReplica[D][r] \in Seq(Calls)
  <2>1. AbortEverywhere(D, us) = [r \in Replicas |-> toReplica[D][r] \o Aborts(us)]
    BY AbortsTypes, RoutersAre DEF D
  <2>. QED  BY <2>1, RoutersAre DEF Types, D
<1>3. ASSUME NEW u, NEW r \in Replicas
      PROVE  /\ \A i : Called(u, r, i)' => Called(u, r, i) /\ i \in Nat /\ i <= Len(toReplica[D][r])
             /\ \A i : At(toReplica[D][r], Message("abort", u), i) =>
                   At(toReplica'[D][r], Message("abort", u), i)
             /\ u \in ToSet(us) =>
                  \E j \in Nat : /\ j > Len(toReplica[D][r])
                                 /\ At(toReplica'[D][r], Message("abort", u), j)
  <2>1. PICK s \in Seq(Calls), t \in Seq(Calls) : s = toReplica[D][r] /\ t = Aborts(us)
    BY <1>1, <1>2
  <2>2. toReplica'[D][r] = s \o t
    BY <1>2, <2>1
  <2>3. Message("user", u) \notin ToSet(t)
    BY <1>1, <2>1, MessagesDiffer
  <2>4. \A i : At(s \o t, Message("user", u), i) =>
           At(s, Message("user", u), i) /\ i \in Nat /\ i <= Len(s)
    BY <2>3, AtConcat
  <2>5. \A i : At(s, Message("abort", u), i) => At(s \o t, Message("abort", u), i)
    BY AtConcat
  <2>6. u \in ToSet(us) => \E j \in Nat : j > Len(s) /\ At(s \o t, Message("abort", u), j)
    BY <1>1, <2>1, AtConcat
  <2>. QED  BY <2>1, <2>2, <2>4, <2>5, <2>6 DEF Called
<1>4. ASSUME NEW u PROVE CalledFades(u)
  <2>. SUFFICES ASSUME NEW r \in Replicas
                PROVE  \E k \in {0, 1} : \A i : Called(u, r, i)' => i \in Nat /\ Called(u, r, i + k)
    BY DEF CalledFades
  <2>1. ASSUME NEW i, Called(u, r, i)' PROVE i \in Nat /\ Called(u, r, i + 0)
    <3>1. Called(u, r, i) /\ i \in Nat
      BY <1>3, <2>1
    <3>2. i + 0 = i
      BY <3>1
    <3>. QED  BY <3>1, <3>2, Zenon
  <2>. QED  BY <2>1
<1>. QED  BY <1>2, <1>3, <1>4, LenProperties

LEMMA PlacedKept ==
    ASSUME NEW u \in Uids, Placed(u), AskedFades(u), CalledFades(u), WorkFades(u),
           decoded'[u] \in {0, decoded[u]} \/ \E r \in Replicas : Working(u, r),
           client'[u] = "new" => /\ client[u] = "new" /\ shown'[u] = shown[u]
                                 /\ aborts'[u] = aborts[u]
                                 /\ \A b \in ToSet(toFrontend'[D]) : ~Names(u, b)
    PROVE  Placed(u)'
<1>1. AskedOnce(u)' /\ CalledOnce(u)' /\ OneHome(u)'
    BY Faded
<1>2. ASSUME client'[u] = "new" PROVE Unsent(u)'
  <2>1. /\ \A i : ~Asked(u, i)
        /\ \A r \in Replicas : ~Working(u, r) /\ \A i : ~Called(u, r, i)
        /\ shown[u] = NoneShown /\ decoded[u] = 0 /\ aborts[u] = 0
    BY <1>2 DEF Placed, Unsent
  <2>2. \A i : ~Asked(u, i)'
    BY <2>1 DEF AskedFades
  <2>3. \A r \in Replicas : ~Working(u, r)' /\ \A i : ~Called(u, r, i)'
    BY <2>1 DEF CalledFades, WorkFades
  <2>4. /\ \A b \in ToSet(toFrontend'[D]) : ~Names(u, b)'
        /\ shown'[u] = NoneShown /\ decoded'[u] = 0 /\ aborts'[u] = 0
    BY <1>2, <2>1 DEF Names
  <2>. QED  BY <2>2, <2>3, <2>4 DEF Unsent, NoneShown, Reply
<1>3. client'[u] # "new" => Unsent(u)'
    BY DEF Unsent
<1>. QED  BY <1>1, <1>2, <1>3 DEF Placed

LEMMA ToldKept ==
    ASSUME Told, UNCHANGED <<kind, active, toWorkerBack>>,
           \A b \in ToSet(toFrontend'[D]) : b \in ToSet(toFrontend[D]) \/ Single(b)
    PROVE  Told'
<1>1. \A m : Piece(m)' <=> Piece(m)
    BY DEF Piece
<1>2. \A b : Single(b)' <=> Single(b)
    BY DEF Single
<1>3. /\ \A r \in Replicas : \A b \in ToSet(toWorkerBack'[r]) :
            Single(b)' /\ \A m \in ToSet(b) : Piece(m)'
      /\ \A b \in ToSet(toFrontend'[D]) : Single(b)'
    BY <1>1, <1>2 DEF Told
<1>. QED  BY <1>3 DEF Told

\* One worker: the detokenizer.
LEMMA OneWorker ==
    ASSUME Tokenizers = {}
    PROVE  /\ Workers = {D} /\ D \in Workers
           /\ \A u, t : Push(u, t) <=> toWorker' = [toWorker EXCEPT ![D] = Append(@, Message(t, u))]
<1>1. Workers = {D} /\ Ingress = {D}
    BY DEF Workers, Ingress, D
<1>. QED  BY <1>1 DEF Push

\* What a push adds to its queue.
LEMMA Pushed ==
    ASSUME Types, NEW v \in Uids, NEW t \in {"tokenize", "abort"},
           toWorker' = [toWorker EXCEPT ![D] = Append(@, Message(t, v))]
    PROVE  /\ \A u : \A i : Asked(u, i)' => \/ i \in Nat /\ Asked(u, i)
                                            \/ t = "tokenize" /\ u = v /\ i = Len(toWorker[D]) + 1
           /\ \A u : \A i : At(toWorker[D], Message("abort", u), i) =>
                   At(toWorker'[D], Message("abort", u), i)
           /\ At(toWorker'[D], Message(t, v), Len(toWorker[D]) + 1)
           /\ \A u : \A i : Asked(u, i) => i \in Nat /\ i < Len(toWorker[D]) + 1
           /\ Len(toWorker[D]) \in Nat
<1>1. PICK s \in Seq(Mail), x \in Mail : s = toWorker[D] /\ x = Message(t, v)
    BY RoutersAre DEF Types, D, Mail, Message
<1>2. toWorker'[D] = Append(s, x)
    BY <1>1, RoutersAre DEF Types, D
<1>3. \A m, i : At(s, m, i) => At(Append(s, x), m, i) /\ i \in Nat /\ i < Len(s) + 1
    BY AtAppend
<1>4. \A m, i : At(Append(s, x), m, i) => At(s, m, i) \/ (i = Len(s) + 1 /\ x = m)
    BY AtAppend
<1>5. At(Append(s, x), x, Len(s) + 1)
    BY AtAppend
<1>6. \A u : \A i : Asked(u, i)' => \/ i \in Nat /\ Asked(u, i)
                                    \/ t = "tokenize" /\ u = v /\ i = Len(toWorker[D]) + 1
    BY <1>1, <1>2, <1>3, <1>4, MessagesDiffer DEF Asked
<1>7. \A u : \A i : At(toWorker[D], Message("abort", u), i) =>
                  At(toWorker'[D], Message("abort", u), i)
    BY <1>1, <1>2, <1>3
<1>8. At(toWorker'[D], Message(t, v), Len(toWorker[D]) + 1)
    BY <1>1, <1>2, <1>5
<1>9. \A u : \A i : Asked(u, i) => i \in Nat /\ i < Len(toWorker[D]) + 1
    BY <1>1, <1>3 DEF Asked
<1>10. Len(toWorker[D]) \in Nat
    BY <1>1, LenProperties
<1>. QED  BY <1>6, <1>7, <1>8, <1>9, <1>10

LEMMA Unmoved ==
    ASSUME Types, UNCHANGED <<toReplica, toWorkerBack, active, flight>>
    PROVE  \A u : CalledFades(u) /\ WorkFades(u)
<1>1. \A u : CalledFades(u)
    BY StillCalled, Zenon DEF CalledFades
<1>. QED  BY <1>1, StillWorking

LEMMA SubmitStructure ==
    ASSUME Structure, Types', Tokenizers = {}, NEW v \in Uids, Submit(v)
    PROVE  Structure'
<1>1. /\ toWorker' = [toWorker EXCEPT ![D] = Append(@, Message("tokenize", v))]
      /\ client[v] = "new" /\ client' = [client EXCEPT ![v] = "waiting"]
      /\ UNCHANGED <<kind, shown, aborts, toReplica, toWorkerBack, toFrontend, active, flight, decoded>>
    BY OneWorker DEF Submit, workerVars, replicaVars
<1>2. \A u : CalledFades(u) /\ WorkFades(u)
    BY <1>1, Unmoved DEF Structure
<1>3. \A u : \A i : Asked(u, i)' => \/ i \in Nat /\ Asked(u, i)
                                    \/ u = v /\ i = Len(toWorker[D]) + 1
    BY <1>1, Pushed DEF Structure
<1>4. ASSUME NEW u \in Uids, u # v PROVE Placed(u)'
  <2>1. \A i : Asked(u, i)' => i \in Nat /\ Asked(u, i + 0)
    <3>1. ASSUME NEW i, Asked(u, i)' PROVE i \in Nat /\ Asked(u, i + 0)
      <4>1. i \in Nat /\ Asked(u, i)
        BY <1>3, <1>4, <3>1
      <4>2. i + 0 = i
        BY <4>1
      <4>. QED  BY <4>1, <4>2, Zenon
    <3>. QED  BY <3>1
  <2>2. AskedFades(u)
    BY <2>1 DEF AskedFades
  <2>3. client'[u] = client[u]
    BY <1>1, <1>4 DEF Structure, Types
  <2>4. client'[u] = "new" => \A b \in ToSet(toFrontend'[D]) : ~Names(u, b)
    BY <1>1, <2>3 DEF Structure, Placed, Unsent
  <2>. QED  BY <1>1, <1>2, <2>2, <2>3, <2>4, PlacedKept DEF Structure
<1>5. Placed(v)'
  <2>1. /\ \A i : ~Asked(v, i)
        /\ \A r \in Replicas : ~Working(v, r) /\ \A i : ~Called(v, r, i)
        /\ decoded[v] = 0
    BY <1>1 DEF Structure, Placed, Unsent
  <2>2. \A r \in Replicas : ~Working(v, r)' /\ \A i : ~Called(v, r, i)'
    BY <1>2, <2>1 DEF CalledFades, WorkFades
  <2>3. \A i : Asked(v, i)' => i = Len(toWorker[D]) + 1
    BY <1>3, <2>1
  <2>4. AskedOnce(v)'
    BY <1>1, <2>1, <2>2, <2>3 DEF AskedOnce
  <2>5. CalledOnce(v)' /\ OneHome(v)'
    BY <2>2 DEF CalledOnce, OneHome
  <2>6. Unsent(v)'
    BY <1>1 DEF Unsent, Structure, Types
  <2>. QED  BY <2>4, <2>5, <2>6 DEF Placed
<1>6. Told'
    BY <1>1, ToldKept DEF Structure
<1>. QED  BY <1>4, <1>5, <1>6 DEF Structure

\* The frontend's other steps, and a worker that forwards an abort.
LEMMA FrontStructure ==
    ASSUME Structure, Types', Tokenizers = {},
           \/ \E v \in Uids : TakeReply(v) \/ Disconnect(v) \/ SendAbort(v)
           \/ Listen(D)
           \/ ForwardAbort(D)
    PROVE  Structure'
<1>. USE DEF Structure
<1>1. /\ UNCHANGED <<kind, toWorkerBack, active, flight, decoded>>
      /\ \A u \in Uids : client'[u] = "new" =>
            client[u] = "new" /\ shown'[u] = shown[u] /\ aborts'[u] = aborts[u]
      /\ ToSet(toFrontend'[D]) \subseteq ToSet(toFrontend[D])
  <2>1. ASSUME NEW v \in Uids, TakeReply(v)
        PROVE  \A u \in Uids : client'[u] = "new" => client[u] = "new" /\ shown'[u] = shown[u]
    BY <2>1 DEF TakeReply, Types
  <2>2. ASSUME NEW v \in Uids, Disconnect(v)
        PROVE  \A u \in Uids : client'[u] = "new" => client[u] = "new" /\ aborts'[u] = aborts[u]
    BY <2>2 DEF Disconnect, Types
  <2>3. ASSUME NEW v \in Uids, SendAbort(v)
        PROVE  \A u \in Uids : client'[u] = "new" => client[u] = "new" /\ aborts'[u] = aborts[u]
    <3>1. \A u \in Uids : client[u] = "new" => aborts[u] = 0
      BY DEF Placed, Unsent
    <3>. QED  BY <2>3, <3>1 DEF SendAbort, Types
  <2>4. ASSUME Listen(D) PROVE ToSet(toFrontend'[D]) \subseteq ToSet(toFrontend[D])
    <3>1. toFrontend[D] \in Seq(Seq(Answers)) /\ toFrontend[D] # << >>
          /\ toFrontend'[D] = Tail(toFrontend[D])
      BY <2>4, OneWorker DEF Listen, Types
    <3>. QED  BY <3>1, Received
  <2>5. CASE \E v \in Uids : TakeReply(v)
    BY <2>1, <2>5 DEF TakeReply, workerVars, replicaVars
  <2>6. CASE \E v \in Uids : Disconnect(v)
    BY <2>2, <2>6 DEF Disconnect, workerVars, replicaVars
  <2>7. CASE \E v \in Uids : SendAbort(v)
    BY <2>3, <2>7 DEF SendAbort, workerVars, replicaVars
  <2>8. CASE Listen(D)
    BY <2>4, <2>8 DEF Listen, workerVars, replicaVars
  <2>9. CASE ForwardAbort(D)
    BY <2>9 DEF ForwardAbort, frontVars, workerVars, replicaVars
  <2>. QED  BY <2>5, <2>6, <2>7, <2>8, <2>9
<1>2. \A u : AskedFades(u)
  <2>1. CASE toWorker' = toWorker
    BY <2>1, StillAsked
  <2>2. ASSUME NEW v \in Uids, SendAbort(v) PROVE \A u : AskedFades(u)
    <3>1. toWorker' = [toWorker EXCEPT ![D] = Append(@, Message("abort", v))]
      BY <2>2, OneWorker DEF SendAbort
    <3>2. \A u : \A i : Asked(u, i)' => i \in Nat /\ Asked(u, i)
      BY <3>1, Pushed
    <3>3. ASSUME NEW u, NEW i, Asked(u, i)' PROVE i \in Nat /\ Asked(u, i + 0)
      <4>1. i \in Nat /\ Asked(u, i)
        BY <3>2, <3>3
      <4>2. i + 0 = i
        BY <4>1
      <4>. QED  BY <4>1, <4>2, Zenon
    <3>. QED  BY <3>3 DEF AskedFades
  <2>3. CASE ForwardAbort(D)
    BY <2>3, WorkerTakes DEF ForwardAbort
  <2>. QED  BY <2>1, <2>2, <2>3 DEF TakeReply, Disconnect, Listen
<1>3. \A u : CalledFades(u) /\ WorkFades(u)
  <2>1. CASE toReplica' = toReplica
    BY <1>1, <2>1, Unmoved
  <2>2. CASE ForwardAbort(D)
    <3>1. Head(toWorker[D]).uid \in Uids
      BY <2>2, WorkerTakes DEF ForwardAbort
    <3>2. <<Head(toWorker[D]).uid>> \in Seq(Uids)
      BY <3>1, OneElement
    <3>3. toReplica' = [toReplica EXCEPT ![D] = AbortEverywhere(D, <<Head(toWorker[D]).uid>>)]
      BY <2>2 DEF ForwardAbort
    <3>. QED  BY <1>1, <3>2, <3>3, AbortsSent, StillWorking
  <2>. QED  BY <2>1, <2>2 DEF TakeReply, Disconnect, Listen, SendAbort
<1>4. ASSUME NEW u \in Uids PROVE Placed(u)'
  <2>1. client'[u] = "new" => \A b \in ToSet(toFrontend'[D]) : ~Names(u, b)
    BY <1>1 DEF Placed, Unsent
  <2>. QED  BY <1>1, <1>2, <1>3, <2>1, PlacedKept
<1>5. Told'
    BY <1>1, ToldKept
<1>. QED  BY <1>4, <1>5

\* What a replica takes from its queue.
LEMMA ReplicaTakes ==
    ASSUME Types, NEW r \in Replicas, toReplica[D][r] # << >>,
           toReplica' = [toReplica EXCEPT ![D][r] = Tail(@)]
    PROVE  /\ \A u : CalledFades(u)
           /\ \A u : \A i : Called(u, r, i)' => i \in Nat \ {0} /\ Called(u, r, i + 1)
           /\ \A q \in Replicas \ {r} : toReplica'[D][q] = toReplica[D][q]
           /\ toReplica'[D][r] = Tail(toReplica[D][r]) /\ toReplica[D][r] \in Seq(Calls)
           /\ \A u : Head(toReplica[D][r]) = Message("user", u) => Called(u, r, 1)
<1>1. /\ toReplica[D][r] \in Seq(Calls) /\ toReplica'[D][r] = Tail(toReplica[D][r])
      /\ \A q \in Replicas \ {r} : toReplica'[D][q] = toReplica[D][q]
    BY RoutersAre DEF Types, D
<1>2. \A u : \A i : Called(u, r, i)' => i \in Nat \ {0} /\ Called(u, r, i + 1)
    BY <1>1, AtTail DEF Called
<1>3. ASSUME NEW u, NEW q \in Replicas
      PROVE  \E k \in {0, 1} : \A i : Called(u, q, i)' => i \in Nat /\ Called(u, q, i + k)
  <2>1. CASE q = r
    BY <1>2, <2>1
  <2>2. CASE q # r
    <3>1. \A i : Called(u, q, i)' => i \in Nat /\ Called(u, q, i + 0)
      BY <1>1, <2>2, StillCalled
    <3>. QED  BY <3>1
  <2>. QED  BY <2>1, <2>2
<1>4. \A u : CalledFades(u)
    BY <1>3 DEF CalledFades
<1>5. \A u : Head(toReplica[D][r]) = Message("user", u) => Called(u, r, 1)
    BY <1>1, AtTail DEF Called
<1>. QED  BY <1>1, <1>2, <1>4, <1>5

\* What a router adds to a replica's queue.
LEMMA Routed ==
    ASSUME Types, NEW c \in Replicas, NEW v \in Uids,
           toReplica' = [toReplica EXCEPT ![D][c] = Append(@, Message("user", v))]
    PROVE  /\ \A u : \A r \in Replicas : \A i : Called(u, r, i)' =>
                 \/ i \in Nat /\ Called(u, r, i)
                 \/ u = v /\ r = c /\ i = Len(toReplica[D][c]) + 1
           /\ \A u : \A r \in Replicas : \A i : At(toReplica[D][r], Message("abort", u), i) =>
                   At(toReplica'[D][r], Message("abort", u), i)
<1>0. toReplica[D][c] \in Seq(Calls) /\ Message("user", v) \in Calls
  <2>1. Message("user", v) \in Calls
    BY DEF Calls, Message
  <2>. QED  BY <2>1, RoutersAre DEF Types, D
<1>1. PICK s \in Seq(Calls), x \in Calls : s = toReplica[D][c] /\ x = Message("user", v)
    BY <1>0
<1>2. /\ toReplica'[D][c] = Append(s, x)
      /\ \A r \in Replicas \ {c} : toReplica'[D][r] = toReplica[D][r]
    BY <1>1, RoutersAre DEF Types, D
<1>3. \A m, i : At(s, m, i) => At(Append(s, x), m, i) /\ i \in Nat
    BY AtAppend
<1>4. \A m, i : At(Append(s, x), m, i) => At(s, m, i) \/ (i = Len(s) + 1 /\ x = m)
    BY AtAppend
<1>5. ASSUME NEW u, NEW r \in Replicas
      PROVE  /\ \A i : Called(u, r, i)' => \/ i \in Nat /\ Called(u, r, i)
                                           \/ u = v /\ r = c /\ i = Len(toReplica[D][c]) + 1
             /\ \A i : At(toReplica[D][r], Message("abort", u), i) =>
                   At(toReplica'[D][r], Message("abort", u), i)
  <2>1. CASE r = c
    BY <1>1, <1>2, <1>3, <1>4, <2>1, MessagesDiffer DEF Called
  <2>2. CASE r # c
    <3>1. toReplica[D][r] \in Seq(Calls) /\ toReplica'[D][r] = toReplica[D][r]
      BY <1>2, <2>2, RoutersAre DEF Types, D
    <3>2. \A m, i : At(toReplica[D][r], m, i) => i \in Nat
      BY <3>1 DEF At
    <3>. QED  BY <3>1, <3>2 DEF Called
  <2>. QED  BY <2>1, <2>2
<1>. QED  BY <1>5

LEMMA TokenizeStructure ==
    ASSUME Structure, Types', Tokenizers = {}, Tokenize(D)
    PROVE  Structure'
<1>. USE DEF Structure
<1>1. /\ toWorker[D] # << >> /\ toWorker' = [toWorker EXCEPT ![D] = Tail(@)]
      /\ UNCHANGED <<kind, client, shown, aborts, toWorkerBack, active, flight, decoded>>
      /\ Head(toWorker[D]).type = "tokenize"
    BY DEF Tokenize, frontVars, replicaVars
<1>2. PICK v \in Uids : Head(toWorker[D]) = Message("tokenize", v) /\ Head(toWorker[D]).uid = v
    BY <1>1, WorkerTakes DEF Mail, Message
<1>3. /\ \A u : AskedFades(u)
      /\ \A u : \A i : Asked(u, i)' => i \in Nat \ {0} /\ Asked(u, i + 1)
      /\ Asked(v, 1)
    BY <1>1, <1>2, WorkerTakes
<1>4. \A u : WorkFades(u)
    BY <1>1, StillWorking
<1>5. PICK c \in Replicas : c = cursor[D]
    BY OneWorker DEF Types
<1>6. CASE /\ toFrontend' = [toFrontend EXCEPT ![D] = Append(@, <<Reply(v, 0, TRUE, FALSE, "error")>>)]
           /\ toReplica' = toReplica
  <2>1. PICK rep \in Answers : rep = Reply(v, 0, TRUE, FALSE, "error") /\ rep.uid = v
    <3>1. Reply(v, 0, TRUE, FALSE, "error") \in Answers
      BY DEF Reply, Answers, Texts
    <3>2. Reply(v, 0, TRUE, FALSE, "error").uid = v
      BY DEF Reply
    <3>. QED  BY <3>1, <3>2
  <2>2. ToSet(toFrontend'[D]) = ToSet(toFrontend[D]) \cup {<<rep>>}
    <3>1. toFrontend[D] \in Seq(Seq(Answers)) /\ <<rep>> \in Seq(Answers)
      BY OneElement, OneWorker DEF Types
    <3>2. toFrontend'[D] = Append(toFrontend[D], <<rep>>)
      BY <1>6, <2>1, OneWorker DEF Types
    <3>3. PICK b \in Seq(Answers) : b = <<rep>>
      BY <3>1
    <3>4. ToSet(Append(toFrontend[D], b)) = ToSet(toFrontend[D]) \cup {b}
      BY <3>1, AppendElements
    <3>. QED  BY <3>2, <3>3, <3>4
  <2>3. Single(<<rep>>)
    BY DEF Single
  <2>4. \A u : Names(u, <<rep>>) => u = v
    <3>1. ToSet(<<rep>>) = {rep}
      BY OneElement
    <3>. QED  BY <2>1, <3>1 DEF Names
  <2>5. client[v] # "new"
    BY <1>2, <1>3 DEF Placed, Unsent
  <2>6. ASSUME NEW u \in Uids PROVE Placed(u)'
    <3>1. client'[u] = "new" => \A b \in ToSet(toFrontend'[D]) : ~Names(u, b)
      BY <1>1, <2>2, <2>4, <2>5 DEF Placed, Unsent
    <3>2. CalledFades(u)
      BY <1>1, <1>6, Unmoved
    <3>. QED  BY <1>1, <1>3, <1>4, <3>1, <3>2, PlacedKept
  <2>7. Told'
    BY <1>1, <2>2, <2>3, ToldKept
  <2>. QED  BY <2>6, <2>7
<1>7. CASE /\ toReplica' = [toReplica EXCEPT ![D][c] = Append(@, Message("user", v))]
           /\ toFrontend' = toFrontend
  <2>1. \A u : \A r \in Replicas : \A i : Called(u, r, i)' =>
           \/ i \in Nat /\ Called(u, r, i)
           \/ u = v /\ r = c /\ i = Len(toReplica[D][c]) + 1
    BY <1>2, <1>7, Routed
  <2>2. ASSUME NEW u \in Uids, u # v PROVE Placed(u)'
    <3>1. CalledFades(u)
      <4>1. ASSUME NEW r \in Replicas, NEW i, Called(u, r, i)'
            PROVE  i \in Nat /\ Called(u, r, i + 0)
        <5>1. i \in Nat /\ Called(u, r, i)
          BY <2>1, <2>2, <4>1
        <5>2. i + 0 = i
          BY <5>1
        <5>. QED  BY <5>1, <5>2, Zenon
      <4>. QED  BY <4>1 DEF CalledFades
    <3>2. client'[u] = "new" => \A b \in ToSet(toFrontend'[D]) : ~Names(u, b)
      BY <1>1, <1>7 DEF Placed, Unsent
    <3>. QED  BY <1>1, <1>3, <1>4, <3>1, <3>2, PlacedKept
  <2>3. Placed(v)'
    <3>1. /\ \A j : Asked(v, j) => j = 1
          /\ decoded[v] = 0
          /\ \A r \in Replicas : ~Working(v, r) /\ \A j : ~Called(v, r, j)
          /\ client[v] # "new"
      BY <1>2, <1>3 DEF Placed, AskedOnce, Unsent
    <3>2. \A j : ~Asked(v, j)'
      BY <1>3, <3>1
    <3>3. \A r \in Replicas : ~Working(v, r)'
      BY <1>4, <3>1 DEF WorkFades
    <3>4. \A r \in Replicas : \A i : Called(v, r, i)' => r = c /\ i = Len(toReplica[D][c]) + 1
      BY <2>1, <3>1
    <3>5. AskedOnce(v)' /\ OneHome(v)'
      BY <3>2, <3>3 DEF AskedOnce, OneHome
    <3>6. CalledOnce(v)'
      BY <1>1, <3>1, <3>3, <3>4 DEF CalledOnce
    <3>7. Unsent(v)'
      BY <1>1, <3>1 DEF Unsent
    <3>. QED  BY <3>5, <3>6, <3>7 DEF Placed
  <2>4. Told'
    BY <1>1, <1>7, ToldKept
  <2>. QED  BY <2>2, <2>3, <2>4
<1>. QED  BY <1>2, <1>5, <1>6, <1>7 DEF Tokenize, D

\* A replica's request comes to it: from then on it is that replica's.
LEMMA Arrived ==
    ASSUME NEW v \in Uids, NEW r \in Replicas, Placed(v), Called(v, r, 1),
           \A i : Called(v, r, i)' => i \in Nat \ {0} /\ Called(v, r, i + 1),
           CalledFades(v), AskedFades(v), client' = client,
           \A q \in Replicas : Working(v, q)' => Working(v, q) \/ q = r
    PROVE  Placed(v)'
<1>1. /\ \A q \in Replicas : /\ \A j : Called(v, q, j) => q = r /\ j = 1
                             /\ ~Working(v, q)
      /\ \A i : ~Asked(v, i) /\ client[v] # "new"
    BY DEF Placed, CalledOnce, AskedOnce, Unsent
<1>2. \A i : ~Asked(v, i)'
    BY <1>1 DEF AskedFades
<1>3. \A q \in Replicas : \A i : ~Called(v, q, i)'
    BY <1>1 DEF CalledFades
<1>4. \A q \in Replicas : Working(v, q)' => q = r
    BY <1>1
<1>. QED  BY <1>1, <1>2, <1>3, <1>4 DEF Placed, AskedOnce, CalledOnce, OneHome, Unsent

LEMMA ReceiveStructure ==
    ASSUME Structure, Types', NEW r \in Replicas, Receive(r, D)
    PROVE  Structure'
<1>. USE DEF Structure
<1>1. /\ toReplica[D][r] # << >> /\ toReplica' = [toReplica EXCEPT ![D][r] = Tail(@)]
      /\ UNCHANGED <<kind, client, shown, aborts, toWorker, toFrontend, flight, decoded>>
    BY DEF Receive, frontVars, workerVars
<1>2. PICK m \in Calls, v \in Uids :
         m = Head(toReplica[D][r]) /\ m.uid = v /\ (m.type = "user" => m = Message("user", v))
  <2>1. Head(toReplica[D][r]) \in Calls
    BY RoutersAre, ReceiveTypes DEF D
  <2>. QED  BY <2>1 DEF Calls, Message
<1>3. /\ \A u : CalledFades(u)
      /\ \A u : \A i : Called(u, r, i)' => i \in Nat \ {0} /\ Called(u, r, i + 1)
      /\ m.type = "user" => Called(v, r, 1)
    BY <1>1, <1>2, ReplicaTakes
<1>4. \A u : AskedFades(u)
    BY <1>1, StillAsked
<1>5. \A u \in Uids : client'[u] = "new" => \A b \in ToSet(toFrontend'[D]) : ~Names(u, b)
    BY <1>1 DEF Placed, Unsent
<1>6. CASE active' = [active EXCEPT ![r] = @ \ {v}] /\ toWorkerBack' = toWorkerBack
  <2>1. \A q \in Replicas : active'[q] \subseteq active[q]
    BY <1>6 DEF Types
  <2>2. \A u : WorkFades(u)
    BY <1>1, <1>6, <2>1 DEF WorkFades, Working, Sent, Names
  <2>3. \A u \in Uids : Placed(u)'
    BY <1>1, <1>3, <1>4, <1>5, <2>2, PlacedKept
  <2>4. \A b : Piece(b) => Piece(b)'
    BY <1>1, <2>1 DEF Piece
  <2>5. Told'
    BY <1>1, <1>6, <2>4 DEF Told, Single
  <2>. QED  BY <2>3, <2>5
<1>7. CASE /\ m.type = "user" /\ active' = active
           /\ toWorkerBack' = [toWorkerBack EXCEPT ![r] = Append(@, Rejection(v))]
  <2>1. PICK x \in Pieces : x = Token(v, "error", TRUE) /\ x.uid = v /\ x.token = "error" /\ x.fin
    <3>1. Token(v, "error", TRUE) \in Pieces
      BY DEF Token, Pieces
    <3>2. /\ Token(v, "error", TRUE).uid = v /\ Token(v, "error", TRUE).token = "error"
          /\ Token(v, "error", TRUE).fin
      BY DEF Token
    <3>. QED  BY <3>1, <3>2
  <2>2. /\ ToSet(toWorkerBack'[r]) = ToSet(toWorkerBack[r]) \cup {<<x>>}
        /\ \A q \in Replicas \ {r} : toWorkerBack'[q] = toWorkerBack[q]
    <3>1. toWorkerBack[r] \in Seq(Seq(Pieces)) /\ <<x>> \in Seq(Pieces)
      BY OneElement DEF Types
    <3>2. toWorkerBack'[r] = Append(toWorkerBack[r], <<x>>)
      BY <1>7, <2>1 DEF Rejection, Types
    <3>3. PICK b \in Seq(Pieces) : b = <<x>>
      BY <3>1
    <3>4. ToSet(Append(toWorkerBack[r], b)) = ToSet(toWorkerBack[r]) \cup {b}
      BY <3>1, AppendElements
    <3>. QED  BY <1>7, <3>2, <3>3, <3>4 DEF Types
  <2>3. /\ Single(<<x>>) /\ ToSet(<<x>>) = {x}
        /\ \A u : Names(u, <<x>>) => u = v
    <3>1. ToSet(<<x>>) = {x}
      BY OneElement
    <3>2. Single(<<x>>)
      BY DEF Single
    <3>. QED  BY <2>1, <3>1, <3>2 DEF Names
  <2>4. \A u : \A q \in Replicas : Working(u, q)' => Working(u, q) \/ (u = v /\ q = r)
    <3>1. \A u : \A q \in Replicas : Sent(u, q)' => Sent(u, q) \/ (u = v /\ q = r)
      BY <2>2, <2>3 DEF Sent, Names
    <3>. QED  BY <1>1, <1>7, <3>1 DEF Working
  <2>5. ASSUME NEW u \in Uids, u # v PROVE Placed(u)'
    <3>1. WorkFades(u)
      BY <2>4, <2>5 DEF WorkFades
    <3>. QED  BY <1>1, <1>3, <1>4, <1>5, <3>1, PlacedKept
  <2>6. Placed(v)'
    BY <1>1, <1>2, <1>3, <1>4, <1>7, <2>4, Arrived
  <2>7. Piece(x)
    <3>1. \A q \in Replicas : ~Working(v, q)
      BY <1>2, <1>3, <1>7 DEF Placed, CalledOnce
    <3>. QED  BY <2>1, <3>1 DEF Piece, Working
  <2>8. \A b : Piece(b)' <=> Piece(b)
    BY <1>1, <1>7 DEF Piece
  <2>9. Told'
    BY <1>1, <2>2, <2>3, <2>7, <2>8 DEF Told, Single
  <2>. QED  BY <2>5, <2>6, <2>9
<1>8. CASE /\ m.type = "user" /\ toWorkerBack' = toWorkerBack
           /\ active' = [active EXCEPT ![r] = @ \cup {v}]
  <2>1. \A q \in Replicas : \A u : u \in active'[q] => u \in active[q] \/ (u = v /\ q = r)
    BY <1>8 DEF Types
  <2>2. \A u : \A q \in Replicas : Working(u, q)' => Working(u, q) \/ (u = v /\ q = r)
    BY <1>1, <1>8, <2>1 DEF Working, Sent, Names
  <2>3. ASSUME NEW u \in Uids, u # v PROVE Placed(u)'
    <3>1. WorkFades(u)
      BY <2>2, <2>3 DEF WorkFades
    <3>. QED  BY <1>1, <1>3, <1>4, <1>5, <3>1, PlacedKept
  <2>4. Placed(v)'
    BY <1>1, <1>2, <1>3, <1>4, <1>8, <2>2, Arrived
  <2>5. \A q \in Replicas : ~Sent(v, q)
    BY <1>2, <1>3, <1>8 DEF Placed, CalledOnce, Working
  <2>6. \A b : b.uid # v => (Piece(b) => Piece(b)')
    BY <1>1, <2>1 DEF Piece
  <2>7. Told'
    <3>1. ASSUME NEW q \in Replicas, NEW b \in ToSet(toWorkerBack[q]), NEW x \in ToSet(b)
          PROVE  Piece(x)'
      <4>1. x.uid # v
        BY <2>5, <3>1 DEF Sent, Names
      <4>2. Piece(x)
        BY <3>1 DEF Told
      <4>. QED  BY <2>6, <4>1, <4>2
    <3>. QED  BY <1>1, <1>8, <3>1 DEF Told, Single
  <2>. QED  BY <2>3, <2>4, <2>7
<1>. QED  BY <1>2, <1>6, <1>7, <1>8 DEF Receive

LEMMA IterateStructure ==
    ASSUME Structure, Types', NEW r \in Replicas, Iterate(r)
    PROVE  Structure'
<1>. USE DEF Structure
<1>1. PICK S, spent, batch : /\ Sends(r, S, spent, batch) /\ S \subseteq active[r]
                             /\ spent \in [Uids -> Nat]
    BY IterateTypes
<1>2. /\ batch \in Seq(Pieces) /\ Single(batch)
      /\ \A x \in ToSet(batch) : /\ x.uid \in flight[r]
                                 /\ x.token \in {"eos", "error"} => x.fin
                                 /\ x.token = "stop" => kind[x.uid] = "stop"
  <2>1. batch \in Batches(SetToSeq(flight[r]), spent)
    BY <1>1 DEF Sends
  <2>2. spent \in [Uids -> Nat]
    BY <1>1
  <2>. QED  BY <2>1, <2>2, BatchesTypes DEF Single
<1>3. /\ UNCHANGED <<kind, client, shown, aborts, toWorker, toReplica, toFrontend, decoded>>
      /\ flight' = [flight EXCEPT ![r] = S]
      /\ active' = [active EXCEPT ![r] = @ \ { x.uid : x \in { b \in ToSet(batch) : b.fin } }]
      /\ toWorkerBack' = IF batch = << >> THEN toWorkerBack
                         ELSE [toWorkerBack EXCEPT ![r] = Append(@, batch)]
    BY <1>1 DEF Sends, frontVars, workerVars
<1>4. \A q \in Replicas : /\ active'[q] \subseteq active[q]
                          /\ flight'[q] \subseteq active[q] \cup flight[q]
    BY <1>1, <1>3 DEF Types
<1>5. \A x \in ToSet(batch) : x.fin => x.uid \notin active'[r]
    BY <1>3 DEF Types
<1>6. \A q \in Replicas : \A b \in ToSet(toWorkerBack'[q]) :
         b \in ToSet(toWorkerBack[q]) \/ (q = r /\ b = batch)
  <2>1. toWorkerBack[r] \in Seq(Seq(Pieces))
    BY DEF Types
  <2>2. ToSet(Append(toWorkerBack[r], batch)) = ToSet(toWorkerBack[r]) \cup {batch}
    BY <1>2, <2>1, AppendElements
  <2>. QED  BY <1>3, <2>2 DEF Types
<1>7. \A u : WorkFades(u)
  <2>1. \A u : \A q \in Replicas : Sent(u, q)' => Sent(u, q) \/ (q = r /\ Names(u, batch))
    BY <1>6 DEF Sent, Names
  <2>2. \A u : Names(u, batch) => u \in flight[r]
    BY <1>2 DEF Names
  <2>. QED  BY <1>4, <2>1, <2>2 DEF WorkFades, Working
<1>8. \A u \in Uids : Placed(u)'
  <2>1. \A u : CalledFades(u)
    BY <1>3, StillCalled, Zenon DEF CalledFades
  <2>2. \A u : AskedFades(u)
    BY <1>3, StillAsked
  <2>3. \A u \in Uids : client'[u] = "new" => \A b \in ToSet(toFrontend'[D]) : ~Names(u, b)
    BY <1>3 DEF Placed, Unsent
  <2>. QED  BY <1>3, <1>7, <2>1, <2>2, <2>3, PlacedKept
<1>9. \A b : Piece(b) => Piece(b)'
    BY <1>3, <1>4 DEF Piece
<1>10. \A x \in ToSet(batch) : Piece(x)'
  <2>1. ASSUME NEW x \in ToSet(batch), x.fin, NEW q \in Replicas PROVE x.uid \notin active'[q]
    <3>1. x.uid \in flight[r] /\ x.uid \in Uids
      BY <1>2, <2>1 DEF Types
    <3>2. x.uid \in active[q] => q = r
      BY <3>1 DEF Placed, OneHome, Working
    <3>. QED  BY <1>4, <1>5, <2>1, <3>2
  <2>. QED  BY <1>2, <1>3, <2>1 DEF Piece
<1>11. Told'
    BY <1>2, <1>3, <1>6, <1>9, <1>10 DEF Told, Single
<1>. QED  BY <1>8, <1>11

LEMMA DetokenizeStructure ==
    ASSUME Structure, Types', NEW r \in Replicas, Detokenize(r)
    PROVE  Structure'
<1>. USE DEF Structure
<1>1. PICK batch, replies, us :
         /\ toWorkerBack[r] \in Seq(Seq(Pieces)) /\ toWorkerBack[r] # << >>
         /\ batch = Head(toWorkerBack[r]) /\ batch \in Seq(Pieces) /\ ToSet(batch) \subseteq Pieces
         /\ replies = [i \in DOMAIN batch |-> ReplyTo(batch[i])] /\ replies \in Seq(Answers)
         /\ ToSet(replies) = {ReplyTo(m) : m \in ToSet(batch)}
         /\ us \in Seq(Uids)
         /\ toFrontend' = [toFrontend EXCEPT ![D] = Append(@, replies)]
         /\ toReplica' = [toReplica EXCEPT ![D] = AbortEverywhere(D, us)]
    BY DetokenizeTypes, Zenon DEF D
<1>2. /\ UNCHANGED <<kind, client, shown, aborts, toWorker, active, flight>>
      /\ toWorkerBack' = [toWorkerBack EXCEPT ![r] = Tail(@)]
    BY DEF Detokenize, frontVars, replicaVars
<1>3. batch \in ToSet(toWorkerBack[r])
      /\ \A q \in Replicas : ToSet(toWorkerBack'[q]) \subseteq ToSet(toWorkerBack[q])
  <2>1. ToSet(toWorkerBack[r]) = {batch} \cup ToSet(Tail(toWorkerBack[r]))
    BY <1>1, Received
  <2>. QED  BY <1>2, <2>1 DEF Types
<1>4. \A u : WorkFades(u)
    BY <1>2, <1>3 DEF WorkFades, Working, Sent
<1>5. \A u : Names(u, batch) => Working(u, r)
    BY <1>3 DEF Working, Sent
<1>6. ASSUME NEW u \in Uids
      PROVE  decoded'[u] \in {0, decoded[u]} \/ \E q \in Replicas : Working(u, q)
  <2>1. CASE Names(u, batch)
    BY <1>5, <2>1
  <2>2. CASE ~Names(u, batch)
    <3>1. { i \in DOMAIN batch : batch[i].uid = u } = {}
      BY <2>2 DEF Names, ToSet
    <3>2. decoded'[u] = 0
          \/ decoded'[u] = decoded[u] + Cardinality({ i \in DOMAIN batch : batch[i].uid = u })
      BY <1>1 DEF Detokenize
    <3>3. decoded'[u] = 0 \/ decoded'[u] = decoded[u] + 0
      BY <3>1, <3>2, FS_EmptySet
    <3>. QED  BY <3>3 DEF Types
  <2>. QED  BY <2>1, <2>2
<1>7. \A u : Names(u, replies) => Names(u, batch)
  <2>1. \A m \in ToSet(batch) : ReplyTo(m).uid = m.uid
    BY <1>1, ReplyToTypes
  <2>. QED  BY <1>1, <2>1 DEF Names
<1>8. ToSet(toFrontend'[D]) = ToSet(toFrontend[D]) \cup {replies}
  <2>1. toFrontend[D] \in Seq(Seq(Answers)) /\ toFrontend'[D] = Append(toFrontend[D], replies)
    BY <1>1, RoutersAre DEF Types, D
  <2>2. replies \in Seq(Answers)
    BY <1>1
  <2>3. ToSet(Append(toFrontend[D], replies)) = ToSet(toFrontend[D]) \cup {replies}
    BY <2>1, <2>2, AppendElements
  <2>. QED  BY <2>1, <2>3
<1>9. ASSUME NEW u \in Uids PROVE Placed(u)'
  <2>1. client'[u] = "new" => \A b \in ToSet(toFrontend'[D]) : ~Names(u, b)
    BY <1>2, <1>5, <1>7, <1>8 DEF Placed, Unsent
  <2>2. AskedFades(u)
    BY <1>2, StillAsked
  <2>3. CalledFades(u)
    BY <1>1, AbortsSent
  <2>. QED  BY <1>2, <1>4, <1>6, <2>1, <2>2, <2>3, PlacedKept
<1>10. Single(replies)
  <2>1. Single(batch)
    BY <1>3 DEF Told
  <2>2. \A i \in DOMAIN replies : /\ i \in DOMAIN batch /\ batch[i] \in Pieces
                                  /\ replies[i] = ReplyTo(batch[i])
    BY <1>1
  <2>3. \A i \in DOMAIN replies : replies[i].uid = batch[i].uid
    BY <2>2, ReplyToTypes
  <2>. QED  BY <2>1, <2>2, <2>3 DEF Single
<1>11. \A b : Piece(b)' <=> Piece(b)
    BY <1>2 DEF Piece
<1>12. Told'
    BY <1>3, <1>8, <1>10, <1>11 DEF Told, Single
<1>. QED  BY <1>9, <1>12

LEMMA StructureStep ==
    ASSUME Tokenizers = {}
    PROVE  Structure /\ [Next]_vars => Structure'
<1>. SUFFICES ASSUME Structure, [Next]_vars PROVE Structure'
    OBVIOUS
<1>1. Types'
    BY TypesStep DEF Structure
<1>2. CASE UNCHANGED vars
  <2>1. \A u : AskedFades(u) /\ CalledFades(u) /\ WorkFades(u)
    BY <1>2, StillAsked, Unmoved DEF Structure, vars, replicaVars
  <2>2. \A u \in Uids : Placed(u)'
    BY <1>2, <2>1, PlacedKept DEF Structure, Placed, Unsent, vars, frontVars, workerVars
  <2>3. Told'
    BY <1>2, ToldKept DEF Structure, vars, frontVars, replicaVars
  <2>. QED  BY <1>1, <2>2, <2>3 DEF Structure
<1>3. ASSUME NEW v \in Uids, Submit(v) \/ Disconnect(v) \/ Frontend(v) PROVE Structure'
    BY <1>1, <1>3, SubmitStructure, FrontStructure DEF Frontend
<1>4. ASSUME NEW w \in Workers, Tokenize(w) \/ ForwardAbort(w) \/ Listen(w) PROVE Structure'
  <2>1. w = D
    BY OneWorker
  <2>. QED  BY <1>1, <1>4, <2>1, FrontStructure, TokenizeStructure
<1>5. ASSUME NEW r \in Replicas,
             Detokenize(r) \/ Iterate(r) \/ \E w \in Workers : Receive(r, w)
      PROVE  Structure'
  <2>1. \A w \in Workers : w = D
    BY OneWorker
  <2>. QED  BY <1>1, <1>5, <2>1, ReceiveStructure, DetokenizeStructure, IterateStructure
<1>. QED  BY <1>2, <1>3, <1>4, <1>5 DEF Next

LEMMA InitStructure == Init => Structure
<1>. SUFFICES ASSUME Init PROVE Structure
    OBVIOUS
<1>1. /\ toWorker[D] = << >> /\ toFrontend[D] = << >>
      /\ \A r \in Replicas : /\ toReplica[D][r] = << >> /\ toWorkerBack[r] = << >>
                             /\ active[r] = {} /\ flight[r] = {}
      /\ \A u \in Uids : shown[u] = NoneShown /\ decoded[u] = 0 /\ aborts[u] = 0
    BY RoutersAre DEF Init, D
<1>2. /\ \A u, i : ~Asked(u, i)
      /\ \A u : \A r \in Replicas : ~Working(u, r) /\ \A i : ~Called(u, r, i)
      /\ ToSet(toFrontend[D]) = {} /\ \A r \in Replicas : ToSet(toWorkerBack[r]) = {}
    BY <1>1 DEF Asked, Called, At, Working, Sent, ToSet
<1>3. \A u \in Uids : Placed(u)
    BY <1>1, <1>2 DEF Placed, AskedOnce, CalledOnce, OneHome, Unsent
<1>. QED  BY <1>2, <1>3, InitTypes DEF Structure, Told

----------------------------------------------------------------------------
(* Aborts.                                                                 *)

\* A reply that ends the request is on its way, or its client has left.
Over(u) ==
    \/ client[u] \in {"done", "gone"}
    \/ \E rep \in ToSet(ackMap[u]) : rep.fin
    \/ \E b \in ToSet(toFrontend[D]) : \E rep \in ToSet(b) : rep.uid = u /\ rep.fin

AbortAt(s, u, i) == At(s, Message("abort", u), i)

\* An abort is yet to reach the replicas.
AbortAhead(u) == aborts[u] > 0 \/ \E i : AbortAt(toWorker[D], u, i)

\* From then on an abort follows the request, wherever it is.
AskedThenAborted(u) ==
    \A i : Asked(u, i) => aborts[u] > 0 \/ \E j \in Nat : j > i /\ AbortAt(toWorker[D], u, j)
CalledThenAborted(u, r) ==
    \A i : Called(u, r, i) =>
        AbortAhead(u) \/ \E j \in Nat : j > i /\ AbortAt(toReplica[D][r], u, j)
ActiveThenAborted(u, r) ==
    u \in active[r] => AbortAhead(u) \/ \E j : AbortAt(toReplica[D][r], u, j)

AbortsFollow(u) ==
    Over(u) => /\ AskedThenAborted(u)
               /\ \A r \in Replicas : CalledThenAborted(u, r) /\ ActiveThenAborted(u, r)

Chased == Structure /\ Recorded /\ \A u \in Uids : AbortsFollow(u)

\* No step but three makes a request over.
LEMMA OverKept ==
    ASSUME Chased, Tokenizers = {}, NEW u \in Uids,
           \/ \E v \in Uids : \/ Submit(v) \/ TakeReply(v) \/ SendAbort(v)
                              \/ (Disconnect(v) /\ u # v)
           \/ Listen(D) \/ ForwardAbort(D)
           \/ \E r \in Replicas : Iterate(r) \/ Receive(r, D)
           \/ UNCHANGED vars,
           Over(u)'
    PROVE  Over(u)
<1>0. Types /\ ToSet(<< >>) = {}
    BY DEF Chased, Structure, ToSet
<1>1. CASE UNCHANGED <<client, ackMap, toFrontend>>
    BY <1>1 DEF Over
<1>2. ASSUME NEW v \in Uids, Submit(v) PROVE Over(u)
  <2>1. /\ client[v] = "new" /\ client' = [client EXCEPT ![v] = "waiting"]
        /\ UNCHANGED <<ackMap, toFrontend>>
    BY <1>2 DEF Submit
  <2>2. CASE u = v
    <3>1. client'[u] = "waiting"
      BY <1>0, <2>1, <2>2 DEF Types
    <3>. QED  BY <2>1, <3>1 DEF Over
  <2>3. CASE u # v
    BY <1>0, <2>1, <2>3 DEF Over, Types
  <2>. QED  BY <2>2, <2>3
<1>3. ASSUME NEW v \in Uids, TakeReply(v) PROVE Over(u)
  <2>1. /\ ackMap[v] \in Seq(Answers) /\ ackMap[v] # << >> /\ toFrontend' = toFrontend
        /\ client[v] = "waiting"
    BY <1>0, <1>3 DEF Types, TakeReply
  <2>2. PICK rep \in Answers : rep = Head(ackMap[v])
    BY <2>1, Received
  <2>3. ToSet(ackMap[v]) = {rep} \cup ToSet(Tail(ackMap[v]))
    BY <2>1, <2>2, Received
  <2>4. /\ client' = [client EXCEPT ![v] = IF rep.fin THEN "done" ELSE @]
        /\ ackMap' = [ackMap EXCEPT ![v] = IF rep.fin THEN << >> ELSE Tail(@)]
    BY <1>3, <2>2 DEF TakeReply
  <2>5. CASE u = v
    <3>1. CASE rep.fin
      BY <2>3, <2>5, <3>1 DEF Over
    <3>2. CASE ~rep.fin
      <4>1. client'[u] = client[u] /\ ackMap'[u] = Tail(ackMap[u])
        BY <1>0, <2>4, <2>5, <3>2 DEF Types
      <4>. QED  BY <2>1, <2>3, <2>5, <4>1 DEF Over
    <3>. QED  BY <3>1, <3>2
  <2>6. CASE u # v
    <3>1. client'[u] = client[u] /\ ackMap'[u] = ackMap[u]
      BY <1>0, <2>4, <2>6 DEF Types
    <3>. QED  BY <2>1, <3>1 DEF Over
  <2>. QED  BY <2>5, <2>6
<1>4. ASSUME NEW v \in Uids, Disconnect(v), u # v PROVE Over(u)
    BY <1>0, <1>4 DEF Disconnect, Over, Types
<1>5. CASE Listen(D)
  <2>. DEFINE batch == Head(toFrontend[D])
              mine == Only(batch, {rep \in ToSet(batch) : rep.uid = u})
  <2>1. /\ toFrontend[D] \in Seq(Seq(Answers)) /\ toFrontend[D] # << >>
        /\ client' = client /\ toFrontend'[D] = Tail(toFrontend[D])
    BY <1>0, <1>5, OneWorker DEF Types, Listen
  <2>2. ToSet(toFrontend[D]) = {batch} \cup ToSet(toFrontend'[D])
    BY <2>1, Received
  <2>3. mine \in Seq(Answers) /\ ToSet(mine) = {rep \in ToSet(batch) : rep.uid = u}
    BY <1>0, <1>5, OneWorker, ListenTypes
  <2>4. ackMap'[u] = ackMap[u] \o mine \/ ackMap'[u] = ackMap[u]
    BY <1>5 DEF Listen
  <2>. HIDE DEF mine, batch
  <2>5. ToSet(ackMap'[u]) \subseteq ToSet(ackMap[u]) \cup ToSet(mine)
    <3>1. ackMap[u] \in Seq(Answers)
      BY <1>0 DEF Types
    <3>2. ToSet(ackMap[u] \o mine) = ToSet(ackMap[u]) \cup ToSet(mine)
      BY <2>3, <3>1, ConcatElements
    <3>. QED  BY <2>4, <3>2
  <2>. QED  BY <2>1, <2>2, <2>3, <2>5 DEF Over
<1>6. CASE ~Listen(D) /\ \A v \in Uids : ~Submit(v) /\ ~TakeReply(v) /\ (Disconnect(v) => u = v)
    BY <1>1, <1>6 DEF SendAbort, ForwardAbort, Iterate, Receive, frontVars, vars
<1>. QED  BY <1>2, <1>3, <1>4, <1>5, <1>6

\* Steps that leave the replicas alone, and the worker's queue but for its end.
LEMMA FrontChased ==
    ASSUME Chased, Tokenizers = {}, NEW u \in Uids,
           \/ \E v \in Uids : \/ Submit(v) \/ TakeReply(v) \/ SendAbort(v)
                              \/ (Disconnect(v) /\ u # v)
           \/ Listen(D)
           \/ \E r \in Replicas : Iterate(r)
           \/ UNCHANGED vars
    PROVE  AbortsFollow(u)'
<1>. SUFFICES ASSUME Over(u)'
              PROVE  /\ AskedThenAborted(u)'
                     /\ \A r \in Replicas : CalledThenAborted(u, r)' /\ ActiveThenAborted(u, r)'
    BY DEF AbortsFollow
<1>0. Types
    BY DEF Chased, Structure
<1>1. /\ Over(u) /\ AskedThenAborted(u)
      /\ \A r \in Replicas : CalledThenAborted(u, r) /\ ActiveThenAborted(u, r)
    BY OverKept DEF AbortsFollow, Chased
<1>2. /\ toReplica' = toReplica
      /\ \A r \in Replicas : active'[r] \subseteq active[r]
  <2>1. ASSUME NEW r \in Replicas, Iterate(r)
        PROVE  /\ toReplica' = toReplica
               /\ \A q \in Replicas : active'[q] \subseteq active[q]
    BY <1>0, <2>1 DEF Iterate, Types
  <2>. QED  BY <2>1 DEF Submit, TakeReply, SendAbort, Disconnect, Listen, vars, replicaVars
<1>3. /\ \A i : Asked(u, i)' => i \in Nat /\ Asked(u, i)
      /\ \A i : AbortAt(toWorker[D], u, i) => AbortAt(toWorker'[D], u, i)
      /\ \/ aborts'[u] = aborts[u]
         \/ \E n \in Nat : /\ AbortAt(toWorker'[D], u, n)
                           /\ \A i : Asked(u, i) => i < n
  <2>1. CASE UNCHANGED toWorker /\ aborts'[u] = aborts[u]
    <3>1. toWorker[D] \in Seq(Mail)
      BY <1>0, RoutersAre DEF Types, D
    <3>2. \A m, i : At(toWorker[D], m, i) => i \in Nat
      BY <3>1 DEF At
    <3>. QED  BY <2>1, <3>2 DEF Asked
  <2>2. ASSUME NEW v \in Uids, Submit(v)
        PROVE  /\ \A i : Asked(u, i)' => i \in Nat /\ Asked(u, i)
               /\ \A i : AbortAt(toWorker[D], u, i) => AbortAt(toWorker'[D], u, i)
               /\ aborts' = aborts
    <3>1. toWorker' = [toWorker EXCEPT ![D] = Append(@, Message("tokenize", v))]
      BY <2>2, OneWorker DEF Submit
    <3>2. u # v
      <4>1. client'[v] = "waiting" /\ UNCHANGED <<ackMap, toFrontend>> /\ client[v] = "new"
        BY <1>0, <2>2 DEF Submit, Types
      <4>2. ToSet(ackMap[v]) = {} /\ \A b \in ToSet(toFrontend[D]) : ~Names(v, b)
        BY <4>1 DEF Chased, Structure, Recorded, Placed, Unsent, ToSet
      <4>3. ~Over(v)'
        BY <4>1, <4>2 DEF Over, Names
      <4>. QED  BY <4>3
    <3>3. \A i : Asked(u, i)' => i \in Nat /\ Asked(u, i)
      BY <1>0, <3>1, <3>2, Pushed
    <3>4. \A i : AbortAt(toWorker[D], u, i) => AbortAt(toWorker'[D], u, i)
      BY <1>0, <3>1, Pushed DEF AbortAt
    <3>. QED  BY <2>2, <3>3, <3>4 DEF Submit
  <2>3. ASSUME NEW v \in Uids, SendAbort(v)
        PROVE  /\ \A i : Asked(u, i)' => i \in Nat /\ Asked(u, i)
               /\ \A i : AbortAt(toWorker[D], u, i) => AbortAt(toWorker'[D], u, i)
               /\ \/ aborts'[u] = aborts[u]
                  \/ \E n \in Nat : /\ AbortAt(toWorker'[D], u, n)
                                    /\ \A i : Asked(u, i) => i < n
    <3>1. toWorker' = [toWorker EXCEPT ![D] = Append(@, Message("abort", v))]
      BY <2>3, OneWorker DEF SendAbort
    <3>2. \A i : Asked(u, i)' => i \in Nat /\ Asked(u, i)
      BY <1>0, <3>1, Pushed
    <3>3. \A i : AbortAt(toWorker[D], u, i) => AbortAt(toWorker'[D], u, i)
      BY <1>0, <3>1, Pushed DEF AbortAt
    <3>4. /\ Len(toWorker[D]) \in Nat
          /\ At(toWorker'[D], Message("abort", v), Len(toWorker[D]) + 1)
          /\ \A i : Asked(u, i) => i < Len(toWorker[D]) + 1
      BY <1>0, <3>1, Pushed
    <3>5. u # v => aborts'[u] = aborts[u]
      BY <1>0, <2>3 DEF SendAbort, Types
    <3>6. PICK n \in Nat : n = Len(toWorker[D]) + 1
      BY <3>4
    <3>7. u = v => AbortAt(toWorker'[D], u, n)
      BY <3>4, <3>6 DEF AbortAt
    <3>. QED  BY <3>2, <3>3, <3>4, <3>5, <3>6, <3>7
  <2>4. ASSUME NEW v \in Uids, Disconnect(v), u # v PROVE UNCHANGED toWorker /\ aborts'[u] = aborts[u]
    BY <1>0, <2>4 DEF Disconnect, Types
  <2>. QED  BY <2>1, <2>2, <2>3, <2>4 DEF TakeReply, Listen, Iterate, vars, frontVars
<1>4. AbortAhead(u) => AbortAhead(u)'
    BY <1>3 DEF AbortAhead
<1>5. AskedThenAborted(u)'
    BY <1>1, <1>3 DEF AskedThenAborted
<1>6. ASSUME NEW r \in Replicas PROVE CalledThenAborted(u, r)' /\ ActiveThenAborted(u, r)'
  <2>1. \A i : Called(u, r, i)' => Called(u, r, i)
    BY <1>2 DEF Called
  <2>. QED  BY <1>1, <1>2, <1>4, <2>1 DEF CalledThenAborted, ActiveThenAborted
<1>. QED  BY <1>5, <1>6

\* What becomes of the aborts in a queue whose head is taken.
LEMMA AbortsLeft ==
    ASSUME NEW T, NEW s \in Seq(T), s # << >>, NEW u
    PROVE  /\ \A i : AbortAt(s, u, i) => i \in Nat
           /\ \A i : AbortAt(s, u, i) /\ i # 1 => AbortAt(Tail(s), u, i - 1)
           /\ AbortAt(s, u, 1) <=> Head(s) = Message("abort", u)
    BY AtTail DEF AbortAt

LEMMA WorkerTakesAborts ==
    ASSUME Types, NEW u, toWorker[D] # << >>, toWorker' = [toWorker EXCEPT ![D] = Tail(@)],
           aborts' = aborts
    PROVE  /\ \A i : AbortAt(toWorker[D], u, i) =>
                 i \in Nat /\ (i # 1 => AbortAt(toWorker'[D], u, i - 1))
           /\ AbortAt(toWorker[D], u, 1) <=> Head(toWorker[D]) = Message("abort", u)
           /\ AskedThenAborted(u) => AskedThenAborted(u)'
           /\ AbortAhead(u) => AbortAhead(u)' \/ Head(toWorker[D]) = Message("abort", u)
<1>1. toWorker[D] \in Seq(Mail) /\ toWorker'[D] = Tail(toWorker[D])
    BY RoutersAre DEF Types, D
<1>2. /\ \A i : AbortAt(toWorker[D], u, i) =>
            i \in Nat /\ (i # 1 => AbortAt(toWorker'[D], u, i - 1))
      /\ AbortAt(toWorker[D], u, 1) <=> Head(toWorker[D]) = Message("abort", u)
    BY <1>1, AbortsLeft
<1>3. ASSUME AskedThenAborted(u), NEW i, Asked(u, i)'
      PROVE  aborts[u] > 0 \/ \E j \in Nat : j > i /\ AbortAt(toWorker'[D], u, j)
  <2>1. i \in Nat \ {0} /\ Asked(u, i + 1)
    BY <1>3, WorkerTakes
  <2>2. aborts[u] > 0 \/ \E j \in Nat : j > i + 1 /\ AbortAt(toWorker[D], u, j)
    BY <1>3, <2>1 DEF AskedThenAborted
  <2>3. ASSUME NEW j \in Nat, j > i + 1, AbortAt(toWorker[D], u, j)
        PROVE  j - 1 \in Nat /\ j - 1 > i /\ AbortAt(toWorker'[D], u, j - 1)
    BY <1>2, <2>1, <2>3
  <2>. QED  BY <2>2, <2>3
<1>4. AskedThenAborted(u) => AskedThenAborted(u)'
    BY <1>3 DEF AskedThenAborted
<1>5. AbortAhead(u) => AbortAhead(u)' \/ Head(toWorker[D]) = Message("abort", u)
    BY <1>2 DEF AbortAhead
<1>. QED  BY <1>2, <1>4, <1>5

LEMMA DisconnectChased ==
    ASSUME Chased, NEW u \in Uids, Disconnect(u) PROVE AbortsFollow(u)'
<1>1. aborts'[u] > 0
    BY DEF Disconnect, Chased, Structure, Types
<1>. QED  BY <1>1 DEF AbortsFollow, AskedThenAborted, CalledThenAborted, ActiveThenAborted, AbortAhead

LEMMA TokenizeChased ==
    ASSUME Chased, Tokenizers = {}, NEW u \in Uids, Tokenize(D) PROVE AbortsFollow(u)'
<1>0. Types /\ Placed(u)
    BY DEF Chased, Structure
<1>1. /\ toWorker[D] # << >> /\ toWorker' = [toWorker EXCEPT ![D] = Tail(@)]
      /\ UNCHANGED <<client, ackMap, aborts, active>>
      /\ Head(toWorker[D]).type = "tokenize"
    BY DEF Tokenize, frontVars, replicaVars
<1>2. PICK v \in Uids : Head(toWorker[D]) = Message("tokenize", v) /\ Head(toWorker[D]).uid = v
    BY <1>0, <1>1, WorkerTakes DEF Mail, Message
<1>3. PICK c \in Replicas : c = cursor[D]
    BY <1>0, OneWorker DEF Types
<1>4. \/ /\ toFrontend' = [toFrontend EXCEPT ![D] = Append(@, <<Reply(v, 0, TRUE, FALSE, "error")>>)]
         /\ toReplica' = toReplica
      \/ /\ toReplica' = [toReplica EXCEPT ![D][c] = Append(@, Message("user", v))]
         /\ toFrontend' = toFrontend
    BY <1>2, <1>3 DEF Tokenize, D
<1>5. AskedThenAborted(u) => AskedThenAborted(u)'
    BY <1>0, <1>1, WorkerTakesAborts
<1>6. AbortAhead(u) => AbortAhead(u)'
    BY <1>0, <1>1, <1>2, WorkerTakesAborts, MessagesDiffer
<1>7. \A r \in Replicas : \A i :
         /\ Called(u, r, i)' => Called(u, r, i) \/ (u = v /\ toFrontend' = toFrontend)
         /\ AbortAt(toReplica[D][r], u, i) => AbortAt(toReplica'[D][r], u, i)
  <2>1. CASE toReplica' = toReplica
    BY <2>1 DEF Called
  <2>2. CASE /\ toReplica' = [toReplica EXCEPT ![D][c] = Append(@, Message("user", v))]
             /\ toFrontend' = toFrontend
    BY <1>0, <2>2, Routed DEF AbortAt
  <2>. QED  BY <1>4, <2>1, <2>2
<1>8. CASE u = v
  <2>1. Asked(u, 1)
    BY <1>0, <1>1, <1>2, <1>8, WorkerTakes
  <2>2. /\ \A j : Asked(u, j) => j = 1
        /\ \A r \in Replicas : ~Working(u, r) /\ \A j : ~Called(u, r, j)
    BY <1>0, <2>1 DEF Placed, AskedOnce
  <2>3. \A i : Asked(u, i)' => i \in Nat \ {0} /\ Asked(u, i + 1)
    BY <1>0, <1>1, WorkerTakes
  <2>4. \A i : ~Asked(u, i)'
    BY <2>2, <2>3
  <2>5. \A r \in Replicas : u \notin active'[r]
    BY <1>1, <2>2 DEF Working
  <2>6. ASSUME Over(u)', NEW r \in Replicas, NEW i, Called(u, r, i)' PROVE AbortAhead(u)'
    <3>1. toFrontend' = toFrontend
      BY <1>7, <2>2, <2>6
    <3>2. Over(u)
      BY <1>1, <2>6, <3>1 DEF Over
    <3>3. aborts[u] > 0 \/ \E j \in Nat : j > 1 /\ AbortAt(toWorker[D], u, j)
      BY <2>1, <3>2 DEF AbortsFollow, AskedThenAborted, Chased
    <3>4. AbortAhead(u)
      BY <3>3 DEF AbortAhead
    <3>. QED  BY <1>6, <3>4
  <2>. QED  BY <2>4, <2>5, <2>6 DEF AbortsFollow, AskedThenAborted, CalledThenAborted, ActiveThenAborted
<1>9. CASE u # v
  <2>1. Over(u)' => Over(u)
    <3>1. CASE toFrontend' = toFrontend
      BY <1>1, <3>1 DEF Over
    <3>2. CASE toFrontend' = [toFrontend EXCEPT ![D] = Append(@, <<Reply(v, 0, TRUE, FALSE, "error")>>)]
      <4>1. PICK rep \in Answers : rep = Reply(v, 0, TRUE, FALSE, "error") /\ rep.uid = v
        <5>1. Reply(v, 0, TRUE, FALSE, "error") \in Answers
          BY DEF Reply, Answers, Texts
        <5>2. Reply(v, 0, TRUE, FALSE, "error").uid = v
          BY DEF Reply
        <5>. QED  BY <5>1, <5>2
      <4>2. PICK b \in Seq(Answers) : b = <<rep>> /\ ToSet(b) = {rep}
        BY OneElement
      <4>3. toFrontend[D] \in Seq(Seq(Answers)) /\ toFrontend'[D] = Append(toFrontend[D], b)
        BY <1>0, <3>2, <4>1, <4>2, RoutersAre DEF Types, D
      <4>4. ToSet(toFrontend'[D]) = ToSet(toFrontend[D]) \cup {b}
        BY <4>3, AppendElements
      <4>. QED  BY <1>1, <1>9, <4>1, <4>2, <4>4 DEF Over
    <3>. QED  BY <1>4, <3>1, <3>2
  <2>2. \A r \in Replicas : \A i : Called(u, r, i)' => Called(u, r, i)
    BY <1>7, <1>9
  <2>. QED  BY <1>1, <1>5, <1>6, <1>7, <2>1, <2>2
            DEF Chased, AbortsFollow, CalledThenAborted, ActiveThenAborted
<1>. QED  BY <1>8, <1>9

LEMMA ForwardChased ==
    ASSUME Chased, Tokenizers = {}, NEW u \in Uids, ForwardAbort(D) PROVE AbortsFollow(u)'
<1>0. Types /\ (Over(u)' => Over(u))
    BY OverKept DEF Chased, Structure
<1>1. /\ toWorker[D] # << >> /\ toWorker' = [toWorker EXCEPT ![D] = Tail(@)]
      /\ UNCHANGED <<aborts, active>>
      /\ toReplica' = [toReplica EXCEPT ![D] = AbortEverywhere(D, <<Head(toWorker[D]).uid>>)]
    BY DEF ForwardAbort, frontVars, replicaVars
<1>2. PICK us \in Seq(Uids) : us = <<Head(toWorker[D]).uid>> /\ ToSet(us) = {Head(toWorker[D]).uid}
  <2>1. Head(toWorker[D]).uid \in Uids
    BY <1>0, <1>1, WorkerTakes
  <2>. QED  BY <2>1, OneElement
<1>3. /\ \A r \in Replicas : \A i :
            /\ Called(u, r, i)' => Called(u, r, i) /\ i \in Nat /\ i <= Len(toReplica[D][r])
            /\ AbortAt(toReplica[D][r], u, i) => AbortAt(toReplica'[D][r], u, i)
      /\ u \in ToSet(us) => \A r \in Replicas :
            \E j \in Nat : j > Len(toReplica[D][r]) /\ AbortAt(toReplica'[D][r], u, j)
      /\ \A r \in Replicas : Len(toReplica[D][r]) \in Nat
    BY <1>0, <1>1, <1>2, AbortsSent DEF AbortAt
<1>4. /\ AskedThenAborted(u) => AskedThenAborted(u)'
      /\ AbortAhead(u) => AbortAhead(u)' \/ u \in ToSet(us)
  <2>1. Head(toWorker[D]) = Message("abort", u) => u \in ToSet(us)
    BY <1>2 DEF Message
  <2>. QED  BY <1>0, <1>1, <2>1, WorkerTakesAborts
<1>5. ASSUME NEW r \in Replicas, CalledThenAborted(u, r) PROVE CalledThenAborted(u, r)'
  <2>. SUFFICES ASSUME NEW i, Called(u, r, i)'
                PROVE  AbortAhead(u)' \/ \E j \in Nat : j > i /\ AbortAt(toReplica'[D][r], u, j)
    BY DEF CalledThenAborted
  <2>1. Called(u, r, i) /\ i \in Nat /\ i <= Len(toReplica[D][r]) /\ Len(toReplica[D][r]) \in Nat
    BY <1>3
  <2>2. AbortAhead(u) \/ \E j \in Nat : j > i /\ AbortAt(toReplica[D][r], u, j)
    BY <1>5, <2>1 DEF CalledThenAborted
  <2>3. u \in ToSet(us) => \E j \in Nat : j > i /\ AbortAt(toReplica'[D][r], u, j)
    BY <1>3, <2>1
  <2>. QED  BY <1>3, <1>4, <2>2, <2>3
<1>6. ASSUME NEW r \in Replicas, ActiveThenAborted(u, r) PROVE ActiveThenAborted(u, r)'
    BY <1>1, <1>3, <1>4, <1>6 DEF ActiveThenAborted
<1>. QED  BY <1>0, <1>4, <1>5, <1>6 DEF Chased, AbortsFollow

LEMMA DetokenizeChased ==
    ASSUME Chased, NEW u \in Uids, NEW r \in Replicas, Detokenize(r) PROVE AbortsFollow(u)'
<1>0. Types /\ Placed(u) /\ Told
    BY DEF Chased, Structure
<1>1. PICK batch, replies, us :
         /\ toWorkerBack[r] \in Seq(Seq(Pieces)) /\ toWorkerBack[r] # << >>
         /\ batch = Head(toWorkerBack[r]) /\ ToSet(batch) \subseteq Pieces
         /\ replies \in Seq(Answers) /\ ToSet(replies) = {ReplyTo(m) : m \in ToSet(batch)}
         /\ us \in Seq(Uids)
         /\ ToSet(us) = {m.uid : m \in {b \in ToSet(batch) : StopHit(b) /\ ~b.fin}}
         /\ toFrontend' = [toFrontend EXCEPT ![D] = Append(@, replies)]
         /\ toReplica' = [toReplica EXCEPT ![D] = AbortEverywhere(D, us)]
    BY <1>0, DetokenizeTypes, Zenon DEF D
<1>2. UNCHANGED <<client, ackMap, aborts, toWorker, active>>
    BY DEF Detokenize, frontVars, replicaVars
<1>3. batch \in ToSet(toWorkerBack[r])
    BY <1>1, Received
<1>4. Names(u, batch) => /\ \A i : ~Asked(u, i)
                         /\ \A q \in Replicas : \A i : ~Called(u, q, i)
    BY <1>0, <1>3 DEF Placed, AskedOnce, CalledOnce, Working, Sent
<1>5. /\ \A q \in Replicas : \A i :
            /\ Called(u, q, i)' => Called(u, q, i) /\ i \in Nat /\ i <= Len(toReplica[D][q])
            /\ AbortAt(toReplica[D][q], u, i) => AbortAt(toReplica'[D][q], u, i)
      /\ u \in ToSet(us) => \A q \in Replicas :
            \E j \in Nat : j > Len(toReplica[D][q]) /\ AbortAt(toReplica'[D][q], u, j)
    BY <1>0, <1>1, AbortsSent DEF AbortAt
<1>6. /\ \A i : Asked(u, i)' <=> Asked(u, i)
      /\ AbortAhead(u) => AbortAhead(u)'
      /\ AskedThenAborted(u) => AskedThenAborted(u)'
    BY <1>2 DEF Asked, AbortAhead, AskedThenAborted
<1>7. CASE u \in ToSet(us)
  <2>1. Names(u, batch)
    BY <1>1, <1>7 DEF Names
  <2>2. AskedThenAborted(u)' /\ \A q \in Replicas : CalledThenAborted(u, q)'
    BY <1>4, <1>5, <1>6, <2>1 DEF AskedThenAborted, CalledThenAborted
  <2>3. \A q \in Replicas : ActiveThenAborted(u, q)'
    BY <1>5, <1>7 DEF ActiveThenAborted
  <2>. QED  BY <2>2, <2>3 DEF AbortsFollow
<1>8. CASE Over(u)
    BY <1>2, <1>5, <1>6, <1>8
       DEF Chased, AbortsFollow, CalledThenAborted, ActiveThenAborted
<1>9. CASE u \notin ToSet(us) /\ ~Over(u) /\ Over(u)'
  <2>1. ToSet(toFrontend'[D]) = ToSet(toFrontend[D]) \cup {replies}
    <3>1. toFrontend[D] \in Seq(Seq(Answers)) /\ toFrontend'[D] = Append(toFrontend[D], replies)
      BY <1>0, <1>1, RoutersAre DEF Types, D
    <3>2. replies \in Seq(Answers)
      BY <1>1
    <3>3. ToSet(Append(toFrontend[D], replies)) = ToSet(toFrontend[D]) \cup {replies}
      BY <3>1, <3>2, AppendElements
    <3>. QED  BY <3>1, <3>3
  <2>2. \E rep \in ToSet(replies) : rep.uid = u /\ rep.fin
    BY <1>2, <1>9, <2>1 DEF Over
  <2>3. PICK m \in ToSet(batch) : ReplyTo(m).uid = u /\ ReplyTo(m).fin
    BY <1>1, <2>2
  <2>4. m \in Pieces /\ m.uid = u /\ Ends(m)
    BY <1>0, <1>1, <2>3, ReplyToTypes
  <2>5. m.fin
    BY <1>1, <1>9, <2>4 DEF Ends
  <2>6. \A q \in Replicas : u \notin active'[q]
    BY <1>0, <1>2, <1>3, <2>4, <2>5 DEF Told, Piece
  <2>7. Names(u, batch)
    BY <2>4 DEF Names
  <2>. QED  BY <1>4, <1>5, <1>6, <2>6, <2>7
            DEF AbortsFollow, AskedThenAborted, CalledThenAborted, ActiveThenAborted
<1>. QED  BY <1>7, <1>8, <1>9 DEF AbortsFollow

LEMMA ReceiveChased ==
    ASSUME Chased, Tokenizers = {}, NEW u \in Uids, NEW r \in Replicas, Receive(r, D)
    PROVE  AbortsFollow(u)'
<1>0. Types /\ (Over(u)' => Over(u))
    BY OverKept DEF Chased, Structure
<1>1. /\ toReplica[D][r] # << >> /\ toReplica' = [toReplica EXCEPT ![D][r] = Tail(@)]
      /\ UNCHANGED <<aborts, toWorker>>
    BY DEF Receive, frontVars
<1>2. /\ \A i : Called(u, r, i)' => i \in Nat \ {0} /\ Called(u, r, i + 1)
      /\ \A q \in Replicas \ {r} : toReplica'[D][q] = toReplica[D][q]
      /\ toReplica'[D][r] = Tail(toReplica[D][r]) /\ toReplica[D][r] \in Seq(Calls)
      /\ Head(toReplica[D][r]) = Message("user", u) => Called(u, r, 1)
    BY <1>0, <1>1, ReplicaTakes
<1>3. /\ \A i : AbortAt(toReplica[D][r], u, i) => i \in Nat
      /\ \A i : AbortAt(toReplica[D][r], u, i) /\ i # 1 => AbortAt(toReplica'[D][r], u, i - 1)
      /\ AbortAt(toReplica[D][r], u, 1) <=> Head(toReplica[D][r]) = Message("abort", u)
  <2>1. PICK s \in Seq(Calls) : s = toReplica[D][r] /\ s # << >>
    BY <1>1, <1>2
  <2>2. toReplica'[D][r] = Tail(s)
    BY <1>2, <2>1
  <2>3. /\ \A i : AbortAt(s, u, i) => i \in Nat
        /\ \A i : AbortAt(s, u, i) /\ i # 1 => AbortAt(Tail(s), u, i - 1)
        /\ AbortAt(s, u, 1) <=> Head(s) = Message("abort", u)
    BY <2>1, AbortsLeft
  <2>. QED  BY <2>1, <2>2, <2>3, Zenon
<1>4. /\ AbortAhead(u) => AbortAhead(u)'
      /\ AskedThenAborted(u) => AskedThenAborted(u)'
    BY <1>1 DEF Asked, AbortAhead, AskedThenAborted
<1>5. ASSUME NEW q \in Replicas, CalledThenAborted(u, q) PROVE CalledThenAborted(u, q)'
  <2>. SUFFICES ASSUME NEW i, Called(u, q, i)'
                PROVE  AbortAhead(u)' \/ \E j \in Nat : j > i /\ AbortAt(toReplica'[D][q], u, j)
    BY DEF CalledThenAborted
  <2>1. CASE q # r
    BY <1>2, <1>4, <1>5, <2>1 DEF CalledThenAborted, Called
  <2>2. CASE q = r
    <3>1. i \in Nat \ {0} /\ Called(u, r, i + 1)
      BY <1>2, <2>2
    <3>2. AbortAhead(u) \/ \E j \in Nat : j > i + 1 /\ AbortAt(toReplica[D][r], u, j)
      BY <1>5, <2>2, <3>1 DEF CalledThenAborted
    <3>3. ASSUME NEW j \in Nat, j > i + 1, AbortAt(toReplica[D][r], u, j)
          PROVE  j - 1 \in Nat /\ j - 1 > i /\ AbortAt(toReplica'[D][r], u, j - 1)
      BY <1>3, <3>1, <3>3
    <3>. QED  BY <1>4, <2>2, <3>2, <3>3
  <2>. QED  BY <2>1, <2>2
<1>6. PICK m \in Calls : m = Head(toReplica[D][r])
    BY <1>0, ReceiveTypes, RoutersAre DEF D
<1>7. ASSUME NEW q \in Replicas, CalledThenAborted(u, q), ActiveThenAborted(u, q)
      PROVE  ActiveThenAborted(u, q)'
  <2>1. \/ active' = [active EXCEPT ![r] = @ \ {m.uid}] /\ m.type = "abort"
        \/ active' = active /\ m.type = "user"
        \/ active' = [active EXCEPT ![r] = @ \cup {m.uid}] /\ m.type = "user"
    BY <1>6 DEF Receive
  <2>2. CASE q # r
    <3>1. active'[q] = active[q]
      BY <1>0, <2>1, <2>2 DEF Types
    <3>. QED  BY <1>2, <1>4, <1>7, <2>2, <3>1 DEF ActiveThenAborted
  <2>3. CASE q = r /\ u \in active[r] /\ (u \in active'[r])
    <3>1. ~AbortAt(toReplica[D][r], u, 1)
      <4>1. AbortAt(toReplica[D][r], u, 1) => m = Message("abort", u)
        BY <1>3, <1>6
      <4>2. m = Message("abort", u) => m.type = "abort" /\ m.uid = u
        BY DEF Message
      <4>. QED  BY <1>0, <2>1, <2>3, <4>1, <4>2 DEF Types
    <3>. QED  BY <1>3, <1>4, <1>7, <2>3, <3>1 DEF ActiveThenAborted
  <2>4. CASE q = r /\ u \notin active[r] /\ (u \in active'[r])
    <3>1. m.type = "user" /\ m.uid = u
      BY <1>0, <2>1, <2>4 DEF Types
    <3>2. Called(u, r, 1)
      BY <1>2, <1>6, <3>1 DEF Calls, Message
    <3>3. AbortAhead(u) \/ \E j \in Nat : j > 1 /\ AbortAt(toReplica[D][r], u, j)
      BY <1>7, <2>4, <3>2 DEF CalledThenAborted
    <3>. QED  BY <1>3, <1>4, <2>4, <3>3 DEF ActiveThenAborted
  <2>. QED  BY <2>2, <2>3, <2>4 DEF ActiveThenAborted
<1>. QED  BY <1>0, <1>4, <1>5, <1>7 DEF Chased, AbortsFollow

LEMMA ChasedStep ==
    ASSUME Tokenizers = {}
    PROVE  Chased /\ [Next]_vars => Chased'
<1>. SUFFICES ASSUME Chased, [Next]_vars PROVE Chased'
    OBVIOUS
<1>1. Structure' /\ Recorded'
    BY StructureStep, RecordedStep DEF Chased, Structure
<1>2. ASSUME NEW u \in Uids PROVE AbortsFollow(u)'
  <2>1. CASE UNCHANGED vars
    BY <2>1, FrontChased
  <2>2. ASSUME NEW v \in Uids, Submit(v) \/ Disconnect(v) \/ Frontend(v) PROVE AbortsFollow(u)'
    BY <2>2, FrontChased, DisconnectChased DEF Frontend
  <2>3. ASSUME NEW w \in Workers, Tokenize(w) \/ ForwardAbort(w) \/ Listen(w)
        PROVE  AbortsFollow(u)'
    <3>1. w = D
      BY OneWorker
    <3>. QED  BY <2>3, <3>1, FrontChased, TokenizeChased, ForwardChased
  <2>4. ASSUME NEW r \in Replicas,
               Detokenize(r) \/ Iterate(r) \/ \E w \in Workers : Receive(r, w)
        PROVE  AbortsFollow(u)'
    <3>1. \A w \in Workers : w = D
      BY OneWorker
    <3>. QED  BY <2>4, <3>1, FrontChased, DetokenizeChased, ReceiveChased
  <2>. QED  BY <2>1, <2>2, <2>3, <2>4 DEF Next
<1>. QED  BY <1>1, <1>2 DEF Chased

\* With the default single worker, a replica works on a request whose client
\* left, or has its last reply, only while an abort is on its way there: no
\* order of disconnects, stop strings, batches and deliveries loses the abort
\* or lets the request overtake it.
THEOREM ReplicasHearOfAborts ==
    ASSUME Tokenizers = {}
    PROVE  Spec => []NoZombies
<1>1. Init => Chased
  <2>. SUFFICES ASSUME Init PROVE Chased
    OBVIOUS
  <2>1. \A u \in Uids : ~Over(u)
    BY RoutersAre DEF Init, Over, ToSet, D
  <2>2. Recorded
    BY DEF Init, Recorded
  <2>. QED  BY <2>1, <2>2, InitStructure DEF Chased, AbortsFollow
<1>2. Chased => NoZombies
  <2>. SUFFICES ASSUME Chased, NEW u \in Uids, NEW r \in Replicas,
                       client[u] \in {"done", "gone"}, u \in active[r]
                PROVE  AbortOnItsWay(u, r)
    BY DEF NoZombies
  <2>1. AbortAhead(u) \/ \E j : AbortAt(toReplica[D][r], u, j)
    BY DEF Chased, AbortsFollow, Over, ActiveThenAborted
  <2>2. D \in Workers
    BY RoutersAre DEF D
  <2>. QED  BY <2>1, <2>2, InList DEF AbortAhead, AbortAt, AbortOnItsWay
<1>3. Chased /\ [Next]_vars => Chased'
    BY ChasedStep
<1>. QED  BY <1>1, <1>2, <1>3, PTL DEF Spec

----------------------------------------------------------------------------
(* The stream a client is shown.                                           *)

\* A reply that may be shown as the n-th.
Good(u, rep, n) ==
    /\ rep.count = n - (IF rep.fin /\ rep.text \in {"eos", "error"} THEN 1 ELSE 0)
    /\ rep.text # "error" => rep.known /\ ~(kind[u] = "stop" /\ rep.text = "stop")

\* How many replies its handler has or will take from ackMap; there are none
\* after the last one.
Ended == -1
Start(u) ==
    IF \E rep \in ToSet(ackMap[u]) : rep.fin THEN Ended
    ELSE shown[u].replies + Len(ackMap[u])

\* One batch further on the way to the frontend.
Follows(u, x, b, y) ==
    \/ x = Ended /\ y = Ended
    \/ x # Ended /\ ~Names(u, b) /\ y = x
    \/ x # Ended /\ \E rep \in ToSet(b) :
           rep.uid = u /\ Good(u, rep, x + 1) /\ y = IF rep.fin THEN Ended ELSE x + 1

\* What the detokenizer needs of the request's prompt, when its tokens come.
AtHand(u) ==
    \/ \E i : Asked(u, i)
    \/ u \in prompts[D] /\ (kind[u] = "stop" => u \in stops[D])

\* The numbers f of the replies after each batch: they start where ackMap ends,
\* and end where the detokenizer goes on.
Numbers(u, f) ==
    /\ f \in [0 .. Len(toFrontend[D]) -> Int]
    /\ f[0] = Start(u)
    /\ \A i \in 1 .. Len(toFrontend[D]) : Follows(u, f[i - 1], toFrontend[D][i], f[i])
    /\ f[Len(toFrontend[D])] # Ended => f[Len(toFrontend[D])] = decoded[u] /\ AtHand(u)

\* The replies in ackMap go on from those shown, and those shown are in order.
Taken(u) ==
    \A i \in DOMAIN ackMap[u] :
        (\A j \in 1 .. i - 1 : ~ackMap[u][j].fin) => Good(u, ackMap[u][i], shown[u].replies + i)

Shows(u) ==
    /\ shown[u].last.fin <=> client[u] = "done"
    /\ Good(u, shown[u].last, shown[u].replies)

InOrder(u) == client[u] = "waiting" => Taken(u) /\ \E f : Numbers(u, f)

Streams == Structure /\ Recorded /\ \A u \in Uids : Shows(u) /\ InOrder(u)

LEMMA GoodKept ==
    ASSUME kind' = kind
    PROVE  /\ \A u, rep, n : Good(u, rep, n)' <=> Good(u, rep, n)
           /\ \A u, x, b, y : Follows(u, x, b, y)' <=> Follows(u, x, b, y)
<1>1. \A u, rep, n : Good(u, rep, n)' <=> Good(u, rep, n)
    BY DEF Good
<1>2. ASSUME NEW u, NEW x, NEW b, NEW y PROVE Follows(u, x, b, y)' <=> Follows(u, x, b, y)
  <2>1. PICK z : z = x + 1
    OBVIOUS
  <2>2. \A rep : Good(u, rep, z)' <=> Good(u, rep, z)
    BY <1>1
  <2>3. Names(u, b)' <=> Names(u, b)
    BY DEF Names
  <2>. QED  BY <2>1, <2>2, <2>3 DEF Follows, Ended
<1>. QED  BY <1>1, <1>2

\* Steps away from the request's replies.
LEMMA StreamsKept ==
    ASSUME Streams, NEW u \in Uids,
           UNCHANGED <<kind, client[u], ackMap[u], shown[u], toFrontend, decoded>>,
           AtHand(u) => AtHand(u)'
    PROVE  Shows(u)' /\ InOrder(u)'
<1>0. Shows(u) /\ InOrder(u)
    BY DEF Streams
<1>1. Shows(u)'
    BY <1>0 DEF Shows, Good
<1>2. ASSUME client[u] = "waiting" PROVE Taken(u)' /\ \E f : Numbers(u, f)'
  <2>1. Taken(u) /\ \E f : Numbers(u, f)
    BY <1>0, <1>2 DEF InOrder
  <2>2. PICK f : Numbers(u, f)
    BY <2>1
  <2>3. Taken(u)'
    BY <2>1 DEF Taken, Good
  <2>4. Start(u)' = Start(u)
    BY DEF Start, Ended
  <2>5. Numbers(u, f)'
    BY <2>2, <2>4, GoodKept DEF Numbers, Ended
  <2>. QED  BY <2>3, <2>5
<1>. QED  BY <1>1, <1>2 DEF InOrder

\* A batch joins those on the way to the frontend.
LEMMA StreamsExtended ==
    ASSUME Streams, NEW u \in Uids, NEW b \in Seq(Answers),
           UNCHANGED <<kind, client, ackMap, shown>>,
           toFrontend'[D] = Append(toFrontend[D], b),
           \A x \in Int : (x # Ended => x = decoded[u] /\ AtHand(u)) =>
              \E y \in Int : /\ Follows(u, x, b, y)
                             /\ y # Ended => y = decoded'[u] /\ AtHand(u)'
    PROVE  Shows(u)' /\ InOrder(u)'
<1>0. Shows(u) /\ InOrder(u) /\ Types
    BY DEF Streams, Structure
<1>1. Shows(u)'
    BY <1>0 DEF Shows, Good
<1>2. ASSUME client[u] = "waiting" PROVE Taken(u)' /\ \E f : Numbers(u, f)'
  <2>1. Taken(u) /\ \E f : Numbers(u, f)
    BY <1>0, <1>2 DEF InOrder
  <2>2. PICK f : Numbers(u, f)
    BY <2>1
  <2>3. Taken(u)'
    BY <2>1 DEF Taken, Good
  <2>4. Start(u)' = Start(u) /\ Start(u) \in Int
    BY <1>0 DEF Start, Ended, Types
  <2>5. PICK s \in Seq(Seq(Answers)), n \in Nat : s = toFrontend[D] /\ n = Len(s)
    BY <1>0, RoutersAre DEF Types, D
  <2>6. /\ f \in [0 .. n -> Int] /\ f[0] = Start(u)
        /\ \A i \in 1 .. n : Follows(u, f[i - 1], s[i], f[i])
        /\ f[n] # Ended => f[n] = decoded[u] /\ AtHand(u)
    BY <2>2, <2>5 DEF Numbers
  <2>7. f[n] \in Int
    BY <2>6
  <2>8. PICK y \in Int : /\ Follows(u, f[n], b, y)
                         /\ y # Ended => y = decoded'[u] /\ AtHand(u)'
    BY <2>6, <2>7
  <2>9. PICK g : g = [i \in 0 .. n + 1 |-> IF i <= n THEN f[i] ELSE y]
    OBVIOUS
  <2>10. /\ g \in [0 .. n + 1 -> Int] /\ g[n + 1] = y
         /\ \A i \in 0 .. n : g[i] = f[i]
    BY <2>6, <2>9
  <2>11. /\ Len(Append(s, b)) = n + 1 /\ Append(s, b)[n + 1] = b
         /\ \A i \in 1 .. n : Append(s, b)[i] = s[i]
    BY <2>5
  <2>12. \A i \in 1 .. n + 1 : Follows(u, g[i - 1], Append(s, b)[i], g[i])
    <3>1. ASSUME NEW i \in 1 .. n PROVE Follows(u, g[i - 1], Append(s, b)[i], g[i])
      <4>1. g[i - 1] = f[i - 1] /\ g[i] = f[i] /\ Append(s, b)[i] = s[i]
        BY <2>10, <2>11
      <4>. QED  BY <2>6, <4>1
    <3>2. ASSUME NEW i \in 1 .. n + 1, i = n + 1 PROVE Follows(u, g[i - 1], Append(s, b)[i], g[i])
      <4>1. g[i - 1] = f[n] /\ g[i] = y /\ Append(s, b)[i] = b
        BY <2>10, <2>11, <3>2
      <4>. QED  BY <2>8, <4>1
    <3>3. \A i \in 1 .. n + 1 : i \in 1 .. n \/ i = n + 1
      OBVIOUS
    <3>. QED  BY <3>1, <3>2, <3>3, Zenon
  <2>13. Numbers(u, g)'
    <3>1. toFrontend'[D] = Append(s, b)
      BY <2>5
    <3>2. \A i \in 1 .. n + 1 : Follows(u, g[i - 1], Append(s, b)[i], g[i])'
      <4>1. ASSUME NEW i \in 1 .. n + 1 PROVE Follows(u, g[i - 1], Append(s, b)[i], g[i])'
        <5>1. PICK x, a, z : x = g[i - 1] /\ a = Append(s, b)[i] /\ z = g[i]
          OBVIOUS
        <5>2. Follows(u, x, a, z)'
          BY <2>12, <5>1, GoodKept
        <5>. QED  BY <5>1, <5>2
      <4>. QED  BY <4>1
    <3>3. g[0] = Start(u)'
      BY <2>4, <2>6, <2>10
    <3>4. Ended' = Ended
      BY DEF Ended
    <3>. QED  BY <2>8, <2>10, <2>11, <3>1, <3>2, <3>3, <3>4 DEF Numbers
  <2>. QED  BY <2>3, <2>13
<1>. QED  BY <1>1, <1>2 DEF InOrder

\* Steps about another request, and those of the abort path and the replicas.
LEMMA QuietStreams ==
    ASSUME Streams, Tokenizers = {}, NEW u \in Uids,
           \/ \E v \in Uids : \/ SendAbort(v)
                              \/ (u # v /\ (Submit(v) \/ TakeReply(v) \/ Disconnect(v)))
           \/ ForwardAbort(D)
           \/ \E r \in Replicas : Iterate(r) \/ Receive(r, D)
           \/ UNCHANGED vars
    PROVE  Shows(u)' /\ InOrder(u)'
<1>0. Types
    BY DEF Streams, Structure
<1>1. /\ UNCHANGED <<kind, client[u], ackMap[u], shown[u], toFrontend, decoded, prompts, stops>>
  <2>1. ASSUME NEW v \in Uids, u # v, Submit(v) \/ TakeReply(v) \/ Disconnect(v)
        PROVE  UNCHANGED <<kind, client[u], ackMap[u], shown[u], toFrontend, decoded, prompts, stops>>
    BY <1>0, <2>1 DEF Submit, TakeReply, Disconnect, Types, workerVars
  <2>2. CASE ~\E v \in Uids : u # v /\ (Submit(v) \/ TakeReply(v) \/ Disconnect(v))
    BY <2>2 DEF SendAbort, ForwardAbort, Iterate, Receive, vars, frontVars, workerVars
  <2>. QED  BY <2>1, <2>2
<1>2. ASSUME NEW i, Asked(u, i) PROVE \E j : Asked(u, j)'
  <2>1. CASE toWorker' = toWorker
    BY <1>2, <2>1 DEF Asked
  <2>2. ASSUME NEW v \in Uids, NEW t \in {"tokenize", "abort"},
               toWorker' = [toWorker EXCEPT ![D] = Append(@, Message(t, v))]
        PROVE  Asked(u, i)'
    <3>1. PICK s \in Seq(Mail), x \in Mail : s = toWorker[D] /\ x = Message(t, v)
      BY <1>0, RoutersAre DEF Types, D, Mail, Message
    <3>2. toWorker'[D] = Append(s, x)
      BY <1>0, <2>2, <3>1, RoutersAre DEF Types, D
    <3>. QED  BY <1>2, <3>1, <3>2, AtAppend DEF Asked
  <2>3. CASE ForwardAbort(D)
    <3>1. /\ toWorker[D] # << >> /\ toWorker'[D] = Tail(toWorker[D])
          /\ Head(toWorker[D]).type = "abort" /\ toWorker[D] \in Seq(Mail)
      BY <1>0, <2>3, RoutersAre DEF ForwardAbort, Types, D
    <3>2. i # 1
      BY <1>2, <3>1, AtTail DEF Asked, Message
    <3>3. At(Tail(toWorker[D]), Message("tokenize", u), i - 1)
      BY <1>2, <3>1, <3>2, AtTail DEF Asked
    <3>4. PICK j : j = i - 1
      OBVIOUS
    <3>5. Asked(u, j)'
      BY <3>1, <3>3, <3>4 DEF Asked
    <3>. QED  BY <3>5
  <2>4. ASSUME NEW v \in Uids, Submit(v) PROVE Asked(u, i)'
    BY <2>2, <2>4, OneWorker DEF Submit
  <2>5. ASSUME NEW v \in Uids, SendAbort(v) PROVE Asked(u, i)'
    BY <2>2, <2>5, OneWorker DEF SendAbort
  <2>. QED  BY <2>1, <2>3, <2>4, <2>5 DEF TakeReply, Disconnect, Iterate, Receive, vars
<1>3. AtHand(u) => AtHand(u)'
    BY <1>1, <1>2 DEF AtHand
<1>. QED  BY <1>1, <1>3, StreamsKept

LEMMA SubmitStreams ==
    ASSUME Streams, Tokenizers = {}, NEW u \in Uids, Submit(u)
    PROVE  Shows(u)' /\ InOrder(u)'
<1>0. Types /\ Shows(u) /\ Placed(u)
    BY DEF Streams, Structure
<1>1. /\ client[u] = "new" /\ client'[u] = "waiting"
      /\ UNCHANGED <<kind, ackMap, shown, toFrontend, decoded>>
      /\ toWorker' = [toWorker EXCEPT ![D] = Append(@, Message("tokenize", u))]
    BY <1>0, OneWorker DEF Submit, Types, workerVars
<1>2. /\ ackMap[u] = << >> /\ shown[u] = NoneShown /\ decoded[u] = 0
      /\ \A b \in ToSet(toFrontend[D]) : ~Names(u, b)
    BY <1>0, <1>1 DEF Streams, Recorded, Placed, Unsent
<1>3. Shows(u)'
    BY <1>0, <1>1, <1>2 DEF Shows, Good
<1>4. Taken(u)'
    BY <1>1, <1>2 DEF Taken
<1>5. PICK s \in Seq(Seq(Answers)), n \in Nat : s = toFrontend[D] /\ n = Len(s) /\ DOMAIN s = 1 .. n
    BY <1>0, RoutersAre DEF Types, D
<1>6. PICK f : f = [i \in 0 .. n |-> 0]
    OBVIOUS
<1>7. Start(u)' = 0
  <2>1. Start(u)' = shown[u].replies + Len(<< >>)
    BY <1>1, <1>2 DEF Start, ToSet
  <2>2. Len(<< >>) = 0 /\ shown[u].replies = 0
    BY <1>2 DEF NoneShown
  <2>. QED  BY <2>1, <2>2
<1>8. \A i \in 1 .. n : Follows(u, 0, s[i], 0)
  <2>1. \A i \in 1 .. n : s[i] \in ToSet(toFrontend[D])
    BY <1>5 DEF ToSet
  <2>. QED  BY <1>2, <2>1 DEF Follows, Ended
<1>9. \E i : Asked(u, i)'
  <2>1. PICK q \in Seq(Mail), x \in Mail : q = toWorker[D] /\ x = Message("tokenize", u)
    BY <1>0, RoutersAre DEF Types, D, Mail, Message
  <2>2. toWorker'[D] = Append(q, x)
    BY <1>0, <1>1, <2>1, RoutersAre DEF Types, D
  <2>3. PICK i : i = Len(q) + 1
    OBVIOUS
  <2>4. At(Append(q, x), x, i)
    BY <2>3, AtAppend
  <2>5. Asked(u, i)'
    BY <2>1, <2>2, <2>4 DEF Asked
  <2>. QED  BY <2>5
<1>10. Numbers(u, f)'
  <2>1. \A i \in 1 .. n : f[i - 1] = 0 /\ f[i] = 0
    BY <1>6
  <2>2. \A i \in 1 .. n : Follows(u, f[i - 1], s[i], f[i])'
    <3>1. ASSUME NEW i \in 1 .. n PROVE Follows(u, f[i - 1], s[i], f[i])'
      <4>1. PICK x, a, z : x = f[i - 1] /\ a = s[i] /\ z = f[i]
        OBVIOUS
      <4>2. Follows(u, x, a, z)
        BY <1>8, <2>1, <4>1
      <4>3. Follows(u, x, a, z)'
        BY <1>1, <4>2, GoodKept
      <4>. QED  BY <4>1, <4>3
    <3>. QED  BY <3>1
  <2>3. f \in [0 .. n -> Int] /\ f[0] = 0 /\ f[n] = 0
    BY <1>6
  <2>4. AtHand(u)'
    BY <1>9 DEF AtHand
  <2>. QED  BY <1>1, <1>2, <1>5, <1>7, <2>2, <2>3, <2>4 DEF Numbers
<1>. QED  BY <1>3, <1>4, <1>10 DEF InOrder

LEMMA DisconnectStreams ==
    ASSUME Streams, NEW u \in Uids, Disconnect(u)
    PROVE  Shows(u)' /\ InOrder(u)'
<1>1. client[u] = "waiting" /\ client'[u] = "gone" /\ shown' = shown /\ kind' = kind
    BY DEF Disconnect, Streams, Structure, Types
<1>. QED  BY <1>1 DEF Streams, Shows, InOrder, Good

LEMMA TakeReplyStreams ==
    ASSUME Streams, Tokenizers = {}, NEW u \in Uids, TakeReply(u)
    PROVE  Shows(u)' /\ InOrder(u)'
<1>0. Types /\ Shows(u) /\ InOrder(u)
    BY DEF Streams, Structure
<1>1. PICK s \in Seq(Answers) : s = ackMap[u] /\ s # << >>
    BY <1>0 DEF Types, TakeReply
<1>2. PICK rep \in Answers : rep = Head(s)
    BY <1>1, Received
<1>3. /\ Tail(s) \in Seq(Answers) /\ Len(Tail(s)) = Len(s) - 1 /\ Len(s) \in Nat \ {0}
      /\ rep = s[1] /\ 1 \in DOMAIN s /\ DOMAIN s = 1 .. Len(s) /\ DOMAIN Tail(s) = 1 .. Len(s) - 1
      /\ \A i \in DOMAIN Tail(s) : i + 1 \in DOMAIN s /\ Tail(s)[i] = s[i + 1]
      /\ ToSet(s) = {rep} \cup ToSet(Tail(s))
    BY <1>1, <1>2, Received
<1>4. /\ client[u] = "waiting"
      /\ client'[u] = IF rep.fin THEN "done" ELSE client[u]
      /\ ackMap'[u] = IF rep.fin THEN << >> ELSE Tail(s)
      /\ shown'[u] = [replies |-> shown[u].replies + 1, last |-> rep]
      /\ UNCHANGED <<kind, toFrontend, decoded, prompts, stops, toWorker>>
    BY <1>0, <1>1, <1>2 DEF TakeReply, Types, workerVars
<1>5. Taken(u) /\ \E f : Numbers(u, f)
    BY <1>0, <1>4 DEF InOrder
<1>6. PICK n \in Nat : n = shown[u].replies
    BY <1>0 DEF Types
<1>7. \A i \in DOMAIN s : (\A j \in 1 .. i - 1 : ~s[j].fin) => Good(u, s[i], n + i)
    BY <1>1, <1>5, <1>6 DEF Taken
<1>8. Good(u, rep, n + 1)
    BY <1>3, <1>7
<1>9. /\ shown'[u].replies = n + 1 /\ shown'[u].last = rep /\ rep.fin \in BOOLEAN
      /\ client'[u] = "done" <=> rep.fin
    BY <1>4, <1>6 DEF Answers
<1>10. Shows(u)'
  <2>1. Good(u, rep, n + 1)'
    BY <1>4, <1>8 DEF Good
  <2>. QED  BY <1>9, <2>1 DEF Shows
<1>11. CASE rep.fin
    BY <1>4, <1>10, <1>11 DEF InOrder
<1>12. CASE ~rep.fin
  <2>1. ackMap'[u] = Tail(s)
    BY <1>4, <1>12
  <2>2. \A i \in DOMAIN Tail(s) :
           (\A j \in 1 .. i - 1 : ~Tail(s)[j].fin) => Good(u, Tail(s)[i], (n + 1) + i)
    <3>1. ASSUME NEW i \in DOMAIN Tail(s), \A j \in 1 .. i - 1 : ~Tail(s)[j].fin
          PROVE  Good(u, Tail(s)[i], (n + 1) + i)
      <4>1. \A j \in 1 .. (i + 1) - 1 : ~s[j].fin
        <5>1. ASSUME NEW j \in 1 .. i PROVE ~s[j].fin
          <6>1. CASE j = 1
            BY <1>3, <1>12, <6>1
          <6>2. CASE j # 1
            <7>1. j - 1 \in 1 .. i - 1 /\ j - 1 \in DOMAIN Tail(s) /\ (j - 1) + 1 = j
              BY <1>3, <3>1, <6>2
            <7>2. Tail(s)[j - 1] = s[j]
              BY <1>3, <7>1
            <7>. QED  BY <3>1, <7>1, <7>2
          <6>. QED  BY <6>1, <6>2
        <5>. QED  BY <1>3, <5>1
      <4>2. i + 1 \in DOMAIN s /\ Tail(s)[i] = s[i + 1] /\ n + (i + 1) = (n + 1) + i
        BY <1>3
      <4>3. Good(u, s[i + 1], n + (i + 1))
        BY <1>7, <4>1, <4>2
      <4>. QED  BY <4>2, <4>3
    <3>. QED  BY <3>1
  <2>3. Taken(u)'
    BY <1>4, <1>9, <2>1, <2>2 DEF Taken, Good
  <2>4. Start(u)' = Start(u)
    <3>1. (\E a \in ToSet(Tail(s)) : a.fin) <=> (\E a \in ToSet(s) : a.fin)
      BY <1>3, <1>12
    <3>2. (n + 1) + Len(Tail(s)) = n + Len(s)
      BY <1>3
    <3>. QED  BY <1>1, <1>6, <1>9, <2>1, <3>1, <3>2 DEF Start, Ended
  <2>5. PICK f : Numbers(u, f)
    BY <1>5
  <2>6. AtHand(u)' <=> AtHand(u)
    BY <1>4 DEF AtHand, Asked
  <2>7. Numbers(u, f)'
    BY <1>4, <2>4, <2>5, <2>6, GoodKept DEF Numbers, Ended
  <2>. QED  BY <1>10, <2>3, <2>7 DEF InOrder
<1>. QED  BY <1>11, <1>12

LEMMA ListenStreams ==
    ASSUME Streams, Tokenizers = {}, NEW u \in Uids, Listen(D)
    PROVE  Shows(u)' /\ InOrder(u)'
<1>0. Types /\ Shows(u) /\ InOrder(u) /\ Told
    BY DEF Streams, Structure
<1>1. PICK s \in Seq(Seq(Answers)), n \in Nat : s = toFrontend[D] /\ n = Len(s) /\ s # << >>
    BY <1>0, RoutersAre DEF Types, D, Listen
<1>2. PICK batch \in Seq(Answers) : batch = Head(s)
    BY <1>1, Received
<1>3. /\ toFrontend'[D] = Tail(s) /\ Len(Tail(s)) = n - 1 /\ n \in Nat \ {0}
      /\ batch = s[1] /\ batch \in ToSet(s)
      /\ \A i \in 1 .. n - 1 : Tail(s)[i] = s[i + 1]
  <2>1. toFrontend' = [toFrontend EXCEPT ![D] = Tail(@)]
    BY DEF Listen
  <2>2. toFrontend'[D] = Tail(s)
    BY <1>0, <1>1, <2>1, RoutersAre DEF Types, D
  <2>. QED  BY <1>1, <1>2, <2>2, Received
<1>n. n \in Nat \ {0}
    BY <1>3
<1>4. PICK mine \in Seq(Answers) :
         /\ mine = Only(batch, {rep \in ToSet(batch) : rep.uid = u})
         /\ \A e : e \in ToSet(mine) <=> e \in ToSet(batch) /\ e.uid = u
  <2>1. PICK keys : keys = {rep \in ToSet(batch) : rep.uid = u}
    OBVIOUS
  <2>2. /\ Only(batch, keys) \in Seq(Answers)
        /\ ToSet(Only(batch, keys)) = ToSet(batch) \cap keys
    BY OnlyElements
  <2>. QED  BY <2>1, <2>2
<1>5. /\ client[u] = "waiting" => ackMap'[u] = ackMap[u] \o mine
      /\ UNCHANGED <<kind, client, shown, decoded, prompts, stops, toWorker>>
    BY <1>1, <1>2, <1>4 DEF Listen, workerVars
<1>6. Shows(u)'
    BY <1>0, <1>5 DEF Shows, Good
<1>. SUFFICES ASSUME client[u] = "waiting" PROVE Taken(u)' /\ \E f : Numbers(u, f)'
    BY <1>5, <1>6 DEF InOrder
<1>7. PICK f : Numbers(u, f)
    BY <1>0 DEF InOrder
<1>8. /\ f \in [0 .. n -> Int] /\ f[0] = Start(u) /\ Taken(u)
      /\ \A i \in 1 .. n : Follows(u, f[i - 1], s[i], f[i])
      /\ f[n] # Ended => f[n] = decoded[u] /\ AtHand(u)
    BY <1>0, <1>1, <1>7 DEF Numbers, InOrder
<1>9. PICK x, y : x = f[0] /\ y = f[1] /\ Follows(u, x, batch, y) /\ x = Start(u)
  <2>1. Follows(u, f[1 - 1], s[1], f[1])
    BY <1>3, <1>8
  <2>. QED  BY <1>3, <1>8, <2>1
<1>10. PICK a \in Seq(Answers), r \in Nat : a = ackMap[u] /\ r = shown[u].replies
    BY <1>0 DEF Types
<1>11. /\ ToSet(a \o mine) = ToSet(a) \cup ToSet(mine)
       /\ Len(a) \in Nat /\ DOMAIN a = 1 .. Len(a) /\ Len(mine) \in Nat
       /\ Len(a \o mine) = Len(a) + Len(mine)
       /\ DOMAIN (a \o mine) = 1 .. Len(a) + Len(mine)
       /\ \A i \in 1 .. Len(a) : (a \o mine)[i] = a[i]
       /\ \A i \in 1 .. Len(mine) : (a \o mine)[Len(a) + i] = mine[i]
  <2>1. ToSet(a \o mine) = ToSet(a) \cup ToSet(mine)
    BY ConcatElements
  <2>2. /\ Len(a) \in Nat /\ DOMAIN a = 1 .. Len(a) /\ Len(mine) \in Nat
        /\ Len(a \o mine) = Len(a) + Len(mine)
        /\ DOMAIN (a \o mine) = 1 .. Len(a) + Len(mine)
    OBVIOUS
  <2>3. \A i \in 1 .. Len(a) : (a \o mine)[i] = a[i]
    OBVIOUS
  <2>4. \A i \in 1 .. Len(mine) : (a \o mine)[Len(a) + i] = mine[i]
    OBVIOUS
  <2>. QED  BY <2>1, <2>2, <2>3, <2>4
<1>12. /\ Start(u) = IF \E rep \in ToSet(a) : rep.fin THEN Ended ELSE r + Len(a)
       /\ Start(u)' = IF \E rep \in ToSet(a \o mine) : rep.fin THEN Ended ELSE r + Len(a \o mine)
    BY <1>5, <1>10 DEF Start, Ended
<1>13. \A i \in DOMAIN a : (\A j \in 1 .. i - 1 : ~a[j].fin) => Good(u, a[i], r + i)
    BY <1>8, <1>10 DEF Taken
<1>14. r + Len(a) # Ended
    BY <1>11 DEF Ended
\* The batch brings nothing, or one reply.
<1>15. \/ ToSet(mine) = {} /\ Len(mine) = 0
       \/ \E rep \in Answers : /\ ToSet(mine) = {rep} /\ Len(mine) = 1 /\ mine[1] = rep
                               /\ rep \in ToSet(batch) /\ rep.uid = u
  <2>1. Single(batch)
    BY <1>0, <1>1, <1>3 DEF Told
  <2>2. \A p, q \in ToSet(batch) : p.uid = q.uid => p = q
    BY <2>1 DEF Single, ToSet
  <2>3. IsInjective(batch)
    BY <2>1 DEF Single, IsInjective
  <2>4. IsInjective(mine)
    BY <1>2, <1>4, <2>3, OnlyElements
  <2>5. DOMAIN mine = 1 .. Len(mine) /\ Len(mine) \in Nat
    OBVIOUS
  <2>6. \A i, j \in 1 .. Len(mine) : i = j
    <3>0. \A i \in 1 .. Len(mine) : mine[i] \in ToSet(mine)
      BY <2>5 DEF ToSet
    <3>1. ASSUME NEW i \in 1 .. Len(mine), NEW j \in 1 .. Len(mine) PROVE mine[i] = mine[j]
      <4>1. PICK p, q : p = mine[i] /\ q = mine[j]
        OBVIOUS
      <4>2. p \in ToSet(batch) /\ q \in ToSet(batch) /\ p.uid = u /\ q.uid = u
        BY <1>4, <3>0, <4>1
      <4>3. p = q
        BY <2>2, <4>2
      <4>. QED  BY <4>1, <4>3
    <3>. QED  BY <2>4, <2>5, <3>1 DEF IsInjective
  <2>7. CASE Len(mine) = 0
    BY <2>5, <2>7 DEF ToSet
  <2>8. CASE Len(mine) # 0
    <3>1. 1 \in 1 .. Len(mine) /\ Len(mine) \in 1 .. Len(mine)
      BY <2>5, <2>8
    <3>2. Len(mine) = 1
      BY <2>6, <3>1
    <3>3. ToSet(mine) = {mine[1]}
      BY <2>5, <3>2 DEF ToSet
    <3>4. mine[1] \in Answers /\ mine[1] \in ToSet(batch) /\ mine[1].uid = u
      <4>1. mine[1] \in Answers
        BY <2>5, <3>1
      <4>2. mine[1] \in ToSet(mine)
        BY <3>3
      <4>. QED  BY <1>4, <4>1, <4>2
    <3>. QED  BY <3>2, <3>3, <3>4
  <2>. QED  BY <2>7, <2>8
<1>16. Taken(u)' /\ Start(u)' = y
  <2>. SUFFICES /\ \A i \in DOMAIN (a \o mine) :
                      (\A j \in 1 .. i - 1 : ~(a \o mine)[j].fin) =>
                          Good(u, (a \o mine)[i], r + i)
                /\ Start(u)' = y
    BY <1>5, <1>10 DEF Taken, Good
  <2>1. CASE ToSet(mine) = {} /\ Len(mine) = 0
    <3>1. Start(u)' = Start(u)
      BY <1>11, <1>12, <2>1
    <3>2. ~Names(u, batch)
      BY <1>4, <2>1 DEF Names
    <3>3. y = x
      BY <1>9, <3>2 DEF Follows, Names
    <3>4. \A i \in 1 .. Len(a) + Len(mine) : i \in DOMAIN a /\ (a \o mine)[i] = a[i]
      BY <1>11, <2>1
    <3>5. ASSUME NEW i \in DOMAIN (a \o mine), \A j \in 1 .. i - 1 : ~(a \o mine)[j].fin
          PROVE  Good(u, (a \o mine)[i], r + i)
      <4>1. i \in DOMAIN a /\ (a \o mine)[i] = a[i]
        BY <1>11, <3>4
      <4>2. \A j \in 1 .. i - 1 : ~a[j].fin
        BY <1>11, <3>5, <4>1
      <4>. QED  BY <1>13, <4>1, <4>2
    <3>. QED  BY <1>9, <3>1, <3>3, <3>5
  <2>2. ASSUME NEW rep \in Answers, ToSet(mine) = {rep}, Len(mine) = 1, mine[1] = rep,
               rep \in ToSet(batch), rep.uid = u
        PROVE  /\ \A i \in DOMAIN (a \o mine) :
                     (\A j \in 1 .. i - 1 : ~(a \o mine)[j].fin) =>
                         Good(u, (a \o mine)[i], r + i)
               /\ Start(u)' = y
    <3>1. Names(u, batch) /\ \A p \in ToSet(batch) : p.uid = u => p = rep
      BY <1>4, <2>2 DEF Names
    <3>2. \/ x = Ended /\ y = Ended
          \/ x # Ended /\ Good(u, rep, x + 1) /\ y = IF rep.fin THEN Ended ELSE x + 1
      BY <1>9, <3>1 DEF Follows
    <3>3. (a \o mine)[Len(a) + 1] = rep /\ DOMAIN (a \o mine) = 1 .. Len(a) + 1
      BY <1>11, <2>2
    <3>4. CASE \E p \in ToSet(a) : p.fin
      <4>1. x = Ended /\ y = Ended
        BY <1>9, <1>12, <3>2, <3>4
      <4>2. Start(u)' = Ended
        BY <1>11, <1>12, <3>4
      <4>3. PICK k \in 1 .. Len(a) : a[k].fin
        BY <1>11, <3>4 DEF ToSet
      <4>4. ASSUME NEW i \in DOMAIN (a \o mine), \A j \in 1 .. i - 1 : ~(a \o mine)[j].fin
            PROVE  Good(u, (a \o mine)[i], r + i)
        <5>1. k \notin 1 .. i - 1
          BY <1>11, <4>3, <4>4
        <5>2. i \in DOMAIN a /\ (a \o mine)[i] = a[i]
          BY <1>11, <3>3, <4>3, <5>1
        <5>3. \A j \in 1 .. i - 1 : ~a[j].fin
          BY <1>11, <4>4, <5>2
        <5>. QED  BY <1>13, <5>2, <5>3
      <4>. QED  BY <4>1, <4>2, <4>4
    <3>5. CASE ~\E p \in ToSet(a) : p.fin
      <4>1. x = r + Len(a) /\ Good(u, rep, x + 1) /\ y = IF rep.fin THEN Ended ELSE x + 1
        BY <1>9, <1>12, <1>14, <3>2, <3>5
      <4>2. Start(u)' = y
        BY <1>11, <1>12, <2>2, <3>5, <4>1
      <4>3. ASSUME NEW i \in DOMAIN (a \o mine), \A j \in 1 .. i - 1 : ~(a \o mine)[j].fin
            PROVE  Good(u, (a \o mine)[i], r + i)
        <5>1. CASE i = Len(a) + 1
          <6>1. r + i = x + 1 /\ (a \o mine)[i] = rep
            BY <1>11, <3>3, <4>1, <5>1
          <6>. QED  BY <4>1, <6>1
        <5>2. CASE i # Len(a) + 1
          <6>1. i \in DOMAIN a /\ (a \o mine)[i] = a[i]
            BY <1>11, <3>3, <5>2
          <6>2. \A j \in 1 .. i - 1 : ~a[j].fin
            BY <1>11, <4>3, <6>1
          <6>. QED  BY <1>13, <6>1, <6>2
        <5>. QED  BY <5>1, <5>2
      <4>. QED  BY <4>2, <4>3
    <3>. QED  BY <3>4, <3>5
  <2>. QED  BY <1>15, <2>1, <2>2
<1>17. PICK g : g = [i \in 0 .. n - 1 |-> f[i + 1]]
    OBVIOUS
<1>18. Numbers(u, g)'
  <2>1. /\ g \in [0 .. n - 1 -> Int] /\ g[0] = y /\ g[n - 1] = f[n]
        /\ \A i \in 0 .. n - 1 : g[i] = f[i + 1]
    <3>0. \A i \in 0 .. n - 1 : i + 1 \in 0 .. n
      BY <1>n
    <3>1. \A i \in 0 .. n - 1 : f[i + 1] \in Int
      BY <1>8, <3>0
    <3>2. g \in [0 .. n - 1 -> Int]
      BY <1>17, <3>1
    <3>3. \A i \in 0 .. n - 1 : g[i] = f[i + 1]
      BY <1>17
    <3>4. 0 \in 0 .. n - 1 /\ n - 1 \in 0 .. n - 1 /\ 0 + 1 = 1 /\ (n - 1) + 1 = n
      BY <1>n
    <3>5. g[0] = f[0 + 1] /\ g[n - 1] = f[(n - 1) + 1]
      BY <3>3, <3>4
    <3>6. g[0] = y /\ g[n - 1] = f[n]
      BY <1>9, <3>4, <3>5
    <3>. QED  BY <3>2, <3>3, <3>6
  <2>2. \A i \in 1 .. n - 1 : Follows(u, g[i - 1], Tail(s)[i], g[i])'
    <3>1. ASSUME NEW i \in 1 .. n - 1 PROVE Follows(u, g[i - 1], Tail(s)[i], g[i])'
      <4>1. PICK p, b, z : p = g[i - 1] /\ b = Tail(s)[i] /\ z = g[i]
        OBVIOUS
      <4>2. i + 1 \in 1 .. n /\ p = f[(i + 1) - 1] /\ b = s[i + 1] /\ z = f[i + 1]
        <5>1. /\ i + 1 \in 1 .. n /\ i - 1 \in 0 .. n - 1 /\ i \in 0 .. n - 1
              /\ (i - 1) + 1 = i /\ (i + 1) - 1 = i
          BY <1>n
        <5>2. p = f[(i - 1) + 1] /\ z = f[i + 1]
          BY <2>1, <4>1, <5>1
        <5>. QED  BY <1>3, <4>1, <5>1, <5>2
      <4>3. Follows(u, f[(i + 1) - 1], s[i + 1], f[i + 1])
        BY <1>8, <4>2
      <4>4. Follows(u, p, b, z)
        BY <4>2, <4>3
      <4>5. Follows(u, p, b, z)'
        BY <1>5, <4>4, GoodKept
      <4>. QED  BY <4>1, <4>5
    <3>. QED  BY <3>1
  <2>3. AtHand(u)' <=> AtHand(u)
    BY <1>5 DEF AtHand, Asked
  <2>4. Ended' = Ended
    BY DEF Ended
  <2>. QED  BY <1>3, <1>5, <1>8, <1>16, <2>1, <2>2, <2>3, <2>4 DEF Numbers
<1>. QED  BY <1>16, <1>18

LEMMA TokenizeStreams ==
    ASSUME Streams, Tokenizers = {}, NEW u \in Uids, Tokenize(D)
    PROVE  Shows(u)' /\ InOrder(u)'
<1>0. Types /\ Placed(u)
    BY DEF Streams, Structure
<1>1. /\ toWorker[D] # << >> /\ toWorker' = [toWorker EXCEPT ![D] = Tail(@)]
      /\ UNCHANGED <<kind, client, ackMap, shown, decoded>>
      /\ Head(toWorker[D]).type = "tokenize"
    BY DEF Tokenize, frontVars, workerVars
<1>2. PICK v \in Uids : Head(toWorker[D]) = Message("tokenize", v) /\ Head(toWorker[D]).uid = v
    BY <1>0, <1>1, WorkerTakes DEF Mail, Message
<1>3. toWorker[D] \in Seq(Mail) /\ toWorker'[D] = Tail(toWorker[D])
    BY <1>0, <1>1, RoutersAre DEF Types, D
<1>4. u # v /\ (\E i : Asked(u, i)) => \E i : Asked(u, i)'
  <2>1. ASSUME u # v, NEW i, Asked(u, i) PROVE \E j : Asked(u, j)'
    <3>1. i # 1
      BY <1>1, <1>2, <1>3, <2>1, AtTail, MessagesDiffer DEF Asked
    <3>2. At(Tail(toWorker[D]), Message("tokenize", u), i - 1)
      BY <1>1, <1>3, <2>1, <3>1, AtTail DEF Asked
    <3>3. PICK j : j = i - 1
      OBVIOUS
    <3>4. Asked(u, j)'
      BY <1>3, <3>2, <3>3 DEF Asked
    <3>. QED  BY <3>4
  <2>. QED  BY <2>1
<1>5. CASE /\ toFrontend' = [toFrontend EXCEPT ![D] = Append(@, <<Reply(v, 0, TRUE, FALSE, "error")>>)]
           /\ UNCHANGED <<prompts, stops>>
  <2>1. PICK rep \in Answers : /\ rep = Reply(v, 0, TRUE, FALSE, "error") /\ rep.uid = v
                               /\ rep.count = 0 /\ rep.fin /\ rep.text = "error"
    <3>1. Reply(v, 0, TRUE, FALSE, "error") \in Answers
      BY DEF Reply, Answers, Texts
    <3>2. /\ Reply(v, 0, TRUE, FALSE, "error").uid = v /\ Reply(v, 0, TRUE, FALSE, "error").count = 0
          /\ Reply(v, 0, TRUE, FALSE, "error").fin
          /\ Reply(v, 0, TRUE, FALSE, "error").text = "error"
      BY DEF Reply
    <3>. QED  BY <3>1, <3>2
  <2>2. PICK b \in Seq(Answers) : b = <<rep>> /\ ToSet(b) = {rep}
    BY OneElement
  <2>3. toFrontend'[D] = Append(toFrontend[D], b)
    BY <1>0, <1>5, <2>1, <2>2, RoutersAre DEF Types, D
  <2>4. ASSUME NEW x \in Int, x # Ended => x = decoded[u] /\ AtHand(u)
        PROVE  \E y \in Int : /\ Follows(u, x, b, y)
                              /\ y # Ended => y = decoded'[u] /\ AtHand(u)'
    <3>1. CASE u = v
      <4>1. Asked(u, 1)
        BY <1>0, <1>1, <1>2, <3>1, WorkerTakes
      <4>2. decoded[u] = 0
        BY <1>0, <4>1 DEF Placed, AskedOnce
      <4>3. ASSUME x # Ended PROVE Good(u, rep, x + 1)
        <5>1. x = 0
          BY <2>4, <4>2, <4>3
        <5>2. rep.fin /\ rep.text = "error" /\ rep.count = 0
          BY <2>1, Zenon
        <5>3. rep.text \in {"eos", "error"} /\ 0 = (x + 1) - 1
          BY <5>1, <5>2
        <5>. QED  BY <5>2, <5>3 DEF Good
      <4>4. Follows(u, x, b, Ended)
        BY <2>1, <2>2, <3>1, <4>3 DEF Follows
      <4>5. Ended \in Int
        BY DEF Ended
      <4>. QED  BY <4>4, <4>5
    <3>2. CASE u # v
      <4>1. ~Names(u, b)
        BY <2>1, <2>2, <3>2 DEF Names
      <4>2. Follows(u, x, b, x)
        BY <4>1 DEF Follows
      <4>3. AtHand(u) => AtHand(u)'
        BY <1>1, <1>4, <1>5, <3>2 DEF AtHand
      <4>. QED  BY <1>1, <2>4, <4>2, <4>3
    <3>. QED  BY <3>1, <3>2
  <2>. QED  BY <1>1, <2>3, <2>4, StreamsExtended
<1>6. CASE /\ kind[v] # "image" /\ toFrontend' = toFrontend
           /\ prompts' = [prompts EXCEPT ![D] = @ \cup {v}]
           /\ stops' = IF kind[v] = "stop" THEN [stops EXCEPT ![D] = @ \cup {v}] ELSE stops
  <2>1. /\ prompts[D] \subseteq prompts'[D] /\ stops[D] \subseteq stops'[D]
        /\ v \in prompts'[D] /\ (kind[v] = "stop" => v \in stops'[D])
    BY <1>0, <1>6, RoutersAre DEF Types, D
  <2>2. AtHand(u) => AtHand(u)'
    BY <1>1, <1>4, <2>1 DEF AtHand
  <2>. QED  BY <1>1, <1>6, <2>2, StreamsKept
<1>. QED  BY <1>2, <1>5, <1>6 DEF Tokenize, D

LEMMA DetokenizeStreams ==
    ASSUME Streams, NEW u \in Uids, NEW r \in Replicas, Detokenize(r)
    PROVE  Shows(u)' /\ InOrder(u)'
<1>0. Types /\ Placed(u) /\ Told
    BY DEF Streams, Structure
<1>1. PICK batch, replies, us :
         /\ toWorkerBack[r] \in Seq(Seq(Pieces)) /\ toWorkerBack[r] # << >>
         /\ batch = Head(toWorkerBack[r]) /\ batch \in Seq(Pieces) /\ ToSet(batch) \subseteq Pieces
         /\ replies \in Seq(Answers) /\ ToSet(replies) = {ReplyTo(m) : m \in ToSet(batch)}
         /\ toFrontend' = [toFrontend EXCEPT ![D] = Append(@, replies)]
    BY <1>0, DetokenizeTypes, Zenon DEF D
<1>2. UNCHANGED <<kind, client, ackMap, shown, toWorker>>
    BY DEF Detokenize, frontVars
<1>3. batch \in ToSet(toWorkerBack[r])
    BY <1>1, Received
<1>4. Single(batch) /\ \A m \in ToSet(batch) : Piece(m)
    BY <1>0, <1>3 DEF Told
<1>5. toFrontend'[D] = Append(toFrontend[D], replies)
    BY <1>0, <1>1, RoutersAre DEF Types, D
<1>6. PICK over : over = { m.uid : m \in { b \in ToSet(batch) : Ends(b) } }
    OBVIOUS
<1>7. /\ decoded'[u] = IF u \in over THEN 0
                       ELSE decoded[u] + Cardinality({ i \in DOMAIN batch : batch[i].uid = u })
      /\ prompts' = [prompts EXCEPT ![D] = @ \ over]
      /\ stops' = [stops EXCEPT ![D] = @ \ over]
    BY <1>1, <1>6 DEF Detokenize, D
<1>8. u \notin over /\ AtHand(u) => AtHand(u)'
  <2>1. prompts'[D] = prompts[D] \ over /\ stops'[D] = stops[D] \ over
    BY <1>0, <1>7, RoutersAre DEF Types, D
  <2>. QED  BY <1>2, <2>1 DEF AtHand, Asked
<1>9. ASSUME NEW x \in Int, x # Ended => x = decoded[u] /\ AtHand(u)
      PROVE  \E y \in Int : /\ Follows(u, x, replies, y)
                            /\ y # Ended => y = decoded'[u] /\ AtHand(u)'
  <2>1. CASE x = Ended
    BY <2>1 DEF Follows
  <2>2. CASE x # Ended /\ ~Names(u, batch)
    <3>1. u \notin over
      BY <1>6, <2>2 DEF Names
    <3>2. { i \in DOMAIN batch : batch[i].uid = u } = {}
      BY <2>2 DEF Names, ToSet
    <3>3. decoded'[u] = decoded[u] + 0
      BY <1>7, <3>1, <3>2, FS_EmptySet
    <3>4. decoded'[u] = decoded[u]
      BY <1>0, <3>3 DEF Types
    <3>5. ~Names(u, replies)
      <4>1. \A m \in ToSet(batch) : ReplyTo(m).uid = m.uid
        BY <1>0, <1>1, ReplyToTypes
      <4>. QED  BY <1>1, <2>2, <4>1 DEF Names
    <3>6. Follows(u, x, replies, x)
      BY <2>2, <3>5 DEF Follows
    <3>. QED  BY <1>8, <1>9, <2>2, <3>1, <3>4, <3>6
  <2>3. CASE x # Ended /\ Names(u, batch)
    <3>1. PICK k \in DOMAIN batch : batch[k].uid = u
      BY <2>3 DEF Names, ToSet
    <3>2. PICK m \in ToSet(batch) : m = batch[k] /\ m \in Pieces /\ m.uid = u
      BY <1>1, <3>1 DEF ToSet
    <3>3. \A i \in DOMAIN batch : batch[i].uid = u => i = k
      BY <1>4, <3>1 DEF Single
    <3>4. Working(u, r)
      BY <1>3, <2>3 DEF Working, Sent
    <3>5. \A i : ~Asked(u, i)
      BY <1>0, <3>4 DEF Placed, AskedOnce
    <3>6. u \in prompts[D] /\ (kind[u] = "stop" => u \in stops[D]) /\ x = decoded[u]
      BY <1>9, <2>3, <3>5 DEF AtHand
    <3>7. PICK rep \in Answers :
             /\ rep = ReplyTo(m) /\ rep.uid = u /\ rep \in ToSet(replies)
             /\ rep.fin <=> Ends(m)
             /\ rep.count = decoded[u] + (IF m.token \in {"eos", "error"} THEN 0 ELSE 1)
             /\ rep.known
             /\ rep.text = IF StopHit(m) THEN "cut" ELSE m.token
      <4>1. /\ ReplyTo(m) \in Answers /\ ReplyTo(m).uid = m.uid
            /\ ReplyTo(m).fin <=> Ends(m)
            /\ ReplyTo(m).count = decoded[m.uid] + (IF m.token \in {"eos", "error"} THEN 0 ELSE 1)
            /\ ReplyTo(m).known <=> m.uid \in prompts[Detokenizer]
            /\ ReplyTo(m).text = IF StopHit(m) THEN "cut" ELSE m.token
        BY <1>0, <3>2, ReplyToTypes
      <4>2. ReplyTo(m) \in ToSet(replies)
        BY <1>1
      <4>. QED  BY <3>2, <3>6, <4>1, <4>2 DEF D
    <3>8. /\ m.token \in {"eos", "error"} => m.fin
          /\ m.token = "stop" => kind[u] = "stop"
          /\ StopHit(m) <=> m.token = "stop"
          /\ m.token \in {"eos", "text", "stop", "error"}
      BY <1>4, <3>2, <3>6 DEF Piece, StopHit, D, Pieces
    <3>9. Good(u, rep, x + 1)
      <4>1. rep.count = (x + 1) - (IF rep.fin /\ rep.text \in {"eos", "error"} THEN 1 ELSE 0)
        <5>1. x \in Int
          OBVIOUS
        <5>2. CASE m.token \in {"eos", "error"}
          <6>1. rep.fin /\ rep.text \in {"eos", "error"}
            BY <3>7, <3>8, <5>2 DEF Ends
          <6>2. rep.count = x + 0
            BY <3>6, <3>7, <5>2
          <6>. QED  BY <5>1, <6>1, <6>2
        <5>3. CASE m.token \notin {"eos", "error"}
          <6>1. rep.text \notin {"eos", "error"}
            BY <3>7, <3>8, <5>3
          <6>2. rep.count = x + 1
            BY <3>6, <3>7, <5>3
          <6>. QED  BY <5>1, <6>1, <6>2
        <5>. QED  BY <5>2, <5>3
      <4>2. ~(kind[u] = "stop" /\ rep.text = "stop")
        BY <3>7, <3>8
      <4>. QED  BY <3>7, <4>1, <4>2 DEF Good
    <3>10. u \in over <=> rep.fin
      <4>1. \A b \in ToSet(batch) : b.uid = u => b = m
        BY <3>2, <3>3 DEF ToSet
      <4>. QED  BY <1>6, <3>2, <3>7, <4>1
    <3>11. CASE rep.fin
      <4>1. Follows(u, x, replies, Ended) /\ Ended \in Int
        BY <2>3, <3>7, <3>9, <3>11 DEF Follows, Ended
      <4>. QED  BY <4>1
    <3>12. CASE ~rep.fin
      <4>1. Follows(u, x, replies, x + 1)
        BY <2>3, <3>7, <3>9, <3>12 DEF Follows
      <4>2. { i \in DOMAIN batch : batch[i].uid = u } = {k}
        BY <3>1, <3>3
      <4>3. Cardinality({k}) = 1
        BY FS_Singleton
      <4>4. decoded'[u] = x + 1
        BY <1>7, <3>6, <3>10, <3>12, <4>2, <4>3
      <4>5. AtHand(u)'
        BY <1>8, <1>9, <2>3, <3>10, <3>12
      <4>. QED  BY <4>1, <4>4, <4>5
    <3>. QED  BY <3>11, <3>12
  <2>. QED  BY <2>1, <2>2, <2>3
<1>10. replies \in Seq(Answers)
    BY <1>1
<1>. QED  BY <1>2, <1>5, <1>9, <1>10, StreamsExtended

LEMMA StreamsStep ==
    ASSUME Tokenizers = {}
    PROVE  Streams /\ [Next]_vars => Streams'
<1>. SUFFICES ASSUME Streams, [Next]_vars PROVE Streams'
    OBVIOUS
<1>1. Structure' /\ Recorded'
    BY StructureStep, RecordedStep DEF Streams, Structure
<1>2. ASSUME NEW u \in Uids PROVE Shows(u)' /\ InOrder(u)'
  <2>1. CASE UNCHANGED vars
    BY <2>1, QuietStreams
  <2>2. ASSUME NEW v \in Uids, Submit(v) \/ Disconnect(v) \/ Frontend(v)
        PROVE  Shows(u)' /\ InOrder(u)'
    BY <2>2, QuietStreams, SubmitStreams, DisconnectStreams, TakeReplyStreams DEF Frontend
  <2>3. ASSUME NEW w \in Workers, Tokenize(w) \/ ForwardAbort(w) \/ Listen(w)
        PROVE  Shows(u)' /\ InOrder(u)'
    <3>1. w = D
      BY OneWorker
    <3>. QED  BY <2>3, <3>1, QuietStreams, TokenizeStreams, ListenStreams
  <2>4. ASSUME NEW r \in Replicas,
               Detokenize(r) \/ Iterate(r) \/ \E w \in Workers : Receive(r, w)
        PROVE  Shows(u)' /\ InOrder(u)'
    <3>1. \A w \in Workers : w = D
      BY OneWorker
    <3>. QED  BY <2>4, <3>1, QuietStreams, DetokenizeStreams
  <2>. QED  BY <2>1, <2>2, <2>3, <2>4 DEF Next
<1>. QED  BY <1>1, <1>2 DEF Streams

\* With the default single worker every client is shown one stream, whatever
\* the interleaving of processes, batches, stop strings and disconnects: the
\* count grows by one with every reply up to the last one, nothing follows that
\* one, and no text is shown from a stop string on.
THEOREM ClientsSeeOneStream ==
    ASSUME Tokenizers = {}
    PROVE  Spec => []OneStreamPerClient
<1>1. Init => Streams
  <2>. SUFFICES ASSUME Init PROVE Streams
    OBVIOUS
  <2>1. Recorded
    BY DEF Init, Recorded
  <2>2. \A u \in Uids : client[u] = "new" /\ shown[u] = NoneShown
    BY DEF Init
  <2>3. \A u \in Uids : Shows(u) /\ InOrder(u)
    <3>1. /\ ~NoneShown.last.fin /\ NoneShown.last.count = 0 /\ NoneShown.replies = 0
          /\ NoneShown.last.known /\ NoneShown.last.text = "text"
      BY DEF NoneShown, Reply
    <3>. QED  BY <2>2, <3>1 DEF Shows, InOrder, Good
  <2>. QED  BY <2>1, <2>3, InitStructure DEF Streams
<1>2. Streams => OneStreamPerClient
    BY DEF Streams, Shows, Good, OneStreamPerClient
<1>3. Streams /\ [Next]_vars => Streams'
    BY StreamsStep
<1>. QED  BY <1>1, <1>2, <1>3, PTL DEF Spec
=============================================================================
