------------------------ MODULE InterRankLink_proofs ------------------------
(***************************************************************************)
(* The handshake of scheduler/io.py does its work with two tensor-parallel *)
(* ranks: no request is published before the other rank is subscribed,     *)
(* whatever is sent and however far the broadcasts run ahead.  With more   *)
(* ranks the same argument covers rank 1 alone: only what rank 1 saw is    *)
(* broadcast.                                                              *)
(*                                                                         *)
(* LinkIsLive is not inductive.  Rank 0 leaves the handshake because a     *)
(* broadcast said TRUE; that a TRUE is under way only when rank 1 saw a    *)
(* marker, and that a socket holds a marker only when its rank is          *)
(* subscribed, is what the invariant Handshake adds.                       *)
(*                                                                         *)
(* BatchesAgree is not inductive either: Batches adds where, between the   *)
(* publication and the dispatch, each message and each count is.           *)
(***************************************************************************)
EXTENDS InterRankLink, SequenceTheorems, TLAPS

\* What is in a socket came after the subscription.
HeldIsSubscribed ==
    \A r \in Ranks : channel[r] # << >> => r \in subscribed

\* Who saw a marker is subscribed, and is one of the ranks.
SeenIsSubscribed == seen \subseteq subscribed /\ subscribed \subseteq Ranks

\* A TRUE on its way to rank 0 is a marker rank 1 saw.
AckIsSeen ==
    \A i \in 1..Len(acks[0]) : acks[0][i] = TRUE => 1 \in seen

\* Rank 0 leaves the handshake after rank 1 saw a marker.
LeftIsSeen == pc[0] \in {"end", "serve", "fanout"} => 1 \in seen

\* What of the types the handshake rests on.
HandshakeType ==
    /\ pc \in [AllRanks -> Labels]
    /\ channel \in [Ranks -> Seq(Messages \cup {"sync", "end"})]
    /\ acks \in [AllRanks \ {1} -> Seq(BOOLEAN)]
    /\ ingress \in Seq(Messages)
    /\ fanout \in Seq(Messages)
    /\ pc[0] = "fanout" => fanout # << >>

Handshake ==
    HandshakeType /\ HeldIsSubscribed /\ SeenIsSubscribed /\ AckIsSeen /\ LeftIsSeen

LEMMA RankFacts == 0 \in AllRanks /\ 1 \in Ranks /\ 0 \notin Ranks /\ 0 \in AllRanks \ {1}
BY LinkAssumption DEF AllRanks

\* Publishing reaches the sockets of subscribed ranks only.
LEMMA PublishHeld ==
    ASSUME Handshake, NEW m \in Messages \cup {"sync", "end"}, Publish(m),
           subscribed' = subscribed
    PROVE  /\ channel' \in [Ranks -> Seq(Messages \cup {"sync", "end"})]
           /\ HeldIsSubscribed'
<1> USE DEF Handshake, HandshakeType, HeldIsSubscribed, Publish
<1>1. \A r \in Ranks : Append(channel[r], m) \in Seq(Messages \cup {"sync", "end"})
    OBVIOUS
<1>2. QED BY <1>1

LEMMA InitHandshake == Init => Handshake
<1> SUFFICES ASSUME Init PROVE Handshake OBVIOUS
<1> USE DEF Init
<1>1. HandshakeType BY RankFacts DEF HandshakeType, Labels
<1>2. HeldIsSubscribed BY DEF HeldIsSubscribed
<1>3. SeenIsSubscribed BY DEF SeenIsSubscribed
<1>4. AckIsSeen
    <2>1. acks[0] = << >> BY RankFacts
    <2>2. QED BY <2>1 DEF AckIsSeen
<1>5. LeftIsSeen BY RankFacts DEF LeftIsSeen
<1>6. QED BY <1>1, <1>2, <1>3, <1>4, <1>5 DEF Handshake

\* Every step keeps it: one case per action.
LEMMA HandshakeStep == ASSUME Handshake, [Next]_vars PROVE Handshake'
<1> USE RankFacts
<1> DEFINE Held == Messages \cup {"sync", "end"}
<1>1. CASE UNCHANGED vars
    BY <1>1 DEF vars, Handshake, HandshakeType, HeldIsSubscribed, SeenIsSubscribed,
                AckIsSeen, LeftIsSeen
<1>2. CASE PublishSync
    <2>1. channel' \in [Ranks -> Seq(Held)] /\ HeldIsSubscribed'
        BY <1>2, PublishHeld DEF PublishSync
    <2>2. pc' \in [AllRanks -> Labels] /\ pc'[0] = "ack"
        BY <1>2 DEF PublishSync, Goto, Labels, Handshake, HandshakeType
    <2>3. QED BY <1>2, <2>1, <2>2 DEF PublishSync, Handshake, HandshakeType,
                  SeenIsSubscribed, AckIsSeen, LeftIsSeen
<1>3. CASE PublishEnd
    <2>1. channel' \in [Ranks -> Seq(Held)] /\ HeldIsSubscribed'
        BY <1>3, PublishHeld DEF PublishEnd
    <2>2. pc' \in [AllRanks -> Labels] /\ pc'[0] = "serve"
        BY <1>3 DEF PublishEnd, Goto, Labels, Handshake, HandshakeType
    <2>3. QED BY <1>3, <2>1, <2>2 DEF PublishEnd, Handshake, HandshakeType,
                  SeenIsSubscribed, AckIsSeen, LeftIsSeen
<1>4. CASE Collect
    <2>1. << >> \in Seq(Messages) OBVIOUS
    <2>2. /\ pc' \in [AllRanks -> Labels] /\ pc'[0] \in {"serve", "fanout"}
          /\ pc'[0] = "fanout" => fanout' # << >>
        BY <1>4 DEF Collect, Goto, Labels, Handshake, HandshakeType
    <2>3. ingress' \in Seq(Messages) /\ fanout' \in Seq(Messages)
        BY <1>4, <2>1 DEF Collect, Handshake, HandshakeType
    <2>4. UNCHANGED <<subscribed, channel, seen, acks>> /\ pc[0] = "serve"
        BY <1>4 DEF Collect
    <2>5. QED BY <2>2, <2>3, <2>4 DEF Handshake, HandshakeType, HeldIsSubscribed,
                  SeenIsSubscribed, AckIsSeen, LeftIsSeen
<1>5. CASE FanOut
    <2>1. fanout \in Seq(Messages) /\ fanout # << >>
        BY <1>5 DEF FanOut, Handshake, HandshakeType
    <2>2. Head(fanout) \in Messages /\ Tail(fanout) \in Seq(Messages)
          /\ (Tail(fanout) = << >> => Len(fanout) = 1)
        <3>1. Len(Tail(fanout)) = Len(fanout) - 1 /\ Len(fanout) \in Nat
            BY <2>1, HeadTailProperties
        <3>2. ASSUME Tail(fanout) = << >> PROVE Len(fanout) = 1
            <4>1. Len(Tail(fanout)) = Len(<< >>) BY <3>2
            <4>2. Len(<< >>) = 0 OBVIOUS
            <4>3. QED BY <4>1, <4>2, <3>1
        <3>3. QED BY <2>1, <3>2, HeadTailProperties
    <2>3. channel' \in [Ranks -> Seq(Held)] /\ HeldIsSubscribed'
        BY <1>5, <2>2, PublishHeld DEF FanOut
    <2>4. /\ pc' \in [AllRanks -> Labels] /\ pc'[0] \in {"serve", "fanout"}
          /\ pc'[0] = "fanout" => fanout' # << >>
        BY <1>5, <2>2 DEF FanOut, Goto, Labels, Handshake, HandshakeType
    <2>5. UNCHANGED <<subscribed, seen, acks, ingress>> /\ pc[0] = "fanout"
          /\ fanout' = Tail(fanout)
        BY <1>5 DEF FanOut
    <2>6. QED BY <2>2, <2>3, <2>4, <2>5 DEF Handshake, HandshakeType,
                  SeenIsSubscribed, AckIsSeen, LeftIsSeen
<1>6. ASSUME NEW r \in Ranks, Subscribe(r) PROVE Handshake'
    BY <1>6 DEF Subscribe, Handshake, HandshakeType, HeldIsSubscribed,
                SeenIsSubscribed, AckIsSeen, LeftIsSeen
<1>7. ASSUME NEW m \in Messages, Send(m) PROVE Handshake'
    <2>1. ingress' \in Seq(Messages) BY <1>7 DEF Send, Handshake, HandshakeType
    <2>2. QED BY <1>7, <2>1 DEF Send, Handshake, HandshakeType, HeldIsSubscribed,
                  SeenIsSubscribed, AckIsSeen, LeftIsSeen
<1>8. ASSUME NEW r \in Ranks, Poll(r) PROVE Handshake'
    <2>1. << >> \in Seq(Held) OBVIOUS
    <2>2. channel' \in [Ranks -> Seq(Held)] /\ HeldIsSubscribed'
        BY <1>8, <2>1 DEF Poll, Handshake, HandshakeType, HeldIsSubscribed
    <2>3. /\ seen \subseteq seen' /\ SeenIsSubscribed'
          /\ SawSync(r) => r \in seen'
        <3>1. SawSync(r) => r \in subscribed
            BY DEF SawSync, ToSet, Handshake, HandshakeType, HeldIsSubscribed, SeenIsSubscribed
        <3>2. QED BY <1>8, <3>1 DEF Poll, Handshake, SeenIsSubscribed
    <2>4. pc' \in [AllRanks -> Labels] /\ pc'[0] = pc[0]
        BY <1>8 DEF Poll, Goto, AfterSync, AllRanks, Labels, Handshake, HandshakeType
    <2>5. acks' \in [AllRanks \ {1} -> Seq(BOOLEAN)] /\ AckIsSeen'
        <3>1. CASE r # 1
            BY <1>8, <3>1, <2>3 DEF Poll, Handshake, HandshakeType, AckIsSeen
        <3>2. CASE r = 1
            <4>1. SawSync(1) \in BOOLEAN BY DEF SawSync
            <4>2. \A q \in AllRanks \ {1} : Append(acks[q], SawSync(1)) \in Seq(BOOLEAN)
                BY <4>1 DEF Handshake, HandshakeType
            <4>3. acks' = [q \in AllRanks \ {1} |-> Append(acks[q], SawSync(1))]
                BY <1>8, <3>2 DEF Poll, Handshake, HandshakeType
            <4>4. CASE SawSync(1)
                BY <4>2, <4>3, <4>4, <3>2, <2>3 DEF AckIsSeen
            <4>5. CASE ~SawSync(1)
                <5>1. acks'[0] = Append(acks[0], FALSE) BY <4>1, <4>3, <4>5
                <5>2. \A i \in 1..Len(acks'[0]) :
                        acks'[0][i] = TRUE => i \in 1..Len(acks[0]) /\ acks[0][i] = TRUE
                    BY <5>1 DEF Handshake, HandshakeType
                <5>3. QED BY <4>2, <4>3, <5>2, <2>3 DEF AckIsSeen, Handshake
            <4>6. QED BY <4>4, <4>5
        <3>3. QED BY <3>1, <3>2
    <2>6. UNCHANGED <<ingress, subscribed, fanout>> BY <1>8 DEF Poll
    <2>7. QED BY <2>2, <2>3, <2>4, <2>5, <2>6 DEF Handshake, HandshakeType, LeftIsSeen
<1>9. ASSUME NEW r \in AllRanks, ReceiveAck(r) PROVE Handshake'
    <2>1. r \in AllRanks \ {1} /\ acks[r] \in Seq(BOOLEAN) /\ acks[r] # << >>
        BY <1>9 DEF ReceiveAck, Handshake, HandshakeType
    <2>2. Tail(acks[r]) \in Seq(BOOLEAN) /\ Len(Tail(acks[r])) = Len(acks[r]) - 1
          /\ \A i \in 1..Len(Tail(acks[r])) : Tail(acks[r])[i] = acks[r][i + 1]
        BY <2>1, HeadTailProperties
    <2>3. acks' = [acks EXCEPT ![r] = Tail(@)]
          /\ UNCHANGED <<ingress, subscribed, channel, seen, fanout>>
        BY <1>9 DEF ReceiveAck
    <2>4. acks' \in [AllRanks \ {1} -> Seq(BOOLEAN)]
        BY <2>1, <2>2, <2>3 DEF Handshake, HandshakeType
    <2>5. AckIsSeen'
        <3>1. CASE r = 0
            <4>1. acks'[0] = Tail(acks[0]) BY <2>3, <3>1 DEF Handshake, HandshakeType
            <4>2. \A i \in 1..Len(acks'[0]) :
                    i + 1 \in 1..Len(acks[0]) /\ acks'[0][i] = acks[0][i + 1]
                BY <2>2, <2>1, <3>1, <4>1
            <4>3. QED BY <4>2, <2>3 DEF AckIsSeen, Handshake
        <3>2. CASE r # 0
            BY <2>3, <3>2 DEF AckIsSeen, Handshake, HandshakeType
        <3>3. QED BY <3>1, <3>2
    <2>6. r = 0 /\ Head(acks[0]) => 1 \in seen
        <3>1. r = 0 => Head(acks[0]) = acks[0][1] /\ 1 \in 1..Len(acks[0])
            BY <2>1, EmptySeq
        <3>2. r = 0 => acks[0][1] \in BOOLEAN BY <2>1, <3>1
        <3>3. QED BY <3>1, <3>2 DEF AckIsSeen, Handshake
    <2>7. pc' \in [AllRanks -> Labels] /\ LeftIsSeen' /\ (pc'[0] = "fanout" => fanout' # << >>)
        BY <1>9, <2>3, <2>6 DEF ReceiveAck, Goto, AfterSync, Labels, LeftIsSeen,
                                Handshake, HandshakeType
    <2>8. QED BY <2>3, <2>4, <2>5, <2>7 DEF Handshake, HandshakeType, HeldIsSubscribed,
                  SeenIsSubscribed
<1>10. ASSUME NEW r \in Ranks, Drain(r) \/ Pull(r) PROVE Handshake'
    <2>1. channel[r] \in Seq(Held) /\ channel[r] # << >>
        BY <1>10 DEF Drain, Pull, Handshake, HandshakeType
    <2>2. Tail(channel[r]) \in Seq(Held) BY <2>1
    <2>3. channel' = [channel EXCEPT ![r] = Tail(@)]
          /\ UNCHANGED <<ingress, subscribed, seen, acks, fanout>>
        BY <1>10 DEF Drain, Pull
    <2>4. channel' \in [Ranks -> Seq(Held)] /\ HeldIsSubscribed'
        BY <2>1, <2>2, <2>3 DEF Handshake, HandshakeType, HeldIsSubscribed
    <2>5. pc' \in [AllRanks -> Labels] /\ pc'[0] = pc[0]
        BY <1>10 DEF Drain, Pull, Goto, AllRanks, Labels, Handshake, HandshakeType
    <2>6. QED BY <2>3, <2>4, <2>5 DEF Handshake, HandshakeType, SeenIsSubscribed,
                  AckIsSeen, LeftIsSeen
<1>11. ASSUME NEW r \in Ranks, TakeCount(r) PROVE Handshake'
    BY <1>11 DEF TakeCount, Handshake, HandshakeType, HeldIsSubscribed,
                 SeenIsSubscribed, AckIsSeen, LeftIsSeen
<1>12. QED
    BY <1>1, <1>2, <1>3, <1>4, <1>5, <1>6, <1>7, <1>8, <1>9, <1>10, <1>11
    DEF Next, Rank0, Rank, AllRanks

\* Whatever the number of ranks, rank 0 serves only when rank 1 is subscribed
\* (establish_inter_rank_link waits for rank 1's acknowledgement).
THEOREM RankOneIsLive ==
    Spec => [](pc[0] \in {"serve", "fanout"} => 1 \in subscribed)
<1>1. Init => Handshake BY InitHandshake
<1>2. Handshake /\ [Next]_vars => Handshake' BY HandshakeStep
<1>3. Handshake => (pc[0] \in {"serve", "fanout"} => 1 \in subscribed)
    BY DEF Handshake, LeftIsSeen, SeenIsSubscribed
<1>4. QED BY <1>1, <1>2, <1>3, PTL DEF Spec

\* With two tensor-parallel ranks the fan-out is live before any request is
\* published (the promise of establish_inter_rank_link).
THEOREM TwoRanksLive == ASSUME Ranks = {1} PROVE Spec => []LinkIsLive
<1>1. Init => Handshake BY InitHandshake
<1>2. Handshake /\ [Next]_vars => Handshake' BY HandshakeStep
<1>3. Handshake => LinkIsLive
    BY DEF Handshake, LeftIsSeen, SeenIsSubscribed, LinkIsLive
<1>4. QED BY <1>1, <1>2, <1>3, PTL DEF Spec

----------------------------------------------------------------------------
(* The batches.  BatchesAgree rests on what is under way: in front of the  *)
(* requests in rank 1's socket stand the markers it has not drained, and   *)
(* behind them what rank 0 has still to publish; and the counts not yet    *)
(* received are the differences of the ends of rank 0's iterations.        *)

Held == Messages \cup {"sync", "end"}

BatchType ==
    /\ received \in [AllRanks -> Seq(Held)]
    /\ received[0] \in Seq(Messages)
    /\ counts \in [Ranks -> Seq(Nat)]
    /\ ends \in [Ranks -> Seq(Nat)]
    /\ want \in [Ranks -> Nat]

\* The counts under way are the differences of the ends of the iterations.
CountsAddUp ==
    \A r \in Ranks :
        /\ Len(ends[r]) = Len(counts[r]) + 1
        /\ \A i \in 1..Len(counts[r]) : ends[r][i + 1] = ends[r][i] + counts[r][i]
        /\ ends[r][Len(ends[r])] = Len(received[0])
        /\ Len(received[r]) + want[r] = ends[r][1]

\* How far rank 1 can be, and what it holds before rank 0 serves.
Phases ==
    /\ pc[0] \in {"publish", "ack", "end", "serve", "fanout"}
    /\ pc[1] \in {"poll", "drain", "serve"}
    /\ pc[1] = "poll" => 1 \notin seen
    /\ pc[1] = "serve" => pc[0] \in {"serve", "fanout"}
    /\ pc[1] # "serve" => received[1] = << >>
    /\ pc[0] # "fanout" => fanout = << >>
    /\ pc[0] \in {"publish", "ack", "end"} =>
          /\ received[0] = << >>
          /\ \A i \in 1..Len(channel[1]) : channel[1][i] = "sync"

\* Position k of a socket and of what is unpublished: the requests begin
\* behind it.
BehindEnd(c, k) ==
    /\ \A i \in 1..(k - 1) : c[i] = "sync"
    /\ c[k] = "end"

Draining ==
    pc[0] \in {"serve", "fanout"} /\ pc[1] = "drain" =>
        \E k \in 1..Len(channel[1]) :
            /\ BehindEnd(channel[1], k)
            /\ SubSeq(channel[1], k + 1, Len(channel[1])) \o fanout = received[0]

Serving == pc[1] = "serve" => received[1] \o (channel[1] \o fanout) = received[0]

Batches == Handshake /\ BatchType /\ CountsAddUp /\ Phases /\ Draining /\ Serving

\* Moving an element over the joint of two sequences.
LEMMA MoveOver ==
    ASSUME NEW S, NEW a \in Seq(S), NEW b \in Seq(S), b # << >>
    PROVE  Append(a, Head(b)) \o Tail(b) = a \o b
<1>1. /\ Head(b) \in S /\ Tail(b) \in Seq(S) /\ Len(Tail(b)) = Len(b) - 1
      /\ \A i \in 1..Len(Tail(b)) : Tail(b)[i] = b[i + 1]
      /\ Head(b) = b[1] /\ Len(b) \in Nat /\ Len(b) > 0
    BY HeadTailProperties, LenProperties, EmptySeq
<1> DEFINE c == Append(a, Head(b))
<1>2. /\ c \in Seq(S) /\ Len(c) = Len(a) + 1 /\ Len(a) \in Nat
      /\ \A i \in 1..Len(a) : c[i] = a[i]
      /\ c[Len(a) + 1] = b[1]
    BY <1>1, AppendProperties, LenProperties
<1> HIDE DEF c
<1> DEFINE d == Tail(b)
<1>3. /\ d \in Seq(S) /\ Len(d) = Len(b) - 1
      /\ \A i \in 1..Len(d) : d[i] = b[i + 1]
    BY <1>1
<1> HIDE DEF d
<1>4. /\ c \o d \in Seq(S) /\ Len(c \o d) = Len(c) + Len(d)
      /\ \A i \in 1..(Len(c) + Len(d)) :
            (c \o d)[i] = IF i <= Len(c) THEN c[i] ELSE d[i - Len(c)]
    BY <1>2, <1>3, ConcatProperties
<1>5. /\ a \o b \in Seq(S) /\ Len(a \o b) = Len(a) + Len(b)
      /\ \A i \in 1..(Len(a) + Len(b)) :
            (a \o b)[i] = IF i <= Len(a) THEN a[i] ELSE b[i - Len(a)]
    BY ConcatProperties
<1>6. Len(c \o d) = Len(a) + Len(b) BY <1>1, <1>2, <1>3, <1>4
<1>7. ASSUME NEW i \in 1..(Len(a) + Len(b))
      PROVE  (c \o d)[i] = (a \o b)[i]
    <2>1. (a \o b)[i] = IF i <= Len(a) THEN a[i] ELSE b[i - Len(a)]
        BY <1>5
    <2>2. (c \o d)[i] = IF i <= Len(a) + 1 THEN c[i] ELSE d[i - (Len(a) + 1)]
        <3>1. i \in 1..(Len(c) + Len(d)) BY <1>1, <1>2, <1>3
        <3>2. QED BY <3>1, <1>2, <1>4
    <2>3. CASE i <= Len(a) BY <2>1, <2>2, <2>3, <1>2
    <2>4. CASE i = Len(a) + 1
        <3>1. i - Len(a) = 1 /\ ~(i <= Len(a)) BY <2>4, <1>2
        <3>2. QED BY <2>1, <2>2, <2>4, <1>2, <3>1
    <2>5. CASE i > Len(a) + 1
        <3>1. /\ i - (Len(a) + 1) \in 1..Len(d)
              /\ (i - (Len(a) + 1)) + 1 = i - Len(a)
            BY <2>5, <1>1, <1>2, <1>3
        <3>2. d[i - (Len(a) + 1)] = b[i - Len(a)] BY <3>1, <1>3
        <3>3. QED BY <2>1, <2>2, <2>5, <1>2, <3>2
    <2>6. i <= Len(a) \/ i = Len(a) + 1 \/ i > Len(a) + 1
        <3>1. i \in Int OBVIOUS
        <3>2. QED BY <3>1, <1>2
    <2>7. QED BY <2>3, <2>4, <2>5, <2>6
<1>8. c \o d = a \o b BY <1>4, <1>5, <1>6, <1>7, SeqEqual
<1>9. QED BY <1>8 DEF c, d

\* What stands in front is a prefix.
LEMMA FrontIsPrefix ==
    ASSUME NEW S, NEW a \in Seq(S), NEW b \in Seq(S)
    PROVE  IsPrefix(a, a \o b)
<1>1. /\ a \o b \in Seq(S) /\ Len(a \o b) = Len(a) + Len(b)
      /\ Len(a) \in Nat /\ Len(b) \in Nat
      /\ \A i \in 1..Len(a) : (a \o b)[i] = a[i]
    BY ConcatProperties, LenProperties
<1>2. \A i \in 1..Len(a) : a[i] \in S BY ElementOfSeq
<1>3. SubSeq(a, 1, Len(a)) = a BY SubSeqFull
<1>4. /\ SubSeq(a \o b, 1, Len(a)) \in Seq(S)
      /\ Len(SubSeq(a \o b, 1, Len(a))) = Len(a)
      /\ \A i \in 1..Len(a) : SubSeq(a \o b, 1, Len(a))[i] = a[i]
    <2>1. \A i \in 1..Len(a) : (a \o b)[i] \in S BY <1>1, <1>2
    <2>2. /\ SubSeq(a \o b, 1, Len(a)) \in Seq(S)
          /\ Len(SubSeq(a \o b, 1, Len(a))) = IF 1 <= Len(a) THEN Len(a) - 1 + 1 ELSE 0
          /\ \A i \in 1..(Len(a) - 1 + 1) : SubSeq(a \o b, 1, Len(a))[i] = (a \o b)[1 + i - 1]
        BY <2>1, <1>1, SubSeqProperties
    <2>3. QED BY <2>2, <1>1
<1>5. SubSeq(a \o b, 1, Len(a)) = a BY <1>4, SeqEqual
<1>6. QED BY <1>1, <1>3, <1>5 DEF IsPrefix

\* What stands behind position k.
LEMMA Behind ==
    ASSUME NEW S, NEW s \in Seq(S), NEW k \in 0..Len(s)
    PROVE  /\ SubSeq(s, k + 1, Len(s)) \in Seq(S)
           /\ Len(SubSeq(s, k + 1, Len(s))) = Len(s) - k
           /\ \A i \in 1..(Len(s) - k) : SubSeq(s, k + 1, Len(s))[i] = s[k + i]
<1>1. Len(s) \in Nat /\ k \in Nat /\ k <= Len(s) BY LenProperties
<1>2. \A i \in (k + 1)..Len(s) : s[i] \in S
    <2>1. \A i \in (k + 1)..Len(s) : i \in 1..Len(s) BY <1>1
    <2>2. QED BY <2>1, ElementOfSeq
<1> DEFINE r == SubSeq(s, k + 1, Len(s))
<1>3. /\ r \in Seq(S)
      /\ Len(r) = IF k + 1 <= Len(s) THEN Len(s) - (k + 1) + 1 ELSE 0
      /\ \A i \in 1..(Len(s) - (k + 1) + 1) : r[i] = s[(k + 1) + i - 1]
    <2>1. k + 1 \in Int /\ Len(s) \in Int BY <1>1
    <2>2. QED BY <1>2, <2>1, SubSeqProperties
<1> HIDE DEF r
<1>4. Len(r) = Len(s) - k BY <1>1, <1>3
<1>5. ASSUME NEW i \in 1..(Len(s) - k) PROVE r[i] = s[k + i]
    <2>1. i \in 1..(Len(s) - (k + 1) + 1) /\ (k + 1) + i - 1 = k + i BY <1>1
    <2>2. r[i] = s[(k + 1) + i - 1] BY <2>1, <1>3
    <2>3. QED BY <2>1, <2>2
<1>6. QED BY <1>3, <1>4, <1>5 DEF r

\* A longer sequence is longer behind every position, ...
LEMMA BehindAppend ==
    ASSUME NEW S, NEW s \in Seq(S), NEW e \in S, NEW k \in 0..Len(s)
    PROVE  SubSeq(Append(s, e), k + 1, Len(Append(s, e))) =
               Append(SubSeq(s, k + 1, Len(s)), e)
<1> DEFINE d == Append(s, e)
<1>1. /\ d \in Seq(S) /\ Len(d) = Len(s) + 1 /\ Len(s) \in Nat /\ k \in Nat /\ k <= Len(s)
      /\ \A i \in 1..Len(s) : d[i] = s[i]
      /\ d[Len(s) + 1] = e
    BY AppendProperties, LenProperties
<1> HIDE DEF d
<1> DEFINE r == SubSeq(s, k + 1, Len(s))  q == SubSeq(d, k + 1, Len(d))
<1>2. /\ r \in Seq(S) /\ Len(r) = Len(s) - k
      /\ \A i \in 1..(Len(s) - k) : r[i] = s[k + i]
    BY Behind
<1>3. /\ q \in Seq(S) /\ Len(q) = Len(d) - k
      /\ \A i \in 1..(Len(d) - k) : q[i] = d[k + i]
    <2>1. k \in 0..Len(d) BY <1>1
    <2>2. QED BY <2>1, <1>1, Behind
<1> HIDE DEF r, q
<1>4. /\ Append(r, e) \in Seq(S) /\ Len(Append(r, e)) = Len(r) + 1
      /\ \A i \in 1..Len(r) : Append(r, e)[i] = r[i]
      /\ Append(r, e)[Len(r) + 1] = e
    BY <1>2, AppendProperties
<1>5. Len(q) = Len(Append(r, e)) BY <1>1, <1>2, <1>3, <1>4
<1>6. ASSUME NEW i \in 1..Len(q) PROVE q[i] = Append(r, e)[i]
    <2>1. i \in 1..(Len(s) + 1 - k) /\ i \in 1..(Len(d) - k) BY <1>1, <1>3
    <2>2. i \in 1..(Len(s) - k) \/ i = Len(s) - k + 1 BY <2>1, <1>1
    <2>3. CASE i \in 1..(Len(s) - k)
        <3>1. k + i \in 1..Len(s) /\ i \in 1..Len(r) BY <2>3, <1>1, <1>2
        <3>2. q[i] = d[k + i] /\ d[k + i] = s[k + i] BY <2>1, <3>1, <1>1, <1>3
        <3>3. Append(r, e)[i] = r[i] /\ r[i] = s[k + i] BY <2>3, <3>1, <1>2, <1>4
        <3>4. QED BY <3>2, <3>3
    <2>4. CASE i = Len(s) - k + 1
        <3>1. k + i = Len(s) + 1 /\ i = Len(r) + 1 BY <2>4, <1>1, <1>2
        <3>2. QED BY <2>1, <3>1, <1>1, <1>3, <1>4
    <2>5. QED BY <2>2, <2>3, <2>4
<1>7. q = Append(r, e) BY <1>3, <1>4, <1>5, <1>6, SeqEqual
<1>8. QED BY <1>7 DEF q, r, d

\* ... and what stands behind a position of the tail stands behind the next.
LEMMA BehindTail ==
    ASSUME NEW S, NEW s \in Seq(S), s # << >>, NEW k \in 1..Len(s)
    PROVE  SubSeq(Tail(s), (k - 1) + 1, Len(Tail(s))) = SubSeq(s, k + 1, Len(s))
<1> DEFINE d == Tail(s)
<1>1. /\ d \in Seq(S) /\ Len(d) = Len(s) - 1 /\ Len(s) \in Nat /\ k \in Nat /\ k <= Len(s) /\ k > 0
      /\ \A i \in 1..Len(d) : d[i] = s[i + 1]
    BY HeadTailProperties, LenProperties
<1> HIDE DEF d
<1> DEFINE r == SubSeq(s, k + 1, Len(s))  q == SubSeq(d, (k - 1) + 1, Len(d))
<1>2. /\ r \in Seq(S) /\ Len(r) = Len(s) - k
      /\ \A i \in 1..(Len(s) - k) : r[i] = s[k + i]
    BY Behind
<1>3. /\ q \in Seq(S) /\ Len(q) = Len(d) - (k - 1)
      /\ \A i \in 1..(Len(d) - (k - 1)) : q[i] = d[(k - 1) + i]
    <2>1. k - 1 \in 0..Len(d) BY <1>1
    <2>2. QED BY <2>1, <1>1, Behind
<1> HIDE DEF r, q
<1>4. Len(q) = Len(r) BY <1>1, <1>2, <1>3
<1>5. ASSUME NEW i \in 1..Len(q) PROVE q[i] = r[i]
    <2>1. i \in 1..(Len(s) - k) /\ i \in 1..(Len(d) - (k - 1)) BY <1>1, <1>2, <1>3, <1>4
    <2>2. (k - 1) + i \in 1..Len(d) /\ ((k - 1) + i) + 1 = k + i BY <2>1, <1>1
    <2>3. d[(k - 1) + i] = s[k + i] BY <2>2, <1>1
    <2>4. QED BY <2>1, <2>3, <1>2, <1>3
<1>6. q = r BY <1>2, <1>3, <1>4, <1>5, SeqEqual
<1>7. QED BY <1>6 DEF q, r, d

LEMMA InitBatches == Init => Batches
<1> SUFFICES ASSUME Init PROVE Batches OBVIOUS
<1> USE RankFacts DEF Init
<1>1. BatchType
    <2>1. << >> \in Seq(Held) /\ << >> \in Seq(Messages) /\ << >> \in Seq(Nat) OBVIOUS
    <2>2. <<0>> \in Seq(Nat) OBVIOUS
    <2>3. QED BY <2>1, <2>2 DEF BatchType
<1>2. CountsAddUp
    <2>1. \A r \in Ranks : ends[r] = <<0>> /\ counts[r] = << >> /\ want[r] = 0 /\ received[r] = << >>
        BY DEF AllRanks
    <2>2. Len(<<0>>) = 1 /\ <<0>>[1] = 0 /\ Len(<< >>) = 0 /\ received[0] = << >> OBVIOUS
    <2>3. QED BY <2>1, <2>2 DEF CountsAddUp
<1>3. Phases
    <2>1. channel[1] = << >> /\ pc[1] = "poll" /\ received[1] = << >> /\ received[0] = << >>
        BY DEF AllRanks
    <2>2. QED BY <2>1 DEF Phases
<1>4. Draining BY DEF Draining
<1>5. Serving BY DEF Serving, AllRanks
<1>6. QED BY <1>1, <1>2, <1>3, <1>4, <1>5, InitHandshake DEF Batches

\* Rank 0 ends an iteration: both ledgers grow by the batch it takes.
LEMMA CollectCounts ==
    ASSUME Batches, Collect
    PROVE  BatchType' /\ CountsAddUp'
<1> DEFINE n == Len(ingress)
<1>1. ingress \in Seq(Messages) /\ ingress \in Seq(Held) /\ n \in Nat
    BY DEF Batches, Handshake, HandshakeType, Held
<1>2. /\ received' = [received EXCEPT ![0] = received[0] \o ingress]
      /\ counts' = [r \in Ranks |-> Append(counts[r], n)]
      /\ ends' = [r \in Ranks |-> Append(ends[r], Len(received[0]) + n)]
      /\ want' = want
    BY DEF Collect, CountOf
<1>3. /\ received[0] \o ingress \in Seq(Messages) /\ received[0] \o ingress \in Seq(Held)
      /\ Len(received[0] \o ingress) = Len(received[0]) + n
      /\ Len(received[0]) \in Nat
    BY <1>1, ConcatProperties, LenProperties DEF Batches, BatchType, Held
<1>4. /\ received' \in [AllRanks -> Seq(Held)]
      /\ received'[0] = received[0] \o ingress
      /\ \A r \in Ranks : received'[r] = received[r]
    BY <1>2, <1>3, RankFacts DEF Batches, BatchType, AllRanks
<1> HIDE DEF n
<1>5. BatchType'
    <2>1. \A r \in Ranks : /\ Append(counts[r], n) \in Seq(Nat)
                           /\ Append(ends[r], Len(received[0]) + n) \in Seq(Nat)
        BY <1>1, <1>3 DEF Batches, BatchType
    <2>2. QED BY <1>2, <1>3, <1>4, <2>1 DEF Batches, BatchType
<1>6. ASSUME NEW r \in Ranks
      PROVE  /\ Len(ends'[r]) = Len(counts'[r]) + 1
             /\ \A i \in 1..Len(counts'[r]) : ends'[r][i + 1] = ends'[r][i] + counts'[r][i]
             /\ ends'[r][Len(ends'[r])] = Len(received'[0])
             /\ Len(received'[r]) + want'[r] = ends'[r][1]
    <2> DEFINE c == counts[r]  e == ends[r]  m == Len(received[0]) + n
    <2>1. /\ c \in Seq(Nat) /\ e \in Seq(Nat) /\ m \in Nat
          /\ Len(e) = Len(c) + 1
          /\ \A i \in 1..Len(c) : e[i + 1] = e[i] + c[i]
          /\ e[Len(e)] = Len(received[0])
          /\ Len(received[r]) + want[r] = e[1]
        BY <1>1, <1>3 DEF Batches, BatchType, CountsAddUp
    <2>2. counts'[r] = Append(c, n) /\ ends'[r] = Append(e, m) BY <1>2
    <2>3. Len(received'[0]) = m /\ received'[r] = received[r] /\ want'[r] = want[r]
        BY <1>2, <1>3, <1>4
    <2> HIDE DEF c, e, m
    <2>4. /\ Len(Append(c, n)) = Len(c) + 1 /\ Len(c) \in Nat
          /\ \A i \in 1..Len(c) : Append(c, n)[i] = c[i]
          /\ Append(c, n)[Len(c) + 1] = n
        BY <2>1, <1>1, AppendProperties, LenProperties
    <2>5. /\ Len(Append(e, m)) = Len(e) + 1 /\ Len(e) \in Nat
          /\ \A i \in 1..Len(e) : Append(e, m)[i] = e[i]
          /\ Append(e, m)[Len(e) + 1] = m
        BY <2>1, AppendProperties, LenProperties
    <2>6. ASSUME NEW i \in 1..(Len(c) + 1)
          PROVE  Append(e, m)[i + 1] = Append(e, m)[i] + Append(c, n)[i]
        <3>1. CASE i \in 1..Len(c)
            <4>1. i \in 1..Len(e) /\ i + 1 \in 1..Len(e) BY <2>1, <2>4, <3>1
            <4>2. QED BY <2>1, <2>4, <2>5, <3>1, <4>1
        <3>2. CASE i = Len(c) + 1
            <4>1. i = Len(e) /\ i \in 1..Len(e) BY <2>1, <2>4, <2>5, <3>2
            <4>2. Append(e, m)[i] = Len(received[0]) /\ Append(e, m)[i + 1] = m
                BY <2>1, <2>5, <4>1
            <4>3. Append(c, n)[i] = n BY <2>4, <3>2
            <4>4. QED BY <4>2, <4>3 DEF m
        <3>3. i \in 1..Len(c) \/ i = Len(c) + 1 BY <2>4
        <3>4. QED BY <3>1, <3>2, <3>3
    <2>7. Append(e, m)[1] = e[1]
        <3>1. 1 \in 1..Len(e) BY <2>1, <2>4
        <3>2. QED BY <3>1, <2>5
    <2>8. QED BY <2>1, <2>2, <2>3, <2>4, <2>5, <2>6, <2>7
<1>7. CountsAddUp' BY <1>6 DEF CountsAddUp
<1>8. QED BY <1>5, <1>7

\* Another rank begins an iteration: the front of both ledgers goes.
LEMMA TakeCounts ==
    ASSUME Batches, NEW q \in Ranks, TakeCount(q)
    PROVE  BatchType' /\ CountsAddUp'
<1> DEFINE c == counts[q]  e == ends[q]
<1>1. /\ c \in Seq(Nat) /\ e \in Seq(Nat)
      /\ Len(e) = Len(c) + 1
      /\ \A i \in 1..Len(c) : e[i + 1] = e[i] + c[i]
      /\ e[Len(e)] = Len(received[0])
      /\ Len(received[q]) + want[q] = e[1]
      /\ Len(c) \in Nat /\ Len(e) \in Nat
    BY LenProperties DEF Batches, BatchType, CountsAddUp
<1>2. /\ want[q] = 0 /\ c # << >> /\ received' = received
      /\ want' = [want EXCEPT ![q] = Head(c)]
      /\ counts' = [counts EXCEPT ![q] = Tail(c)]
      /\ ends' = [ends EXCEPT ![q] = Tail(e)]
    BY DEF TakeCount
<1> HIDE DEF c, e
<1>3. Len(c) > 0 /\ e # << >>
    BY <1>1, <1>2, EmptySeq
<1>4. /\ Head(c) \in Nat /\ Head(c) = c[1] /\ Tail(c) \in Seq(Nat)
      /\ Len(Tail(c)) = Len(c) - 1
      /\ \A i \in 1..Len(Tail(c)) : Tail(c)[i] = c[i + 1]
    BY <1>1, <1>2, HeadTailProperties
<1>5. /\ Tail(e) \in Seq(Nat) /\ Len(Tail(e)) = Len(e) - 1
      /\ \A i \in 1..Len(Tail(e)) : Tail(e)[i] = e[i + 1]
    BY <1>1, <1>3, HeadTailProperties
<1>6. BatchType' BY <1>2, <1>4, <1>5 DEF Batches, BatchType
<1>7. ASSUME NEW i \in 1..Len(Tail(c)) PROVE Tail(e)[i + 1] = Tail(e)[i] + Tail(c)[i]
    <2>1. /\ Len(Tail(e)) = Len(c) /\ Len(Tail(c)) = Len(c) - 1 /\ Len(c) \in Nat
        BY <1>1, <1>4, <1>5
    <2>2. i \in 1..Len(Tail(e)) /\ i + 1 \in 1..Len(Tail(e)) /\ i + 1 \in 1..Len(c)
        BY <2>1
    <2>3. Tail(e)[i + 1] = e[(i + 1) + 1] /\ Tail(e)[i] = e[i + 1] /\ Tail(c)[i] = c[i + 1]
        BY <2>2, <1>4, <1>5
    <2>4. e[(i + 1) + 1] = e[i + 1] + c[i + 1] BY <2>2, <1>1
    <2>5. QED BY <2>3, <2>4
<1>8. Tail(e)[Len(Tail(e))] = Len(received[0])
    <2>1. Len(Tail(e)) \in 1..Len(Tail(e)) /\ Len(Tail(e)) + 1 = Len(e)
        BY <1>1, <1>3, <1>5
    <2>2. QED BY <2>1, <1>1, <1>5
<1>9. Len(received[q]) + Head(c) = Tail(e)[1]
    <2>1. 1 \in 1..Len(Tail(e)) /\ 1 \in 1..Len(c) BY <1>1, <1>3, <1>5
    <2>2. Tail(e)[1] = e[1] + c[1] BY <2>1, <1>1, <1>5
    <2>3. e[1] = Len(received[q])
        <3>1. Len(received[q]) \in Nat BY LinkAssumption, LenProperties DEF Batches, BatchType, AllRanks
        <3>2. QED BY <1>1, <1>2, <3>1
    <2>4. QED BY <2>2, <2>3, <1>4
<1>10. ASSUME NEW r \in Ranks
       PROVE  /\ Len(ends'[r]) = Len(counts'[r]) + 1
              /\ \A i \in 1..Len(counts'[r]) : ends'[r][i + 1] = ends'[r][i] + counts'[r][i]
              /\ ends'[r][Len(ends'[r])] = Len(received'[0])
              /\ Len(received'[r]) + want'[r] = ends'[r][1]
    <2>1. CASE r = q
        <3>1. counts'[r] = Tail(c) /\ ends'[r] = Tail(e) /\ want'[r] = Head(c)
              /\ received'[r] = received[q] /\ received'[0] = received[0]
            BY <2>1, <1>2 DEF Batches, BatchType
        <3>2. Len(Tail(e)) = Len(Tail(c)) + 1 BY <1>1, <1>4, <1>5
        <3>3. QED BY <3>1, <3>2, <1>7, <1>8, <1>9
    <2>2. CASE r # q
        <3>1. counts'[r] = counts[r] /\ ends'[r] = ends[r] /\ want'[r] = want[r]
              /\ received' = received
            BY <2>2, <1>2 DEF Batches, BatchType
        <3>2. QED BY <3>1 DEF Batches, CountsAddUp
    <2>3. QED BY <2>1, <2>2
<1>11. CountsAddUp' BY <1>10 DEF CountsAddUp
<1>12. QED BY <1>6, <1>11

\* A pulled message is one of those still wanted.
LEMMA PullCounts ==
    ASSUME Batches, NEW q \in Ranks, Pull(q)
    PROVE  BatchType' /\ CountsAddUp'
<1>1. /\ channel[q] \in Seq(Held) /\ channel[q] # << >>
      /\ want[q] \in Nat /\ want[q] > 0
      /\ received' = [received EXCEPT ![q] = Append(received[q], Head(channel[q]))]
      /\ want' = [want EXCEPT ![q] = want[q] - 1]
      /\ counts' = counts /\ ends' = ends
    BY DEF Pull, Batches, BatchType, Handshake, HandshakeType, Held
<1>2. Head(channel[q]) \in Held BY <1>1, HeadTailProperties
<1>3. received[q] \in Seq(Held) /\ q \in AllRanks /\ q # 0
    BY RankFacts DEF Batches, BatchType, AllRanks
<1>4. /\ Append(received[q], Head(channel[q])) \in Seq(Held)
      /\ Len(Append(received[q], Head(channel[q]))) = Len(received[q]) + 1
      /\ Len(received[q]) \in Nat
    BY <1>2, <1>3, AppendProperties, LenProperties
<1>5. /\ received' \in [AllRanks -> Seq(Held)]
      /\ received'[0] = received[0]
      /\ Len(received'[q]) = Len(received[q]) + 1
      /\ \A r \in Ranks \ {q} : received'[r] = received[r]
    BY <1>1, <1>3, <1>4, RankFacts DEF Batches, BatchType, AllRanks
<1>6. /\ want' \in [Ranks -> Nat] /\ want'[q] = want[q] - 1
      /\ \A r \in Ranks \ {q} : want'[r] = want[r]
    BY <1>1 DEF Batches, BatchType
<1>7. BatchType' BY <1>1, <1>5, <1>6 DEF Batches, BatchType
<1>8. ASSUME NEW r \in Ranks PROVE Len(received'[r]) + want'[r] = ends[r][1]
    <2>1. Len(received[r]) + want[r] = ends[r][1] BY DEF Batches, CountsAddUp
    <2>2. CASE r = q BY <2>1, <2>2, <1>1, <1>4, <1>5, <1>6
    <2>3. CASE r # q BY <2>1, <2>3, <1>5, <1>6
    <2>4. QED BY <2>2, <2>3
<1>9. CountsAddUp' BY <1>1, <1>5, <1>8 DEF Batches, CountsAddUp
<1>10. QED BY <1>7, <1>9

\* A request is published to rank 1: it moves from what is unpublished to the
\* end of the socket.
LEMMA FanOutStream == ASSUME Batches, FanOut PROVE Draining' /\ Serving'
<1> DEFINE m == Head(fanout)  c == channel[1]
<1>1. /\ fanout \in Seq(Messages) /\ fanout # << >> /\ m \in Messages
      /\ Tail(fanout) \in Seq(Messages)
    BY HeadTailProperties DEF FanOut, Batches, Handshake, HandshakeType
<1>2. 1 \in subscribed /\ 1 \in seen
    BY DEF FanOut, Batches, Handshake, LeftIsSeen, SeenIsSubscribed
<1>3. /\ channel'[1] = Append(c, m) /\ fanout' = Tail(fanout)
      /\ received' = received /\ pc'[1] = pc[1] /\ pc[0] = "fanout"
    BY <1>2, RankFacts DEF FanOut, Publish, Goto, Batches, Handshake, HandshakeType, AllRanks
<1>4. c \in Seq(Held) /\ fanout \in Seq(Held) /\ m \in Held
    BY <1>1, RankFacts DEF Batches, Handshake, HandshakeType, Held
<1>5. Append(c, m) \o Tail(fanout) = c \o fanout
    BY <1>1, <1>4, MoveOver
<1> HIDE DEF c, m
<1>6. Serving' BY <1>3, <1>5 DEF c, Serving, Batches
<1>7. ASSUME pc[1] = "drain" PROVE Draining'
    <2>1. PICK k \in 1..Len(c) :
            BehindEnd(c, k) /\ SubSeq(c, k + 1, Len(c)) \o fanout = received[0]
        BY <1>3, <1>7 DEF c, Draining, Batches
    <2> DEFINE d == Append(c, m)
    <2>2. /\ d \in Seq(Held) /\ Len(d) = Len(c) + 1 /\ Len(c) \in Nat
          /\ \A i \in 1..Len(c) : d[i] = c[i]
          /\ d[Len(c) + 1] = m
        BY <1>4, AppendProperties, LenProperties
    <2> HIDE DEF d
    <2>3. k \in 1..Len(d) /\ BehindEnd(d, k)
        <3>1. k \in 1..Len(d) /\ \A i \in 1..(k - 1) : i \in 1..Len(c) BY <2>2
        <3>2. QED BY <2>1, <2>2, <3>1 DEF BehindEnd
    <2> DEFINE rest == SubSeq(c, k + 1, Len(c))  next == SubSeq(d, k + 1, Len(d))
    <2>4. k \in 0..Len(c) BY <2>2
    <2>5. rest \in Seq(Held) BY <1>4, <2>4, Behind
    <2>6. next = Append(rest, m) BY <1>4, <2>4, BehindAppend DEF d
    <2> HIDE DEF rest, next
    <2>7. Append(rest, m) \o Tail(fanout) = rest \o fanout
        BY <2>5, <1>1, <1>4, MoveOver DEF m
    <2>8. SubSeq(channel'[1], k + 1, Len(channel'[1])) \o fanout' = received'[0]
        BY <1>3, <2>1, <2>6, <2>7 DEF d, rest, next
    <2>9. QED BY <1>3, <2>3, <2>8 DEF Draining, d
<1>8. QED BY <1>3, <1>6, <1>7 DEF Draining

\* Rank 1 drains: what stands in front is a marker, until the end.
LEMMA DrainStream == ASSUME Batches, Drain(1) PROVE Phases' /\ Draining' /\ Serving'
<1> DEFINE c == channel[1]
<1>1. /\ c \in Seq(Held) /\ c # << >> /\ pc[1] = "drain"
      /\ Tail(c) \in Seq(Held) /\ Len(Tail(c)) = Len(c) - 1 /\ Len(c) \in Nat \ {0}
      /\ \A i \in 1..Len(Tail(c)) : Tail(c)[i] = c[i + 1]
      /\ Head(c) = c[1]
    BY RankFacts, HeadTailProperties, EmptySeq DEF Drain, Batches, Handshake, HandshakeType, Held
<1>2. /\ channel'[1] = Tail(c)
      /\ pc'[1] = IF Head(c) = "end" THEN "serve" ELSE "drain"
      /\ pc'[0] = pc[0]
      /\ UNCHANGED <<received, fanout, seen>>
    BY RankFacts DEF Drain, Goto, Batches, Handshake, HandshakeType, AllRanks
<1> HIDE DEF c
<1>3. received[1] = << >> BY <1>1 DEF Batches, Phases
<1>4. CASE pc[0] \notin {"serve", "fanout"}
    <2>1. pc[0] \in {"publish", "ack", "end"} BY <1>4 DEF Batches, Phases
    <2>2. /\ received[0] = << >> /\ fanout = << >>
          /\ \A i \in 1..Len(c) : c[i] = "sync"
        BY <2>1 DEF Batches, Phases, c
    <2>3. Head(c) # "end" /\ \A i \in 1..Len(Tail(c)) : Tail(c)[i] = "sync"
        <3>1. 1 \in 1..Len(c) /\ \A i \in 1..Len(Tail(c)) : i + 1 \in 1..Len(c) BY <1>1
        <3>2. QED BY <3>1, <2>2, <1>1
    <2>4. QED BY <1>1, <1>2, <1>3, <2>1, <2>2, <2>3 DEF Batches, Phases, Draining, Serving
<1>5. CASE pc[0] \in {"serve", "fanout"}
    <2>1. PICK k \in 1..Len(c) :
            BehindEnd(c, k) /\ SubSeq(c, k + 1, Len(c)) \o fanout = received[0]
        BY <1>1, <1>5 DEF c, Draining, Batches
    <2>2. Phases' BY <1>1, <1>2, <1>3, <1>5 DEF Batches, Phases
    <2>3. CASE k = 1
        <3>1. Head(c) = "end" BY <1>1, <2>1, <2>3 DEF BehindEnd
        <3>2. SubSeq(c, k + 1, Len(c)) = Tail(c)
            BY <1>1, <2>3, TailIsSubSeq
        <3>3. << >> \o (Tail(c) \o fanout) = Tail(c) \o fanout
            <4>1. fanout \in Seq(Held) BY DEF Batches, Handshake, HandshakeType, Held
            <4>2. QED BY <1>1, <4>1, ConcatProperties, ConcatEmptySeq
        <3>4. QED BY <1>2, <1>3, <2>1, <2>2, <3>1, <3>2, <3>3 DEF Draining, Serving
    <2>4. CASE k # 1
        <3>1. Head(c) # "end"
            <4>1. 1 \in 1..(k - 1) BY <2>1, <2>4, <1>1
            <4>2. QED BY <4>1, <1>1, <2>1 DEF BehindEnd
        <3> DEFINE d == Tail(c)
        <3>2. k - 1 \in 1..Len(d) /\ BehindEnd(d, k - 1)
            <4>1. k - 1 \in 1..Len(d) BY <1>1, <2>4
            <4>2. d[k - 1] = c[k]
                <5>1. (k - 1) + 1 = k BY <1>1
                <5>2. QED BY <1>1, <4>1, <5>1
            <4>3. ASSUME NEW i \in 1..((k - 1) - 1) PROVE d[i] = "sync"
                <5>1. i \in 1..Len(d) /\ i + 1 \in 1..(k - 1) BY <1>1
                <5>2. QED BY <5>1, <1>1, <2>1 DEF BehindEnd
            <4>4. QED BY <4>1, <4>2, <4>3, <2>1 DEF BehindEnd
        <3>3. SubSeq(d, (k - 1) + 1, Len(d)) = SubSeq(c, k + 1, Len(c))
            BY <1>1, BehindTail
        <3>4. Draining' BY <1>2, <2>1, <3>2, <3>3 DEF Draining
        <3>5. QED BY <1>2, <2>2, <3>1, <3>4 DEF Serving
    <2>5. QED BY <2>3, <2>4
<1>6. QED BY <1>4, <1>5

\* Before rank 0 serves, a marker is published behind markers; the end stands
\* behind all of them.
LEMMA HandshakeStream ==
    ASSUME Batches, PublishSync \/ PublishEnd
    PROVE  Phases' /\ Draining' /\ Serving'
<1> DEFINE c == channel[1]
<1>1. /\ pc[0] \in {"publish", "end"} /\ received[0] = << >> /\ fanout = << >>
      /\ pc[1] \in {"poll", "drain"} /\ received[1] = << >>
      /\ \A i \in 1..Len(c) : c[i] = "sync"
    BY DEF PublishSync, PublishEnd, Batches, Phases
<1>2. c \in Seq(Held) /\ Len(c) \in Nat
    BY RankFacts, LenProperties DEF Batches, Handshake, HandshakeType, Held
<1>3. UNCHANGED <<received, fanout, seen>> /\ pc'[1] = pc[1]
    BY RankFacts DEF PublishSync, PublishEnd, Goto, Batches, Handshake, HandshakeType, AllRanks
<1> HIDE DEF c
<1>4. CASE PublishSync
    <2>1. pc'[0] = "ack"
        BY <1>4, RankFacts DEF PublishSync, Goto, Batches, Handshake, HandshakeType
    <2>2. channel'[1] = c \/ channel'[1] = Append(c, "sync")
        BY <1>4, RankFacts DEF PublishSync, Publish, c
    <2>3. \A i \in 1..Len(channel'[1]) : channel'[1][i] = "sync"
        <3>1. "sync" \in Held BY DEF Held
        <3>2. /\ Len(Append(c, "sync")) = Len(c) + 1
              /\ \A i \in 1..Len(c) : Append(c, "sync")[i] = c[i]
              /\ Append(c, "sync")[Len(c) + 1] = "sync"
            BY <1>2, <3>1, AppendProperties
        <3>3. ASSUME NEW i \in 1..(Len(c) + 1) PROVE Append(c, "sync")[i] = "sync"
            <4>1. i \in 1..Len(c) \/ i = Len(c) + 1 BY <1>2
            <4>2. QED BY <4>1, <3>2, <1>1
        <3>4. QED BY <2>2, <3>2, <3>3, <1>1
    <2>4. QED BY <1>1, <1>3, <2>1, <2>3 DEF Phases, Draining, Serving, Batches
<1>5. CASE PublishEnd
    <2>1. pc'[0] = "serve" /\ pc[0] = "end"
        BY <1>5, RankFacts DEF PublishEnd, Goto, Batches, Handshake, HandshakeType
    <2>2. 1 \in seen /\ 1 \in subscribed
        BY <2>1 DEF Batches, Handshake, LeftIsSeen, SeenIsSubscribed
    <2>3. pc[1] = "drain" BY <1>1, <2>2 DEF Batches, Phases
    <2>4. channel'[1] = Append(c, "end")
        BY <1>5, <2>2, RankFacts DEF PublishEnd, Publish, c
    <2> DEFINE d == Append(c, "end")
    <2>5. /\ d \in Seq(Held) /\ Len(d) = Len(c) + 1
          /\ \A i \in 1..Len(c) : d[i] = c[i]
          /\ d[Len(c) + 1] = "end"
        <3>1. "end" \in Held BY DEF Held
        <3>2. QED BY <1>2, <3>1, AppendProperties
    <2> HIDE DEF d
    <2> DEFINE k == Len(c) + 1
    <2>6. k \in 1..Len(d) /\ BehindEnd(d, k)
        <3>1. k \in 1..Len(d) /\ k - 1 = Len(c) BY <1>2, <2>5
        <3>2. QED BY <3>1, <2>5, <1>1 DEF BehindEnd
    <2>7. SubSeq(d, k + 1, Len(d)) = << >>
        <3>1. k + 1 \in Int /\ Len(d) \in Int /\ Len(d) < k + 1 BY <1>2, <2>5
        <3>2. QED BY <3>1, SubSeqEmpty
    <2>8. SubSeq(d, k + 1, Len(d)) \o fanout' = received'[0]
        <3>1. << >> \o << >> = << >> BY ConcatEmptySeq
        <3>2. QED BY <2>7, <1>1, <1>3, <3>1
    <2> HIDE DEF k
    <2>9. Draining' BY <2>1, <2>4, <2>6, <2>8 DEF Draining, d
    <2>10. QED BY <1>1, <1>3, <2>1, <2>3, <2>9 DEF Phases, Serving, Batches
<1>6. QED BY <1>4, <1>5

\* A batch rank 0 takes is all unpublished.
LEMMA CollectStream == ASSUME Batches, Collect PROVE Phases' /\ Draining' /\ Serving'
<1>1. /\ pc[0] = "serve" /\ fanout' = ingress
      /\ received' = [received EXCEPT ![0] = received[0] \o ingress]
      /\ UNCHANGED <<channel, seen>>
      /\ pc' = [pc EXCEPT ![0] = IF ingress = << >> THEN "serve" ELSE "fanout"]
    BY DEF Collect, Goto
<1>2. /\ received'[0] = received[0] \o ingress /\ received'[1] = received[1]
      /\ pc'[0] = (IF ingress = << >> THEN "serve" ELSE "fanout") /\ pc'[1] = pc[1]
    BY <1>1, RankFacts DEF Batches, BatchType, Handshake, HandshakeType, AllRanks
<1>3. fanout = << >> BY <1>1 DEF Batches, Phases
<1>4. ingress \in Seq(Held) /\ channel[1] \in Seq(Held) /\ received[1] \in Seq(Held)
    BY RankFacts DEF Batches, BatchType, Handshake, HandshakeType, Held, AllRanks
<1>5. Phases' BY <1>1, <1>2 DEF Batches, Phases
<1>6. Draining'
    <2>1. SUFFICES ASSUME pc[1] = "drain" PROVE Draining' BY <1>2 DEF Draining
    <2>2. PICK k \in 1..Len(channel[1]) :
            /\ BehindEnd(channel[1], k)
            /\ SubSeq(channel[1], k + 1, Len(channel[1])) \o fanout = received[0]
        BY <1>1, <2>1 DEF Batches, Draining
    <2> DEFINE r == SubSeq(channel[1], k + 1, Len(channel[1]))
    <2>3. r \in Seq(Held)
        <3>1. Len(channel[1]) \in Nat BY <1>4, LenProperties
        <3>2. k \in 0..Len(channel[1]) BY <3>1
        <3>3. QED BY <3>2, <1>4, Behind
    <2> HIDE DEF r
    <2>4. r = received[0] BY <1>3, <2>2, <2>3, ConcatEmptySeq DEF r
    <2>5. r \o fanout' = received'[0] BY <2>4, <1>1, <1>2
    <2>6. QED BY <1>1, <2>2, <2>5 DEF Draining, r
<1>7. Serving'
    <2>1. SUFFICES ASSUME pc[1] = "serve" PROVE Serving' BY <1>2 DEF Serving
    <2>2. received[1] \o (channel[1] \o fanout) = received[0]
        BY <2>1 DEF Batches, Serving
    <2>3. channel[1] \o fanout = channel[1] BY <1>3, <1>4, ConcatEmptySeq
    <2>4. (received[1] \o channel[1]) \o ingress = received[1] \o (channel[1] \o ingress)
        <3>1. \A s, u, v \in Seq(Held) : (s \o u) \o v = s \o (u \o v)
            BY ConcatAssociative
        <3>2. QED BY <3>1, <1>4
    <2>5. QED BY <1>1, <1>2, <2>2, <2>3, <2>4 DEF Serving
<1>8. QED BY <1>5, <1>6, <1>7

\* A pulled request moves from the socket to what rank 1 received.
LEMMA PullStream == ASSUME Batches, Pull(1) PROVE Phases' /\ Draining' /\ Serving'
<1> DEFINE c == channel[1]  p == received[1]
<1>1. /\ pc[1] = "serve" /\ c # << >> /\ c \in Seq(Held) /\ p \in Seq(Held)
      /\ fanout \in Seq(Held)
    BY RankFacts DEF Pull, Batches, BatchType, Handshake, HandshakeType, Held, AllRanks
<1>2. /\ received'[1] = Append(p, Head(c)) /\ received'[0] = received[0]
      /\ channel'[1] = Tail(c) /\ UNCHANGED <<fanout, seen, pc>>
    BY RankFacts DEF Pull, Batches, BatchType, Handshake, HandshakeType, AllRanks
<1> HIDE DEF c, p
<1>3. p \o (c \o fanout) = received[0] BY <1>1 DEF Batches, Serving, c, p
<1>4. /\ Head(c) \in Held /\ Tail(c) \in Seq(Held)
      /\ Append(p, Head(c)) \in Seq(Held)
      /\ p \o c \in Seq(Held)
    BY <1>1, HeadTailProperties, AppendProperties, ConcatProperties
<1>5. Append(p, Head(c)) \o (Tail(c) \o fanout) = (Append(p, Head(c)) \o Tail(c)) \o fanout
    BY <1>1, <1>4, ConcatAssociative
<1>6. Append(p, Head(c)) \o Tail(c) = p \o c BY <1>1, MoveOver
<1>7. (p \o c) \o fanout = p \o (c \o fanout) BY <1>1, ConcatAssociative
<1>8. Serving' BY <1>2, <1>3, <1>5, <1>6, <1>7 DEF Serving
<1>9. Phases' BY <1>1, <1>2 DEF Batches, Phases
<1>10. Draining' BY <1>1, <1>2 DEF Draining
<1>11. QED BY <1>8, <1>9, <1>10

\* Rank 1 polls only while it has seen no marker, which is before rank 0
\* publishes the end.
LEMMA PollStream == ASSUME Batches, Poll(1) PROVE Phases' /\ Draining' /\ Serving'
<1>1. /\ pc[1] = "poll" /\ channel'[1] = << >> /\ UNCHANGED <<received, fanout>>
      /\ pc'[0] = pc[0]
      /\ (pc'[1] = "drain" /\ SawSync(1)) \/ (pc'[1] = "poll" /\ ~SawSync(1) /\ seen' = seen)
    BY RankFacts DEF Poll, Goto, AfterSync, Batches, Handshake, HandshakeType, AllRanks
<1>2. 1 \notin seen BY <1>1 DEF Batches, Phases
<1>3. pc[0] \in {"publish", "ack"}
    BY <1>2 DEF Batches, Phases, Handshake, LeftIsSeen
<1>4. received[0] = << >> /\ received[1] = << >> /\ fanout = << >>
    BY <1>1, <1>3 DEF Batches, Phases
<1>5. Len(<< >>) = 0 OBVIOUS
<1>6. \A i \in 1..Len(channel'[1]) : channel'[1][i] = "sync" BY <1>1, <1>5
<1>7. QED BY <1>1, <1>2, <1>3, <1>4, <1>6 DEF Phases, Draining, Serving

\* A step of another rank, or one that is not about requests, leaves rank 1's
\* stream alone.
LEMMA StreamUnchanged ==
    ASSUME Batches, pc'[1] = pc[1], channel'[1] = channel[1], fanout' = fanout,
           received'[0] = received[0], received'[1] = received[1],
           1 \in seen' => 1 \in seen,
           pc'[0] = pc[0] \/ (pc[0] = "ack" /\ pc'[0] \in {"end", "publish"})
    PROVE  Phases' /\ Draining' /\ Serving'
BY DEF Batches, Phases, Draining, Serving

LEMMA CountsUnchanged ==
    ASSUME Batches, UNCHANGED <<received, counts, ends, want>>
    PROVE  BatchType' /\ CountsAddUp'
BY DEF Batches, BatchType, CountsAddUp

\* Every step keeps what is under way: one case per action.
LEMMA BatchesStep == ASSUME Batches, [Next]_vars PROVE Batches'
<1> USE RankFacts
<1> SUFFICES /\ BatchType' /\ CountsAddUp'
             /\ Phases' /\ Draining' /\ Serving'
    BY HandshakeStep DEF Batches
<1> DEFINE Goal == BatchType' /\ CountsAddUp' /\ Phases' /\ Draining' /\ Serving'
<1>0. pc \in [AllRanks -> Labels] /\ channel \in [Ranks -> Seq(Held)]
      /\ received \in [AllRanks -> Seq(Held)] /\ AllRanks = Ranks \cup {0}
    BY DEF Batches, BatchType, Handshake, HandshakeType, Held, AllRanks
<1>1. CASE UNCHANGED vars
    BY <1>1, StreamUnchanged, CountsUnchanged DEF vars
<1>2. CASE PublishSync \/ PublishEnd
    <2>1. UNCHANGED <<received, counts, ends, want>> BY <1>2 DEF PublishSync, PublishEnd
    <2>2. QED BY <1>2, <2>1, HandshakeStream, CountsUnchanged
<1>3. CASE Collect BY <1>3, CollectCounts, CollectStream
<1>4. CASE FanOut
    <2>1. UNCHANGED <<received, counts, ends, want, seen>>
          /\ pc' = [pc EXCEPT ![0] = IF Len(fanout) = 1 THEN "serve" ELSE "fanout"]
          /\ fanout' = Tail(fanout) /\ pc[0] = "fanout"
        BY <1>4 DEF FanOut, Goto
    <2>2. fanout \in Seq(Messages) /\ fanout # << >>
        BY <2>1 DEF Batches, Handshake, HandshakeType
    <2>3. pc'[0] # "fanout" => fanout' = << >>
        <3>1. pc'[0] # "fanout" => Len(fanout) = 1 BY <1>0, <2>1
        <3>2. Len(fanout) = 1 => Len(Tail(fanout)) = 0 BY <2>2, HeadTailProperties
        <3>3. Tail(fanout) \in Seq(Messages) BY <2>2, HeadTailProperties
        <3>4. Len(Tail(fanout)) = 0 => Tail(fanout) = << >> BY <3>3, EmptySeq
        <3>5. QED BY <2>1, <3>1, <3>2, <3>4
    <2>4. pc'[1] = pc[1] /\ pc'[0] \in {"serve", "fanout"} BY <1>0, <2>1
    <2>5. Phases' BY <2>1, <2>3, <2>4 DEF Batches, Phases
    <2>6. QED BY <1>4, <2>1, <2>5, FanOutStream, CountsUnchanged
<1>5. ASSUME NEW r \in Ranks, Subscribe(r) PROVE Goal
    BY <1>5, StreamUnchanged, CountsUnchanged DEF Subscribe
<1>6. ASSUME NEW m \in Messages, Send(m) PROVE Goal
    BY <1>6, StreamUnchanged, CountsUnchanged DEF Send
<1>7. ASSUME NEW r \in Ranks, Poll(r) PROVE Goal
    <2>1. UNCHANGED <<received, counts, ends, want, fanout>> BY <1>7 DEF Poll
    <2>2. CASE r = 1 BY <1>7, <2>1, <2>2, PollStream, CountsUnchanged
    <2>3. CASE r # 1
        <3>1. pc'[1] = pc[1] /\ pc'[0] = pc[0] /\ channel'[1] = channel[1]
            BY <1>7, <1>0, <2>3 DEF Poll, Goto
        <3>2. 1 \in seen' => 1 \in seen BY <1>7, <2>3 DEF Poll
        <3>3. QED BY <2>1, <3>1, <3>2, StreamUnchanged, CountsUnchanged
    <2>4. QED BY <2>2, <2>3
<1>8. ASSUME NEW r \in AllRanks, ReceiveAck(r) PROVE Goal
    <2>1. UNCHANGED <<received, counts, ends, want, fanout, channel, seen>> /\ r # 1
        BY <1>8 DEF ReceiveAck
    <2>2. pc'[1] = pc[1] /\ (pc'[0] = pc[0] \/ (pc[0] = "ack" /\ pc'[0] \in {"end", "publish"}))
        BY <1>8, <1>0, <2>1 DEF ReceiveAck, Goto
    <2>3. QED BY <2>1, <2>2, StreamUnchanged, CountsUnchanged
<1>9. ASSUME NEW r \in Ranks, Drain(r) PROVE Goal
    <2>1. UNCHANGED <<received, counts, ends, want, fanout, seen>> BY <1>9 DEF Drain
    <2>2. CASE r = 1 BY <1>9, <2>1, <2>2, DrainStream, CountsUnchanged
    <2>3. CASE r # 1
        <3>1. pc'[1] = pc[1] /\ pc'[0] = pc[0] /\ channel'[1] = channel[1]
            BY <1>9, <1>0, <2>3 DEF Drain, Goto
        <3>2. QED BY <2>1, <3>1, StreamUnchanged, CountsUnchanged
    <2>4. QED BY <2>2, <2>3
<1>10. ASSUME NEW r \in Ranks, TakeCount(r) PROVE Goal
    BY <1>10, TakeCounts, StreamUnchanged DEF TakeCount
<1>11. ASSUME NEW r \in Ranks, Pull(r) PROVE Goal
    <2>1. UNCHANGED <<fanout, pc, seen>> BY <1>11 DEF Pull
    <2>2. CASE r = 1 BY <1>11, <2>2, PullCounts, PullStream
    <2>3. CASE r # 1
        <3>1. channel'[1] = channel[1] /\ received'[1] = received[1] /\ received'[0] = received[0]
            BY <1>11, <1>0, <2>3 DEF Pull
        <3>2. QED BY <1>11, <2>1, <3>1, PullCounts, StreamUnchanged
    <2>4. QED BY <2>2, <2>3
<1>12. QED
    BY <1>1, <1>2, <1>3, <1>4, <1>5, <1>6, <1>7, <1>8, <1>9, <1>10, <1>11
    DEF Next, Rank0, Rank, AllRanks

\* Whatever the number of ranks, rank 1 works through rank 0's batches: it
\* received a prefix of what rank 0 did, without a marker, and ends where rank
\* 0's same iteration ended (_recv_msg_multi_rank0, _recv_msg_multi_rank1).
RankOneFollows ==
    /\ IsPrefix(received[1], received[0])
    /\ Len(received[1]) + want[1] = Head(ends[1])

LEMMA BatchesImply == ASSUME Batches PROVE RankOneFollows
<1> USE RankFacts
<1>1. /\ received[1] \in Seq(Held) /\ received[0] \in Seq(Held)
      /\ channel[1] \in Seq(Held) /\ fanout \in Seq(Held)
    BY DEF Batches, BatchType, Handshake, HandshakeType, Held, AllRanks
<1>2. IsPrefix(received[1], received[0])
    <2>1. CASE pc[1] = "serve"
        <3>1. channel[1] \o fanout \in Seq(Held) BY <1>1, ConcatProperties
        <3>2. IsPrefix(received[1], received[1] \o (channel[1] \o fanout))
            BY <1>1, <3>1, FrontIsPrefix
        <3>3. QED BY <2>1, <3>2 DEF Batches, Serving
    <2>2. CASE pc[1] # "serve"
        <3>1. received[1] = << >> BY <2>2 DEF Batches, Phases
        <3>2. << >> \o received[0] = received[0] BY <1>1, ConcatEmptySeq
        <3>3. << >> \in Seq(Held) OBVIOUS
        <3>4. IsPrefix(<< >>, << >> \o received[0]) BY <1>1, <3>3, FrontIsPrefix
        <3>5. QED BY <3>1, <3>2, <3>4
    <2>3. QED BY <2>1, <2>2
<1>3. Len(received[1]) + want[1] = Head(ends[1])
    <2>1. Head(ends[1]) = ends[1][1]
        <3>1. /\ ends[1] \in Seq(Nat) /\ Len(ends[1]) = Len(counts[1]) + 1
              /\ counts[1] \in Seq(Nat)
            BY DEF Batches, BatchType, CountsAddUp
        <3>2. Len(ends[1]) # 0 BY <3>1, LenProperties
        <3>3. ends[1] # << >> BY <3>2, EmptySeq
        <3>4. QED BY <3>1, <3>3
    <2>2. QED BY <2>1 DEF Batches, CountsAddUp
<1>4. QED BY <1>2, <1>3 DEF RankOneFollows

\* Rank 1 follows rank 0, however many ranks there are (scheduler/io.py).
THEOREM RankOneAgrees == Spec => []RankOneFollows
<1>1. Init => Batches BY InitBatches
<1>2. Batches /\ [Next]_vars => Batches' BY BatchesStep
<1>3. Batches => RankOneFollows BY BatchesImply
<1>4. QED BY <1>1, <1>2, <1>3, PTL DEF Spec

\* With two tensor-parallel ranks, both work through the same batches, in the
\* same order and with the same ends (scheduler/io.py).
THEOREM TwoRanksAgree == ASSUME Ranks = {1} PROVE Spec => []BatchesAgree
<1>1. Init => Batches BY InitBatches
<1>2. Batches /\ [Next]_vars => Batches' BY BatchesStep
<1>3. Batches => BatchesAgree BY BatchesImply DEF RankOneFollows, BatchesAgree
<1>4. QED BY <1>1, <1>2, <1>3, PTL DEF Spec
=============================================================================
