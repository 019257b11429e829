--------------------------- MODULE InterRankLink ---------------------------
(***************************************************************************)
(* How the requests reach every tensor-parallel rank of one scheduler      *)
(* (scheduler/io.py).  Rank 0 pulls them from the tokenizers and publishes *)
(* them to the other ranks over a ZMQ PUB/SUB socket, which drops whatever *)
(* is published to a rank whose subscription has not propagated.  A        *)
(* handshake therefore comes first: rank 0 publishes SYNC markers until    *)
(* rank 1 says, by a gloo broadcast, that it saw one.  Then rank 0         *)
(* broadcasts, in every iteration, how many messages it publishes, and the *)
(* other ranks pull that many.                                             *)
(*                                                                         *)
(* ZMQ and gloo are external: a subscription takes effect at any time, a   *)
(* connection keeps its order, and the root of a broadcast may run ahead   *)
(* of its receivers.                                                       *)
(***************************************************************************)
EXTENDS Integers, SequencesExt

CONSTANTS
    Ranks,       \* the ranks that subscribe: tp_size - 1 of them
    Messages,    \* what the tokenizers send
    MaxAhead     \* broadcasts a root may be ahead of a receiver: a bound

ASSUME LinkAssumption ==
    /\ Ranks \subseteq Nat \ {0} /\ 1 \in Ranks
    /\ MaxAhead \in Nat \ {0}
    /\ Messages \cap {"sync", "end"} = {}

VARIABLES
    ingress,     \* _recv_from_tokenizer of rank 0
    pc,          \* rank -> where it stands
    subscribed,  \* ranks whose subscription has propagated
    channel,     \* rank -> what its SUB socket holds
    seen,        \* ranks that saw a SYNC marker
    acks,        \* rank -> broadcasts of rank 1 it has not received
    counts,      \* rank -> broadcasts of rank 0 it has not received
    fanout,      \* raw_msgs rank 0 has not published yet
    want,        \* rank -> messages of this iteration it has not pulled
    received,    \* rank -> every message it received, in order
    ends         \* rank -> Len(received[0]) at the end of rank 0's iterations:
                 \* of the one the rank is in, then of those it has not begun

vars == <<ingress, pc, subscribed, channel, seen, acks, counts, fanout, want, received, ends>>

AllRanks == Ranks \cup {0}

Init ==
    /\ ingress = << >>
    /\ pc = [r \in AllRanks |-> IF r = 0 THEN "publish" ELSE "poll"]
    /\ subscribed = {} /\ seen = {}
    /\ channel = [r \in Ranks |-> << >>]
    /\ acks = [r \in AllRanks \ {1} |-> << >>]
    /\ counts = [r \in Ranks |-> << >>]
    /\ fanout = << >>
    /\ want = [r \in Ranks |-> 0]
    /\ received = [r \in AllRanks |-> << >>]
    /\ ends = [r \in Ranks |-> <<0>>]

Goto(r, label) == pc' = [pc EXCEPT ![r] = label]

----------------------------------------------------------------------------
(* The sockets.                                                            *)

\* A PUB socket drops what no one subscribed to.
Publish(m) ==
    channel' = [r \in Ranks |->
        IF r \in subscribed THEN Append(channel[r], m) ELSE channel[r]]

Subscribe(r) ==
    /\ r \notin subscribed
    /\ subscribed' = subscribed \cup {r}
    /\ UNCHANGED <<ingress, pc, channel, seen, acks, counts, fanout, want, received, ends>>

\* A tokenizer sends m, whatever the ranks are doing.
Send(m) ==
    /\ m \notin ToSet(ingress) \cup ToSet(received[0])
    /\ ingress' = Append(ingress, m)
    /\ UNCHANGED <<pc, subscribed, channel, seen, acks, counts, fanout, want, received, ends>>

----------------------------------------------------------------------------
(* The handshake (establish_inter_rank_link).                              *)

PublishSync ==
    /\ pc[0] = "publish"
    /\ Publish("sync")
    /\ Goto(0, "ack")
    /\ UNCHANGED <<ingress, subscribed, seen, acks, counts, fanout, want, received, ends>>

PublishEnd ==
    /\ pc[0] = "end"
    /\ Publish("end")
    /\ Goto(0, "serve")
    /\ UNCHANGED <<ingress, subscribed, seen, acks, counts, fanout, want, received, ends>>

\* Whether a rank that drained its socket saw a marker, now or before; and an
\* acknowledgement that does not wait for one.
SawAnything(r) == TRUE
SawSync(r) == r \in seen \/ "sync" \in ToSet(channel[r])

\* Where a rank goes once it saw a marker.
AfterSync == "drain"

\* A rank reads what its socket holds.  Rank 1 broadcasts whether it saw a
\* marker; any other rank goes on to receive that broadcast.
Poll(r) ==
    /\ pc[r] = "poll"
    /\ r = 1 => \A q \in DOMAIN acks : Len(acks[q]) < MaxAhead
    /\ channel' = [channel EXCEPT ![r] = << >>]
    /\ seen' = IF SawSync(r) THEN seen \cup {r} ELSE seen
    /\ acks' = IF r = 1 THEN [q \in DOMAIN acks |-> Append(acks[q], SawSync(1))] ELSE acks
    /\ Goto(r, IF r # 1 THEN "ack" ELSE IF SawSync(1) THEN AfterSync ELSE "poll")
    /\ UNCHANGED <<ingress, subscribed, counts, fanout, want, received, ends>>

\* Rank 0 goes by what rank 1 broadcast, and asks no other rank.  The others
\* receive it over their own flag and go by what they saw themselves.
ReceiveAck(r) ==
    /\ r # 1 /\ pc[r] = "ack" /\ acks[r] # << >>
    /\ acks' = [acks EXCEPT ![r] = Tail(@)]
    /\ Goto(r, IF r = 0 THEN IF Head(acks[0]) THEN "end" ELSE "publish"
               ELSE IF r \in seen THEN AfterSync ELSE "poll")
    /\ UNCHANGED <<ingress, subscribed, channel, seen, counts, fanout, want, received, ends>>

\* get_raw until SYNC_END.
Drain(r) ==
    /\ pc[r] = "drain" /\ channel[r] # << >>
    /\ channel' = [channel EXCEPT ![r] = Tail(@)]
    /\ Goto(r, IF Head(channel[r]) = "end" THEN "serve" ELSE "drain")
    /\ UNCHANGED <<ingress, subscribed, seen, acks, counts, fanout, want, received, ends>>

----------------------------------------------------------------------------
(* Serving (_recv_msg_multi_rank0, _recv_msg_multi_rank1).                 *)

\* The number rank 0 broadcasts; and one that leaves out the message a
\* blocking receive began with.
FirstUncounted(msgs) == IF msgs = << >> THEN 0 ELSE Len(msgs) - 1
CountOf(msgs) == Len(msgs)

\* Rank 0 takes everything there is, nothing included unless it blocks, and
\* broadcasts the count.
Collect ==
    /\ pc[0] = "serve"
    /\ \A r \in Ranks : Len(counts[r]) < MaxAhead
    /\ ingress' = << >>
    /\ received' = [received EXCEPT ![0] = @ \o ingress]
    /\ counts' = [r \in Ranks |-> Append(counts[r], CountOf(ingress))]
    /\ ends' = [r \in Ranks |-> Append(ends[r], Len(received[0]) + Len(ingress))]
    /\ fanout' = ingress
    /\ Goto(0, IF ingress = << >> THEN "serve" ELSE "fanout")
    /\ UNCHANGED <<subscribed, channel, seen, acks, want>>

FanOut ==
    /\ pc[0] = "fanout"
    /\ Publish(Head(fanout))
    /\ fanout' = Tail(fanout)
    /\ Goto(0, IF Len(fanout) = 1 THEN "serve" ELSE "fanout")
    /\ UNCHANGED <<ingress, subscribed, seen, acks, counts, want, received, ends>>

\* Another rank learns the count, whether it would have blocked or not, ...
TakeCount(r) ==
    /\ pc[r] = "serve" /\ want[r] = 0 /\ counts[r] # << >>
    /\ want' = [want EXCEPT ![r] = Head(counts[r])]
    /\ counts' = [counts EXCEPT ![r] = Tail(@)]
    /\ ends' = [ends EXCEPT ![r] = Tail(@)]
    /\ UNCHANGED <<ingress, pc, subscribed, channel, seen, acks, fanout, received>>

\* ... and pulls that many.
Pull(r) ==
    /\ pc[r] = "serve" /\ want[r] > 0 /\ channel[r] # << >>
    /\ received' = [received EXCEPT ![r] = Append(@, Head(channel[r]))]
    /\ channel' = [channel EXCEPT ![r] = Tail(@)]
    /\ want' = [want EXCEPT ![r] = @ - 1]
    /\ UNCHANGED <<ingress, pc, subscribed, seen, acks, counts, fanout, ends>>

----------------------------------------------------------------------------
Rank0 == PublishSync \/ ReceiveAck(0) \/ PublishEnd \/ Collect \/ FanOut

Rank(r) == Poll(r) \/ ReceiveAck(r) \/ Drain(r) \/ TakeCount(r) \/ Pull(r)

Next ==
    \/ Rank0
    \/ \E r \in Ranks : Rank(r) \/ Subscribe(r)
    \/ \E m \in Messages : Send(m)

Spec == Init /\ [][Next]_vars

\* Every process runs, and a subscription propagates some time.
Fairness == WF_vars(Rank0) /\ \A r \in Ranks : WF_vars(Rank(r)) /\ WF_vars(Subscribe(r))

FairSpec == Spec /\ Fairness

----------------------------------------------------------------------------
(* Properties.                                                             *)

Labels == {"publish", "ack", "end", "poll", "drain", "serve", "fanout"}

\* The PUB/SUB fan-out is live before any request flows: once rank 0 left
\* the handshake of establish_inter_rank_link, every rank is subscribed.
LinkIsLive == pc[0] \in {"serve", "fanout"} => subscribed = Ranks

\* Every rank works through the same batches: what it received is what rank
\* 0 received, in order, without a marker of the handshake, and with what it
\* still wants it ends where rank 0's same iteration ended.
BatchesAgree ==
    \A r \in Ranks :
        /\ IsPrefix(received[r], received[0])
        /\ Len(received[r]) + want[r] = Head(ends[r])

\* Every request reaches every rank: neither the handshake nor the count
\* broadcast leaves rank 0 and another rank waiting for each other.
EveryMessageArrives ==
    \A m \in Messages : \A r \in Ranks :
        m \in ToSet(ingress) ~> m \in ToSet(received[r])
=============================================================================
