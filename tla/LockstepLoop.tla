---------------------------- MODULE LockstepLoop ----------------------------
(***************************************************************************)
(* The loop of an expert-parallel group (scheduler/ep.py).  The experts    *)
(* are sharded over the replicas, so every forward gathers the tokens of   *)
(* all of them, and a replica that issues another collective than its      *)
(* peers, or none, hangs them all.  Each iteration the replicas therefore  *)
(* agree, by one all-reduce of what each would like to run, on the phase   *)
(* and the size of the step, and whoever has no work of that kind runs a   *)
(* dummy.                                                                  *)
(*                                                                         *)
(* The all-reduce blocks and is one action of the whole group.  A forward  *)
(* only enqueues its collectives, one layer standing for all; a replica    *)
(* with real work waits for them before it commits, a dummy runs ahead.    *)
(* What a scheduler does with its requests is reduced to what decides the  *)
(* votes: prompt tokens left, rows held, requests running.  A prefill      *)
(* batch has one request: only its number of tokens is told apart.         *)
(***************************************************************************)
EXTENDS Integers, Sequences, FiniteSets

CONSTANTS
    Replicas,     \* the replicas of the group
    Requests,     \* every request that ever arrives
    Home,         \* request -> the replica it is routed to
    PromptLen,    \* request -> tokens of its prompt
    OutputLen,    \* max_tokens of every request
    Budget,       \* tokens of a prefill batch
    Rows,         \* max_running_req: table rows of a replica
    GraphSizes,   \* graph_bs_list: the batch sizes captured as graphs
    None          \* no request

ASSUME LockstepAssumption ==
    /\ Replicas # {} /\ IsFiniteSet(Requests)
    /\ Home \in [Requests -> Replicas]
    /\ PromptLen \in [Requests -> Nat \ {0}]
    /\ OutputLen \in Nat \ {0} /\ Budget \in Nat \ {0} /\ Rows \in Nat \ {0}
    /\ GraphSizes \subseteq Nat \ {0}
    /\ None \notin Requests

VARIABLES
    stage,      \* request -> "new", "waiting", "chunked", "running" or "done"
    left,       \* request -> tokens left: of its prompt, then of its output
    pc,         \* replica -> where it stands in ep_loop
    batch,      \* replica -> the request of its prefill batch, or None
    vote,       \* replica -> what it put into the all-reduce
    decision,   \* what the last all-reduce returned
    stream      \* replica -> collectives it issued that are not complete

requests == <<stage, left>>
vars == <<requests, pc, batch, vote, decision, stream>>

Init ==
    /\ stage = [q \in Requests |-> "new"]
    /\ left = PromptLen
    /\ pc = [r \in Replicas |-> "receive"]
    /\ batch = [r \in Replicas |-> None]
    /\ vote = [r \in Replicas |-> [tokens |-> 0, size |-> 0]]
    /\ decision = [tokens |-> 0, size |-> 0]
    /\ stream = [r \in Replicas |-> << >>]

Goto(r, label) == pc' = [pc EXCEPT ![r] = label]

Of(r, stages) == {q \in Requests : Home[q] = r /\ stage[q] \in stages}

Running(r) == Of(r, {"running"})

\* What a prefill batch extends its request by (extend_len).
Chunk(q) == IF left[q] < Budget THEN left[q] ELSE Budget

----------------------------------------------------------------------------
(* An iteration, up to the vote.                                           *)

\* receive_msg: a prompt, or an abort of a request that is not over.
Arrive(q) ==
    /\ pc[Home[q]] = "receive" /\ stage[q] = "new"
    /\ stage' = [stage EXCEPT ![q] = "waiting"]
    /\ UNCHANGED <<left, pc, batch, vote, decision, stream>>

Abort(q) ==
    /\ pc[Home[q]] = "receive" /\ stage[q] \in {"waiting", "chunked", "running"}
    /\ stage' = [stage EXCEPT ![q] = "done"]
    /\ UNCHANGED <<left, pc, batch, vote, decision, stream>>

\* Who can be prefilled: a chunked request has its row already; and the same
\* without an eye on the rows.
CandidatesBeyondRows(r) == Of(r, {"chunked", "waiting"})
Candidates(r) ==
    Of(r, {"chunked"})
    \cup (IF Cardinality(Of(r, {"chunked", "running"})) < Rows THEN Of(r, {"waiting"}) ELSE {})

\* The tokens of a batch, and the number of its requests, which the vote was
\* once about.
BatchSize(q) == 1
BatchTokens(q) == Chunk(q)

\* Schedule a prefill batch, or none if nobody can be prefilled or if there is
\* no room beside the running requests; and vote.
Vote(r) ==
    /\ pc[r] = "receive"
    /\ \E q \in Candidates(r) \cup {None} :
          /\ q = None => Candidates(r) = {} \/ Running(r) # {}
          /\ batch' = [batch EXCEPT ![r] = q]
          /\ vote' = [vote EXCEPT ![r] =
                [tokens |-> IF q = None THEN 0 ELSE BatchTokens(q),
                 size |-> Cardinality(Running(r))]]
    /\ Goto(r, "voted")
    /\ UNCHANGED <<requests, decision, stream>>

\* What one replica said; and m is the maximum of f over the replicas.
IsVoteOf(m, f) == m = f[CHOOSE r \in Replicas : TRUE]
IsMaximum(m, f) == (\E r \in Replicas : f[r] = m) /\ \A r \in Replicas : f[r] <= m

\* _ep_agree: nobody leaves before everybody entered.
AllReduce ==
    /\ \A r \in Replicas : pc[r] = "voted"
    /\ \E r, s \in Replicas :
          /\ IsMaximum(vote[r].tokens, [q \in Replicas |-> vote[q].tokens])
          /\ IsMaximum(vote[s].size, [q \in Replicas |-> vote[q].size])
          /\ decision' = [tokens |-> vote[r].tokens, size |-> vote[s].size]
    /\ pc' = [r \in Replicas |-> "decided"]
    /\ UNCHANGED <<requests, batch, vote, stream>>

----------------------------------------------------------------------------
(* The step agreed on.                                                     *)

\* The collectives of a forward over n rows: eager decoding counts the rows
\* first, a graph and a prefill know them.
Gather(n) == [op |-> "gather", rows |-> n]
Count == [op |-> "count", rows |-> 1]

Issue(r, collectives) == stream' = [stream EXCEPT ![r] = @ \o collectives]

\* Everybody is out of work: run_when_idle.
Idle(r) ==
    /\ pc[r] = "decided" /\ decision.tokens = 0 /\ decision.size = 0
    /\ Goto(r, "receive")
    /\ UNCHANGED <<requests, batch, vote, decision, stream>>

\* A real or a one-token dummy prefill, padded to the common number of tokens.
Padded(n) == IF n < decision.tokens THEN decision.tokens ELSE n

Prefill(r) ==
    /\ pc[r] = "decided" /\ decision.tokens > 0
    /\ Issue(r, <<Gather(Padded(IF batch[r] = None THEN 1 ELSE Chunk(batch[r])))>>)
    /\ Goto(r, IF batch[r] = None THEN "receive" ELSE "prefilled")
    /\ UNCHANGED <<requests, batch, vote, decision>>

\* The smallest captured size that holds everybody's batch, or what it is.
Covering == {b \in GraphSizes : b >= decision.size}
CommonSize ==
    IF Covering = {} THEN decision.size
    ELSE CHOOSE b \in Covering : \A c \in Covering : b <= c

\* can_use_cuda_graph looks at the real requests of this replica.
UsesGraph(r) == vote[r].size = 0 \/ \E b \in GraphSizes : vote[r].size <= b

\* Decode, padded to the common size, which replay looks up in its graphs.
Decode(r) ==
    /\ pc[r] = "decided" /\ decision.tokens = 0 /\ decision.size > 0
    /\ IF UsesGraph(r) /\ CommonSize \notin GraphSizes
       THEN Goto(r, "dead") /\ UNCHANGED stream
       ELSE /\ Issue(r, IF UsesGraph(r) THEN <<Gather(CommonSize)>>
                        ELSE <<Count, Gather(CommonSize)>>)
            /\ Goto(r, IF vote[r].size = 0 THEN "receive" ELSE "decoded")
    /\ UNCHANGED <<requests, batch, vote, decision>>

\* The oldest collective of every replica is the same one, and completes.
Complete ==
    /\ \A r \in Replicas : stream[r] # << >>
    /\ \A r, s \in Replicas : Head(stream[r]) = Head(stream[s])
    /\ stream' = [r \in Replicas |-> Tail(stream[r])]
    /\ UNCHANGED <<requests, pc, batch, vote, decision>>

\* _process_last_data, once the forward is done: the chunk is in, and the last
\* one brings the first token.
CommitPrefill(r) ==
    /\ pc[r] = "prefilled" /\ stream[r] = << >>
    /\ LET q == batch[r]
       IN  \E over \in BOOLEAN :
              /\ over => left[q] <= Budget
              /\ left' = [left EXCEPT ![q] =
                    IF left[q] > Budget THEN left[q] - Budget ELSE OutputLen - 1]
              /\ stage' = [stage EXCEPT ![q] =
                    IF left[q] > Budget THEN "chunked"
                    ELSE IF over \/ OutputLen = 1 THEN "done" ELSE "running"]
    /\ Goto(r, "receive")
    /\ UNCHANGED <<batch, vote, decision, stream>>

\* ... or every running request has one more token, its last one or some end.
LastToken(q) == left[q] = 1

CommitDecode(r) ==
    /\ pc[r] = "decoded" /\ stream[r] = << >>
    /\ left' = [q \in Requests |-> IF q \in Running(r) THEN left[q] - 1 ELSE left[q]]
    /\ \E ended \in SUBSET Running(r) :
          stage' = [q \in Requests |->
              IF q \in ended \/ (q \in Running(r) /\ LastToken(q)) THEN "done" ELSE stage[q]]
    /\ Goto(r, "receive")
    /\ UNCHANGED <<batch, vote, decision, stream>>

----------------------------------------------------------------------------
Step(r) ==
    Vote(r) \/ Idle(r) \/ Prefill(r) \/ Decode(r) \/ CommitPrefill(r) \/ CommitDecode(r)

Next ==
    \/ \E q \in Requests : Arrive(q) \/ Abort(q)
    \/ \E r \in Replicas : Step(r)
    \/ AllReduce \/ Complete

Spec == Init /\ [][Next]_vars

\* Every process runs, and a collective everybody issued completes.
Fairness ==
    WF_vars(AllReduce) /\ WF_vars(Complete) /\ \A r \in Replicas : WF_vars(Step(r))

FairSpec == Spec /\ Fairness

----------------------------------------------------------------------------
(* Properties.                                                             *)

Stages == {"new", "waiting", "chunked", "running", "done"}
Places == {"receive", "voted", "decided", "prefilled", "decoded", "dead"}
Votes == [tokens : Nat, size : Nat]
Collectives == [op : {"gather", "count"}, rows : Nat]

\* The types of the requests, the votes and the streams.
TypeOK ==
    /\ stage \in [Requests -> Stages] /\ left \in [Requests -> Nat]
    /\ pc \in [Replicas -> Places]
    /\ batch \in [Replicas -> Requests \cup {None}]
    /\ vote \in [Replicas -> Votes] /\ decision \in Votes
    /\ \A r \in Replicas : vote[r].size <= Rows
    /\ stream \in [Replicas -> Seq(Collectives)]

\* Every replica issues the same collectives in the same order, with the same
\* number of rows (the docstring of SchedulerEPMixin), however far a dummy has
\* run ahead of its peers.
CollectivesMatch ==
    \A r, s \in Replicas :
        \A i \in DOMAIN stream[r] \cap DOMAIN stream[s] : stream[r][i] = stream[s][i]

\* The common size is one every replica can run: a batch beyond the largest
\* graph is run eagerly, by all of them (the comment in ep_loop).
EveryReplicaSteps == \A r \in Replicas : pc[r] # "dead"

\* No replica waits for ever, and none starves its requests for another one's:
\* whatever arrives is answered in the end.
EveryRequestEnds == \A q \in Requests : stage[q] # "new" ~> stage[q] = "done"
=============================================================================
