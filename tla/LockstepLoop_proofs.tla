------------------------ MODULE LockstepLoop_proofs ------------------------
(***************************************************************************)
(* The loop of scheduler/ep.py keeps the collectives of its replicas in    *)
(* step, for any number of replicas and requests and whatever graphs were  *)
(* captured; and if a graph holds every batch, no replica dies on its way. *)
(*                                                                         *)
(* CollectivesMatch is not inductive.  A replica that still has to take    *)
(* its step will issue the collectives of Forward, so those who took it    *)
(* must have issued exactly these, and no dummy may run on into the next   *)
(* all-reduce before they are complete.  It may not because somebody has   *)
(* real work and waits for them: that is what Waits adds.  The step of     *)
(* every replica is Forward because its own vote is at most the maximum.   *)
(***************************************************************************)
EXTENDS LockstepLoop, FiniteSetTheorems, SequenceTheorems, WellFoundedInduction, TLAPS

----------------------------------------------------------------------------
(* What a replica knows of its own requests.                               *)

Holding(r) == Of(r, {"chunked", "running"})

\* The batch a replica voted for is still its to prefill, and its vote tells
\* its tokens.
BatchKept ==
    \A r \in Replicas : pc[r] \in {"voted", "decided", "prefilled"} =>
        IF batch[r] = None
        THEN pc[r] # "prefilled" /\ vote[r].tokens = 0
        ELSE /\ Home[batch[r]] = r
             /\ stage[batch[r]] \in {"waiting", "chunked"}
             /\ vote[r].tokens = Chunk(batch[r])

\* Who is not over has tokens left.
TokensLeft == \A q \in Requests : stage[q] # "done" => left[q] > 0

\* A replica holds no more rows than it has, its batch included.
RowsKept ==
    \A r \in Replicas :
        /\ Cardinality(Holding(r)) <= Rows
        /\ pc[r] \in {"voted", "decided", "prefilled"} /\ batch[r] # None
              => stage[batch[r]] = "chunked" \/ Cardinality(Holding(r)) < Rows

\* A step is within what everybody voted.
VoteCounted ==
    \A r \in Replicas : pc[r] = "decided" =>
        vote[r].tokens <= decision.tokens /\ vote[r].size <= decision.size

Own ==
    /\ TypeOK /\ BatchKept /\ TokensLeft /\ RowsKept /\ VoteCounted
    /\ decision.size <= Rows

(* What the replicas know of each other.                                   *)

\* The collectives of the step agreed on.
Forward ==
    IF decision.tokens > 0 THEN <<Gather(decision.tokens)>>
    ELSE IF decision.size = 0 THEN << >>
    ELSE IF Covering # {} THEN <<Gather(CommonSize)>>
    ELSE <<Count, Gather(CommonSize)>>

Issued(r) == pc[r] \notin {"decided", "dead"}
Behind == \E r \in Replicas : ~Issued(r)

\* Whose work in this step is real.
Real(r) == IF decision.tokens > 0 THEN batch[r] # None ELSE vote[r].size > 0

\* While somebody is behind, it has issued nothing and the others the whole
\* step; afterwards all streams are the same.
StreamsAgree ==
    /\ \A r \in Replicas : ~Issued(r) => stream[r] = << >>
    /\ Behind => \A r \in Replicas : Issued(r) => stream[r] = Forward
    /\ ~Behind => \A r, s \in Replicas : stream[r] = stream[s]

\* Somebody waits, or will, for the collectives of the step.
Waits ==
    /\ Behind /\ Forward # << >> =>
          \E w \in Replicas : \/ pc[w] \in {"prefilled", "decoded", "dead"}
                              \/ pc[w] = "decided" /\ Real(w)
    /\ ~Behind /\ (\E r \in Replicas : stream[r] # << >>) =>
          \E w \in Replicas : pc[w] \in {"prefilled", "decoded"}

InStep == StreamsAgree /\ Waits

----------------------------------------------------------------------------
(* Facts about the operators.                                              *)

\* Requests of a replica are counted.
LEMMA CountsAreNat ==
    ASSUME NEW r \in Replicas, NEW stages
    PROVE  IsFiniteSet(Of(r, stages)) /\ Cardinality(Of(r, stages)) \in Nat
<1>1. Of(r, stages) \subseteq Requests /\ IsFiniteSet(Requests)
    BY LockstepAssumption DEF Of
<1>2. QED BY <1>1, FS_Subset, FS_CardinalityType

\* A step that adds no request to those who hold a row adds no row.
LEMMA FewerRows ==
    ASSUME NEW r \in Replicas, Holding(r)' \subseteq Holding(r)
    PROVE  Cardinality(Holding(r)') <= Cardinality(Holding(r))
<1>1. IsFiniteSet(Holding(r)) BY CountsAreNat DEF Holding
<1>2. QED BY <1>1, FS_Subset

\* One element more, at most.
LEMMA OneMore ==
    ASSUME NEW S, IsFiniteSet(S), NEW x, NEW T, T \subseteq S \cup {x}
    PROVE  Cardinality(T) <= Cardinality(S) + 1
<1>1. Cardinality(S) \in Nat BY FS_CardinalityType
<1>2. IsFiniteSet(S \cup {x})
      /\ Cardinality(S \cup {x}) = IF x \in S THEN Cardinality(S) ELSE Cardinality(S) + 1
    BY FS_AddElement
<1>3. Cardinality(S \cup {x}) <= Cardinality(S) + 1 BY <1>1, <1>2
<1>4. Cardinality(T) <= Cardinality(S \cup {x}) /\ IsFiniteSet(T) BY <1>2, FS_Subset
<1>5. Cardinality(T) \in Nat /\ Cardinality(S \cup {x}) \in Nat
    BY <1>2, <1>4, FS_CardinalityType
<1>6. QED BY <1>1, <1>3, <1>4, <1>5

\* A step that adds one request to those who hold a row adds at most one row.
LEMMA OneMoreRow ==
    ASSUME NEW r \in Replicas, NEW q, Holding(r)' \subseteq Holding(r) \cup {q}
    PROVE  Cardinality(Holding(r)') <= Cardinality(Holding(r)) + 1
<1>1. IsFiniteSet(Holding(r)) BY CountsAreNat DEF Holding
<1>2. QED BY <1>1, OneMore

\* The running requests hold rows.
LEMMA RunningHold ==
    ASSUME NEW r \in Replicas
    PROVE  Cardinality(Running(r)) <= Cardinality(Holding(r))
<1>1. Running(r) \subseteq Holding(r) BY DEF Running, Holding, Of
<1>2. IsFiniteSet(Holding(r)) BY CountsAreNat DEF Holding
<1>3. QED BY <1>1, <1>2, FS_Subset

\* A chunk is part of what is left.
LEMMA ChunkType ==
    ASSUME NEW q \in Requests, left \in [Requests -> Nat], left[q] > 0
    PROVE  Chunk(q) \in Nat /\ Chunk(q) >= 1 /\ Chunk(q) <= left[q]
BY LockstepAssumption DEF Chunk

\* A non-empty set of sizes has a smallest one.
LEMMA SmallestExists ==
    ASSUME NEW T, T \subseteq Nat, T # {}
    PROVE  \E b \in T : \A c \in T : b <= c
<1>1. PICK b \in T : \A c \in T : <<c, b>> \notin OpToRel(<, Nat)
    BY NatLessThanWellFounded, WFMin
<1>2. \A c \in T : ~ (c < b) BY <1>1 DEF OpToRel
<1>3. QED BY <1>2

\* The common size holds everybody's batch, and is a captured size if one is
\* large enough.
LEMMA CommonSizeFits ==
    ASSUME decision \in Votes
    PROVE  /\ CommonSize \in Nat /\ CommonSize >= decision.size
           /\ Covering # {} => CommonSize \in GraphSizes
           /\ Covering = {} => CommonSize = decision.size
<1>1. decision.size \in Nat BY DEF Votes
<1>2. Covering \subseteq Nat /\ Covering \subseteq GraphSizes
    BY LockstepAssumption DEF Covering
<1>3. CASE Covering = {} BY <1>1, <1>3 DEF CommonSize
<1>4. CASE Covering # {}
    <2>1. CommonSize \in Covering BY <1>2, <1>4, SmallestExists DEF CommonSize
    <2>2. QED BY <1>2, <1>4, <2>1, <1>1 DEF Covering
<1>5. QED BY <1>3, <1>4

\* A replica whose batch is within the common size uses a graph if, and only
\* if, everybody with real work does, or it dies.
LEMMA GraphChoice ==
    ASSUME decision \in Votes, vote \in [Replicas -> Votes], NEW r \in Replicas,
           vote[r].size <= decision.size
    PROVE  /\ UsesGraph(r) /\ CommonSize \in GraphSizes => Covering # {}
           /\ ~UsesGraph(r) => Covering = {}
<1>1. decision.size \in Nat /\ vote[r].size \in Nat BY DEF Votes
<1>2. ASSUME UsesGraph(r), CommonSize \in GraphSizes PROVE Covering # {}
    BY <1>2, <1>1, CommonSizeFits DEF Covering
<1>3. ASSUME ~UsesGraph(r) PROVE Covering = {}
    <2>1. \A b \in GraphSizes : b \in Nat /\ ~ (vote[r].size <= b)
        BY <1>3, LockstepAssumption DEF UsesGraph
    <2>2. QED BY <2>1, <1>1 DEF Covering
<1>4. QED BY <1>2, <1>3

----------------------------------------------------------------------------
(* Own is inductive.                                                       *)

Voted == {"voted", "decided", "prefilled"}

LEMMA InitOwn == Init => Own
<1> SUFFICES ASSUME Init PROVE Own OBVIOUS
<1> USE LockstepAssumption DEF Init
<1>1. TypeOK
    <2>1. << >> \in Seq(Collectives) OBVIOUS
    <2>2. QED BY <2>1 DEF TypeOK, Stages, Places, Votes
<1>2. BatchKept /\ TokensLeft /\ VoteCounted /\ decision.size <= Rows
    BY DEF BatchKept, TokensLeft, VoteCounted
<1>3. RowsKept
    <2>1. ASSUME NEW r \in Replicas PROVE Cardinality(Holding(r)) <= Rows
        <3>1. Holding(r) = {} BY DEF Holding, Of
        <3>2. QED BY <3>1, FS_EmptySet
    <2>2. QED BY <2>1 DEF RowsKept
<1>4. QED BY <1>1, <1>2, <1>3 DEF Own

\* A step that moves a replica on and touches no request.
LEMMA OwnMoves ==
    ASSUME Own, UNCHANGED <<requests, batch, vote, decision>>,
           pc' \in [Replicas -> Places], stream' \in [Replicas -> Seq(Collectives)],
           \A r \in Replicas : pc'[r] \in Voted =>
               \/ pc'[r] = pc[r]
               \/ pc'[r] = "prefilled" /\ pc[r] = "decided" /\ batch[r] # None
    PROVE  Own'
<1> USE DEF Own, requests
<1>1. TypeOK' BY DEF TypeOK
<1>2. BatchKept' BY DEF BatchKept, Chunk, Voted
<1>3. TokensLeft' BY DEF TokensLeft
<1>4. RowsKept'
    <2>1. \A r \in Replicas : Holding(r)' = Holding(r) BY DEF Holding, Of
    <2>2. QED BY <2>1 DEF RowsKept, Voted
<1>5. VoteCounted' BY DEF VoteCounted, Voted
<1>6. QED BY <1>1, <1>2, <1>3, <1>4, <1>5

\* A step of a replica that has nothing scheduled, on its own requests.
LEMMA OwnRequests ==
    ASSUME Own, NEW x \in Replicas, pc' = [pc EXCEPT ![x] = "receive"],
           stage' \in [Requests -> Stages], left' \in [Requests -> Nat],
           \A q \in Requests : Home[q] # x => stage'[q] = stage[q] /\ left'[q] = left[q],
           TokensLeft', Cardinality(Holding(x)') <= Rows,
           UNCHANGED <<batch, vote, decision, stream>>
    PROVE  Own'
<1> USE DEF Own
<1>0. pc' \in [Replicas -> Places] /\ \A r \in Replicas \ {x} : pc'[r] = pc[r]
    BY DEF TypeOK, Places
<1>1. TypeOK' BY <1>0 DEF TypeOK
<1>2. \A r \in Replicas : pc'[r] \in Voted /\ batch[r] # None =>
          /\ batch[r] \in Requests
          /\ r # x /\ pc[r] \in Voted /\ Home[batch[r]] = r
          /\ stage'[batch[r]] = stage[batch[r]] /\ left'[batch[r]] = left[batch[r]]
    BY <1>0 DEF Voted, TypeOK, BatchKept
<1>3. BatchKept'
    <2>1. \A r \in Replicas : pc'[r] \in Voted => r # x /\ pc'[r] = pc[r]
        BY <1>0 DEF Voted, TypeOK
    <2>2. \A r \in Replicas : pc'[r] \in Voted /\ batch[r] # None =>
              Chunk(batch[r])' = Chunk(batch[r])
        BY <1>2 DEF Chunk
    <2>3. QED BY <1>2, <2>1, <2>2 DEF BatchKept, Voted
<1>4. RowsKept'
    <2>1. \A r \in Replicas \ {x} : Holding(r)' = Holding(r) BY DEF Holding, Of
    <2>2. QED BY <1>0, <1>2, <2>1 DEF RowsKept, Voted, TypeOK
<1>5. VoteCounted' BY <1>0 DEF VoteCounted, TypeOK
<1>6. QED BY <1>1, <1>3, <1>4, <1>5

\* What a forward issues has the type of the streams.
LEMMA IssueType ==
    ASSUME NEW r \in Replicas, NEW n \in Nat, stream \in [Replicas -> Seq(Collectives)]
    PROVE  /\ Issue(r, <<Gather(n)>>) => stream' \in [Replicas -> Seq(Collectives)]
           /\ Issue(r, <<Count, Gather(n)>>) => stream' \in [Replicas -> Seq(Collectives)]
<1>1. Gather(n) \in Collectives /\ Count \in Collectives
    BY DEF Gather, Count, Collectives
<1>2. <<Gather(n)>> \in Seq(Collectives) /\ <<Count, Gather(n)>> \in Seq(Collectives)
    BY <1>1
<1>3. \A c \in Seq(Collectives) : stream[r] \o c \in Seq(Collectives)
    BY ConcatProperties
<1>4. QED BY <1>2, <1>3 DEF Issue

LEMMA OwnArrive == ASSUME Own, NEW q \in Requests, Arrive(q) PROVE Own'
<1> DEFINE x == Home[q]
<1>1. x \in Replicas BY LockstepAssumption
<1>2. pc' = [pc EXCEPT ![x] = "receive"] BY DEF Arrive, Own, TypeOK
<1>3. stage' \in [Requests -> Stages] /\ left' \in [Requests -> Nat] /\ TokensLeft'
    BY DEF Arrive, Own, TypeOK, Stages, TokensLeft
<1>4. Holding(x)' \subseteq Holding(x) BY DEF Arrive, Own, TypeOK, Holding, Of
<1>5. Cardinality(Holding(x)') <= Rows
    <2>1. IsFiniteSet(Holding(x)) /\ Cardinality(Holding(x)) \in Nat
        BY <1>1, CountsAreNat DEF Holding
    <2>2. Cardinality(Holding(x)') \in Nat BY <1>4, <2>1, FS_Subset, FS_CardinalityType
    <2>3. Cardinality(Holding(x)) <= Rows BY <1>1 DEF Own, RowsKept
    <2>4. QED BY <1>1, <1>4, <2>1, <2>2, <2>3, FewerRows, LockstepAssumption
<1>6. QED BY <1>1, <1>2, <1>3, <1>5, OwnRequests DEF Arrive, Own, TypeOK

LEMMA OwnAbort == ASSUME Own, NEW q \in Requests, Abort(q) PROVE Own'
<1> DEFINE x == Home[q]
<1>1. x \in Replicas BY LockstepAssumption
<1>2. pc' = [pc EXCEPT ![x] = "receive"] BY DEF Abort, Own, TypeOK
<1>3. stage' \in [Requests -> Stages] /\ left' \in [Requests -> Nat] /\ TokensLeft'
    BY DEF Abort, Own, TypeOK, Stages, TokensLeft
<1>4. Holding(x)' \subseteq Holding(x) BY DEF Abort, Own, TypeOK, Holding, Of
<1>5. Cardinality(Holding(x)') <= Rows
    <2>1. IsFiniteSet(Holding(x)) /\ Cardinality(Holding(x)) \in Nat
        BY <1>1, CountsAreNat DEF Holding
    <2>2. Cardinality(Holding(x)') \in Nat BY <1>4, <2>1, FS_Subset, FS_CardinalityType
    <2>3. Cardinality(Holding(x)) <= Rows BY <1>1 DEF Own, RowsKept
    <2>4. QED BY <1>1, <1>4, <2>1, <2>2, <2>3, FewerRows, LockstepAssumption
<1>6. QED BY <1>1, <1>2, <1>3, <1>5, OwnRequests DEF Abort, Own, TypeOK

LEMMA OwnVote == ASSUME Own, NEW r \in Replicas, Vote(r) PROVE Own'
<1> USE DEF Own
<1>1. PICK q \in Candidates(r) \cup {None} :
          /\ batch' = [batch EXCEPT ![r] = q]
          /\ vote' = [vote EXCEPT ![r] =
                [tokens |-> IF q = None THEN 0 ELSE BatchTokens(q),
                 size |-> Cardinality(Running(r))]]
    BY DEF Vote
<1>2. /\ pc' = [pc EXCEPT ![r] = "voted"]
      /\ UNCHANGED <<stage, left, decision, stream>>
    BY DEF Vote, Goto, requests
<1>3. q # None => /\ q \in Requests /\ Home[q] = r /\ stage[q] \in {"waiting", "chunked"}
                  /\ stage[q] = "chunked" \/ Cardinality(Holding(r)) < Rows
    BY DEF Candidates, Of, Holding
<1>4. q # None => Chunk(q) \in Nat
    BY <1>3, ChunkType DEF TypeOK, TokensLeft
<1>5. Cardinality(Running(r)) \in Nat /\ Cardinality(Running(r)) <= Rows
    <2>1. Cardinality(Running(r)) \in Nat /\ Cardinality(Holding(r)) \in Nat
        BY CountsAreNat DEF Running, Holding
    <2>2. Cardinality(Holding(r)) <= Rows BY DEF RowsKept
    <2>3. QED BY <2>1, <2>2, RunningHold, LockstepAssumption
<1>6. vote'[r] = [tokens |-> IF q = None THEN 0 ELSE Chunk(q),
                  size |-> Cardinality(Running(r))]
      /\ batch'[r] = q /\ pc'[r] = "voted"
      /\ \A s \in Replicas \ {r} :
            vote'[s] = vote[s] /\ batch'[s] = batch[s] /\ pc'[s] = pc[s]
    BY <1>1, <1>2 DEF TypeOK, BatchTokens
<1>7. TypeOK'
    <2>1. vote'[r] \in Votes BY <1>4, <1>5, <1>6 DEF Votes
    <2>2. vote' \in [Replicas -> Votes] BY <2>1, <1>1, <1>6 DEF TypeOK
    <2>3. \A s \in Replicas : vote'[s].size <= Rows
        <3>1. vote'[r].size = Cardinality(Running(r)) BY <1>6
        <3>2. QED BY <3>1, <1>5, <1>6 DEF TypeOK
    <2>4. batch' \in [Replicas -> Requests \cup {None}] BY <1>1, <1>3 DEF TypeOK
    <2>5. pc' \in [Replicas -> Places] BY <1>2 DEF TypeOK, Places
    <2>6. QED BY <2>2, <2>3, <2>4, <2>5, <1>2 DEF TypeOK
<1>8. BatchKept' BY <1>2, <1>3, <1>6 DEF BatchKept, Chunk
<1>9. TokensLeft' BY <1>2 DEF TokensLeft
<1>10. RowsKept'
    <2>1. \A s \in Replicas : Holding(s)' = Holding(s) BY <1>2 DEF Holding, Of
    <2>2. QED BY <2>1, <1>2, <1>3, <1>6 DEF RowsKept
<1>11. VoteCounted' BY <1>2, <1>6 DEF VoteCounted
<1>12. QED BY <1>2, <1>7, <1>8, <1>9, <1>10, <1>11

LEMMA OwnAllReduce == ASSUME Own, AllReduce PROVE Own'
<1> USE DEF Own
<1>1. PICK r \in Replicas, s \in Replicas :
          /\ \A q \in Replicas : vote[q].tokens <= vote[r].tokens
          /\ \A q \in Replicas : vote[q].size <= vote[s].size
          /\ decision' = [tokens |-> vote[r].tokens, size |-> vote[s].size]
    BY DEF AllReduce, IsMaximum
<1>2. /\ \A q \in Replicas : pc[q] = "voted" /\ pc'[q] = "decided"
      /\ pc' \in [Replicas -> Places]
      /\ UNCHANGED <<stage, left, batch, vote, stream>>
    BY DEF AllReduce, Places, requests
<1>3. TypeOK' /\ decision'.size <= Rows
    <2>1. decision' \in Votes BY <1>1 DEF TypeOK, Votes
    <2>2. decision'.size <= Rows BY <1>1 DEF TypeOK
    <2>3. QED BY <2>1, <2>2, <1>2 DEF TypeOK
<1>4. BatchKept' BY <1>2 DEF BatchKept, Chunk
<1>5. TokensLeft' BY <1>2 DEF TokensLeft
<1>6. RowsKept'
    <2>1. \A q \in Replicas : Holding(q)' = Holding(q) BY <1>2 DEF Holding, Of
    <2>2. QED BY <2>1, <1>2 DEF RowsKept
<1>7. VoteCounted' BY <1>1, <1>2 DEF VoteCounted
<1>8. QED BY <1>3, <1>4, <1>5, <1>6, <1>7

LEMMA OwnIdle == ASSUME Own, NEW r \in Replicas, Idle(r) PROVE Own'
<1>1. pc' \in [Replicas -> Places] /\ \A s \in Replicas : pc'[s] \in Voted => pc'[s] = pc[s]
    BY DEF Own, TypeOK, Idle, Goto, Places, Voted
<1>2. QED BY <1>1, OwnMoves DEF Idle, Own, TypeOK, requests

LEMMA OwnPrefill == ASSUME Own, NEW r \in Replicas, Prefill(r) PROVE Own'
<1> DEFINE n == IF batch[r] = None THEN 1 ELSE Chunk(batch[r])
<1>1. pc' \in [Replicas -> Places]
      /\ \A s \in Replicas : pc'[s] \in Voted =>
             \/ pc'[s] = pc[s]
             \/ pc'[s] = "prefilled" /\ pc[s] = "decided" /\ batch[s] # None
    <2>1. pc[r] = "decided" /\ pc \in [Replicas -> Places]
          /\ pc' = [pc EXCEPT ![r] = IF batch[r] = None THEN "receive" ELSE "prefilled"]
        BY DEF Own, TypeOK, Prefill, Goto
    <2>2. CASE batch[r] = None BY <2>1, <2>2 DEF Places, Voted
    <2>3. CASE batch[r] # None BY <2>1, <2>3 DEF Places, Voted
    <2>4. QED BY <2>2, <2>3
<1>2. Padded(n) \in Nat
    <2>1. decision.tokens \in Nat BY DEF Own, TypeOK, Votes
    <2>2. n \in Nat
        <3>1. CASE batch[r] = None BY <3>1
        <3>2. CASE batch[r] # None
            <4>1. batch[r] \in Requests /\ left[batch[r]] > 0
                BY <3>2 DEF Own, TypeOK, BatchKept, TokensLeft, Prefill
            <4>2. QED BY <3>2, <4>1, ChunkType DEF Own, TypeOK
        <3>3. QED BY <3>1, <3>2
    <2>3. QED BY <2>1, <2>2 DEF Padded
<1>3. stream' \in [Replicas -> Seq(Collectives)]
    BY <1>2, IssueType DEF Prefill, Own, TypeOK
<1>4. QED BY <1>1, <1>3, OwnMoves DEF Prefill

LEMMA OwnDecode == ASSUME Own, NEW r \in Replicas, Decode(r) PROVE Own'
<1>1. pc' \in [Replicas -> Places] /\ \A s \in Replicas : pc'[s] \in Voted => pc'[s] = pc[s]
    BY DEF Own, TypeOK, Decode, Goto, Places, Voted
<1>2. CommonSize \in Nat BY CommonSizeFits DEF Own, TypeOK
<1>3. stream' \in [Replicas -> Seq(Collectives)]
    BY <1>2, IssueType DEF Decode, Own, TypeOK
<1>4. QED BY <1>1, <1>3, OwnMoves DEF Decode

LEMMA OwnComplete == ASSUME Own, Complete PROVE Own'
<1>1. \A r \in Replicas : Tail(stream[r]) \in Seq(Collectives)
    BY HeadTailProperties DEF Complete, Own, TypeOK
<1>2. stream' \in [Replicas -> Seq(Collectives)] BY <1>1 DEF Complete
<1>3. QED BY <1>2, OwnMoves DEF Complete, Own, TypeOK

LEMMA OwnCommitPrefill == ASSUME Own, NEW r \in Replicas, CommitPrefill(r) PROVE Own'
<1> DEFINE q == batch[r]
<1>1. q \in Requests /\ Home[q] = r /\ stage[q] \in {"waiting", "chunked"}
      /\ (stage[q] = "chunked" \/ Cardinality(Holding(r)) < Rows)
    BY DEF CommitPrefill, Own, BatchKept, RowsKept, TypeOK
<1>2. pc' = [pc EXCEPT ![r] = "receive"] /\ UNCHANGED <<batch, vote, decision, stream>>
    BY DEF CommitPrefill, Goto
<1>3. PICK over \in BOOLEAN :
          /\ left' = [left EXCEPT ![q] =
                IF left[q] > Budget THEN left[q] - Budget ELSE OutputLen - 1]
          /\ stage' = [stage EXCEPT ![q] =
                IF left[q] > Budget THEN "chunked"
                ELSE IF over \/ OutputLen = 1 THEN "done" ELSE "running"]
    BY DEF CommitPrefill
<1>4. stage' \in [Requests -> Stages] /\ left' \in [Requests -> Nat] /\ TokensLeft'
    <2>1. left[q] \in Nat /\ left[q] > 0 BY <1>1 DEF Own, TypeOK, TokensLeft
    <2>2. left'[q] \in Nat /\ (stage'[q] # "done" => left'[q] > 0) /\ stage'[q] \in Stages
        BY <1>1, <1>3, <2>1, LockstepAssumption DEF Own, TypeOK, Stages
    <2>3. \A p \in Requests \ {q} : left'[p] = left[p] /\ stage'[p] = stage[p]
        BY <1>3 DEF Own, TypeOK
    <2>4. \A p \in Requests : left'[p] \in Nat /\ stage'[p] \in Stages
                              /\ (stage'[p] # "done" => left'[p] > 0)
        BY <2>2, <2>3 DEF Own, TypeOK, TokensLeft
    <2>5. QED BY <1>3, <2>4 DEF Own, TypeOK, TokensLeft
<1>5. \A p \in Requests : Home[p] # r => stage'[p] = stage[p] /\ left'[p] = left[p]
    BY <1>1, <1>3 DEF Own, TypeOK
<1>6. Cardinality(Holding(r)') <= Rows
    <2>1. \A p \in Requests \ {q} : stage'[p] = stage[p] BY <1>3 DEF Own, TypeOK
    <2>2. Holding(r)' \subseteq Holding(r) \cup {q} BY <2>1 DEF Holding, Of
    <2>3. IsFiniteSet(Holding(r)) /\ Cardinality(Holding(r)) \in Nat
        BY CountsAreNat DEF Holding
    <2>4. Cardinality(Holding(r)') \in Nat
        <3>1. Holding(r)' \subseteq Requests BY DEF Holding, Of
        <3>2. QED BY <3>1, LockstepAssumption, FS_Subset, FS_CardinalityType
    <2>5. Cardinality(Holding(r)) <= Rows BY DEF Own, RowsKept
    <2>6. CASE stage[q] = "chunked"
        <3>1. Holding(r)' \subseteq Holding(r) BY <1>1, <2>2, <2>6 DEF Holding, Of
        <3>2. QED BY <3>1, <2>3, <2>4, <2>5, FewerRows, LockstepAssumption
    <2>7. CASE Cardinality(Holding(r)) < Rows
        BY <2>2, <2>3, <2>4, <2>7, OneMoreRow, LockstepAssumption
    <2>8. QED BY <1>1, <2>6, <2>7
<1>7. QED BY <1>2, <1>4, <1>5, <1>6, OwnRequests

LEMMA OwnCommitDecode == ASSUME Own, NEW r \in Replicas, CommitDecode(r) PROVE Own'
<1>1. pc' = [pc EXCEPT ![r] = "receive"] /\ UNCHANGED <<batch, vote, decision, stream>>
    BY DEF CommitDecode, Goto
<1>2. PICK ended \in SUBSET Running(r) :
          stage' = [q \in Requests |->
              IF q \in ended \/ (q \in Running(r) /\ LastToken(q)) THEN "done" ELSE stage[q]]
    BY DEF CommitDecode
<1>3. left' = [q \in Requests |-> IF q \in Running(r) THEN left[q] - 1 ELSE left[q]]
    BY DEF CommitDecode
<1>4. \A q \in Running(r) : q \in Requests /\ Home[q] = r /\ stage[q] = "running"
                            /\ left[q] \in Nat /\ left[q] > 0
    BY DEF Running, Of, Own, TypeOK, TokensLeft
<1>5. stage' \in [Requests -> Stages] /\ left' \in [Requests -> Nat] /\ TokensLeft'
    <2>1. \A q \in Requests : left'[q] \in Nat /\ stage'[q] \in Stages
                              /\ (stage'[q] # "done" => left'[q] > 0)
        BY <1>2, <1>3, <1>4 DEF LastToken, Own, TypeOK, TokensLeft, Stages
    <2>2. QED BY <1>2, <1>3, <2>1 DEF TokensLeft
<1>6. \A q \in Requests : Home[q] # r => stage'[q] = stage[q] /\ left'[q] = left[q]
    BY <1>2, <1>3, <1>4 DEF Own, TypeOK
<1>7. Cardinality(Holding(r)') <= Rows
    <2>1. Holding(r)' \subseteq Holding(r) BY <1>2 DEF Holding, Of
    <2>2. IsFiniteSet(Holding(r)) /\ Cardinality(Holding(r)) \in Nat
        BY CountsAreNat DEF Holding
    <2>3. Cardinality(Holding(r)') \in Nat BY <2>1, <2>2, FS_Subset, FS_CardinalityType
    <2>4. Cardinality(Holding(r)) <= Rows BY DEF Own, RowsKept
    <2>5. QED BY <2>1, <2>2, <2>3, <2>4, FewerRows, LockstepAssumption
<1>8. QED BY <1>1, <1>5, <1>6, <1>7, OwnRequests

LEMMA OwnStep == ASSUME Own, [Next]_vars PROVE Own'
<1>1. CASE UNCHANGED vars
    BY <1>1, OwnMoves DEF vars, Own, TypeOK
<1>2. ASSUME NEW r \in Replicas, Step(r) PROVE Own'
    BY <1>2, OwnVote, OwnIdle, OwnPrefill, OwnDecode, OwnCommitPrefill, OwnCommitDecode
       DEF Step
<1>3. QED BY <1>1, <1>2, OwnArrive, OwnAbort, OwnAllReduce, OwnComplete DEF Next

\* The loop keeps the types of its variables; no replica holds more requests
\* than it has rows, whatever arrives and whoever is aborted (Vote, in
\* scheduler/ep.py, and the admission of the packing pass).
THEOREM LoopTypeCorrect == Spec => []TypeOK
<1>1. Spec => []Own
    BY InitOwn, OwnStep, PTL DEF Spec
<1>2. Own => TypeOK BY DEF Own
<1>3. QED BY <1>1, <1>2, PTL
----------------------------------------------------------------------------
(* InStep is inductive.                                                    *)

LEMMA InitInStep == Init => InStep
BY DEF Init, InStep, StreamsAgree, Waits, Behind, Issued

\* A step that issues nothing, after which the same replicas are behind and
\* nobody stopped waiting.
LEMMA InStepQuiet ==
    ASSUME Own, InStep, UNCHANGED <<decision, stream>>,
           \A r \in Replicas : Issued(r)' <=> Issued(r),
           \A r \in Replicas : pc[r] = "decided" => (Real(r)' <=> Real(r)),
           \A r \in Replicas :
               /\ pc[r] \in {"prefilled", "decoded", "decided", "dead"}
               /\ pc[r] = "decided" => Real(r)
               => pc'[r] \in {pc[r], "dead"} \/ (Issued(r) /\ stream[r] = << >>)
    PROVE  InStep'
<1> USE DEF InStep
<1>1. Forward' = Forward /\ (Behind' <=> Behind)
    BY DEF Forward, Covering, CommonSize, Behind
<1>2. StreamsAgree' BY <1>1 DEF StreamsAgree
<1>3. ASSUME Behind, Forward # << >>
      PROVE  \E w \in Replicas : \/ pc'[w] \in {"prefilled", "decoded", "dead"}
                                 \/ pc'[w] = "decided" /\ Real(w)'
    <2>1. PICK w \in Replicas : \/ pc[w] \in {"prefilled", "decoded", "dead"}
                                \/ pc[w] = "decided" /\ Real(w)
        BY <1>3 DEF Waits
    <2>2. ~ (Issued(w) /\ stream[w] = << >>) BY <1>3 DEF StreamsAgree
    <2>3. pc'[w] \in {pc[w], "dead"} BY <2>1, <2>2
    <2>4. QED BY <2>1, <2>3
<1>4. ASSUME ~Behind, \E r \in Replicas : stream[r] # << >>
      PROVE  \E w \in Replicas : pc'[w] \in {"prefilled", "decoded"}
    <2>1. PICK w \in Replicas : pc[w] \in {"prefilled", "decoded"}
        BY <1>4 DEF Waits
    <2>2. stream[w] # << >> BY <1>4, <2>1 DEF StreamsAgree
    <2>3. pc'[w] = pc[w] BY <2>1, <2>2 DEF Issued
    <2>4. QED BY <2>1, <2>3
<1>5. Waits' BY <1>1, <1>3, <1>4 DEF Waits
<1>6. QED BY <1>2, <1>5

\* A replica that takes its step issues the whole of it, and waits if its
\* work is real.
LEMMA InStepForward ==
    ASSUME Own, InStep, NEW r \in Replicas, pc[r] = "decided",
           UNCHANGED <<batch, vote, decision>>,
           stream' = [stream EXCEPT ![r] = Forward],
           NEW label \in {"receive", "prefilled", "decoded"},
           pc' = [pc EXCEPT ![r] = label],
           Forward # << >> /\ Real(r) => label \in {"prefilled", "decoded"}
    PROVE  InStep'
<1> USE DEF InStep
<1>1. Forward' = Forward BY DEF Forward, Covering, CommonSize
<1>2. \A w \in Replicas : Real(w)' = Real(w) BY DEF Real
<1>3. /\ pc'[r] = label /\ stream'[r] = Forward
      /\ \A s \in Replicas \ {r} : pc'[s] = pc[s] /\ stream'[s] = stream[s]
    BY DEF Own, TypeOK
<1>4. Issued(r)' /\ ~Issued(r) /\ \A s \in Replicas \ {r} : Issued(s)' <=> Issued(s)
    BY <1>3 DEF Issued
<1>5. \A s \in Replicas : Issued(s)' => stream'[s] = Forward
    BY <1>3, <1>4 DEF StreamsAgree, Behind
<1>6. StreamsAgree'
    BY <1>1, <1>3, <1>4, <1>5 DEF StreamsAgree, Behind
<1>7. ASSUME Forward # << >>
      PROVE  \E w \in Replicas : \/ pc'[w] \in {"prefilled", "decoded", "dead"}
                                 \/ pc'[w] = "decided" /\ Real(w)
    <2>1. PICK w \in Replicas : \/ pc[w] \in {"prefilled", "decoded", "dead"}
                                \/ pc[w] = "decided" /\ Real(w)
        BY <1>4, <1>7 DEF Waits, Behind
    <2>2. CASE w = r BY <2>1, <2>2, <1>3, <1>7
    <2>3. CASE w # r BY <2>1, <2>3, <1>3
    <2>4. QED BY <2>2, <2>3
<1>8. Waits'
    <2>1. (\E s \in Replicas : stream'[s] # << >>) /\ ~Behind' => Forward # << >>
        BY <1>5 DEF Behind
    <2>2. ~Behind' => \A s \in Replicas : pc'[s] \notin {"decided", "dead"}
        BY DEF Behind, Issued
    <2>3. QED BY <1>1, <1>2, <1>7, <2>1, <2>2 DEF Waits
<1>9. QED BY <1>6, <1>8
LEMMA InStepVote == ASSUME Own, InStep, NEW r \in Replicas, Vote(r) PROVE InStep'
<1>1. /\ pc[r] = "receive" /\ pc' = [pc EXCEPT ![r] = "voted"]
      /\ UNCHANGED <<decision, stream>>
      /\ \A s \in Replicas \ {r} : batch'[s] = batch[s] /\ vote'[s] = vote[s]
    BY DEF Vote, Goto, Own, TypeOK
<1>2. \A s \in Replicas : (Issued(s)' <=> Issued(s)) /\ (s # r => pc'[s] = pc[s])
    BY <1>1 DEF Issued, Own, TypeOK
<1>3. \A s \in Replicas : pc[s] = "decided" => (Real(s)' <=> Real(s))
    BY <1>1 DEF Real
<1>4. QED BY <1>1, <1>2, <1>3, InStepQuiet

LEMMA InStepAllReduce == ASSUME Own, InStep, AllReduce PROVE InStep'
<1>1. \A q \in Replicas : pc[q] = "voted" /\ pc'[q] = "decided"
    BY DEF AllReduce
<1>2. stream' = stream /\ batch' = batch /\ vote' = vote BY DEF AllReduce
<1>3. ~Behind /\ Behind' /\ \A q \in Replicas : ~Issued(q)'
    BY <1>1, LockstepAssumption DEF Behind, Issued
<1>4. \A q \in Replicas : stream[q] = << >>
    BY <1>1, <1>3 DEF InStep, Waits
<1>5. StreamsAgree' BY <1>2, <1>3, <1>4 DEF StreamsAgree
<1>6. PICK r \in Replicas, s \in Replicas :
          decision' = [tokens |-> vote[r].tokens, size |-> vote[s].size]
    BY DEF AllReduce
<1>7. Forward' # << >> => \E w \in Replicas : pc'[w] = "decided" /\ Real(w)'
    <2>1. vote[r].tokens \in Nat /\ vote[s].size \in Nat BY DEF Own, TypeOK, Votes
    <2>2. CASE decision'.tokens > 0
        <3>1. batch[r] # None
            BY <1>1, <1>6, <2>1, <2>2 DEF Own, BatchKept
        <3>2. QED BY <1>1, <1>2, <2>2, <3>1 DEF Real
    <2>3. CASE ~ (decision'.tokens > 0)
        <3>1. Forward' # << >> => decision'.size # 0 BY <2>3 DEF Forward
        <3>2. decision'.size = vote[s].size BY <1>6
        <3>3. QED BY <1>1, <1>2, <2>1, <2>3, <3>1, <3>2 DEF Real
    <2>4. QED BY <2>2, <2>3
<1>8. Waits' BY <1>3, <1>7 DEF Waits
<1>9. QED BY <1>5, <1>8 DEF InStep

LEMMA InStepIdle == ASSUME Own, InStep, NEW r \in Replicas, Idle(r) PROVE InStep'
<1>1. pc[r] = "decided" /\ Forward = << >> BY DEF Idle, Forward
<1>2. stream[r] = << >> BY <1>1 DEF InStep, StreamsAgree, Issued
<1>3. stream' = [stream EXCEPT ![r] = Forward]
    BY <1>1, <1>2 DEF Idle, Own, TypeOK
<1>4. QED BY <1>1, <1>3, InStepForward DEF Idle, Goto

LEMMA InStepPrefill == ASSUME Own, InStep, NEW r \in Replicas, Prefill(r) PROVE InStep'
<1> DEFINE n == IF batch[r] = None THEN 1 ELSE Chunk(batch[r])
<1>1. pc[r] = "decided" /\ decision.tokens > 0 /\ decision.tokens \in Nat
    BY DEF Prefill, Own, TypeOK, Votes
<1>2. n \in Nat /\ n <= decision.tokens
    <2>1. CASE batch[r] = None BY <1>1, <2>1
    <2>2. CASE batch[r] # None
        <3>1. batch[r] \in Requests /\ left[batch[r]] > 0 /\ vote[r].tokens = Chunk(batch[r])
            BY <1>1, <2>2 DEF Own, TypeOK, BatchKept, TokensLeft
        <3>2. vote[r].tokens <= decision.tokens BY <1>1 DEF Own, VoteCounted
        <3>3. QED BY <2>2, <3>1, <3>2, ChunkType DEF Own, TypeOK
    <2>3. QED BY <2>1, <2>2
<1>3. Padded(n) = decision.tokens BY <1>1, <1>2 DEF Padded
<1>4. Forward = <<Gather(decision.tokens)>> BY <1>1 DEF Forward
<1>5. stream' = [stream EXCEPT ![r] = Forward]
    <2>1. stream[r] = << >> BY <1>1 DEF InStep, StreamsAgree, Issued
    <2>2. stream' = [stream EXCEPT ![r] = stream[r] \o Forward]
        BY <1>3, <1>4 DEF Prefill, Issue
    <2>3. << >> \o Forward = Forward BY <1>4
    <2>4. QED BY <2>1, <2>2, <2>3
<1>6. CASE batch[r] = None
    <2>1. pc' = [pc EXCEPT ![r] = "receive"] BY <1>6 DEF Prefill, Goto
    <2>2. ~Real(r) BY <1>1, <1>6 DEF Real
    <2>3. QED BY <1>1, <1>5, <2>1, <2>2, InStepForward DEF Prefill
<1>7. CASE batch[r] # None
    <2>1. pc' = [pc EXCEPT ![r] = "prefilled"] BY <1>7 DEF Prefill, Goto
    <2>2. QED BY <1>1, <1>5, <2>1, InStepForward DEF Prefill
<1>8. QED BY <1>6, <1>7

LEMMA InStepDecode == ASSUME Own, InStep, NEW r \in Replicas, Decode(r) PROVE InStep'
<1>1. /\ pc[r] = "decided" /\ decision.tokens = 0 /\ decision.size > 0
      /\ decision \in Votes /\ vote[r].size \in Nat /\ vote[r].size <= decision.size
    BY DEF Decode, Own, TypeOK, VoteCounted, Votes
<1>2. CASE UsesGraph(r) /\ CommonSize \notin GraphSizes
    <2>1. pc' = [pc EXCEPT ![r] = "dead"] /\ UNCHANGED <<batch, vote, decision, stream>>
        BY <1>2 DEF Decode, Goto
    <2>2. \A s \in Replicas : /\ Issued(s)' <=> Issued(s)
                              /\ pc'[s] \in {pc[s], "dead"}
        BY <1>1, <2>1 DEF Issued, Own, TypeOK
    <2>3. \A s \in Replicas : Real(s)' <=> Real(s) BY <2>1 DEF Real
    <2>4. QED BY <2>1, <2>2, <2>3, InStepQuiet
<1>3. CASE ~ (UsesGraph(r) /\ CommonSize \notin GraphSizes)
    <2>1. Forward = IF UsesGraph(r) THEN <<Gather(CommonSize)>>
                    ELSE <<Count, Gather(CommonSize)>>
        <3>1. decision.size # 0 /\ ~ (decision.tokens > 0) BY <1>1 DEF Votes
        <3>2. (UsesGraph(r) /\ CommonSize \in GraphSizes => Covering # {})
              /\ (~UsesGraph(r) => Covering = {})
            BY <1>1, GraphChoice DEF Own, TypeOK
        <3>3. QED BY <1>3, <3>1, <3>2 DEF Forward
    <2>2. stream' = [stream EXCEPT ![r] = stream[r] \o Forward]
        BY <1>3, <2>1 DEF Decode, Issue
    <2>3. stream' = [stream EXCEPT ![r] = Forward]
        <3>1. stream[r] = << >> BY <1>1 DEF InStep, StreamsAgree, Issued
        <3>2. << >> \o Forward = Forward BY <2>1
        <3>3. QED BY <2>2, <3>1, <3>2
    <2>4. pc' = [pc EXCEPT ![r] = IF vote[r].size = 0 THEN "receive" ELSE "decoded"]
        BY <1>3 DEF Decode, Goto
    <2>5. CASE vote[r].size = 0
        <3>1. pc' = [pc EXCEPT ![r] = "receive"] BY <2>4, <2>5
        <3>2. ~Real(r) BY <1>1, <2>5 DEF Real
        <3>3. QED BY <1>1, <2>3, <3>1, <3>2, InStepForward DEF Decode
    <2>6. CASE vote[r].size # 0
        <3>1. pc' = [pc EXCEPT ![r] = "decoded"] BY <2>4, <2>6
        <3>2. QED BY <1>1, <2>3, <3>1, InStepForward DEF Decode
    <2>7. QED BY <2>5, <2>6
<1>4. QED BY <1>2, <1>3

LEMMA InStepComplete == ASSUME Own, InStep, Complete PROVE InStep'
<1>1. /\ \A r \in Replicas : stream[r] # << >>
      /\ stream' = [r \in Replicas |-> Tail(stream[r])]
      /\ UNCHANGED <<pc, batch, vote, decision>>
    BY DEF Complete
<1>2. ~Behind /\ (Behind' <=> Behind) BY <1>1 DEF InStep, StreamsAgree, Behind, Issued
<1>3. StreamsAgree'
    <2>1. \A r, s \in Replicas : stream'[r] = stream'[s]
        BY <1>1, <1>2 DEF InStep, StreamsAgree
    <2>2. QED BY <1>2, <2>1 DEF StreamsAgree, Behind
<1>4. Waits'
    <2>1. \E w \in Replicas : pc[w] \in {"prefilled", "decoded"}
        BY <1>1, <1>2, LockstepAssumption DEF InStep, Waits
    <2>2. QED BY <1>1, <1>2, <2>1 DEF Waits
<1>5. QED BY <1>3, <1>4 DEF InStep

LEMMA InStepStep == ASSUME Own, InStep, [Next]_vars PROVE InStep'
<1>1. ASSUME UNCHANGED <<pc, batch, vote, decision, stream>> PROVE InStep'
    BY <1>1, InStepQuiet DEF Issued, Real
<1>2. ASSUME NEW r \in Replicas, CommitPrefill(r) \/ CommitDecode(r) PROVE InStep'
    <2>1. /\ pc[r] \in {"prefilled", "decoded"} /\ stream[r] = << >>
          /\ pc' = [pc EXCEPT ![r] = "receive"] /\ UNCHANGED <<batch, vote, decision, stream>>
        BY <1>2 DEF CommitPrefill, CommitDecode, Goto
    <2>2. \A s \in Replicas : (Issued(s)' <=> Issued(s)) /\ (s # r => pc'[s] = pc[s])
        BY <2>1 DEF Issued, Own, TypeOK
    <2>3. Issued(r) BY <2>1 DEF Issued
    <2>4. \A s \in Replicas : Real(s)' <=> Real(s) BY <2>1 DEF Real
    <2>5. QED BY <2>1, <2>2, <2>3, <2>4, InStepQuiet
<1>3. ASSUME NEW r \in Replicas, Step(r) PROVE InStep'
    BY <1>2, <1>3, InStepVote, InStepIdle, InStepPrefill, InStepDecode DEF Step
<1>4. CASE UNCHANGED vars BY <1>1, <1>4 DEF vars
<1>5. ASSUME NEW q \in Requests, Arrive(q) \/ Abort(q) PROVE InStep'
    BY <1>1, <1>5 DEF Arrive, Abort
<1>6. QED BY <1>3, <1>4, <1>5, InStepAllReduce, InStepComplete DEF Next

LEMMA InStepMatch == Own /\ InStep => CollectivesMatch
<1> SUFFICES ASSUME Own, InStep PROVE CollectivesMatch OBVIOUS
<1>1. CASE Behind
    <2>1. \A r \in Replicas : stream[r] \in {<< >>, Forward}
        BY <1>1 DEF InStep, StreamsAgree
    <2>2. DOMAIN << >> = {} OBVIOUS
    <2>3. QED BY <2>1, <2>2 DEF CollectivesMatch
<1>2. CASE ~Behind BY <1>2 DEF InStep, StreamsAgree, CollectivesMatch
<1>3. QED BY <1>1, <1>2

\* Whatever the replicas have to do, how many they are and which graphs they
\* captured, they issue the same collectives in the same order with the same
\* number of rows (the docstring of SchedulerEPMixin, scheduler/ep.py).
THEOREM LoopCollectivesMatch == Spec => []CollectivesMatch
<1>1. Init => Own /\ InStep BY InitOwn, InitInStep
<1>2. Own /\ InStep /\ [Next]_vars => (Own /\ InStep)' BY OwnStep, InStepStep
<1>3. QED BY <1>1, <1>2, InStepMatch, PTL DEF Spec
----------------------------------------------------------------------------
\* A graph was captured for a batch as large as a replica can have: what the
\* default of cuda_graph_max_bs, max_running_req, gives.
GraphsCover == \E b \in GraphSizes : b >= Rows

LEMMA StepsStep ==
    ASSUME GraphsCover, Own, EveryReplicaSteps, [Next]_vars PROVE EveryReplicaSteps'
<1> USE DEF EveryReplicaSteps
<1>1. ASSUME NEW r \in Replicas, Decode(r) PROVE EveryReplicaSteps'
    <2>1. decision \in Votes /\ decision.size \in Nat /\ decision.size <= Rows
        BY DEF Own, TypeOK, Votes
    <2>2. Covering # {}
        <3>1. PICK b \in GraphSizes : b >= Rows BY DEF GraphsCover
        <3>2. b \in Nat /\ Rows \in Nat BY LockstepAssumption
        <3>3. b >= decision.size BY <2>1, <3>1, <3>2
        <3>4. QED BY <3>3 DEF Covering
    <2>3. CommonSize \in GraphSizes BY <2>1, <2>2, CommonSizeFits
    <2>4. pc' = [pc EXCEPT ![r] = IF vote[r].size = 0 THEN "receive" ELSE "decoded"]
        BY <1>1, <2>3 DEF Decode, Goto
    <2>5. QED BY <2>4 DEF Own, TypeOK
<1>2. ASSUME NEW r \in Replicas, Step(r), ~Decode(r) PROVE EveryReplicaSteps'
    <2>1. PICK label \in {"voted", "receive", "prefilled"} : pc' = [pc EXCEPT ![r] = label]
        <3>1. CASE Prefill(r)
            BY <3>1 DEF Prefill, Goto
        <3>2. CASE ~Prefill(r)
            BY <1>2, <3>2 DEF Step, Vote, Idle, CommitPrefill, CommitDecode, Goto
        <3>3. QED BY <3>1, <3>2
    <2>2. QED BY <2>1 DEF Own, TypeOK
<1>3. CASE UNCHANGED vars BY <1>3 DEF vars
<1>4. ASSUME NEW q \in Requests, Arrive(q) \/ Abort(q) PROVE EveryReplicaSteps'
    BY <1>4 DEF Arrive, Abort
<1>5. CASE AllReduce BY <1>5 DEF AllReduce
<1>6. CASE Complete BY <1>6 DEF Complete
<1>7. QED BY <1>1, <1>2, <1>3, <1>4, <1>5, <1>6 DEF Next

\* With a graph for the largest batch no replica ever looks for one it has not
\* (the comment on the common size in ep_loop, scheduler/ep.py).  TLC refutes
\* the property without that condition: with graphs for one request only.
THEOREM CoveredLoopSteps == ASSUME GraphsCover PROVE Spec => []EveryReplicaSteps
<1>1. Init => Own /\ EveryReplicaSteps
    BY InitOwn DEF Init, EveryReplicaSteps
<1>2. Own /\ EveryReplicaSteps /\ [Next]_vars => (Own /\ EveryReplicaSteps)'
    BY OwnStep, StepsStep
<1>3. QED BY <1>1, <1>2, PTL DEF Spec
=============================================================================
