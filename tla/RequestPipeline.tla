-------------------------- MODULE RequestPipeline --------------------------
(***************************************************************************)
(* The life of a request between the processes of the server: the HTTP     *)
(* frontend (FrontendManager in server/api_server.py), the tokenizer and   *)
(* detokenizer workers (tokenizer/server.py, tokenizer/detokenize.py), and *)
(* the schedulers of the data-parallel replicas, joined by ZMQ PUSH/PULL   *)
(* sockets (server/launch.py).  By default one worker does both directions;*)
(* with --num-tokenizer the prompts go to workers of their own.            *)
(*                                                                         *)
(* A replica is seen from outside: it commits one token of each request of *)
(* the batch launched an iteration earlier (KVScheduler has the inside).   *)
(* Texts are reduced to whether a token completes a stop string or ends    *)
(* the request.                                                            *)
(***************************************************************************)
EXTENDS Filters, FiniteSets

CONSTANTS
    Uids,         \* requests
    Kinds,        \* the mixes of requests to consider: functions uid -> "plain",
                  \* "stop" (it names stop strings), "image" (its image is
                  \* unusable) or "long" (beyond the pool)
    Streaming,    \* requests of the streaming lanes
    Leaving,      \* requests whose client may go away: a bound
    DpSize,       \* dp_size: how many data-parallel replicas
    Tokenizers,   \* the workers --num-tokenizer adds; {} when shared
    MaxTokens     \* uid -> max_tokens

Detokenizer == "detokenizer"

ASSUME PipelineAssumption ==
    /\ Kinds \subseteq [Uids -> {"plain", "stop", "image", "long"}]
    /\ Streaming \subseteq Uids /\ Leaving \subseteq Uids
    /\ DpSize \in Nat \ {0}
    /\ IsFiniteSet(Tokenizers) /\ Detokenizer \notin Tokenizers
    /\ MaxTokens \in [Uids -> Nat \ {0}]

VARIABLES
    kind,        \* the mix chosen at the start
    client,      \* uid -> "new" | "waiting" | "done" | "gone"
    metric,      \* uid -> "none" | "open" | "success" | "aborted" (metrics._req)
    ackMap,      \* uid -> replies its handler has not taken (ack_map)
    shown,       \* uid -> how many replies its handler passed on, and the last
    aborts,      \* uid -> AbortMsgs to send (_bg_tasks and abort_user)
    toWorker,    \* frontend -> worker
    toReplica,   \* worker -> replica
    toWorkerBack,\* replica -> detokenizer, in batches
    toFrontend,  \* worker -> frontend, in batches
    prompts,     \* worker -> uids in its prompt_tokens_map
    stops,       \* worker -> uids in its stop_map
    decoded,     \* uid -> tokens of its decode_map entry; 0 when it has none
    cursor,      \* worker -> rr_cursor
    active,      \* replica -> requests it works on
    flight,      \* replica -> requests of the batch in flight
    launched     \* uid -> tokens launched for it

frontVars == <<kind, client, metric, ackMap, shown, aborts>>
workerVars == <<prompts, stops, decoded, cursor>>
replicaVars == <<active, flight, launched>>
vars == <<frontVars, toWorker, toReplica, toWorkerBack, toFrontend, workerVars, replicaVars>>

Replicas == 0..DpSize - 1
Workers == Tokenizers \cup {Detokenizer}

\* Who pulls from the socket the frontend pushes to.
Ingress == IF Tokenizers = {} THEN {Detokenizer} ELSE Tokenizers

\* A reply to the frontend: the tokens so far, whether it is the last, whether
\* the prompt length was at hand, and what became of the text.
Reply(u, count, fin, known, text) ==
    [uid |-> u, count |-> count, fin |-> fin, known |-> known, text |-> text]

NoneShown == [replies |-> 0, last |-> Reply(0, 0, FALSE, TRUE, "text")]

Init ==
    /\ kind \in Kinds
    /\ client = [u \in Uids |-> "new"] /\ metric = [u \in Uids |-> "none"]
    /\ ackMap = [u \in Uids |-> << >>] /\ shown = [u \in Uids |-> NoneShown]
    /\ aborts = [u \in Uids |-> 0]
    /\ toWorker = [w \in Workers |-> << >>]
    /\ toReplica = [w \in Workers |-> [r \in Replicas |-> << >>]]
    /\ toWorkerBack = [r \in Replicas |-> << >>]
    /\ toFrontend = [w \in Workers |-> << >>]
    /\ prompts = [w \in Workers |-> {}] /\ stops = [w \in Workers |-> {}]
    /\ decoded = [u \in Uids |-> 0]
    /\ cursor = [w \in Workers |-> 0]
    /\ active = [r \in Replicas |-> {}] /\ flight = [r \in Replicas |-> {}]
    /\ launched = [u \in Uids |-> 0]

Message(type, u) == [type |-> type, uid |-> u]

----------------------------------------------------------------------------
(* The frontend.                                                           *)

\* The socket pushes to any worker connected to it.
Push(u, type) ==
    \E w \in Ingress : toWorker' = [toWorker EXCEPT ![w] = Append(@, Message(type, u))]

\* new_user and send_one.
Submit(u) ==
    /\ client[u] = "new"
    /\ client' = [client EXCEPT ![u] = "waiting"]
    /\ metric' = [metric EXCEPT ![u] = "open"]
    /\ Push(u, "tokenize")
    /\ UNCHANGED <<kind, ackMap, shown, aborts, toReplica, toWorkerBack, toFrontend,
                   workerVars, replicaVars>>

\* listen: replies to a request whose handler left are dropped.
Listen(w) ==
    /\ toFrontend[w] # << >>
    /\ LET batch == Head(toFrontend[w])
           mine(u) == Only(batch, {rep \in ToSet(batch) : rep.uid = u})
           ends(u) == \E i \in DOMAIN mine(u) : mine(u)[i].fin
       IN  /\ ackMap' = [u \in Uids |->
                  IF client[u] = "waiting" THEN ackMap[u] \o mine(u) ELSE ackMap[u]]
           /\ metric' = [u \in Uids |->
                  IF client[u] = "waiting" /\ metric[u] = "open" /\ ends(u)
                  THEN "success" ELSE metric[u]]
    /\ toFrontend' = [toFrontend EXCEPT ![w] = Tail(@)]
    /\ UNCHANGED <<kind, client, shown, aborts, toWorker, toReplica, toWorkerBack,
                   workerVars, replicaVars>>

\* wait_for_ack yields one reply; at the last one its reader breaks and the
\* cleanup drops what else was there.
TakeReply(u) ==
    /\ client[u] = "waiting" /\ ackMap[u] # << >>
    /\ LET rep == Head(ackMap[u])
       IN  /\ shown' = [shown EXCEPT ![u] = [replies |-> @.replies + 1, last |-> rep]]
           /\ client' = [client EXCEPT ![u] = IF rep.fin THEN "done" ELSE @]
           /\ ackMap' = [ackMap EXCEPT ![u] = IF rep.fin THEN << >> ELSE Tail(@)]
    /\ UNCHANGED <<kind, metric, aborts, toWorker, toReplica, toWorkerBack, toFrontend,
                   workerVars, replicaVars>>

\* What the cleanup of an unfinished request does to its metrics record
\* (on_abort), and a cleanup that leaves the record to the abort task.
MetricKept(m) == m
MetricAborted(m) == IF m = "open" THEN "aborted" ELSE m

\* The client goes away before the last reply.  The cleanup of wait_for_ack
\* spawns an abort, and in the streaming lanes abort_user sends another.
Disconnect(u) ==
    /\ u \in Leaving
    /\ client[u] = "waiting"
    /\ client' = [client EXCEPT ![u] = "gone"]
    /\ metric' = [metric EXCEPT ![u] = MetricAborted(@)]
    /\ ackMap' = [ackMap EXCEPT ![u] = << >>]
    /\ aborts' = [aborts EXCEPT ![u] = IF u \in Streaming THEN 2 ELSE 1]
    /\ UNCHANGED <<kind, shown, toWorker, toReplica, toWorkerBack, toFrontend,
                   workerVars, replicaVars>>

SendAbort(u) ==
    /\ aborts[u] > 0
    /\ aborts' = [aborts EXCEPT ![u] = @ - 1]
    /\ Push(u, "abort")
    /\ UNCHANGED <<kind, client, metric, ackMap, shown, toReplica, toWorkerBack, toFrontend,
                   workerVars, replicaVars>>

----------------------------------------------------------------------------
(* The tokenizer and detokenizer workers (tokenize_worker).                *)

\* Abort messages go to every replica, or only where the worker's cursor is.
ToCursor(w, us) ==
    [toReplica[w] EXCEPT ![cursor[w]] = @ \o [i \in DOMAIN us |-> Message("abort", us[i])]]
AbortEverywhere(w, us) ==
    [r \in Replicas |-> toReplica[w][r] \o [i \in DOMAIN us |-> Message("abort", us[i])]]

\* The replica after the one whose turn it is.
NextReplica(c) == (c + 1) % DpSize

\* The request is noted and routed to the replica whose turn it is; one with
\* an unusable image is answered here.
Tokenize(w) ==
    /\ toWorker[w] # << >> /\ Head(toWorker[w]).type = "tokenize"
    /\ toWorker' = [toWorker EXCEPT ![w] = Tail(@)]
    /\ LET u == Head(toWorker[w]).uid
       IN  \/ /\ kind[u] = "image"
              /\ toFrontend' = [toFrontend EXCEPT ![w] =
                     Append(@, <<Reply(u, 0, TRUE, FALSE, "error")>>)]
              /\ UNCHANGED <<prompts, stops, cursor, toReplica>>
           \/ /\ kind[u] # "image"
              /\ prompts' = [prompts EXCEPT ![w] = @ \cup {u}]
              /\ stops' = IF kind[u] = "stop" THEN [stops EXCEPT ![w] = @ \cup {u}] ELSE stops
              /\ toReplica' = [toReplica EXCEPT ![w][cursor[w]] = Append(@, Message("user", u))]
              /\ cursor' = [cursor EXCEPT ![w] = NextReplica(@)]
              /\ UNCHANGED toFrontend
    /\ UNCHANGED <<frontVars, toWorkerBack, decoded, replicaVars>>

ForwardAbort(w) ==
    /\ toWorker[w] # << >> /\ Head(toWorker[w]).type = "abort"
    /\ toWorker' = [toWorker EXCEPT ![w] = Tail(@)]
    /\ toReplica' = [toReplica EXCEPT ![w] = AbortEverywhere(w, <<Head(toWorker[w]).uid>>)]
    /\ UNCHANGED <<frontVars, toWorkerBack, toFrontend, workerVars, replicaVars>>

\* A stop string of the request is complete, found in every reply or in the
\* engine's last one only; and a reply is the last one.
StopHitLate(m) == m.token = "stop" /\ m.uid \in stops[Detokenizer] /\ m.fin
StopHit(m) == m.token = "stop" /\ m.uid \in stops[Detokenizer]
Ends(m) == m.fin \/ StopHit(m)

\* Tokens of the request so far: a trailing end-of-sequence token and the
\* filler of a rejection do not count.
CountWith(m) == decoded[m.uid] + (IF m.token \in {"eos", "error"} THEN 0 ELSE 1)

ReplyTo(m) ==
    Reply(m.uid, CountWith(m), Ends(m), m.uid \in prompts[Detokenizer],
          IF StopHit(m) THEN "cut" ELSE m.token)

\* One batch of tokens: replies to the frontend, and an abort for each request
\* that a stop string ended before the engine did.
Detokenize(r) ==
    /\ toWorkerBack[r] # << >>
    /\ LET batch == Head(toWorkerBack[r])
           over  == { m.uid : m \in { b \in ToSet(batch) : Ends(b) } }
           early == Only(batch, { m \in ToSet(batch) : StopHit(m) /\ ~m.fin })
       IN  /\ toFrontend' = [toFrontend EXCEPT ![Detokenizer] =
                  Append(@, [i \in DOMAIN batch |-> ReplyTo(batch[i])])]
           /\ toReplica' = [toReplica EXCEPT ![Detokenizer] =
                  AbortEverywhere(Detokenizer, [i \in DOMAIN early |-> early[i].uid])]
           /\ decoded' = [u \in Uids |->
                  IF u \in over THEN 0
                  ELSE decoded[u] + Cardinality({ i \in DOMAIN batch : batch[i].uid = u })]
           /\ prompts' = [prompts EXCEPT ![Detokenizer] = @ \ over]
           /\ stops' = [stops EXCEPT ![Detokenizer] = @ \ over]
    /\ toWorkerBack' = [toWorkerBack EXCEPT ![r] = Tail(@)]
    /\ UNCHANGED <<frontVars, toWorker, cursor, replicaVars>>

----------------------------------------------------------------------------
(* A replica.                                                              *)

Token(u, token, fin) == [uid |-> u, token |-> token, fin |-> fin]

\* The answer to a prompt beyond the pool, and a refusal nobody hears of.
RefusedSilently(u) == << >>
Rejection(u) == <<Token(u, "error", TRUE)>>

\* _process_one_msg.  A prompt beyond the pool is answered with an error; an
\* abort finds its request or nothing.
Receive(r, w) ==
    /\ toReplica[w][r] # << >>
    /\ toReplica' = [toReplica EXCEPT ![w][r] = Tail(@)]
    /\ LET m == Head(toReplica[w][r])
       IN  \/ /\ m.type = "abort"
              /\ active' = [active EXCEPT ![r] = @ \ {m.uid}]
              /\ UNCHANGED toWorkerBack
           \/ /\ m.type = "user" /\ kind[m.uid] = "long"
              /\ toWorkerBack' = [toWorkerBack EXCEPT ![r] =
                     Append(@, Rejection(m.uid))]
              /\ UNCHANGED active
           \/ /\ m.type = "user" /\ kind[m.uid] # "long"
              /\ active' = [active EXCEPT ![r] = @ \cup {m.uid}]
              /\ UNCHANGED toWorkerBack
    /\ UNCHANGED <<frontVars, toWorker, toFrontend, workerVars, flight, launched>>

\* What the commit of a token of u may be when n tokens were launched for it:
\* text, text that completes a stop string, or the end, by an end-of-sequence
\* token or because it has no token left.
Outcomes(u, n) ==
    {Token(u, "eos", TRUE), Token(u, "text", n = MaxTokens[u])}
        \cup { Token(u, "stop", n = MaxTokens[u]) : k \in {kind[u]} \cap {"stop"} }

\* The messages that may be sent for the requests of a batch.
Batches(us, spent) ==
    { b \in [DOMAIN us -> UNION { Outcomes(u, spent[u]) : u \in ToSet(us) }] :
        \A i \in DOMAIN us : b[i] \in Outcomes(us[i], spent[us[i]]) }

\* An iteration of replica r: new requests are launched, or the others are, and
\* the batch launched an iteration ago is committed.
Iterate(r) ==
    LET can   == { u \in active[r] : launched[u] < MaxTokens[u] }
        fresh == { u \in can : launched[u] = 0 }
    IN  \E S \in {fresh, can \ fresh} :
          LET spent == [u \in Uids |-> IF u \in S THEN launched[u] + 1 ELSE launched[u]]
          IN  /\ S = {} => can = {} /\ flight[r] # {}
              /\ flight' = [flight EXCEPT ![r] = S]
              /\ launched' = spent
              /\ \E batch \in Batches(SetToSeq(flight[r]), spent) :
                   /\ active' = [active EXCEPT
                          ![r] = @ \ { m.uid : m \in { b \in ToSet(batch) : b.fin } }]
                   /\ toWorkerBack' = IF batch = << >> THEN toWorkerBack
                                      ELSE [toWorkerBack EXCEPT ![r] = Append(@, batch)]
    /\ UNCHANGED <<frontVars, toWorker, toReplica, toFrontend, workerVars>>

----------------------------------------------------------------------------
Frontend(u) == TakeReply(u) \/ SendAbort(u)

Next ==
    \/ \E u \in Uids : Submit(u) \/ Disconnect(u) \/ Frontend(u)
    \/ \E w \in Workers : Tokenize(w) \/ ForwardAbort(w) \/ Listen(w)
    \/ \E r \in Replicas : Detokenize(r) \/ Iterate(r) \/ \E w \in Workers : Receive(r, w)

Spec == Init /\ [][Next]_vars

\* Every process goes on running, and takes from each of its connections.
Fairness ==
    /\ \A u \in Uids : WF_vars(Frontend(u))
    /\ \A w \in Workers : WF_vars(Tokenize(w) \/ ForwardAbort(w)) /\ WF_vars(Listen(w))
    /\ \A r \in Replicas :
         /\ WF_vars(Detokenize(r)) /\ WF_vars(Iterate(r))
         /\ \A w \in Workers : WF_vars(Receive(r, w))

FairSpec == Spec /\ Fairness

----------------------------------------------------------------------------
(* Properties.                                                             *)

\* A client is shown one stream: the token count grows by one with every
\* reply, nothing follows the last one, and whoever is done saw it, although
\* the engine may go on sending tokens after the end.  What was noted when the
\* prompt was tokenized is at hand when its replies stream back: the usage block
\* has the prompt's length, and no text is shown from the stop string on.
OneStreamPerClient ==
    \A u \in Uids :
        LET rep == shown[u].last
        IN  /\ rep.fin <=> client[u] = "done"
            /\ rep.count = shown[u].replies
               - (IF rep.fin /\ rep.text \in {"eos", "error"} THEN 1 ELSE 0)
            /\ rep.text # "error" => rep.known /\ ~(kind[u] = "stop" /\ rep.text = "stop")

AbortOnItsWay(u, r) ==
    \/ aborts[u] > 0
    \/ \E w \in Workers : \/ Message("abort", u) \in ToSet(toWorker[w])
                          \/ Message("abort", u) \in ToSet(toReplica[w][r])

\* A replica spends its time on a request nobody waits for only until the
\* abort gets there: no disconnect and no stop string leaves one decoding to
\* max_tokens.
NoZombies ==
    \A u \in Uids, r \in Replicas :
        client[u] \in {"done", "gone"} /\ u \in active[r] => AbortOnItsWay(u, r)

\* minisgl_requests_inflight counts who is being served: a request whose
\* handler left, by whatever exit, is counted once as a success or an abort.
InflightHonest ==
    \A u \in Uids : /\ metric[u] = "open" => client[u] = "waiting"
                    /\ client[u] = "done" => metric[u] = "success"
                    /\ client[u] = "gone" => metric[u] \in {"success", "aborted"}

\* Whoever sends a request and stays is shown a last reply.
EveryClientAnswered ==
    \A u \in Uids : client[u] = "waiting" ~> client[u] # "waiting"
=============================================================================
