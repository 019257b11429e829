---------------------------- MODULE ExpertCache ----------------------------
(***************************************************************************)
(* The device cache of expert weights (weights/expert_cache.py).  The      *)
(* kernels read an expert from the slot the device table slot_of names, or *)
(* from the host when it names none.  Three actors keep it filled:         *)
(*                                                                         *)
(*  - the manager thread observes references, decides who is resident, and *)
(*    enqueues copies on the copy stream;                                  *)
(*  - the scheduler thread, once a step (apply_pending), retracts victims  *)
(*    and publishes copies that landed, both on the compute stream;        *)
(*  - the device works through the two streams, each in order.             *)
(*                                                                         *)
(* The threads share lists under a lock and dictionaries without one.  An  *)
(* action is what a thread does between two points where the other one can *)
(* make a difference.  A launch sits between two writes of the table in    *)
(* the compute stream, so it reads some state of table and slabs, and a    *)
(* long launch is a late write.                                            *)
(*                                                                         *)
(* An event is the number of operations its stream has left before it: 0   *)
(* has happened.  The reference queue only delays and drops references, so *)
(* any key may be referenced at any time; whether a miss is the second one *)
(* within the window is left open as well.                                 *)
(***************************************************************************)
EXTENDS SLRU

CONSTANTS
    Keys,         \* experts, of all layers
    LowWater,     \* free slots the manager keeps ready
    MaxInflight,  \* copies it enqueues before it holds back
    PendingCap,   \* references it remembers for lack of a slot
    MaxAge,       \* ticks after which a copy that has not landed is given up
    MaxLag,       \* table writes the compute stream may have left: a bound
    Environments  \* what a behaviour may have to reckon with

Slots == 0 .. Capacity - 1
None == -1

\* Copies may get lost; the manager may evict during a tick; and a copy that is
\* made may land as late as this many ticks.
AnyEnvironment == [lossy : BOOLEAN, racing : BOOLEAN, patience : 0 .. MaxAge]

\* What a slab row holds while a copy writes it, and before any did; and the
\* event of a copy that will never be made.
Torn == "torn"
Never == -1

ASSUME ExpertAssumption ==
    /\ Capacity \in Nat \ {0} /\ ProtectedCap \in Nat
    /\ LowWater \in Nat /\ MaxInflight \in Nat \ {0} /\ PendingCap \in Nat \ {0}
    /\ MaxAge \in Nat /\ MaxLag \in Nat
    /\ Environments \subseteq AnyEnvironment
    /\ Torn \notin Keys

VARIABLES
    policy,       \* _policy
    slotOf,       \* _slot_of_key: key -> the slot it was given, or None
    free,         \* _free, popped at its end
    pending,      \* _pending
    toRetract,    \* _to_retract
    inflight,     \* _inflight
    retractEv,    \* _retract_ev: slot -> event of its last retraction
    manager,      \* the manager's place: "observe" or "service"
    tick,         \* the scheduler's place in apply_pending, or "out"
    retracting,   \* the retract list it took
    landing,      \* the in-flight entries it took and has not seen
    still,        \* those it puts back
    compute,      \* table writes left on the compute stream
    copies,       \* copies left on the copy stream
    table,        \* the device table slot_of
    slab,         \* slot -> whose bytes it holds
    env           \* the environment of this behaviour

host == <<policy, slotOf, pending>>
shared == <<free, toRetract, inflight, retractEv>>
scheduler == <<tick, retracting, landing, still>>
device == <<compute, copies, table, slab>>
vars == <<host, shared, manager, scheduler, device, env>>

Init ==
    /\ policy = EmptyPolicy
    /\ slotOf = [k \in Keys |-> None]
    /\ free = [i \in 1 .. Capacity |-> i - 1]
    /\ pending = << >> /\ toRetract = << >> /\ inflight = << >>
    /\ retractEv = [s \in Slots |-> 0]
    /\ manager = "observe" /\ tick = "out"
    /\ retracting = << >> /\ landing = << >> /\ still = << >>
    /\ compute = << >> /\ copies = << >>
    /\ table = [k \in Keys |-> None]
    /\ slab = [s \in Slots |-> Torn]
    /\ env \in Environments

----------------------------------------------------------------------------
(* The manager thread.                                                     *)

\* Remember a reference that found no slot; the oldest makes room, or not.
Defer(k) ==
    IF k \in ToSet(pending) \/ slotOf[k] # None THEN pending
    ELSE Append(IF Len(pending) >= PendingCap THEN Tail(pending) ELSE pending, k)

\* Give up the slots of some keys: the scheduler is to retract them.  Leaving
\* the claims in place would give the slots away twice.
Claimed(keys) == Only(keys, {k \in Keys : slotOf[k] # None})

Retractions(keys) ==
    LET claimed == Claimed(keys)
    IN  [i \in DOMAIN claimed |-> [key |-> claimed[i], slot |-> slotOf[claimed[i]]]]

KeepClaims(keys) == slotOf
Unclaim(keys) == [k \in Keys |-> IF k \in ToSet(keys) THEN None ELSE slotOf[k]]

\* The copy waits for the slot's retraction, if there was one; or for nothing.
Unfenced(s) == 0
Fence(s) == retractEv[s]

CanPlace == free # << >> /\ Len(inflight) < MaxInflight

\* Copy key k into a slot at hand, and claim it.
Place(k) ==
    LET s == Last(free)
        victims == AdmitVictims(policy)
        enqueued == Append(copies, [key |-> k, slot |-> s, after |-> Fence(s)])
        entry(ev) == [key |-> k, slot |-> s, event |-> ev, age |-> 0]
    IN  /\ free' = Front(free)
        /\ policy' = Admit(policy, k)
        /\ toRetract' = toRetract \o Retractions(victims)
        /\ slotOf' = [Unclaim(victims) EXCEPT ![k] = s]
        /\ retractEv' = [retractEv EXCEPT ![s] = 0]
        /\ \/ copies' = enqueued /\ inflight' = Append(inflight, entry(Len(enqueued)))
           \/ env.lossy /\ UNCHANGED copies /\ inflight' = Append(inflight, entry(Never))

\* A reference: a hit, a first miss, or a miss that is admitted.
Hit(k) ==
    /\ manager = "observe" /\ k \in Resident(policy)
    /\ policy' = Touch(policy, k)
    /\ manager' \in {"observe", "service"}
    /\ UNCHANGED <<slotOf, pending, shared, scheduler, device, env>>

Miss(k) ==
    /\ manager = "observe" /\ k \notin Resident(policy)
    /\ IF CanPlace THEN Place(k) /\ UNCHANGED pending
       ELSE pending' = Defer(k) /\ UNCHANGED <<policy, slotOf, shared, copies>>
    /\ manager' \in {"observe", "service"}
    /\ UNCHANGED <<scheduler, compute, table, slab, env>>

\* Every tick wakes the manager; once only references did.
OnlyReferencesWake == FALSE
TicksWake == TRUE

Wake ==
    /\ manager = "observe" /\ TicksWake
    /\ manager' = "service"
    /\ UNCHANGED <<host, shared, scheduler, device, env>>

\* _service, one turn of its loop: the newest pending reference first.
PlacePending ==
    /\ manager = "service" /\ pending # << >> /\ CanPlace
    /\ pending' = Front(pending)
    /\ IF Last(pending) \in Resident(policy)
       THEN UNCHANGED <<policy, slotOf, shared, copies>>
       ELSE Place(Last(pending))
    /\ UNCHANGED <<manager, scheduler, compute, table, slab, env>>

\* How many slots are wanted ready, and those whose way back has begun.
Wanted == LET backlog == IF Len(pending) < MaxInflight THEN Len(pending) ELSE MaxInflight
          IN  IF backlog > LowWater THEN backlog ELSE LowWater

Shortage == Wanted - Len(free) - Len(toRetract)

InflightKeys == {inflight[i].key : i \in DOMAIN inflight}

\* Victims that stay are admitted again.
Readmit(rest, held) == [rest EXCEPT !.probation = @ \o held]

\* Ticks and turns of the manager that evict exclude each other.
Serial == ~env.racing

\* _service, its end, with _reclaim: victims whose copy is listed in flight go
\* back to the policy as its newest keys on probation, the others give up
\* their slots.  The list is empty while the scheduler holds it.
Reclaim ==
    /\ manager = "service" /\ (pending = << >> \/ ~CanPlace)
    /\ Serial => tick = "out"
    /\ LET size == Len(ByValue(policy))
           n == IF Shortage < size THEN Shortage ELSE size
           victims == IF Shortage > 0 THEN Victims(policy, n) ELSE << >>
           held == Only(victims, InflightKeys)
           leave == Without(victims, InflightKeys)
           rest == WithoutKeys(policy, ToSet(victims))
       IN  /\ policy' = Readmit(rest, held)
           /\ toRetract' = toRetract \o Retractions(leave)
           /\ slotOf' = Unclaim(leave)
    /\ manager' = "observe"
    /\ UNCHANGED <<pending, free, inflight, retractEv, scheduler, device, env>>

----------------------------------------------------------------------------
(* The scheduler thread (apply_pending).                                   *)

\* A copy that is made at all lands in time.
LandsInTime(e) == e.event \in {0, Never} \/ e.age < env.patience

BeginTick ==
    /\ tick = "out" /\ Len(compute) <= MaxLag
    /\ Serial => manager = "observe"
    /\ \A i \in DOMAIN inflight : LandsInTime(inflight[i])
    /\ retracting' = toRetract /\ toRetract' = << >>
    /\ landing' = inflight /\ inflight' = << >>
    /\ tick' = "retract"
    /\ UNCHANGED <<host, free, retractEv, manager, still, device, env>>

NoTableWrites == << >>
TableWrites == [i \in DOMAIN retracting |-> [key |-> retracting[i].key, slot |-> None]]

\* Retract the victims, record one event after them, and free their slots.
Retract ==
    /\ tick = "retract"
    /\ compute' = compute \o TableWrites
    /\ LET slots == [i \in DOMAIN retracting |-> retracting[i].slot]
       IN  /\ free' = free \o slots
           /\ retractEv' = [s \in Slots |->
                  IF s \in ToSet(slots) THEN Len(compute') ELSE retractEv[s]]
    /\ retracting' = << >>
    /\ tick' = "land"
    /\ UNCHANGED <<host, toRetract, inflight, manager, landing, still, copies, table, slab, env>>

Landed(e) == e.event = 0
StillHeld(e) == slotOf[e.key] = e.slot

\* A copy landed: publish it, unless its key was evicted meanwhile.
Publish ==
    /\ tick = "land" /\ landing # << >> /\ Landed(Head(landing))
    /\ landing' = Tail(landing)
    /\ compute' = IF StillHeld(Head(landing))
                  THEN Append(compute, [key |-> Head(landing).key, slot |-> Head(landing).slot])
                  ELSE compute
    /\ UNCHANGED <<host, shared, manager, tick, retracting, still, copies, table, slab, env>>

KeepWaiting ==
    /\ tick = "land" /\ landing # << >>
    /\ ~Landed(Head(landing)) /\ Head(landing).age < MaxAge
    /\ landing' = Tail(landing)
    /\ still' = Append(still, [Head(landing) EXCEPT !.age = @ + 1])
    /\ UNCHANGED <<host, shared, manager, tick, retracting, device, env>>

\* A copy that is not going to land: its key loses the slot, if it is the one
\* it has, ...
Abandon ==
    /\ tick = "land" /\ landing # << >>
    /\ ~Landed(Head(landing)) /\ Head(landing).age >= MaxAge
    /\ IF StillHeld(Head(landing))
       THEN /\ slotOf' = [slotOf EXCEPT ![Head(landing).key] = None]
            /\ policy' = WithoutKeys(policy, {Head(landing).key})
       ELSE UNCHANGED <<slotOf, policy>>
    /\ tick' = "abandon"
    /\ UNCHANGED <<pending, shared, manager, retracting, landing, still, device, env>>

\* ... and the slot goes back either way.
FreeAbandoned ==
    /\ tick = "abandon"
    /\ free' = Append(free, Head(landing).slot)
    /\ landing' = Tail(landing)
    /\ tick' = "land"
    /\ UNCHANGED <<host, toRetract, inflight, retractEv, manager, retracting, still, device, env>>

EndTick ==
    /\ tick = "land" /\ landing = << >>
    /\ inflight' = inflight \o still
    /\ still' = << >>
    /\ tick' = "out"
    /\ UNCHANGED <<host, free, toRetract, retractEv, manager, retracting, landing, device, env>>

----------------------------------------------------------------------------
(* The device.                                                             *)

OneLess(n) == IF n > 0 THEN n - 1 ELSE n

\* The compute stream reaches the next write of the table.
WriteTable ==
    /\ compute # << >>
    /\ table' = [table EXCEPT ![Head(compute).key] = Head(compute).slot]
    /\ compute' = Tail(compute)
    /\ retractEv' = [s \in Slots |-> OneLess(retractEv[s])]
    /\ copies' = [i \in DOMAIN copies |-> [copies[i] EXCEPT !.after = OneLess(@)]]
    /\ UNCHANGED <<host, free, toRetract, inflight, manager, scheduler, slab, env>>

\* The copy stream writes a row when the copy's fence was passed.  Writing an
\* expert's bytes over the same bytes changes nothing a kernel could see.
CopyReady == copies # << >> /\ Head(copies).after = 0

BeginCopy ==
    /\ CopyReady /\ slab[Head(copies).slot] \notin {Torn, Head(copies).key}
    /\ slab' = [slab EXCEPT ![Head(copies).slot] = Torn]
    /\ UNCHANGED <<host, shared, manager, scheduler, compute, copies, table, env>>

Sooner(entries) == [i \in DOMAIN entries |-> [entries[i] EXCEPT !.event = OneLess(@)]]

\* The copy is done; the events of all later copies come nearer.
EndCopy ==
    /\ CopyReady /\ slab[Head(copies).slot] \in {Torn, Head(copies).key}
    /\ slab' = [slab EXCEPT ![Head(copies).slot] = Head(copies).key]
    /\ copies' = Tail(copies)
    /\ inflight' = Sooner(inflight)
    /\ landing' = Sooner(landing)
    /\ still' = Sooner(still)
    /\ UNCHANGED <<host, free, toRetract, retractEv, manager, tick, retracting, compute, table, env>>

----------------------------------------------------------------------------
Manager == (\E k \in Keys : Hit(k) \/ Miss(k)) \/ Wake \/ PlacePending \/ Reclaim

Tick ==
    \/ BeginTick \/ Retract
    \/ Publish \/ KeepWaiting \/ Abandon \/ FreeAbandoned
    \/ EndTick

Device == WriteTable \/ BeginCopy \/ EndCopy

Next == Manager \/ Tick \/ Device

Spec == Init /\ [][Next]_vars

\* The scheduler steps on, the manager's wait ends, the streams progress.  A
\* tick is strongly fair only because of Serial: the manager cannot keep the
\* scheduler from stepping.
Fairness ==
    /\ SF_vars(Tick) /\ WF_vars(Wake \/ PlacePending \/ Reclaim)
    /\ WF_vars(WriteTable) /\ WF_vars(BeginCopy \/ EndCopy)

FairSpec == Spec /\ Fairness

----------------------------------------------------------------------------
(* Properties.                                                             *)

\* The one correctness invariant of the module's docstring: a kernel never
\* reads another expert's bytes, however the two threads and the two streams
\* interleave.  The table may say less than is true, never more.
TableNeverOverReports == \A k \in Keys : table[k] # None => slab[table[k]] = k

Positions(s, slots) == {i \in DOMAIN slots : slots[i] = s}
SlotsIn(entries) == [i \in DOMAIN entries |-> entries[i].slot]

\* The hand-over between _free, the claims, the retract queue and the tick
\* neither loses a slot nor puts it in two places, from where two experts
\* would get it; and the keys that hold one are those of the policy, so that
\* each of them can be evicted.
EverySlotHasOneHolder ==
    /\ Resident(policy) = {k \in Keys : slotOf[k] # None}
    /\ \A s \in Slots :
        1 = Cardinality(Positions(s, free))
            + Cardinality(Positions(s, SlotsIn(toRetract)))
            + Cardinality(Positions(s, SlotsIn(retracting)))
            + Cardinality({k \in Keys : slotOf[k] = s})
            + IF tick = "abandon" /\ Head(landing).slot = s THEN 1 ELSE 0

\* What the table will say of k when the compute stream has drained.
Coming(k) ==
    LET writes == {i \in DOMAIN compute : compute[i].key = k}
    IN  IF writes = {} THEN table[k] ELSE compute[Max(writes)].slot

\* Host and device agree: whatever the table names or will name is claimed or
\* on its way to being retracted, and a claim is in the table or its copy is
\* still followed.  Neither dangling entries nor residents nobody can read.
TableFollowsClaims ==
    \A k \in Keys :
        /\ Coming(k) # None =>
              \/ slotOf[k] = Coming(k)
              \/ [key |-> k, slot |-> Coming(k)] \in ToSet(toRetract) \cup ToSet(retracting)
        /\ slotOf[k] # None =>
              \/ Coming(k) = slotOf[k]
              \/ \E e \in ToSet(inflight) \cup ToSet(landing) \cup ToSet(still) :
                    e.key = k /\ e.slot = slotOf[k]

\* Once references stop arriving, every one that found no slot is served: the
\* slots it waits for come back and somebody is there to use them.
DemandIsServed ==
    <>[][~\E k \in Keys : Hit(k) \/ Miss(k)]_vars => <>[](pending = << >>)
=============================================================================
