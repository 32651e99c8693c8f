--------------------------- MODULE DeliveryProofs ---------------------------
(***************************************************************************)
(* Proofs about ProjectionDelivery, for every set of targets, workers and  *)
(* deployments, for all faults and every number of attempts, and about     *)
(* EvidenceLedger, for any number of shells, checks, records and files.    *)
(*                                                                         *)
(* StaleLinkIsOwed is not inductive: it says nothing of the workers that   *)
(* are about to settle the event which is owed.  IInv adds which event     *)
(* that is (Intents), that a worker is where its event sends it (Placed),  *)
(* and that a worker which found nothing to withdraw, or has withdrawn it, *)
(* is right as long as the record is not current again (Withdrawn).        *)
(*                                                                         *)
(* ReactivationSticks needs more where one worker runs alone (Solo): what  *)
(* it has in hand still agrees with the record, or the event that corrects *)
(* it is behind the one in hand (Carries, Steady, Recent, Kept).           *)
(*                                                                         *)
(* AcceptedIsDecided says nothing of a command that has yet to write its   *)
(* line.  Sound adds that the line it has in hand is about the record it   *)
(* was given (LineFits), so that each accepted record has a line with its  *)
(* proofs, or a ledger that is refused for good (Backed).  A run nobody    *)
(* disturbed is Whole also while a command is at work: one check is on its *)
(* way, every other untouched or recorded (Orderly, InOrder).              *)
(***************************************************************************)
EXTENDS ProjectionDelivery, EvidenceLedger, FiniteSetTheorems, SequenceTheorems, TLAPS

---------------------------------------------------------------------------

States   == {"ACTIVE", "RETIRED", "DELETION_PENDING", "DELETED"}
Statuses == {"ABSENT", "PENDING", "PROCESSING", "DELIVERED", "DEAD"}

PlacesOf(kind) ==
    CASE kind = "project" -> {"project", "deliver", "reread", "getlink", "install",
                              "compensate", "withdraw", "settle", "failed"}
      [] kind = "retire"  -> {"retire", "retire2", "unproject", "unlink", "settle", "failed"}
      [] kind = "erase"   -> {"erase", "erase2", "erase3", "remaining", "complete",
                              "settle", "failed"}
      [] kind = "none"    -> {}

Kinds  == {"none", "project", "retire", "erase"}
Places == {"idle"} \cup UNION {PlacesOf(kind) : kind \in Kinds}

EventTypes  == [kind : Kinds, status : Statuses, attempts : Nat, holder : Workers \cup {NoWorker}]
WorkerTypes == [at : Places, id : EventIds \cup {Idle.id}, seen : Nat, copy : Nat, tries : Nat]

\* Every variable holds a value of the kind the code keeps there.
TypeOK ==
    /\ deployed \in Deployments
    /\ state \in States
    /\ ops \in 0..MaxOps
    /\ event \in [EventIds -> EventTypes]
    /\ link \in [Targets -> Nat]
    /\ provider \in [Targets -> SUBSET Nat]
    /\ queued \in [Targets -> SUBSET Nat]
    /\ made \in Nat
    /\ worker \in [Workers -> WorkerTypes]
    /\ faults \in Nat

\* What the last operation queued, and that nothing is queued beyond it.
IntentOf(s) == CASE s = "ACTIVE"  -> "project"
                 [] s = "RETIRED" -> "retire"
                 [] OTHER         -> "erase"

Intents ==
    /\ \A t \in Targets : event[<<ops, t>>].kind = IntentOf(state)
    /\ \A i \in EventIds : event[i].status # "ABSENT" => i[1] <= ops
    /\ \A i \in EventIds : event[i].kind = "none" => event[i].status = "ABSENT"
    /\ \A i \in EventIds : event[i].kind = "erase" => state \in {"DELETION_PENDING", "DELETED"}

Placed(v) ==
    v.at # "idle" =>
        v.id \in EventIds /\ v.id[1] <= ops /\ v.at \in PlacesOf(event[v.id].kind)

\* Nothing is left to withdraw.
Settled(v) ==
    \/ v.at \in {"settle", "remaining", "complete"}
    \/ v.at = "retire2" /\ v.seen = NoCopy

Withdrawn(v) ==
    Settled(v) /\ state # "ACTIVE" /\ v.id[1] = ops => link[v.id[2]] = NoCopy

IInv ==
    /\ TypeOK
    /\ Intents
    /\ \A w \in Workers : Placed(worker[w]) /\ Withdrawn(worker[w])
    /\ DeletedHoldsNoLink
    /\ StaleLinkIsOwed

---------------------------------------------------------------------------
\* The worker that has nothing to do.
LEMMA IdleType == Idle \in WorkerTypes /\ Idle.at = "idle" /\ Idle.seen = NoCopy
BY DEF Idle, WorkerTypes, Places, NoCopy

\* What an operation queues is an event.
LEMMA QueuedType ==
    ASSUME NEW kind \in Kinds
    PROVE  /\ Queued(kind) \in EventTypes
           /\ Queued(kind).kind = kind /\ Queued(kind).status = "PENDING"
BY DEF Queued, EventTypes, Statuses

LEMMA NoEventType ==
    NoEvent \in EventTypes /\ NoEvent.kind = "none" /\ NoEvent.status = "ABSENT"
BY DEF NoEvent, EventTypes, Kinds, Statuses

\* Every place a worker's event may send it to is a place.
LEMMA PlacesType == \A kind \in Kinds : PlacesOf(kind) \subseteq Places
BY DEF Places

\* Every event may fail, or be settled.
LEMMA FailedPlace ==
    \A kind \in Kinds : PlacesOf(kind) # {} => {"failed", "settle"} \subseteq PlacesOf(kind)
BY DEF Kinds, PlacesOf

\* An event identity is an operation and a target.
LEMMA EventIdType ==
    /\ \A i \in EventIds : i = <<i[1], i[2]>> /\ i[1] \in 0..MaxOps /\ i[2] \in Targets
    /\ \A n \in 0..MaxOps, t \in Targets : <<n, t>> \in EventIds
BY DEF EventIds

LEMMA InitInv == Init => IInv
<1> SUFFICES ASSUME Init PROVE IInv
  OBVIOUS
<1>1. 0 \in 0..MaxOps /\ MaxOps \in Nat
  BY BoundsAssumption
<1>2. Queued("project") \in EventTypes /\ Queued("project").kind = "project"
  BY QueuedType DEF Kinds
<1>3. event \in [EventIds -> EventTypes]
  BY <1>2, NoEventType DEF Init
<1>4. TypeOK
  BY <1>1, <1>3, IdleType DEF Init, TypeOK, States, NoCopy
<1>5. Intents
  <2>1. \A t \in Targets : event[<<0, t>>] = Queued("project")
    BY <1>1, EventIdType DEF Init
  <2>2. \A i \in EventIds : event[i] = (IF i[1] = 0 THEN Queued("project") ELSE NoEvent)
    BY DEF Init
  <2> QED
    BY <1>1, <1>2, <2>1, <2>2, NoEventType, EventIdType DEF Init, Intents, IntentOf
<1>6. \A w \in Workers : Placed(worker[w]) /\ Withdrawn(worker[w])
  BY IdleType DEF Init, Placed, Withdrawn, Settled
<1>7. DeletedHoldsNoLink /\ StaleLinkIsOwed
  BY DEF Init, DeletedHoldsNoLink, StaleLinkIsOwed
<1> QED
  BY <1>4, <1>5, <1>6, <1>7 DEF IInv

---------------------------------------------------------------------------
\* A lifecycle operation: what was queued before is no longer the last intent,
\* and the one it queues is pending.
LEMMA OperateInv ==
    ASSUME IInv, NEW from \in SUBSET {"ACTIVE", "RETIRED"}, NEW to \in States \ {"DELETED"},
           Operate(from, to, IntentOf(to))
    PROVE  IInv'
<1> DEFINE kind == IntentOf(to)
<1> USE DEF IInv
<1>1. kind \in Kinds \ {"none"} /\ Queued(kind) \in EventTypes
      /\ Queued(kind).kind = kind /\ Queued(kind).status = "PENDING"
  BY QueuedType DEF IntentOf, Kinds, States
<1>2. ops \in Nat /\ ops' = ops + 1 /\ ops' \in 0..MaxOps /\ state' = to /\ state \in from
  BY BoundsAssumption DEF TypeOK, Operate
<1>3. /\ event' = [i \in EventIds |-> IF i[1] = ops + 1 THEN Queued(kind) ELSE event[i]]
      /\ UNCHANGED <<deployed, link, provider, queued, made, worker, faults>>
  BY DEF Operate
<1>4. event' \in [EventIds -> EventTypes]
  BY <1>1, <1>3 DEF TypeOK
<1>5. TypeOK'
  BY <1>2, <1>3, <1>4 DEF TypeOK
<1>6. \A t \in Targets : event'[<<ops', t>>] = Queued(kind)
  BY <1>2, <1>3, EventIdType
<1>7. Intents'
  <2>1. \A t \in Targets : event'[<<ops', t>>].kind = IntentOf(state')
    BY <1>1, <1>2, <1>6
  <2>2. ASSUME NEW i \in EventIds
        PROVE  /\ event'[i].status # "ABSENT" => i[1] <= ops'
               /\ event'[i].kind = "none" => event'[i].status = "ABSENT"
               /\ event'[i].kind = "erase" => state' \in {"DELETION_PENDING", "DELETED"}
    <3>1. CASE i[1] = ops + 1
      <4>1. event'[i] = Queued(kind)
        BY <1>3, <3>1
      <4>2. i[1] <= ops'
        BY <1>2, <3>1
      <4>3. kind = "erase" => to = "DELETION_PENDING"
        BY DEF IntentOf, States
      <4> QED
        BY <1>1, <1>2, <4>1, <4>2, <4>3
    <3>2. CASE i[1] # ops + 1
      <4>1. event'[i] = event[i]
        BY <1>3, <3>2
      <4>2. i[1] \in Nat
        BY EventIdType
      <4> QED
        BY <1>2, <4>1, <4>2 DEF Intents
    <3> QED
      BY <3>1, <3>2
  <2> QED
    BY <2>1, <2>2 DEF Intents
<1>8. ASSUME NEW w \in Workers
      PROVE  Placed(worker[w])' /\ Withdrawn(worker[w])'
  <2>1. worker'[w] = worker[w] /\ Placed(worker[w])
    BY <1>3
  <2>2. CASE worker[w].at = "idle"
    BY <2>1, <2>2 DEF Placed, Withdrawn, Settled
  <2>3. CASE worker[w].at # "idle"
    <3>1. worker[w].id \in EventIds /\ worker[w].id[1] <= ops /\ worker[w].id[1] \in Nat
      BY <2>1, <2>3, EventIdType DEF Placed
    <3>2. event'[worker[w].id] = event[worker[w].id] /\ worker[w].id[1] # ops'
      BY <1>2, <1>3, <3>1
    <3> QED
      BY <1>2, <2>1, <2>3, <3>1, <3>2 DEF Placed, Withdrawn
  <2> QED
    BY <2>2, <2>3
<1>9. DeletedHoldsNoLink'
  BY <1>2 DEF DeletedHoldsNoLink
<1>10. StaleLinkIsOwed'
  BY <1>1, <1>2, <1>6 DEF StaleLinkIsOwed, IntentOf, States, Open
<1> QED
  BY <1>5, <1>7, <1>8, <1>9, <1>10

\* A change of nothing but the status, attempts and holder of events leaves the
\* intents as they are.
LEMMA EventKept ==
    ASSUME IInv, UNCHANGED <<state, ops>>, event' \in [EventIds -> EventTypes],
           \A i \in EventIds : /\ event'[i].kind = event[i].kind
                               /\ event'[i].status = "ABSENT" <=> event[i].status = "ABSENT"
    PROVE  Intents'
<1>1. \A t \in Targets : <<ops, t>> \in EventIds
  BY EventIdType DEF IInv, TypeOK
<1> QED
  BY <1>1 DEF IInv, Intents

\* A claim: the worker starts where its event sends it.
LEMMA TakeInv ==
    ASSUME IInv, NEW w \in Workers, NEW i \in EventIds, event[i].status \in Open,
           Take(w, i), faults' \in Nat
    PROVE  IInv'
<1> USE DEF IInv
<1> DEFINE v == [Idle EXCEPT !.at = event[i].kind, !.id = i]
           e == [event[i] EXCEPT !.status = "PROCESSING", !.holder = w]
<1>1. /\ event' = [event EXCEPT ![i] = e]
      /\ worker' = [worker EXCEPT ![w] = v]
      /\ UNCHANGED <<deployed, state, ops, link, provider, queued, made>>
  BY DEF Take, TypeOK, EventTypes
<1>2. /\ event[i] \in EventTypes /\ i[1] <= ops
      /\ event[i].kind \in {"project", "retire", "erase"}
  BY DEF TypeOK, Intents, EventTypes, Kinds, Open
<1>3. /\ e \in EventTypes /\ e.kind = event[i].kind /\ e.status = "PROCESSING"
  BY <1>2 DEF EventTypes, Statuses
<1>4. v.at = event[i].kind /\ v.id = i /\ v.seen = NoCopy /\ v.at \in PlacesOf(event[i].kind)
      /\ v \in WorkerTypes /\ ~Settled(v)
  BY <1>2, IdleType, PlacesType DEF WorkerTypes, PlacesOf, Settled, Kinds
<1>5. event' \in [EventIds -> EventTypes] /\ worker' \in [Workers -> WorkerTypes]
  BY <1>1, <1>3, <1>4 DEF TypeOK
<1>6. TypeOK'
  BY <1>1, <1>5 DEF TypeOK
<1>7. \A j \in EventIds : event'[j] = IF j = i THEN e ELSE event[j]
  BY <1>1 DEF TypeOK
<1>8. Intents'
  BY <1>1, <1>3, <1>5, <1>7, EventKept DEF Open
<1>9. ASSUME NEW x \in Workers
      PROVE  Placed(worker[x])' /\ Withdrawn(worker[x])'
  <2>1. \A j \in EventIds : event'[j].kind = event[j].kind
    BY <1>3, <1>7
  <2>2. CASE x = w
    <3>1. worker'[x] = v
      BY <1>1, <2>2 DEF TypeOK
    <3> QED
      BY <1>1, <1>2, <1>4, <2>1, <3>1 DEF Placed, Withdrawn, Settled
  <2>3. CASE x # w
    <3>1. worker'[x] = worker[x]
      BY <1>1, <2>3 DEF TypeOK
    <3> QED
      BY <1>1, <2>1, <3>1 DEF Placed, Withdrawn, Settled
  <2> QED
    BY <2>2, <2>3
<1>10. DeletedHoldsNoLink'
  BY <1>1 DEF DeletedHoldsNoLink, NoLinks
<1>11. StaleLinkIsOwed'
  <2>1. \A t \in Targets : <<ops, t>> \in EventIds
    BY EventIdType DEF TypeOK
  <2> QED
    BY <1>1, <1>3, <1>7, <2>1 DEF StaleLinkIsOwed, Open
<1> QED
  BY <1>6, <1>8, <1>9, <1>10, <1>11

\* A worker dies, and its leases are nobody's.
LEMMA CrashInv == ASSUME IInv, NEW w \in Workers, Crash(w) PROVE IInv'
<1> USE DEF IInv
<1>1. /\ event' = [i \in EventIds |->
             IF event[i].holder = w THEN [event[i] EXCEPT !.holder = NoWorker] ELSE event[i]]
      /\ worker' = [worker EXCEPT ![w] = Idle]
      /\ UNCHANGED <<deployed, state, ops, link, provider, queued, made>>
      /\ faults' \in Nat
  BY DEF Crash, Fault, TypeOK
<1>2. ASSUME NEW i \in EventIds
      PROVE  event'[i] \in EventTypes /\ event'[i].kind = event[i].kind
             /\ event'[i].status = event[i].status
  BY <1>1 DEF TypeOK, EventTypes
<1>3. event' \in [EventIds -> EventTypes]
  BY <1>1, <1>2
<1>4. TypeOK'
  BY <1>1, <1>3, IdleType DEF TypeOK
<1>5. Intents'
  BY <1>1, <1>2, <1>3, EventKept
<1>6. ASSUME NEW x \in Workers
      PROVE  Placed(worker[x])' /\ Withdrawn(worker[x])'
  <2>1. worker'[x] = IF x = w THEN Idle ELSE worker[x]
    BY <1>1 DEF TypeOK
  <2> QED
    BY <1>1, <1>2, <2>1, IdleType DEF Placed, Withdrawn, Settled
<1>7. DeletedHoldsNoLink'
  BY <1>1 DEF DeletedHoldsNoLink, NoLinks
<1>8. StaleLinkIsOwed'
  <2>1. \A t \in Targets : <<ops, t>> \in EventIds
    BY EventIdType DEF TypeOK
  <2> QED
    BY <1>1, <1>2, <2>1 DEF StaleLinkIsOwed, Open
<1> QED
  BY <1>4, <1>5, <1>6, <1>7, <1>8

\* The end of an event.  What is settled as delivered over the last intent has
\* withdrawn the copy.
LEMMA SettleInv ==
    ASSUME IInv, NEW w \in Workers, worker[w].at \in {"settle", "failed"},
           NEW status \in Statuses \ {"ABSENT"}, NEW attempts \in Nat,
           status = "DELIVERED" => worker[w].at = "settle",
           Settle(w, status, attempts)
    PROVE  IInv'
<1> USE DEF IInv
<1> DEFINE i == worker[w].id
           e == [event[i] EXCEPT !.status = status, !.attempts = attempts, !.holder = NoWorker]
<1>1. /\ event' = IF event[i].holder = w THEN [event EXCEPT ![i] = e] ELSE event
      /\ worker' = [worker EXCEPT ![w] = Idle]
      /\ UNCHANGED <<deployed, state, ops, link, provider, queued, made, faults>>
  BY DEF Settle
<1>2. Placed(worker[w]) /\ i \in EventIds /\ i[1] <= ops
      /\ worker[w].at \in PlacesOf(event[i].kind)
  BY DEF Placed
<1>3. event[i].kind # "none" /\ event[i] \in EventTypes
  BY <1>2 DEF PlacesOf, TypeOK
<1>4. e \in EventTypes /\ e.kind = event[i].kind /\ e.status = status
  BY <1>3 DEF EventTypes
<1>5. event' \in [EventIds -> EventTypes]
  BY <1>1, <1>4 DEF TypeOK
<1>6. TypeOK'
  BY <1>1, <1>5, IdleType DEF TypeOK
<1>7. \A j \in EventIds : event'[j] = event[j] \/ (j = i /\ event'[j] = e)
  BY <1>1 DEF TypeOK
<1>8. Intents'
  <2>1. \A t \in Targets : <<ops, t>> \in EventIds
    BY EventIdType DEF TypeOK
  <2> QED
    BY ZenonT(40), <1>1, <1>2, <1>3, <1>4, <1>7, <2>1 DEF Intents
<1>9. ASSUME NEW x \in Workers
      PROVE  Placed(worker[x])' /\ Withdrawn(worker[x])'
  <2>1. worker'[x] = IF x = w THEN Idle ELSE worker[x]
    BY <1>1 DEF TypeOK
  <2>2. \A j \in EventIds : event'[j].kind = event[j].kind
    BY <1>4, <1>7
  <2> QED
    BY <1>1, <2>1, <2>2, IdleType DEF Placed, Withdrawn, Settled
<1>10. DeletedHoldsNoLink'
  BY <1>1 DEF DeletedHoldsNoLink, NoLinks
<1>11. StaleLinkIsOwed'
  <2> SUFFICES ASSUME NEW t \in Targets, link[t] # NoCopy, state # "ACTIVE"
               PROVE  /\ event'[<<ops, t>>].kind \in {"retire", "erase"}
                      /\ event'[<<ops, t>>].status \in Open \cup {"DEAD"}
    BY <1>1 DEF StaleLinkIsOwed
  <2>1. <<ops, t>> \in EventIds
    BY EventIdType DEF TypeOK
  <2>2. /\ event[<<ops, t>>].kind \in {"retire", "erase"}
        /\ event[<<ops, t>>].status \in Open \cup {"DEAD"}
    BY DEF StaleLinkIsOwed
  <2>3. CASE <<ops, t>> = i
    <3>1. i[1] = ops /\ i[2] = t
      BY <2>3
    <3>2. worker[w].at # "settle"
      BY <3>1 DEF Withdrawn, Settled
    <3> QED
      BY <1>4, <1>7, <2>1, <2>2, <3>2 DEF Statuses, Open
  <2>4. CASE <<ops, t>> # i
    BY <1>7, <2>1, <2>2, <2>4
  <2> QED
    BY <2>3, <2>4
<1> QED
  BY <1>6, <1>8, <1>9, <1>10, <1>11

---------------------------------------------------------------------------
\* A step of worker w within its event, which sets a link only while the record
\* is current, and goes on as if nothing were left only where that is so.
LEMMA MoveInv ==
    ASSUME IInv, NEW w \in Workers, worker[w].at # "idle",
           NEW v \in WorkerTypes, v.id = worker[w].id,
           v.at \in PlacesOf(event[v.id].kind),
           worker' = [worker EXCEPT ![w] = v],
           UNCHANGED <<deployed, state, ops, event>>,
           link' \in [Targets -> Nat], provider' \in [Targets -> SUBSET Nat],
           queued' \in [Targets -> SUBSET Nat], made' \in Nat, faults' \in Nat,
           state # "ACTIVE" => \A t \in Targets : link'[t] \in {link[t], NoCopy},
           Settled(v) /\ state # "ACTIVE" /\ v.id[1] = ops => link'[v.id[2]] = NoCopy
    PROVE  IInv'
<1> USE DEF IInv
<1>1. TypeOK'
  BY DEF TypeOK
<1>2. Intents'
  BY DEF Intents
<1>3. Placed(worker[w]) /\ v.id \in EventIds /\ v.id[1] <= ops
  BY DEF Placed
<1>4. ASSUME NEW x \in Workers
      PROVE  Placed(worker[x])' /\ Withdrawn(worker[x])'
  <2>1. CASE x = w
    <3>1. worker'[x] = v
      BY <2>1 DEF TypeOK
    <3> QED
      BY <1>3, <3>1 DEF Placed, Withdrawn, Settled
  <2>2. CASE x # w
    <3>1. worker'[x] = worker[x] /\ Placed(worker[x]) /\ Withdrawn(worker[x])
      BY <2>2 DEF TypeOK
    <3>2. worker[x].at # "idle" => worker[x].id[2] \in Targets
      BY <3>1, EventIdType DEF Placed
    <3>3. Settled(worker[x]) => worker[x].at # "idle"
      BY DEF Settled
    <3> QED
      BY <3>1, <3>2, <3>3 DEF Placed, Withdrawn, Settled
  <2> QED
    BY <2>1, <2>2
<1>5. DeletedHoldsNoLink'
  BY DEF DeletedHoldsNoLink, NoLinks
<1>6. StaleLinkIsOwed'
  BY DEF StaleLinkIsOwed
<1> QED
  BY <1>1, <1>2, <1>4, <1>5, <1>6

\* Where a worker is tells its event's kind, and the last intent for a target is
\* a projection only while the record is current.
LEMMA AtWork ==
    ASSUME IInv, NEW w \in Workers, worker[w].at # "idle"
    PROVE  /\ worker[w] \in WorkerTypes /\ worker[w].id \in EventIds
           /\ target(w) \in Targets
           /\ event[worker[w].id].kind \in Kinds
           /\ worker[w].at \in PlacesOf(event[worker[w].id].kind)
           /\ event[worker[w].id].kind = "project" /\ worker[w].id[1] = ops
                 => state = "ACTIVE"
<1>1. Placed(worker[w]) /\ worker[w] \in WorkerTypes
  BY DEF IInv, TypeOK
<1>2. worker[w].id \in EventIds /\ target(w) \in Targets
  BY <1>1, EventIdType DEF Placed, target
<1>3. event[worker[w].id].kind \in Kinds
  BY <1>2 DEF IInv, TypeOK, EventTypes
<1>4. worker[w].id[1] = ops => worker[w].id = <<ops, target(w)>>
  BY <1>2, EventIdType DEF target
<1> QED
  BY <1>1, <1>2, <1>3, <1>4 DEF IInv, Intents, IntentOf, Placed

\* adapter.retire and adapter.erase end as they should or as a failure.
LEMMA RemoveInv ==
    ASSUME IInv, NEW w \in Workers, worker[w].at # "idle", NEW copy, NEW next,
           next \in PlacesOf(event[worker[w].id].kind),
           next = "settle" => event[worker[w].id].kind = "project",
           next \notin {"remaining", "complete", "retire2"},
           Remove(w, copy, next)
    PROVE  IInv'
<1>1. PICK at \in {"failed", next} : worker' = [worker EXCEPT ![w].at = at]
  BY DEF Remove, GoTo
<1> DEFINE v == [worker[w] EXCEPT !.at = at]
<1>2. /\ worker[w] \in WorkerTypes /\ target(w) \in Targets
      /\ event[worker[w].id].kind \in Kinds
      /\ worker[w].at \in PlacesOf(event[worker[w].id].kind)
      /\ event[worker[w].id].kind = "project" /\ worker[w].id[1] = ops => state = "ACTIVE"
  BY AtWork
<1>3. at \in PlacesOf(event[worker[w].id].kind)
  BY <1>1, <1>2, FailedPlace
<1>4. v \in WorkerTypes /\ v.id = worker[w].id /\ v.at = at
      /\ worker' = [worker EXCEPT ![w] = v]
  BY <1>1, <1>2, <1>3, PlacesType DEF WorkerTypes, IInv, TypeOK
<1>5. Settled(v) /\ state # "ACTIVE" => v.id[1] # ops
  BY <1>1, <1>2, <1>4 DEF Settled
<1>6. provider' \in [Targets -> SUBSET Nat] /\ faults' \in Nat
  BY <1>2 DEF Remove, Fault, IInv, TypeOK
<1>7. UNCHANGED <<deployed, state, ops, event, link, queued, made>>
  BY DEF Remove
<1> QED
  BY <1>3, <1>4, <1>5, <1>6, <1>7, MoveInv DEF IInv, TypeOK

---------------------------------------------------------------------------
\* A project delivery.  Of its steps only InstallWrites touches a link, and only
\* while the record is current.
LEMMA ProjectReadsInv == ASSUME IInv, NEW w \in Workers, ProjectReads(w) PROVE IInv'
<1> DEFINE v == [worker[w] EXCEPT !.at = IF state = "ACTIVE" THEN "deliver" ELSE "settle"]
<1>1. worker[w].at = "project" /\ worker' = [worker EXCEPT ![w] = v] /\ OnlyMoves
  BY DEF ProjectReads, GoTo
<1>2. /\ worker[w] \in WorkerTypes /\ event[worker[w].id].kind = "project"
      /\ worker[w].id[1] = ops => state = "ACTIVE"
  BY <1>1, AtWork DEF PlacesOf, Kinds
<1>3. v.id = worker[w].id /\ v.at \in PlacesOf("project") /\ v \in WorkerTypes
  BY <1>2, PlacesType DEF PlacesOf, WorkerTypes, Kinds
<1> QED
  BY <1>1, <1>2, <1>3, MoveInv DEF IInv, TypeOK, OnlyMoves, Settled

LEMMA ProjectCallsInv == ASSUME IInv, NEW w \in Workers, ProjectCalls(w) PROVE IInv'
<1>1. worker[w].at = "deliver" /\ UNCHANGED <<deployed, state, ops, event, link>>
  BY DEF ProjectCalls
<1>2. /\ worker[w] \in WorkerTypes /\ event[worker[w].id].kind = "project"
      /\ target(w) \in Targets
  BY <1>1, AtWork DEF PlacesOf, Kinds
<1>3. /\ made' \in Nat /\ faults' \in Nat
      /\ provider' \in [Targets -> SUBSET Nat] /\ queued' \in [Targets -> SUBSET Nat]
  BY <1>2 DEF ProjectCalls, Accept, Fault, IInv, TypeOK
<1>4. \/ worker' = [worker EXCEPT ![w].at = "reread", ![w].copy = made + 1]
      \/ worker' = [worker EXCEPT ![w].at = "failed"]
  BY DEF ProjectCalls, GoTo
<1>5. ASSUME NEW v \in WorkerTypes, v.id = worker[w].id, v.at \in {"reread", "failed"},
             worker' = [worker EXCEPT ![w] = v]
      PROVE  IInv'
  BY <1>1, <1>2, <1>3, <1>5, MoveInv DEF IInv, TypeOK, PlacesOf, Settled
<1>6. {"reread", "failed"} \subseteq Places
  BY PlacesType DEF PlacesOf, Kinds
<1>7. CASE worker' = [worker EXCEPT ![w].at = "reread", ![w].copy = made + 1]
  <2> DEFINE n == made + 1
             v == [worker[w] EXCEPT !.at = "reread", !.copy = n]
  <2>0. n \in Nat
    BY DEF IInv, TypeOK
  <2>1. v \in WorkerTypes /\ v.id = worker[w].id /\ v.at = "reread"
    <3> HIDE DEF n
    <3> QED
      BY <1>2, <1>6, <2>0 DEF WorkerTypes
  <2>2. worker' = [worker EXCEPT ![w] = v]
    BY <1>7
  <2> QED
    BY <1>5, <2>1, <2>2
<1>8. CASE worker' = [worker EXCEPT ![w].at = "failed"]
  BY <1>2, <1>5, <1>6, <1>8 DEF WorkerTypes
<1> QED
  BY <1>4, <1>7, <1>8

LEMMA ProjectRereadsInv == ASSUME IInv, NEW w \in Workers, ProjectRereads(w) PROVE IInv'
<1> DEFINE v == [worker[w] EXCEPT !.at = IF state = "ACTIVE" THEN "getlink" ELSE "compensate"]
<1>1. worker[w].at = "reread" /\ worker' = [worker EXCEPT ![w] = v] /\ OnlyMoves
  BY DEF ProjectRereads, GoTo
<1>2. worker[w] \in WorkerTypes /\ event[worker[w].id].kind = "project"
  BY <1>1, AtWork DEF PlacesOf, Kinds
<1>3. v.id = worker[w].id /\ v.at \in PlacesOf("project") /\ v \in WorkerTypes /\ ~Settled(v)
  BY <1>2, PlacesType DEF PlacesOf, WorkerTypes, Kinds, Settled
<1> QED
  BY <1>1, <1>2, <1>3, MoveInv DEF IInv, TypeOK, OnlyMoves

LEMMA InstallReadsInv == ASSUME IInv, NEW w \in Workers, InstallReads(w) PROVE IInv'
<1> DEFINE v == [worker[w] EXCEPT !.at = "install", !.seen = link[target(w)]]
<1>1. worker[w].at = "getlink" /\ worker' = [worker EXCEPT ![w] = v] /\ OnlyMoves
  BY DEF InstallReads
<1>2. /\ worker[w] \in WorkerTypes /\ event[worker[w].id].kind = "project"
      /\ link[target(w)] \in Nat
  BY <1>1, AtWork DEF PlacesOf, Kinds, IInv, TypeOK
<1>3. v.id = worker[w].id /\ v.at \in PlacesOf("project") /\ v \in WorkerTypes /\ ~Settled(v)
  BY <1>2, PlacesType DEF PlacesOf, WorkerTypes, Kinds, Settled
<1> QED
  BY <1>1, <1>2, <1>3, MoveInv DEF IInv, TypeOK, OnlyMoves

LEMMA InstallWritesInv == ASSUME IInv, NEW w \in Workers, InstallWrites(w) PROVE IInv'
<1>1. /\ worker[w].at = "install"
      /\ UNCHANGED <<deployed, state, ops, event, provider, queued, made, faults>>
  BY DEF InstallWrites
<1>2. /\ worker[w] \in WorkerTypes /\ event[worker[w].id].kind = "project"
      /\ target(w) \in Targets
      /\ worker[w].id[1] = ops => state = "ACTIVE"
  BY <1>1, AtWork DEF PlacesOf, Kinds
<1>3. ASSUME NEW at \in {"settle", "getlink", "withdraw", "compensate"}, NEW n \in Nat,
             worker' = [worker EXCEPT ![w].tries = n, ![w].at = at],
             link' \in [Targets -> Nat], state # "ACTIVE" => UNCHANGED link
      PROVE  IInv'
  <2> DEFINE v == [worker[w] EXCEPT !.tries = n, !.at = at]
  <2>1. v.id = worker[w].id /\ v.at \in PlacesOf("project") /\ v \in WorkerTypes
    BY <1>2, PlacesType DEF PlacesOf, WorkerTypes, Kinds
  <2>2. worker' = [worker EXCEPT ![w] = v]
    BY <1>3
  <2>3. Settled(v) /\ state # "ACTIVE" => v.id[1] # ops
    BY <1>2 DEF Settled, WorkerTypes
  <2> QED
    <3>1. worker[w].at # "idle" /\ v.at \in PlacesOf(event[v.id].kind)
      BY <1>1, <1>2, <2>1
    <3>2. /\ provider' \in [Targets -> SUBSET Nat] /\ queued' \in [Targets -> SUBSET Nat]
          /\ made' \in Nat /\ faults' \in Nat
          /\ UNCHANGED <<deployed, state, ops, event>>
      BY <1>1 DEF IInv, TypeOK
    <3>3. state # "ACTIVE" => \A t \in Targets : link'[t] \in {link[t], NoCopy}
      BY <1>3
    <3> HIDE DEF v
    <3> QED
      BY <1>3, <2>1, <2>2, <2>3, <3>1, <3>2, <3>3, MoveInv
<1>4. worker[w].tries \in Nat /\ worker[w].copy \in Nat
  BY <1>2 DEF WorkerTypes
<1>5. \A at \in {"settle", "compensate"} :
         [worker EXCEPT ![w].at = at] = [worker EXCEPT ![w].tries = worker[w].tries, ![w].at = at]
  BY <1>2 DEF WorkerTypes, IInv, TypeOK
<1>6. CASE /\ link' = [link EXCEPT ![target(w)] = worker[w].copy]
           /\ GoTo(w, "settle") /\ state = "ACTIVE"
  BY <1>3, <1>4, <1>5, <1>6 DEF GoTo, IInv, TypeOK
<1>7. CASE /\ worker' = [worker EXCEPT ![w].tries = @ + 1,
                 ![w].at = IF worker[w].tries + 1 < LinkInstallAttempts THEN "getlink" ELSE "withdraw"]
           /\ UNCHANGED link
  <2> DEFINE n  == worker[w].tries + 1
             at == IF n < LinkInstallAttempts THEN "getlink" ELSE "withdraw"
  <2>1. worker' = [worker EXCEPT ![w].tries = n, ![w].at = at]
    BY <1>7
  <2>2. at \in {"settle", "getlink", "withdraw", "compensate"} /\ n \in Nat
    BY <1>4
  <2>3. link' \in [Targets -> Nat]
    BY <1>7 DEF IInv, TypeOK
  <2> HIDE DEF n, at
  <2> QED
    BY <1>3, <1>7, <2>1, <2>2, <2>3
<1>8. CASE GoTo(w, "compensate") /\ UNCHANGED link
  BY <1>3, <1>4, <1>5, <1>8 DEF GoTo, IInv, TypeOK
<1> QED
  BY <1>6, <1>7, <1>8 DEF InstallWrites

LEMMA CompensateInv == ASSUME IInv, NEW w \in Workers, Compensate(w) PROVE IInv'
<1>1. PICK next \in {"settle", "failed"} : Remove(w, worker[w].copy, next)
  BY DEF Compensate
<1>2. worker[w].at \in {"compensate", "withdraw"}
  BY DEF Compensate
<1>3. event[worker[w].id].kind = "project"
  BY <1>2, AtWork DEF PlacesOf, Kinds
<1> QED
  BY <1>1, <1>2, <1>3, RemoveInv DEF PlacesOf

---------------------------------------------------------------------------
\* A retirement.  It settles without a removal if it saw no link after the
\* record was retired, and nobody sets one since.
LEMMA RetireReadsLinkInv == ASSUME IInv, NEW w \in Workers, RetireReadsLink(w) PROVE IInv'
<1> DEFINE v == [worker[w] EXCEPT !.at = "retire2", !.seen = link[target(w)]]
<1>1. worker[w].at = "retire" /\ worker' = [worker EXCEPT ![w] = v] /\ OnlyMoves
  BY DEF RetireReadsLink
<1>2. /\ worker[w] \in WorkerTypes /\ event[worker[w].id].kind = "retire"
      /\ link[target(w)] \in Nat
  BY <1>1, AtWork DEF PlacesOf, Kinds, IInv, TypeOK
<1>3. v.id = worker[w].id /\ v.at \in PlacesOf("retire") /\ v \in WorkerTypes
  BY <1>2, PlacesType DEF PlacesOf, WorkerTypes, Kinds
<1>4. Settled(v) => link[v.id[2]] = NoCopy
  BY <1>2 DEF Settled, WorkerTypes, target
<1> QED
  BY <1>1, <1>2, <1>3, <1>4, MoveInv DEF IInv, TypeOK, OnlyMoves

LEMMA RetireReadsRecordInv == ASSUME IInv, NEW w \in Workers, RetireReadsRecord(w) PROVE IInv'
<1> DEFINE at == IF state = "ACTIVE" \/ worker[w].seen = NoCopy THEN "settle" ELSE "unproject"
           v  == [worker[w] EXCEPT !.at = at]
<1>1. worker[w].at = "retire2" /\ worker' = [worker EXCEPT ![w] = v] /\ OnlyMoves
  BY DEF RetireReadsRecord, GoTo
<1>2. worker[w] \in WorkerTypes /\ event[worker[w].id].kind = "retire"
  BY <1>1, AtWork DEF PlacesOf, Kinds
<1>3. v.id = worker[w].id /\ v.at \in PlacesOf("retire") /\ v \in WorkerTypes
  BY <1>2, PlacesType DEF PlacesOf, WorkerTypes, Kinds
<1>4. Settled(v) /\ state # "ACTIVE" /\ v.id[1] = ops => link[v.id[2]] = NoCopy
  <2>1. Settled(v) /\ state # "ACTIVE" => Settled(worker[w])
    BY <1>1, <1>2 DEF Settled, WorkerTypes
  <2> QED
    BY <1>3, <2>1 DEF IInv, Withdrawn
<1> QED
  BY <1>1, <1>2, <1>3, <1>4, MoveInv DEF IInv, TypeOK, OnlyMoves

LEMMA RetireCallsInv == ASSUME IInv, NEW w \in Workers, RetireCalls(w) PROVE IInv'
<1>1. worker[w].at = "unproject" /\ Remove(w, worker[w].seen, "unlink")
  BY DEF RetireCalls
<1>2. event[worker[w].id].kind = "retire"
  BY <1>1, AtWork DEF PlacesOf, Kinds
<1> QED
  BY <1>1, <1>2, RemoveInv DEF PlacesOf

\* The end of a retirement and of an erasure: the link is gone.
LEMMA UnlinkInv ==
    ASSUME IInv, NEW w \in Workers, worker[w].at # "idle",
           NEW next \in {"settle", "remaining"}, next \in PlacesOf(event[worker[w].id].kind),
           link' = [link EXCEPT ![target(w)] = NoCopy], GoTo(w, next),
           UNCHANGED <<deployed, state, ops, event, provider, queued, made, faults>>
    PROVE  IInv'
<1> DEFINE v == [worker[w] EXCEPT !.at = next]
<1>1. worker[w] \in WorkerTypes /\ target(w) \in Targets /\ event[worker[w].id].kind \in Kinds
  BY AtWork
<1>2. v.id = worker[w].id /\ v.at = next /\ v \in WorkerTypes
      /\ worker' = [worker EXCEPT ![w] = v]
  BY <1>1, PlacesType DEF WorkerTypes, GoTo
<1>3. /\ link' \in [Targets -> Nat]
      /\ \A t \in Targets : link'[t] \in {link[t], NoCopy}
      /\ link'[v.id[2]] = NoCopy
  BY <1>1, <1>2 DEF IInv, TypeOK, NoCopy, target
<1> QED
  BY <1>2, <1>3, MoveInv DEF IInv, TypeOK

LEMMA RetireUnlinksInv == ASSUME IInv, NEW w \in Workers, RetireUnlinks(w) PROVE IInv'
<1>1. worker[w].at = "unlink"
  BY DEF RetireUnlinks
<1>2. event[worker[w].id].kind = "retire"
  BY <1>1, AtWork DEF PlacesOf, Kinds
<1> QED
  BY <1>1, <1>2, UnlinkInv DEF RetireUnlinks, PlacesOf

---------------------------------------------------------------------------
\* An erasure, and the completion of the deletion by the last of them.
LEMMA EraseReadsInv == ASSUME IInv, NEW w \in Workers, EraseReads(w) PROVE IInv'
<1> DEFINE at == IF link[target(w)] = NoCopy THEN "remaining" ELSE "erase2"
           v  == [worker[w] EXCEPT !.seen = link[target(w)], !.at = at]
<1>1. worker[w].at = "erase" /\ worker' = [worker EXCEPT ![w] = v] /\ OnlyMoves
  BY DEF EraseReads
<1>2. /\ worker[w] \in WorkerTypes /\ event[worker[w].id].kind = "erase"
      /\ link[target(w)] \in Nat
  BY <1>1, AtWork DEF PlacesOf, Kinds, IInv, TypeOK
<1>3. v.id = worker[w].id /\ v.at \in PlacesOf("erase") /\ v \in WorkerTypes
  BY <1>2, PlacesType DEF PlacesOf, WorkerTypes, Kinds
<1>4. Settled(v) => link[v.id[2]] = NoCopy
  BY <1>2 DEF Settled, WorkerTypes, target
<1> QED
  BY <1>1, <1>2, <1>3, <1>4, MoveInv DEF IInv, TypeOK, OnlyMoves

LEMMA EraseCallsInv == ASSUME IInv, NEW w \in Workers, EraseCalls(w) PROVE IInv'
<1>1. worker[w].at = "erase2" /\ Remove(w, worker[w].seen, "erase3")
  BY DEF EraseCalls
<1>2. event[worker[w].id].kind = "erase"
  BY <1>1, AtWork DEF PlacesOf, Kinds
<1> QED
  BY <1>1, <1>2, RemoveInv DEF PlacesOf

LEMMA EraseUnlinksInv == ASSUME IInv, NEW w \in Workers, EraseUnlinks(w) PROVE IInv'
<1>1. worker[w].at = "erase3"
  BY DEF EraseUnlinks
<1>2. event[worker[w].id].kind = "erase"
  BY <1>1, AtWork DEF PlacesOf, Kinds
<1> QED
  BY <1>1, <1>2, UnlinkInv DEF EraseUnlinks, PlacesOf

LEMMA EraseListsInv == ASSUME IInv, NEW w \in Workers, EraseLists(w) PROVE IInv'
<1> DEFINE v == [worker[w] EXCEPT !.at = IF NoLinks THEN "complete" ELSE "settle"]
<1>1. worker[w].at = "remaining" /\ worker' = [worker EXCEPT ![w] = v] /\ OnlyMoves
  BY DEF EraseLists, GoTo
<1>2. worker[w] \in WorkerTypes /\ event[worker[w].id].kind = "erase"
  BY <1>1, AtWork DEF PlacesOf, Kinds
<1>3. v.id = worker[w].id /\ v.at \in PlacesOf("erase") /\ v \in WorkerTypes
  BY <1>2, PlacesType DEF PlacesOf, WorkerTypes, Kinds
<1>4. state # "ACTIVE" /\ v.id[1] = ops => link[v.id[2]] = NoCopy
  BY <1>1, <1>3 DEF IInv, Withdrawn, Settled
<1> QED
  BY <1>1, <1>2, <1>3, <1>4, MoveInv DEF IInv, TypeOK, OnlyMoves

LEMMA CompleteInv == ASSUME IInv, NEW w \in Workers, Complete(w) PROVE IInv'
<1>1. worker[w].at = "complete"
      /\ UNCHANGED <<deployed, ops, event, link, provider, queued, made, faults>>
  BY DEF Complete
<1>2. /\ worker[w] \in WorkerTypes /\ event[worker[w].id].kind = "erase"
      /\ worker[w].id \in EventIds
  BY <1>1, AtWork DEF PlacesOf, Kinds
<1>3. CASE UNCHANGED state /\ GoTo(w, "failed")
  <2> DEFINE v == [worker[w] EXCEPT !.at = "failed"]
  <2>1. v.id = worker[w].id /\ v.at \in PlacesOf("erase") /\ v \in WorkerTypes /\ ~Settled(v)
    BY <1>2, PlacesType DEF PlacesOf, WorkerTypes, Kinds, Settled
  <2> QED
    BY <1>1, <1>2, <1>3, <2>1, MoveInv DEF IInv, TypeOK, GoTo
<1>4. CASE NoLinks /\ state' = "DELETED" /\ GoTo(w, "settle")
  <2> DEFINE v == [worker[w] EXCEPT !.at = "settle"]
  <2>1. state \in {"DELETION_PENDING", "DELETED"}
    BY <1>2 DEF IInv, Intents
  <2>2. v.id = worker[w].id /\ v.at \in PlacesOf("erase") /\ v \in WorkerTypes
        /\ worker' = [worker EXCEPT ![w] = v]
    BY <1>2, <1>4, PlacesType DEF PlacesOf, WorkerTypes, Kinds, GoTo
  <2>3. TypeOK'
    BY <1>1, <1>4, <2>2 DEF IInv, TypeOK, States
  <2>4. Intents'
    BY <1>1, <1>4, <2>1 DEF IInv, Intents, IntentOf
  <2>5. \A t \in Targets : link'[t] = NoCopy
    BY <1>1, <1>4 DEF NoLinks
  <2>6. ASSUME NEW x \in Workers PROVE Placed(worker[x])' /\ Withdrawn(worker[x])'
    <3>1. worker'[x] = IF x = w THEN v ELSE worker[x]
      BY <2>2 DEF IInv, TypeOK
    <3>2. Placed(worker[x])'
      BY <1>1, <1>2, <2>2, <3>1 DEF IInv, Placed
    <3>3. Settled(worker'[x]) => worker'[x].at # "idle"
      BY DEF Settled
    <3>4. Settled(worker'[x]) => worker'[x].id[2] \in Targets
      BY <3>2, <3>3, EventIdType DEF Placed
    <3> QED
      BY <2>5, <3>2, <3>4 DEF Withdrawn, Settled
  <2> QED
    BY <2>3, <2>4, <2>5, <2>6 DEF IInv, DeletedHoldsNoLink, StaleLinkIsOwed, NoLinks
<1> QED
  BY <1>3, <1>4 DEF Complete

---------------------------------------------------------------------------
LEMMA StepInv == ASSUME IInv, NEW w \in Workers, Step(w) PROVE IInv'
<1>1. CASE Delivered(w)
  <2>1. worker[w].id \in EventIds /\ event[worker[w].id].attempts + 1 \in Nat
    BY <1>1, AtWork DEF Delivered, IInv, TypeOK, EventTypes
  <2> QED
    BY <1>1, <2>1, SettleInv DEF Delivered, Statuses
<1>2. CASE Failed(w)
  <2> DEFINE attempts == event[worker[w].id].attempts + 1
             status == IF attempts >= MaxAttempts THEN "DEAD" ELSE "PENDING"
  <2>1. worker[w].id \in EventIds /\ attempts \in Nat
    BY <1>2, AtWork DEF Failed, IInv, TypeOK, EventTypes
  <2>2. status \in Statuses \ {"ABSENT"} /\ status # "DELIVERED"
    BY DEF Statuses
  <2>3. worker[w].at = "failed" /\ Settle(w, status, attempts)
    BY <1>2 DEF Failed
  <2> HIDE DEF attempts, status
  <2> QED
    BY <2>1, <2>2, <2>3, SettleInv
<1> QED
  BY <1>1, <1>2, ProjectReadsInv, ProjectCallsInv, ProjectRereadsInv, InstallReadsInv,
     InstallWritesInv, CompensateInv, RetireReadsLinkInv, RetireReadsRecordInv, RetireCallsInv,
     RetireUnlinksInv, EraseReadsInv, EraseCallsInv, EraseUnlinksInv, EraseListsInv, CompleteInv
  DEF Step

\* Every step keeps the invariant.
LEMMA NextInv == IInv /\ [Next]_vars => IInv'
<1> SUFFICES ASSUME IInv, [Next]_vars PROVE IInv'
  OBVIOUS
<1>1. CASE Retire
  BY <1>1, OperateInv DEF Retire, IntentOf, States
<1>2. CASE Reactivate
  BY <1>2, OperateInv DEF Reactivate, IntentOf, States
<1>3. CASE Delete
  <2>1. IntentOf("DELETION_PENDING") = "erase" /\ "DELETION_PENDING" \in States \ {"DELETED"}
    BY DEF IntentOf, States
  <2>2. Operate({"ACTIVE", "RETIRED"}, "DELETION_PENDING", IntentOf("DELETION_PENDING"))
    BY <1>3, <2>1 DEF Delete
  <2> QED
    BY <2>1, <2>2, OperateInv
<1>4. ASSUME NEW w \in deployed.workers, NEW i \in EventIds, Claim(w, i) \/ Reclaim(w, i)
      PROVE  IInv'
  <2>1. w \in Workers
    BY DeploymentsAssumption DEF IInv, TypeOK
  <2>2. event[i].status \in Open /\ Take(w, i) /\ faults' \in Nat
    BY <1>4 DEF Claim, Reclaim, Fault, Open, IInv, TypeOK
  <2> QED
    BY <2>1, <2>2, TakeInv
<1>5. ASSUME NEW w \in deployed.workers, Step(w) \/ Crash(w) PROVE IInv'
  <2>1. w \in Workers
    BY DeploymentsAssumption DEF IInv, TypeOK
  <2> QED
    BY <1>5, <2>1, StepInv, CrashInv
<1>6. ASSUME NEW t \in Targets, NEW copy \in Copies, Ingest(t, copy) PROVE IInv'
  <2>1. copy \in Nat
    BY DEF Copies
  <2>2. /\ UNCHANGED <<deployed, state, ops, event, link, made, worker, faults>>
        /\ queued' \in [Targets -> SUBSET Nat] /\ provider' \in [Targets -> SUBSET Nat]
    BY <1>6, <2>1 DEF Ingest, IInv, TypeOK
  <2> QED
    BY <2>2 DEF IInv, TypeOK, Intents, Placed, Withdrawn, Settled, DeletedHoldsNoLink,
                StaleLinkIsOwed, NoLinks
<1>7. CASE UNCHANGED vars
  BY <1>7 DEF vars, IInv, TypeOK, Intents, Placed, Withdrawn, Settled, DeletedHoldsNoLink,
              StaleLinkIsOwed, NoLinks
<1> QED
  BY <1>1, <1>2, <1>3, <1>4, <1>5, <1>6, <1>7 DEF Next

LEMMA Invariant == Spec => []IInv
BY InitInv, NextInv, PTL DEF Spec

---------------------------------------------------------------------------
\* Every variable keeps to its values, for any number of targets, workers,
\* operations, faults and deliveries.
THEOREM TypeCorrect == Spec => []TypeOK
<1>1. IInv => TypeOK
  BY DEF IInv
<1> QED
  BY <1>1, Invariant, PTL

\* complete_deletion leaves no link, and no delivery in flight brings one back.
THEOREM DeletedIsUnlinked == Spec => []DeletedHoldsNoLink
<1>1. IInv => DeletedHoldsNoLink
  BY DEF IInv
<1> QED
  BY <1>1, Invariant, PTL

\* A link of a record that is not current is never settled over: whatever the
\* workers read before, the intent that withdraws the copy stays open or dead.
THEOREM StaleLinksOwed == Spec => []StaleLinkIsOwed
<1>1. IInv => StaleLinkIsOwed
  BY DEF IInv
<1> QED
  BY <1>1, Invariant, PTL

---------------------------------------------------------------------------
(***************************************************************************)
(* One worker alone.  A copy is with its provider once it is ingested or   *)
(* waits to be.  The copy about to be linked is there, nobody else moves   *)
(* the link meanwhile, and what was read before a reactivation is acted    *)
(* upon before the event of the reactivation is delivered, never after.    *)
(***************************************************************************)
Holds(t) == provider[t] \cup queued[t]

Carries(v) == v.at \in {"reread", "getlink", "install"} => v.copy \in Holds(v.id[2])

Steady(v) == v.at # "withdraw" /\ (v.at = "install" => v.seen = link[v.id[2]])

Recent(v) == v.at = "compensate" /\ v.id[1] = ops => state # "ACTIVE"

Done(v, t) == event[<<ops, t>>].status = "DELIVERED" \/ (v.at = "settle" /\ v.id = <<ops, t>>)

Kept(v, t) ==
    /\ event[<<ops, t>>].status # "ABSENT"
    /\ state = "ACTIVE" /\ Done(v, t) => link[t] \in Holds(t)
    /\ state = "ACTIVE" /\ event[<<ops, t>>].status = "DELIVERED" /\ v.id[2] = t
          => v.at \notin {"compensate", "unproject", "unlink"}

Solo(v) == Carries(v) /\ Steady(v) /\ Recent(v) /\ \A t \in Targets : Kept(v, t)

SoloInv == \A w \in Workers : deployed.workers = {w} => Solo(worker[w])

\* The only worker there is has a place, an event and a target.
LEMMA SoloFacts ==
    ASSUME IInv, NEW w \in Workers
    PROVE  /\ worker[w] \in WorkerTypes
           /\ \A t \in Targets : <<ops, t>> \in EventIds
           /\ \A t \in Targets : state = "ACTIVE" => event[<<ops, t>>].kind = "project"
           /\ \A t \in Targets : link[t] \in Nat /\ Holds(t) \subseteq Nat
BY EventIdType DEF IInv, TypeOK, Intents, IntentOf, Holds

\* A step that only moves the worker.
LEMMA SoloMove ==
    ASSUME IInv, NEW w \in Workers, Solo(worker[w]), OnlyMoves,
           NEW v \in WorkerTypes, v.id = worker[w].id,
           worker' = [worker EXCEPT ![w] = v],
           Carries(v), Steady(v), Recent(v),
           v.at \in {"compensate", "unproject", "unlink"} => state # "ACTIVE",
           v.at = "settle" /\ event[v.id].kind = "project" => state # "ACTIVE"
    PROVE  Solo(worker[w])'
<1>1. worker'[w] = v
  BY DEF IInv, TypeOK
<1>2. UNCHANGED <<state, ops, event, link, provider, queued>>
  BY DEF OnlyMoves
<1>3. Carries(v)' /\ Steady(v)' /\ Recent(v)'
  BY <1>2 DEF Carries, Steady, Recent, Holds
<1>4. ASSUME NEW t \in Targets PROVE Kept(worker[w], t)'
  <2>1. Kept(worker[w], t)
    BY DEF Solo
  <2>2. state = "ACTIVE" /\ v.at = "settle" => v.id # <<ops, t>>
    BY SoloFacts
  <2> QED
    BY <1>1, <1>2, <2>1, <2>2 DEF Kept, Done, Holds
<1> QED
  BY <1>1, <1>3, <1>4 DEF Solo, Carries, Steady, Recent, Holds

\* The reads of a delivery.
LEMMA SoloReads ==
    ASSUME IInv, NEW w \in Workers, Solo(worker[w]),
           \/ ProjectReads(w) \/ ProjectRereads(w) \/ InstallReads(w)
           \/ RetireReadsLink(w) \/ RetireReadsRecord(w)
           \/ EraseReads(w) \/ EraseLists(w)
    PROVE  Solo(worker[w])'
<1> DEFINE u == worker[w]
<1>1. u \in WorkerTypes /\ OnlyMoves
  BY SoloFacts DEF ProjectReads, ProjectRereads, InstallReads, RetireReadsLink,
                   RetireReadsRecord, EraseReads, EraseLists
<1>2. u.at # "idle" => u.at \in PlacesOf(event[u.id].kind) /\ event[u.id].kind \in Kinds
                       /\ u.id \in EventIds /\ link[target(w)] \in Nat
  BY AtWork DEF IInv, TypeOK
<1>3. event[u.id].kind = "erase" /\ u.id \in EventIds => state # "ACTIVE"
  BY DEF IInv, Intents
<1>4. ASSUME NEW at \in Places, NEW seen \in Nat, u.at # "idle",
             worker' = [worker EXCEPT ![w].at = at, ![w].seen = seen],
             at \in {"reread", "getlink", "install"} => u.copy \in Holds(u.id[2]),
             at # "withdraw", at = "install" => seen = link[u.id[2]],
             at = "compensate" => state # "ACTIVE",
             at \in {"unproject", "unlink"} => state # "ACTIVE",
             at = "settle" /\ event[u.id].kind = "project" => state # "ACTIVE"
      PROVE  Solo(worker[w])'
  <2> DEFINE v == [u EXCEPT !.at = at, !.seen = seen]
  <2>1. /\ v \in WorkerTypes /\ v.id = u.id /\ v.at = at /\ v.seen = seen /\ v.copy = u.copy
        /\ worker' = [worker EXCEPT ![w] = v]
    BY <1>1, <1>4 DEF WorkerTypes
  <2>2. Carries(v) /\ Steady(v) /\ Recent(v)
    BY <1>4, <2>1 DEF Carries, Steady, Recent
  <2> HIDE DEF v
  <2> QED
    BY <1>1, <1>4, <2>1, <2>2, SoloMove
<1>5. u.seen \in Nat /\ \A at \in Places :
         [worker EXCEPT ![w].at = at] = [worker EXCEPT ![w].at = at, ![w].seen = u.seen]
  BY <1>1 DEF WorkerTypes, IInv, TypeOK
<1>6. {"deliver", "settle", "getlink", "compensate", "install", "retire2", "unproject",
       "remaining", "erase2", "complete"} \subseteq Places
  BY DEF Places, PlacesOf, Kinds
<1>14. ASSUME NEW at \in {"deliver", "settle", "getlink", "compensate", "unproject", "complete"},
              worker' = [worker EXCEPT ![w].at = at], u.at # "idle",
              at = "getlink" => u.copy \in Holds(u.id[2]),
              at \in {"compensate", "unproject"} => state # "ACTIVE",
              at = "settle" /\ event[u.id].kind = "project" => state # "ACTIVE"
       PROVE  Solo(worker[w])'
  <2>1. at \in Places /\ worker' = [worker EXCEPT ![w].at = at, ![w].seen = u.seen]
    BY <1>5, <1>6, <1>14
  <2> QED
    BY <1>4, <1>5, <1>14, <2>1
<1>7. CASE ProjectReads(w)
  <2> DEFINE at == IF state = "ACTIVE" THEN "deliver" ELSE "settle"
  <2>1. u.at = "project" /\ worker' = [worker EXCEPT ![w].at = at]
    BY <1>7 DEF ProjectReads, GoTo
  <2>2. at \in {"deliver", "settle"} /\ (at = "settle" => state # "ACTIVE")
    OBVIOUS
  <2> HIDE DEF at
  <2> QED
    BY <1>14, <2>1, <2>2
<1>8. CASE ProjectRereads(w)
  <2> DEFINE at == IF state = "ACTIVE" THEN "getlink" ELSE "compensate"
  <2>1. u.at = "reread" /\ worker' = [worker EXCEPT ![w].at = at]
    BY <1>8 DEF ProjectRereads, GoTo
  <2>2. at \in {"getlink", "compensate"} /\ (at = "compensate" => state # "ACTIVE")
    OBVIOUS
  <2>3. u.copy \in Holds(u.id[2])
    BY <2>1 DEF Solo, Carries
  <2> HIDE DEF at
  <2> QED
    BY <1>14, <2>1, <2>2, <2>3
<1>9. CASE InstallReads(w)
  <2>1. u.at = "getlink" /\ link[target(w)] \in Nat
        /\ worker' = [worker EXCEPT ![w].at = "install", ![w].seen = link[target(w)]]
    BY <1>2, <1>9 DEF InstallReads
  <2> QED
    BY <1>4, <1>6, <2>1 DEF Solo, Carries, target
<1>10. CASE RetireReadsLink(w)
  <2>1. u.at = "retire" /\ link[target(w)] \in Nat
        /\ worker' = [worker EXCEPT ![w].at = "retire2", ![w].seen = link[target(w)]]
    BY <1>2, <1>10 DEF RetireReadsLink
  <2> QED
    BY <1>4, <1>6, <2>1
<1>11. CASE RetireReadsRecord(w)
  <2> DEFINE at == IF state = "ACTIVE" \/ u.seen = NoCopy THEN "settle" ELSE "unproject"
  <2>1. u.at = "retire2" /\ worker' = [worker EXCEPT ![w].at = at]
    BY <1>11 DEF RetireReadsRecord, GoTo
  <2>2. event[u.id].kind # "project" /\ (at = "unproject" => state # "ACTIVE")
        /\ at \in {"settle", "unproject"}
    BY <1>2, <2>1 DEF PlacesOf
  <2> HIDE DEF at
  <2> QED
    BY <1>14, <2>1, <2>2
<1>12. CASE EraseReads(w)
  <2> DEFINE at == IF link[target(w)] = NoCopy THEN "remaining" ELSE "erase2"
  <2>1. u.at = "erase" /\ link[target(w)] \in Nat
        /\ worker' = [worker EXCEPT ![w].seen = link[target(w)], ![w].at = at]
    BY <1>2, <1>12 DEF EraseReads
  <2>2. at \in {"remaining", "erase2"}
        /\ worker' = [worker EXCEPT ![w].at = at, ![w].seen = link[target(w)]]
    BY <1>1, <2>1 DEF WorkerTypes, IInv, TypeOK
  <2> HIDE DEF at
  <2> QED
    BY <1>4, <1>6, <2>1, <2>2
<1>13. CASE EraseLists(w)
  <2>1. u.at = "remaining" /\ event[u.id].kind = "erase" /\ u.id \in EventIds
    BY <1>2, <1>13 DEF EraseLists, PlacesOf, Kinds
  <2> DEFINE at == IF NoLinks THEN "complete" ELSE "settle"
  <2>2. worker' = [worker EXCEPT ![w].at = at] /\ at \in {"complete", "settle"}
    BY <1>13 DEF EraseLists, GoTo
  <2>3. state # "ACTIVE"
    BY <1>3, <2>1
  <2> HIDE DEF at
  <2> QED
    BY <1>14, <2>1, <2>2, <2>3
<1> QED
  BY <1>7, <1>8, <1>9, <1>10, <1>11, <1>12, <1>13

\* A delivery adds a copy; without an answer nothing is linked to it.
LEMMA SoloCalls ==
    ASSUME IInv, NEW w \in Workers, Solo(worker[w]), ProjectCalls(w)
    PROVE  Solo(worker[w])'
<1>1. /\ worker[w].at = "deliver" /\ worker[w] \in WorkerTypes /\ target(w) \in Targets
      /\ UNCHANGED <<state, ops, event, link>>
  BY AtWork DEF ProjectCalls
<1>2. \A t \in Targets : Holds(t) \subseteq Holds(t)'
  BY <1>1 DEF ProjectCalls, Accept, Holds, IInv, TypeOK
<1>3. worker'[w].id = worker[w].id
      /\ \/ worker'[w].at = "failed"
         \/ /\ worker'[w].at = "reread"
            /\ worker'[w].copy \in provider'[target(w)] \cup queued'[target(w)]
  <2>1. CASE worker' = [worker EXCEPT ![w].at = "failed"]
    BY <1>1, <2>1 DEF IInv, TypeOK, WorkerTypes
  <2>2. CASE Accept(target(w)) /\ worker' = [worker EXCEPT ![w].at = "reread", ![w].copy = made + 1]
    <3>1. made + 1 \in provider'[target(w)] \cup queued'[target(w)]
      BY <1>1, <2>2 DEF Accept, IInv, TypeOK
    <3> QED
      BY <1>1, <2>2, <3>1 DEF IInv, TypeOK, WorkerTypes
  <2> QED
    BY <2>1, <2>2 DEF ProjectCalls, GoTo
<1>4. ASSUME NEW t \in Targets PROVE Kept(worker[w], t)'
  <2>1. Kept(worker[w], t)
    BY DEF Solo
  <2> QED
    BY <1>1, <1>2, <1>3, <2>1 DEF Kept, Done
<1> QED
  BY <1>1, <1>3, <1>4 DEF Solo, Carries, Steady, Recent, Holds, target

\* The copy is linked, unless the record is no longer current.
LEMMA SoloInstalls ==
    ASSUME IInv, NEW w \in Workers, Solo(worker[w]), InstallWrites(w)
    PROVE  Solo(worker[w])'
<1>1. /\ worker[w].at = "install" /\ worker[w] \in WorkerTypes /\ target(w) \in Targets
      /\ worker[w].copy \in Holds(target(w)) /\ worker[w].seen = link[target(w)]
      /\ UNCHANGED <<state, ops, event, provider, queued>>
  BY AtWork DEF InstallWrites, Solo, Carries, Steady, target
<1>2. \/ /\ state = "ACTIVE" /\ link' = [link EXCEPT ![target(w)] = worker[w].copy]
         /\ worker' = [worker EXCEPT ![w].at = "settle"]
      \/ /\ state # "ACTIVE" /\ UNCHANGED link
         /\ worker' = [worker EXCEPT ![w].at = "compensate"]
  BY <1>1 DEF InstallWrites, GoTo
<1>3. worker'[w].id = worker[w].id
      /\ worker'[w].at = (IF state = "ACTIVE" THEN "settle" ELSE "compensate")
  BY <1>1, <1>2 DEF IInv, TypeOK, WorkerTypes
<1>4. state = "ACTIVE" => /\ link'[target(w)] \in Holds(target(w))
                          /\ \A t \in Targets : t # target(w) => link'[t] = link[t]
  BY <1>1, <1>2 DEF IInv, TypeOK
<1>5. ASSUME NEW t \in Targets PROVE Kept(worker[w], t)'
  <2>1. Kept(worker[w], t)
    BY DEF Solo
  <2>2. worker[w].id = <<ops, t>> => t = target(w)
    BY DEF target
  <2> QED
    BY <1>1, <1>3, <1>4, <2>1, <2>2 DEF Kept, Done, Holds
<1> QED
  BY <1>1, <1>3, <1>5 DEF Solo, Carries, Steady, Recent

\* A copy is removed while the record is not current, or before the event of its
\* reactivation is delivered.
LEMMA SoloRemoves ==
    ASSUME IInv, NEW w \in Workers, Solo(worker[w]),
           Compensate(w) \/ RetireCalls(w) \/ EraseCalls(w)
    PROVE  Solo(worker[w])'
<1>1. /\ worker[w].at \in {"compensate", "unproject", "erase2"} /\ worker[w] \in WorkerTypes
      /\ worker[w].id \in EventIds /\ target(w) \in Targets
      /\ worker[w].at \in PlacesOf(event[worker[w].id].kind)
      /\ event[worker[w].id].kind \in Kinds
  BY AtWork DEF Compensate, RetireCalls, EraseCalls, Solo, Steady
<1>2. PICK next \in {"settle", "unlink", "erase3"} :
         /\ \E copy : Remove(w, copy, next)
         /\ next = "settle" => worker[w].at = "compensate"
         /\ next = "unlink" => worker[w].at = "unproject"
         /\ next = "erase3" => worker[w].at = "erase2"
  BY <1>1 DEF Compensate, RetireCalls, EraseCalls
<1>3. /\ worker' = [worker EXCEPT ![w].at = next] \/ worker' = [worker EXCEPT ![w].at = "failed"]
      /\ UNCHANGED <<state, ops, event, link, queued>>
      /\ \A t \in Targets : t # target(w) => provider'[t] = provider[t]
  BY <1>1, <1>2 DEF Remove, GoTo, IInv, TypeOK
<1>4. worker'[w].id = worker[w].id /\ worker'[w].at \in {next, "failed"}
  BY <1>1, <1>3 DEF IInv, TypeOK, WorkerTypes
<1>5. state = "ACTIVE" => worker[w].at # "erase2"
  <2>1. worker[w].at = "erase2" => event[worker[w].id].kind = "erase"
    BY <1>1 DEF PlacesOf, Kinds
  <2> QED
    BY <1>1, <2>1 DEF IInv, Intents
<1>6. worker[w].id = <<worker[w].id[1], target(w)>>
  BY <1>1, EventIdType DEF target
<1>7. worker[w].at = "compensate" /\ state = "ACTIVE" => worker[w].id[1] # ops
  BY DEF Solo, Recent
<1>8. ASSUME NEW t \in Targets PROVE Kept(worker[w], t)'
  <2>1. Kept(worker[w], t)
    BY DEF Solo
  <2>2. CASE t # target(w)
    BY <1>1, <1>2, <1>3, <1>4, <1>6, <2>1, <2>2 DEF Kept, Done, Holds, target
  <2>3. CASE t = target(w)
    BY <1>1, <1>2, <1>3, <1>4, <1>5, <1>7, <2>1, <2>3 DEF Kept, Done, target
  <2> QED
    BY <2>2, <2>3
<1> QED
  BY <1>2, <1>4, <1>8 DEF Solo, Carries, Steady, Recent

\* A link is deleted only then.
LEMMA SoloUnlinks ==
    ASSUME IInv, NEW w \in Workers, Solo(worker[w]), RetireUnlinks(w) \/ EraseUnlinks(w)
    PROVE  Solo(worker[w])'
<1>1. /\ worker[w].at \in {"unlink", "erase3"} /\ worker[w] \in WorkerTypes
      /\ worker[w].id \in EventIds /\ target(w) \in Targets
      /\ worker[w].at \in PlacesOf(event[worker[w].id].kind)
      /\ event[worker[w].id].kind \in Kinds
      /\ UNCHANGED <<state, ops, event, provider, queued>>
      /\ link' = [link EXCEPT ![target(w)] = NoCopy]
  BY AtWork DEF RetireUnlinks, EraseUnlinks
<1>2. worker'[w].id = worker[w].id /\ worker'[w].at \in {"settle", "remaining"}
  BY <1>1 DEF RetireUnlinks, EraseUnlinks, GoTo, IInv, TypeOK, WorkerTypes
<1>3. state = "ACTIVE" => worker[w].at = "unlink" /\ worker[w].id # <<ops, target(w)>>
  <2>1. event[worker[w].id].kind \in {"retire", "erase"}
    BY <1>1 DEF PlacesOf, Kinds
  <2> QED
    BY <1>1, <2>1, SoloFacts DEF PlacesOf, IInv, Intents
<1>4. ASSUME NEW t \in Targets PROVE Kept(worker[w], t)'
  <2>1. Kept(worker[w], t)
    BY DEF Solo
  <2>2. t # target(w) => link'[t] = link[t]
    BY <1>1 DEF IInv, TypeOK
  <2>3. worker[w].id = <<ops, t>> => t = target(w)
    BY DEF target
  <2> QED
    BY <1>1, <1>2, <1>3, <2>1, <2>2, <2>3 DEF Kept, Done, Holds, target
<1> QED
  BY <1>2, <1>4 DEF Solo, Carries, Steady, Recent

\* A deletion is completed of a record that is not current.
LEMMA SoloCompletes ==
    ASSUME IInv, NEW w \in Workers, Solo(worker[w]), Complete(w)
    PROVE  Solo(worker[w])'
<1>1. /\ worker[w].at = "complete" /\ worker[w] \in WorkerTypes /\ worker[w].id \in EventIds
      /\ event[worker[w].id].kind = "erase"
      /\ UNCHANGED <<ops, event, link, provider, queued>> /\ state' \in {state, "DELETED"}
  BY AtWork DEF Complete, PlacesOf, Kinds
<1>2. worker'[w].id = worker[w].id /\ worker'[w].at \in {"settle", "failed"}
  BY <1>1 DEF Complete, GoTo, IInv, TypeOK, WorkerTypes
<1>3. state' # "ACTIVE"
  BY <1>1 DEF IInv, Intents
<1>4. ASSUME NEW t \in Targets PROVE Kept(worker[w], t)'
  BY <1>1, <1>3 DEF Solo, Kept
<1> QED
  BY <1>2, <1>3, <1>4 DEF Solo, Carries, Steady, Recent

\* What is settled as delivered was delivered.
LEMMA SoloSettles ==
    ASSUME IInv, NEW w \in Workers, Solo(worker[w]), Delivered(w) \/ Failed(w)
    PROVE  Solo(worker[w])'
<1> DEFINE u == worker[w]
<1>1. PICK status, attempts : /\ Settle(w, status, attempts) /\ status # "ABSENT"
                              /\ status = "DELIVERED" => u.at = "settle"
                              /\ u.at # "idle"
  BY DEF Delivered, Failed
<1>2. /\ worker'[w] = Idle
      /\ UNCHANGED <<state, ops, link, provider, queued>>
      /\ \A j \in EventIds :
            event'[j] = event[j] \/ (j = u.id /\ event'[j].status = status)
  <2>1. u.id \in EventIds /\ event[u.id] \in EventTypes
    BY <1>1, AtWork DEF IInv, TypeOK
  <2> DEFINE e == [event[u.id] EXCEPT !.status = status, !.attempts = attempts,
                                      !.holder = NoWorker]
  <2>2. event' = IF event[u.id].holder = w THEN [event EXCEPT ![u.id] = e] ELSE event
    BY <1>1 DEF Settle
  <2>3. e.status = status
    BY <2>1 DEF EventTypes
  <2>4. \A j \in EventIds : event'[j] = event[j] \/ (j = u.id /\ event'[j] = e)
    BY <2>2 DEF IInv, TypeOK
  <2>5. worker'[w] = Idle /\ UNCHANGED <<state, ops, link, provider, queued>>
    BY <1>1 DEF Settle, IInv, TypeOK
  <2>6. \A j \in EventIds : event'[j] = event[j] \/ (j = u.id /\ event'[j].status = status)
    <3> HIDE DEF e
    <3> QED
      BY <2>3, <2>4
  <2> QED
    BY <2>5, <2>6
<1>3. Idle.at = "idle"
  BY IdleType
<1>4. ASSUME NEW t \in Targets PROVE Kept(worker[w], t)'
  <2>1. Kept(worker[w], t) /\ <<ops, t>> \in EventIds
    BY SoloFacts DEF Solo
  <2>2. CASE event'[<<ops, t>>] = event[<<ops, t>>]
    BY <1>2, <1>3, <2>1, <2>2 DEF Kept, Done, Holds
  <2>3. CASE <<ops, t>> = u.id /\ event'[<<ops, t>>].status = status
    BY <1>1, <1>2, <1>3, <2>1, <2>3 DEF Kept, Done, Holds
  <2> QED
    BY <1>2, <2>1, <2>2, <2>3
<1> QED
  BY <1>2, <1>3, <1>4 DEF Solo, Carries, Steady, Recent

\* An event is taken from its start.
LEMMA SoloTakes ==
    ASSUME IInv, NEW w \in Workers, Solo(worker[w]), NEW i \in EventIds,
           event[i].status \in Open, Take(w, i)
    PROVE  Solo(worker[w])'
<1>1. /\ UNCHANGED <<state, ops, link, provider, queued>>
      /\ worker'[w] = [Idle EXCEPT !.at = event[i].kind, !.id = i]
      /\ \A j \in EventIds : event'[j].status \in {event[j].status, "PROCESSING"}
  BY DEF Take, IInv, TypeOK, EventTypes
<1>2. worker'[w].at = event[i].kind /\ event[i].kind \in Kinds
  BY <1>1 DEF Idle, IInv, TypeOK, EventTypes
<1>3. ASSUME NEW t \in Targets PROVE Kept(worker[w], t)'
  <2>1. Kept(worker[w], t) /\ <<ops, t>> \in EventIds
    BY SoloFacts DEF Solo
  <2> QED
    BY <1>1, <1>2, <2>1 DEF Kept, Done, Holds, Kinds
<1> QED
  BY <1>2, <1>3 DEF Solo, Carries, Steady, Recent, Kinds

\* A worker that died has nothing in hand.
LEMMA SoloCrashes ==
    ASSUME IInv, NEW w \in Workers, Solo(worker[w]), Crash(w)
    PROVE  Solo(worker[w])'
<1>1. /\ UNCHANGED <<state, ops, link, provider, queued>>
      /\ worker'[w] = Idle
      /\ \A j \in EventIds : event'[j].status = event[j].status
  BY DEF Crash, IInv, TypeOK, EventTypes
<1>2. ASSUME NEW t \in Targets PROVE Kept(worker[w], t)'
  BY <1>1, IdleType, SoloFacts DEF Solo, Kept, Done, Holds
<1> QED
  BY <1>1, <1>2, IdleType DEF Solo, Carries, Steady, Recent

\* What an operation queues is yet to be delivered, and older than that is the
\* event in hand.
LEMMA SoloOperates ==
    ASSUME IInv, NEW w \in Workers, Solo(worker[w]),
           NEW from, NEW to, NEW kind \in Kinds, Operate(from, to, kind)
    PROVE  Solo(worker[w])'
<1>1. /\ UNCHANGED <<link, provider, queued, worker>> /\ ops' = ops + 1
      /\ ops \in Nat /\ MaxOps \in Nat /\ ops < MaxOps
  BY BoundsAssumption DEF Operate, IInv, TypeOK
<1>2. \A t \in Targets : event'[<<ops', t>>].status = "PENDING"
  BY <1>1, EventIdType, QueuedType DEF Operate
<1>3. worker[w].at # "idle" => worker[w].id[1] # ops' /\ \A t \in Targets : worker[w].id # <<ops', t>>
  <2>1. worker[w].at # "idle" => worker[w].id[1] <= ops /\ worker[w].id[1] \in Nat
    BY EventIdType DEF IInv, Placed
  <2> QED
    BY <1>1, <2>1
<1> QED
  BY <1>1, <1>2, <1>3 DEF Solo, Carries, Steady, Recent, Kept, Done, Holds

\* The provider works its queue off.
LEMMA SoloIngests ==
    ASSUME IInv, NEW w \in Workers, Solo(worker[w]),
           NEW t \in Targets, NEW copy \in Copies, Ingest(t, copy)
    PROVE  Solo(worker[w])'
<1>1. UNCHANGED <<state, ops, event, link, worker>>
  BY DEF Ingest
<1>2. \A x \in Targets : Holds(x)' = Holds(x)
  BY DEF Ingest, Holds, IInv, TypeOK
<1>3. worker[w].at \in {"reread", "getlink", "install"} => worker[w].id[2] \in Targets
  BY AtWork DEF target
<1> QED
  BY <1>1, <1>2, <1>3 DEF Solo, Carries, Steady, Recent, Kept, Done

LEMMA SoloInit == Init => SoloInv
<1> SUFFICES ASSUME Init, NEW w \in Workers PROVE Solo(worker[w])
  BY DEF SoloInv
<1>1. worker[w] = Idle
  BY DEF Init
<1>2. \A t \in Targets : event[<<ops, t>>].status = "PENDING"
  BY EventIdType, BoundsAssumption DEF Init, Queued
<1> QED
  BY <1>1, <1>2, IdleType DEF Solo, Carries, Steady, Recent, Kept, Done

LEMMA SoloNext == IInv /\ SoloInv /\ [Next]_vars => SoloInv'
<1> SUFFICES ASSUME IInv, SoloInv, [Next]_vars, NEW w \in Workers, deployed'.workers = {w}
             PROVE  Solo(worker[w])'
  BY DEF SoloInv
<1>1. UNCHANGED deployed
  BY ZenonT(40) DEF Next, vars, Retire, Reactivate, Delete, Operate, Claim, Reclaim, Take, Crash, Step,
         OnlyMoves, Settle, Delivered, Failed, Remove, Compensate, RetireCalls, EraseCalls,
         ProjectReads, ProjectCalls, ProjectRereads, InstallReads, InstallWrites,
         RetireReadsLink, RetireReadsRecord, RetireUnlinks, EraseReads, EraseUnlinks,
         EraseLists, Complete, Ingest
<1>2. Solo(worker[w]) /\ deployed.workers = {w}
  BY <1>1 DEF SoloInv
<1>3. CASE Retire \/ Reactivate \/ Delete
  BY <1>2, <1>3, SoloOperates DEF Retire, Reactivate, Delete, Kinds
<1>4. ASSUME NEW i \in EventIds, Claim(w, i) \/ Reclaim(w, i) PROVE Solo(worker[w])'
  BY <1>2, <1>4, SoloTakes DEF Claim, Reclaim, Open
<1>5. CASE Step(w)
  BY <1>2, <1>5, SoloReads, SoloCalls, SoloInstalls, SoloRemoves, SoloUnlinks, SoloCompletes,
     SoloSettles DEF Step
<1>6. CASE Crash(w)
  BY <1>2, <1>6, SoloCrashes
<1>7. ASSUME NEW t \in Targets, NEW copy \in Copies, Ingest(t, copy) PROVE Solo(worker[w])'
  BY <1>2, <1>7, SoloIngests
<1>8. CASE UNCHANGED vars
  BY <1>2, <1>8 DEF vars, Solo, Carries, Steady, Recent, Kept, Done, Holds
<1> QED
  BY <1>2, <1>3, <1>4, <1>5, <1>6, <1>7, <1>8 DEF Next

\* A late or retried event does not undo a reactivation: once the only worker has
\* delivered everything, the link of a current record leads to a copy, however
\* calls failed and workers died on the way.
THEOREM Reactivated == Spec => []ReactivationSticks
<1>1. IInv /\ SoloInv => ReactivationSticks
  <2> SUFFICES ASSUME IInv, SoloInv, Cardinality(deployed.workers) = 1, Quiet, state = "ACTIVE",
                      NEW t \in Targets
               PROVE  link[t] \in provider[t]
    BY DEF ReactivationSticks
  <2>1. deployed.workers \subseteq Workers
    BY DeploymentsAssumption DEF IInv, TypeOK
  <2>2. PICK w : deployed.workers = {w}
    BY <2>1, WorkersAssumption, FS_Subset, FS_Singleton
  <2>3. Kept(worker[w], t)
    BY <2>1, <2>2 DEF SoloInv, Solo
  <2>4. event[<<ops, t>>].status = "DELIVERED"
    <3>1. <<ops, t>> \in EventIds
      BY SoloFacts, <2>1, <2>2
    <3> QED
      BY <2>3, <3>1 DEF Quiet, Kept
  <2> QED
    BY <2>3, <2>4 DEF Kept, Done, Holds, Quiet
<1>2. Spec => []SoloInv
  BY Invariant, SoloInit, SoloNext, PTL DEF Spec
<1> QED
  BY <1>1, <1>2, Invariant, PTL

---------------------------------------------------------------------------

---------------------------------------------------------------------------
\* What the variables hold.

EventKinds == {"run_initialized", "evidence_recorded", "decision_derived", "report_generated"}

Lines ==
    [kind : EventKinds, seq : Nat, after : Nat, check : Checks \cup {None},
     record : Records \cup {None}, proofs : Bundles \cup {None}]

Adding == {"import", "copy", "tail", "append"}

Stations == {"done", "check", "evaluate", "render"} \cup Adding

CommandOps == {"none", "init", "add", "derive", "report", "validate"}

Commands ==
    [op : CommandOps, at : Stations, queue : Seq(Records), todo : SUBSET Paths,
     file : Paths \cup {None}, line : Lines \cup {None}, exit : Nat]

\* What a command has in hand fits what it is at.
Fits(v) ==
    /\ v.at \in {"check", "import", "copy"} => v.op = "add"
    /\ v.at = "copy" => v.file \in v.todo
    /\ v.at \in {"evaluate", "render"} => v.op \in {"derive", "report"}
    /\ v.at \in {"tail", "append"} => v.op \in {"init", "add", "derive", "report"}
    /\ (v.op = "add" /\ v.at # "done") => v.queue # <<>>
    /\ (v.op = "add" /\ v.at \in Adding) =>
          v.todo \subseteq DOMAIN Head(v.queue).proofs /\ DOMAIN Head(v.queue).proofs # {}
    /\ (v.op = "add" /\ v.at \in {"tail", "append"}) => v.todo = {}
    /\ v.at = "append" => v.line \in Lines

EvidenceTyped ==
    /\ run \in RunTypes \cup {None}
    /\ version \in Versions
    /\ attested \in SUBSET Records
    /\ rec \in [Checks -> Records \cup {None}]
    /\ proof \in [Checks -> [Paths -> Contents \cup {None}]]
    /\ ledger \in Seq(Lines \cup {Torn, Spliced})
    /\ cmd \in [Shells -> Commands]
    /\ accepted \in SUBSET Records
    /\ disturbed \in BOOLEAN
    /\ \A w \in Shells : Fits(cmd[w])

\* A record is what it is declared to be.
LEMMA RecordIs ==
    ASSUME EvidenceParameters, NEW r \in Records
    PROVE  /\ r \in RecordTypes /\ r.check \in Checks /\ r # None
           /\ DOMAIN r.proofs \subseteq Paths
           /\ r.proofs \in Bundles
           /\ \A p \in DOMAIN r.proofs : r.proofs[p] \in Contents /\ r.proofs[p] # None
<1>1. r \in RecordTypes /\ r # None
  BY DEF EvidenceParameters
<1>2. r.check \in Checks /\ r.proofs \in Bundles
  BY <1>1 DEF RecordTypes
<1>3. PICK P \in SUBSET Paths : r.proofs \in [P -> Contents]
  BY <1>2 DEF Bundles
<1>4. DOMAIN r.proofs = P
  BY <1>3
<1>5. \A p \in P : r.proofs[p] \in Contents /\ r.proofs[p] # None
  BY <1>3 DEF EvidenceParameters
<1> QED
  BY <1>1, <1>2, <1>4, <1>5

LEMMA CommandIs ==
    ASSUME NEW o \in CommandOps, NEW a \in Stations, NEW q \in Seq(Records), NEW x \in Nat,
           a \notin Adding \/ (a = "tail" /\ o = "init"),
           a = "check" => o = "add" /\ q # <<>>,
           a \in {"evaluate", "render"} => o \in {"derive", "report"},
           a # "done" => q # <<>> \/ o # "add"
    PROVE  /\ Command(o, a, q, x) \in Commands /\ Fits(Command(o, a, q, x))
           /\ Command(o, a, q, x).op = o /\ Command(o, a, q, x).at = a
<1> DEFINE v == Command(o, a, q, x)
<1>1. v.op = o /\ v.at = a /\ v.queue = q /\ v.exit = x /\ v.todo = {} /\ v.file = None /\ v.line = None
  BY DEF Command
<1>2. v \in Commands
  <2>1. {} \in SUBSET Paths /\ None \in Lines \cup {None} /\ None \in Paths \cup {None}
    OBVIOUS
  <2> HIDE DEF Lines
  <2> QED
    BY <2>1 DEF Command, Commands
<1> HIDE DEF v
<1>3. Fits(v)
  BY <1>1 DEF Fits, Adding, Stations
<1> QED
  BY <1>1, <1>2, <1>3 DEF v

LEMMA TailIs ==
    ASSUME NEW S, NEW s \in Seq(S), Len(s) > 1
    PROVE  Tail(s) \in Seq(S) /\ Tail(s) # <<>>
<1>1. s # <<>>
  OBVIOUS
<1>2. Tail(s) \in Seq(S) /\ Len(Tail(s)) = Len(s) - 1
  BY <1>1, HeadTailProperties, Zenon
<1>3. Tail(s) = <<>> => Len(Tail(s)) = 0
  BY Zenon, EmptySeq
<1> DEFINE n == Len(s)
           t == Tail(s)
           m == Len(t)
<1>4. n \in Nat
  OBVIOUS
<1>5. m = n - 1 /\ n > 1 /\ (t = <<>> => m = 0) /\ t \in Seq(S)
  BY <1>2, <1>3
<1> HIDE DEF m, n, t
<1>6. t # <<>>
  BY <1>4, <1>5
<1> QED
  BY <1>5, <1>6 DEF t

LEMMA NothingQueued == <<>> \in Seq(Records)
OBVIOUS

\* How commands begin, end and go on.
LEMMA DoneIs ==
    ASSUME NEW o \in CommandOps, NEW x \in Nat
    PROVE  /\ Command(o, "done", <<>>, x) \in Commands /\ Fits(Command(o, "done", <<>>, x))
           /\ Command(o, "done", <<>>, x).at = "done" /\ Command(o, "done", <<>>, x).op = o
<1> DEFINE q == <<>>
<1>1. q \in Seq(Records)
  BY NothingQueued
<1>2. "done" \in Stations /\ "done" \notin Adding
  BY DEF Stations, Adding
<1> HIDE DEF q
<1>3. /\ Command(o, "done", q, x) \in Commands /\ Fits(Command(o, "done", q, x))
      /\ Command(o, "done", q, x).at = "done" /\ Command(o, "done", q, x).op = o
  BY <1>1, <1>2, CommandIs
<1> QED
  BY <1>3 DEF q

LEMMA Ended ==
    ASSUME EvidenceTyped, NEW w \in Shells, NEW x \in Nat, Ends(w, x)
    PROVE  \E v \in Commands : /\ cmd' = [cmd EXCEPT ![w] = v]
                               /\ Fits(v) /\ v.at = "done" /\ v.op = cmd[w].op
<1>1. cmd[w].op \in CommandOps
  BY DEF EvidenceTyped, Commands
<1> QED
  BY <1>1, DoneIs DEF Ends

LEMMA Begun ==
    ASSUME NEW w \in Shells,
           NEW o \in {"init", "add", "derive", "report"}, NEW a \in {"tail", "check", "evaluate"},
           NEW q \in Seq(Records), Begin(w, o, a, q),
           a = "tail" => o = "init", a = "check" => o = "add" /\ q # <<>>,
           a = "evaluate" => o \in {"derive", "report"}
    PROVE  /\ ~Busy(w) /\ disturbed' = (disturbed \/ Others(w))
           /\ \E v \in Commands : /\ cmd' = [cmd EXCEPT ![w] = v]
                                  /\ Fits(v) /\ v.at = a /\ v.op = o
<1>1. cmd' = [cmd EXCEPT ![w] = Command(o, a, q, 0)]
  BY DEF Begin
<1>2. o \in CommandOps /\ a \in Stations /\ (a \notin Adding \/ (a = "tail" /\ o = "init"))
  BY DEF Stations, Adding, CommandOps
<1>3. /\ Command(o, a, q, 0) \in Commands /\ Fits(Command(o, a, q, 0))
      /\ Command(o, a, q, 0).op = o /\ Command(o, a, q, 0).at = a
  BY <1>2, CommandIs
<1> QED
  BY <1>1, <1>3 DEF Begin

LEMMA NextOne ==
    ASSUME EvidenceTyped, NEW w \in Shells, NEW x \in Nat, NextRecord(w, x), cmd[w].op = "add"
    PROVE  \E v \in Commands : /\ cmd' = [cmd EXCEPT ![w] = v]
                               /\ Fits(v) /\ v.at \in {"done", "check"} /\ v.op = "add"
<1>1. CASE ~(Len(cmd[w].queue) > 1)
  BY <1>1, Ended DEF NextRecord
<1>2. CASE Len(cmd[w].queue) > 1
  <2> DEFINE q == Tail(cmd[w].queue)
  <2>1. cmd[w].queue \in Seq(Records)
    BY DEF EvidenceTyped, Commands
  <2>2. q \in Seq(Records) /\ q # <<>>
    BY <1>2, <2>1, TailIs
  <2>3. cmd' = [cmd EXCEPT ![w] = Command("add", "check", q, x)]
    BY <1>2 DEF NextRecord
  <2> HIDE DEF q
  <2>4. "add" \in CommandOps /\ "check" \in Stations /\ "check" \notin Adding
    BY DEF Stations, Adding, CommandOps
  <2>5. /\ Command("add", "check", q, x) \in Commands /\ Fits(Command("add", "check", q, x))
        /\ Command("add", "check", q, x).op = "add" /\ Command("add", "check", q, x).at = "check"
    BY <2>2, <2>4, CommandIs
  <2> QED
    BY <2>3, <2>5
<1> QED
  BY <1>1, <1>2

---------------------------------------------------------------------------
\* What an add-evidence has in hand

UnderWay(v, c) == v.op = "add" /\ v.at \in Adding /\ Head(v.queue).check = c
Got(v) == DOMAIN Head(v.queue).proofs \ v.todo

\* What a step of shell w makes of the commands.
Turns(w, v) == v \in Commands /\ Fits(v) /\ cmd' = [cmd EXCEPT ![w] = v]

LEMMA GivenIs ==
    ASSUME EvidenceTyped, NEW w \in Shells, cmd[w].op = "add", Busy(w)
    PROVE  Given(w) \in Records
<1>1. cmd[w].queue \in Seq(Records) /\ cmd[w].queue # <<>>
  BY DEF EvidenceTyped, Commands, Fits, Busy
<1> QED
  BY <1>1, HeadTailProperties DEF Given

\* A command at another station, with something else in hand
Looked(u, a, p) == [u EXCEPT !.at = a, !.file = p]

Left(u, a, t) == [u EXCEPT !.at = a, !.todo = t]

LEMMA Tested ==
    ASSUME NEW u \in Commands, NEW a \in Stations, NEW p \in Paths
    PROVE  /\ Looked(u, a, p) \in Commands
           /\ Looked(u, a, p).at = a
           /\ Looked(u, a, p).op = u.op
           /\ Looked(u, a, p).queue = u.queue
           /\ Looked(u, a, p).todo = u.todo
           /\ Looked(u, a, p).file = p
<1> DEFINE v == [u EXCEPT !.at = a, !.file = p]
<1>1. v \in Commands
  BY DEF Commands
<1>2. v.at = a
  BY DEF Commands
<1>3. v.op = u.op
  BY DEF Commands
<1>4. v.queue = u.queue
  BY DEF Commands
<1>5. v.todo = u.todo
  BY DEF Commands
<1>6. v.file = p
  BY DEF Commands
<1>7. v = Looked(u, a, p)
  BY DEF Looked
<1> HIDE DEF v
<1> QED
  BY <1>1, <1>2, <1>3, <1>4, <1>5, <1>6, <1>7

LEMMA TakenUp ==
    ASSUME NEW u \in Commands, NEW a \in Stations, NEW t \in SUBSET Paths
    PROVE  /\ Left(u, a, t) \in Commands
           /\ Left(u, a, t).at = a
           /\ Left(u, a, t).op = u.op
           /\ Left(u, a, t).queue = u.queue
           /\ Left(u, a, t).todo = t
<1> DEFINE v == [u EXCEPT !.at = a, !.todo = t]
<1>1. v \in Commands
  BY DEF Commands
<1>2. v.at = a
  BY DEF Commands
<1>3. v.op = u.op
  BY DEF Commands
<1>4. v.queue = u.queue
  BY DEF Commands
<1>5. v.todo = t
  BY DEF Commands
<1>6. v = Left(u, a, t)
  BY DEF Left
<1> HIDE DEF v
<1> QED
  BY <1>1, <1>2, <1>3, <1>4, <1>5, <1>6

LEMMA Stationed ==
    ASSUME NEW u \in Commands, NEW a \in Stations
    PROVE  \E v \in Commands :
             /\ v = [u EXCEPT !.at = a]
             /\ v.at = a
             /\ v.op = u.op
             /\ v.queue = u.queue
             /\ v.todo = u.todo
             /\ v.file = u.file
             /\ v.line = u.line
<1> DEFINE v == [u EXCEPT !.at = a]
<1>1. v \in Commands
  BY DEF Commands
<1>2. v.at = a
  BY DEF Commands
<1>3. v.op = u.op
  BY DEF Commands
<1>4. v.queue = u.queue
  BY DEF Commands
<1>5. v.todo = u.todo
  BY DEF Commands
<1>6. v.line = u.line /\ v.file = u.file
  BY DEF Commands
<1> HIDE DEF v
<1>9. v = [u EXCEPT !.at = a]
  BY DEF v
<1> QED
  BY <1>1, <1>2, <1>3, <1>4, <1>5, <1>6, <1>9

LEMMA Counted ==
    ASSUME NEW u \in Commands, NEW a \in Stations, NEW x \in Nat
    PROVE  \E v \in Commands :
             /\ v = [u EXCEPT !.at = a, !.exit = x]
             /\ v.at = a
             /\ v.op = u.op
             /\ v.queue = u.queue
             /\ v.todo = u.todo
             /\ v.file = u.file
             /\ v.line = u.line
<1> DEFINE v == [u EXCEPT !.at = a, !.exit = x]
<1>1. v \in Commands
  BY DEF Commands
<1>2. v.at = a
  BY DEF Commands
<1>3. v.op = u.op
  BY DEF Commands
<1>4. v.queue = u.queue
  BY DEF Commands
<1>5. v.todo = u.todo
  BY DEF Commands
<1>6. v.line = u.line /\ v.file = u.file
  BY DEF Commands
<1> HIDE DEF v
<1>9. v = [u EXCEPT !.at = a, !.exit = x]
  BY DEF v
<1> QED
  BY <1>1, <1>2, <1>3, <1>4, <1>5, <1>6, <1>9

---------------------------------------------------------------------------
\* The argument for AcceptedIsDecided.

\* A line in hand is one of evidence only in an add-evidence, and then it is
\* of the check and names the proofs of the record the command was given.
LineFits(v) ==
    v.at = "append" =>
        IF v.op = "add"
        THEN /\ v.line.kind = "evidence_recorded" /\ v.line.check = Head(v.queue).check
             /\ v.line.proofs = Head(v.queue).proofs
        ELSE v.line.kind # "evidence_recorded"

Backed(r) ==
    \/ \E i \in DOMAIN ledger : ledger[i].kind = "torn"
    \/ Twice(r.check)
    \/ \E i \in EventsOf(r.check) : ledger[i].proofs = r.proofs

Sound ==
    /\ \A w \in Shells : LineFits(cmd[w])
    /\ \A r \in accepted : Backed(r)

\* The ledger only grows, and a line that is not torn stays what it is.
Stays(i) == ledger'[i] = ledger[i] \/ (ledger[i].kind = "torn" /\ ledger'[i].kind = "torn")
Grows == \A i \in DOMAIN ledger : i \in DOMAIN ledger' /\ Stays(i)
Extends == \A i \in DOMAIN ledger : ledger'[i] = ledger[i]

LEMMA Growing ==
    ASSUME EvidenceTyped, NEW e \in Lines \cup {Torn, Spliced}, ledger' = Append(ledger, e)
    PROVE  /\ ledger' \in Seq(Lines \cup {Torn, Spliced}) /\ Grows /\ Extends
           /\ Len(ledger') = Len(ledger) + 1 /\ ledger'[Len(ledger) + 1] = e
           /\ DOMAIN ledger = 1..Len(ledger) /\ DOMAIN ledger' = 1..(Len(ledger) + 1)
           /\ Len(ledger) \in Nat
<1> DEFINE S == Lines \cup {Torn, Spliced}
<1>1. ledger \in Seq(S)
  BY DEF EvidenceTyped
<1>2. e \in S
  OBVIOUS
<1> HIDE DEF S
<1>3. ledger' \in Seq(S) /\ Len(ledger') = Len(ledger) + 1 /\ ledger'[Len(ledger) + 1] = e
  BY <1>1, <1>2
<1>4. DOMAIN ledger = 1..Len(ledger) /\ Len(ledger) \in Nat /\ DOMAIN ledger' = 1..(Len(ledger) + 1)
  BY <1>1, <1>2, <1>3
<1>5. \A i \in 1..Len(ledger) : ledger'[i] = ledger[i]
  BY <1>1, <1>2
<1>6. Grows /\ Extends
  BY <1>4, <1>5 DEF Grows, Extends, Stays
<1> QED
  BY <1>3, <1>4, <1>6 DEF S

LEMMA Standing ==
    ASSUME ledger' = ledger
    PROVE  Grows
BY DEF Grows, Stays

\* Half a line is ended by the line that is joined to it.
LEMMA Joining ==
    ASSUME EvidenceTyped, TornTail, ledger' = [ledger EXCEPT ![Len(ledger)] = Spliced]
    PROVE  ledger' \in Seq(Lines \cup {Torn, Spliced}) /\ Grows
<1>1. Spliced.kind = "torn"
  BY DEF Spliced
<1>2. ledger[Len(ledger)].kind = "torn" /\ ledger \in Seq(Lines \cup {Torn, Spliced}) /\ ledger # <<>>
  BY DEF TornTail, BrokenTail, EvidenceTyped
<1> DEFINE S == Lines \cup {Torn, Spliced}
<1>3. Spliced \in S /\ ledger \in Seq(S)
  BY <1>2
<1> HIDE DEF S
<1>4. /\ ledger' \in Seq(S) /\ DOMAIN ledger' = DOMAIN ledger
      /\ \A i \in DOMAIN ledger : ledger'[i] = IF i = Len(ledger) THEN Spliced ELSE ledger[i]
  BY <1>2, <1>3
<1>5. Grows
  BY <1>1, <1>2, <1>4 DEF Grows, Stays
<1> QED
  BY <1>4, <1>5 DEF S

LEMMA EventsGrow ==
    ASSUME Grows, NEW c
    PROVE  /\ EventsOf(c) \subseteq EventsOf(c)'
           /\ Twice(c) => Twice(c)'
           /\ \A i \in EventsOf(c) : ledger'[i] = ledger[i]
<1>1. EventsOf(c) \subseteq EventsOf(c)' /\ \A i \in EventsOf(c) : ledger'[i] = ledger[i]
  BY DEF Grows, Stays, EventsOf
<1> QED
  BY <1>1 DEF Twice

LEMMA BackedGrows ==
    ASSUME Grows, NEW r, Backed(r)
    PROVE  Backed(r)'
<1>1. CASE \E i \in DOMAIN ledger : ledger[i].kind = "torn"
  BY <1>1 DEF Backed, Grows, Stays
<1>2. CASE Twice(r.check)
  BY <1>2, EventsGrow DEF Backed
<1>3. CASE \E i \in EventsOf(r.check) : ledger[i].proofs = r.proofs
  <2>1. PICK i \in EventsOf(r.check) : ledger[i].proofs = r.proofs
    BY <1>3
  <2>2. i \in EventsOf(r.check)' /\ ledger'[i] = ledger[i]
    BY EventsGrow
  <2>3. ledger'[i].proofs = r.proofs
    BY <2>1, <2>2
  <2> QED
    BY <2>2, <2>3 DEF Backed
<1> QED
  BY <1>1, <1>2, <1>3 DEF Backed

LEMMA TypedTurn ==
    ASSUME EvidenceTyped, NEW w \in Shells, NEW v, Turns(w, v)
    PROVE  /\ cmd' \in [Shells -> Commands]
           /\ \A u \in Shells : Fits(cmd'[u])
           /\ cmd'[w] = v
           /\ \A u \in Shells \ {w} : cmd'[u] = cmd[u]
<1>1. cmd \in [Shells -> Commands] /\ \A u \in Shells : Fits(cmd[u])
  BY DEF EvidenceTyped
<1>2. cmd' = [cmd EXCEPT ![w] = v] /\ v \in Commands /\ Fits(v)
  BY DEF Turns
<1>3. /\ cmd' \in [Shells -> Commands]
      /\ cmd'[w] = v
      /\ \A u \in Shells \ {w} : cmd'[u] = cmd[u]
  BY <1>1, <1>2
<1> QED
  BY <1>1, <1>2, <1>3

LEMMA LinesKept ==
    ASSUME EvidenceTyped, NEW w \in Shells, NEW v, Turns(w, v),
           \A u \in Shells : LineFits(cmd[u]), LineFits(v)
    PROVE  (\A u \in Shells : LineFits(cmd[u]))'
<1>1. cmd'[w] = v /\ \A u \in Shells \ {w} : cmd'[u] = cmd[u]
  BY TypedTurn
<1>2. \A u \in Shells : LineFits(cmd'[u])
  BY <1>1
<1> QED
  BY <1>2 DEF LineFits

LEMMA TypedKept ==
    ASSUME EvidenceTyped, NEW w \in Shells, NEW v, Turns(w, v),
           run' \in RunTypes \cup {None}, version' \in Versions, attested' \in SUBSET Records,
           rec' \in [Checks -> Records \cup {None}],
           proof' \in [Checks -> [Paths -> Contents \cup {None}]],
           ledger' \in Seq(Lines \cup {Torn, Spliced}), accepted' \in SUBSET Records,
           disturbed' \in BOOLEAN
    PROVE  EvidenceTyped'
<1>1. cmd' \in [Shells -> Commands] /\ \A u \in Shells : Fits(cmd'[u])
  BY TypedTurn
<1>2. (\A u \in Shells : Fits(cmd[u]))'
  BY <1>1 DEF Fits
<1>3. (cmd \in [Shells -> Commands])'
  BY <1>1 DEF Commands, Lines, Stations, Adding, CommandOps, EventKinds, Bundles
<1> QED
  BY <1>2, <1>3 DEF EvidenceTyped

LEMMA SoundKept ==
    ASSUME EvidenceTyped, Sound, NEW w \in Shells, NEW v, Turns(w, v),
           Grows, accepted' = accepted, LineFits(v)
    PROVE  Sound'
<1>1. (\A u \in Shells : LineFits(cmd[u]))'
  BY LinesKept DEF Sound
<1>2. \A r \in accepted : Backed(r)'
  BY BackedGrows DEF Sound
<1> QED
  BY <1>1, <1>2 DEF Sound

EvidenceSound == EvidenceTyped /\ Sound

\* Most steps write no line of evidence.
LEMMA AsideStep ==
    ASSUME EvidenceSound, NEW w \in Shells, NEW v, Turns(w, v), LineFits(v),
           run' \in RunTypes \cup {None}, UNCHANGED <<version, attested, accepted>>,
           rec' \in [Checks -> Records \cup {None}],
           proof' \in [Checks -> [Paths -> Contents \cup {None}]],
           ledger' = ledger \/ ledger' = Append(ledger, Torn), disturbed' \in BOOLEAN
    PROVE  EvidenceSound'
<1>1. EvidenceTyped
  BY DEF EvidenceSound
<1>2. ledger' \in Seq(Lines \cup {Torn, Spliced}) /\ Grows
  <2>1. CASE ledger' = ledger
    BY <1>1, <2>1, Standing DEF EvidenceTyped
  <2>2. CASE ledger' = Append(ledger, Torn)
    BY <1>1, <2>2, Growing
  <2> QED
    BY <2>1, <2>2
<1>3. EvidenceTyped'
  <2>1. version' \in Versions /\ attested' \in SUBSET Records /\ accepted' \in SUBSET Records
    BY <1>1 DEF EvidenceTyped
  <2> QED
    BY <1>1, <1>2, <2>1, TypedKept
<1>4. Sound'
  BY <1>1, <1>2, SoundKept DEF EvidenceSound

<1> QED
  BY <1>3, <1>4 DEF EvidenceSound

\* and change no file.
LEMMA IdleStep ==
    ASSUME EvidenceSound, NEW w \in Shells, NEW v, Turns(w, v), LineFits(v),
           run' \in RunTypes \cup {None}, UNCHANGED <<version, attested, rec, proof, accepted>>,
           ledger' = ledger \/ ledger' = Append(ledger, Torn), disturbed' \in BOOLEAN
    PROVE  EvidenceSound'
<1>1. /\ rec' \in [Checks -> Records \cup {None}]
      /\ proof' \in [Checks -> [Paths -> Contents \cup {None}]]
  BY DEF EvidenceSound, EvidenceTyped
<1> QED
  BY <1>1, AsideStep

LEMMA OthersIs == ASSUME NEW w \in Shells PROVE Others(w) \in BOOLEAN
BY DEF Others

LEMMA PrepareRunStep ==
    ASSUME EvidenceSound, NEW w \in Shells, NEW staging \in BOOLEAN, NEW live \in BOOLEAN,
           PrepareRun(w, staging, live)
    PROVE  EvidenceSound'
<1>1. EvidenceTyped
  BY DEF EvidenceSound
<1>2. Begin(w, "init", "tail", <<>>) /\ run' = [version |-> version, staging |-> staging, live |-> live]
      /\ UNCHANGED <<version, attested, rec, proof, ledger, accepted>>
  BY DEF PrepareRun
<1> DEFINE q == <<>>
<1>3. q \in Seq(Records) /\ Begin(w, "init", "tail", q)
  BY <1>2, NothingQueued
<1> HIDE DEF q
<1>4. /\ disturbed' = (disturbed \/ Others(w))
      /\ \E v \in Commands : cmd' = [cmd EXCEPT ![w] = v] /\ Fits(v) /\ v.at = "tail" /\ v.op = "init"
  BY <1>3, Begun
<1>5. PICK v : Turns(w, v) /\ v.at = "tail" /\ v.op = "init"
  BY <1>4 DEF Turns
<1>6. LineFits(v)
  BY <1>5 DEF LineFits
<1>7. run' \in RunTypes \cup {None}
  BY <1>1, <1>2 DEF RunTypes, EvidenceTyped
<1>8. disturbed' \in BOOLEAN
  BY <1>4
<1> QED
  BY <1>2, <1>5, <1>6, <1>7, <1>8, IdleStep

LEMMA BatchIs ==
    ASSUME EvidenceParameters, NEW queue \in Batches
    PROVE  queue \in Seq(Records) /\ queue # <<>>
<1>1. MaxBatch \in Nat
  BY DEF EvidenceParameters
<1>2. PICK n \in 1..MaxBatch : queue \in [1..n -> Records]
  BY DEF Batches
<1>3. n \in Nat /\ n # 0
  BY <1>1, <1>2
<1>4. queue \in Seq(Records) /\ Len(queue) = n
  BY <1>2, <1>3
<1>5. queue = <<>> => Len(queue) = 0
  BY EmptySeq, Zenon
<1> QED
  BY <1>3, <1>4, <1>5

LEMMA StartAddStep ==
    ASSUME EvidenceParameters, EvidenceSound, NEW w \in Shells, NEW queue \in Batches,
           StartAdd(w, queue)
    PROVE  EvidenceSound'
<1>1. EvidenceTyped
  BY DEF EvidenceSound
<1>2. Begin(w, "add", "check", queue) /\ UNCHANGED <<runVars, rec, proof, ledger, accepted>>
  BY DEF StartAdd
<1>3. queue \in Seq(Records) /\ queue # <<>>
  BY BatchIs
<1>4. /\ disturbed' = (disturbed \/ Others(w))
      /\ \E v \in Commands : cmd' = [cmd EXCEPT ![w] = v] /\ Fits(v) /\ v.at = "check" /\ v.op = "add"
  BY <1>2, <1>3, Begun
<1>5. PICK v : Turns(w, v) /\ v.at = "check" /\ v.op = "add"
  BY <1>4 DEF Turns
<1>6. LineFits(v)
  BY <1>5 DEF LineFits
<1>7. run' \in RunTypes \cup {None} /\ disturbed' \in BOOLEAN
  BY <1>1, <1>2, <1>4 DEF EvidenceTyped, runVars
<1> QED
  BY <1>2, <1>5, <1>6, <1>7, IdleStep DEF runVars

LEMMA StartDecisionStep ==
    ASSUME EvidenceSound, NEW w \in Shells, NEW op \in {"derive", "report"}, StartDecision(w, op)
    PROVE  EvidenceSound'
<1>1. EvidenceTyped
  BY DEF EvidenceSound
<1>2. Begin(w, op, "evaluate", <<>>) /\ UNCHANGED <<runVars, rec, proof, ledger, accepted>>
  BY DEF StartDecision
<1> DEFINE q == <<>>
<1>3. q \in Seq(Records) /\ Begin(w, op, "evaluate", q)
  BY <1>2, NothingQueued
<1> HIDE DEF q
<1>4. /\ disturbed' = (disturbed \/ Others(w))
      /\ \E v \in Commands : cmd' = [cmd EXCEPT ![w] = v] /\ Fits(v) /\ v.at = "evaluate" /\ v.op = op
  BY <1>3, Begun
<1>5. PICK v : Turns(w, v) /\ v.at = "evaluate" /\ v.op = op
  BY <1>4 DEF Turns
<1>6. LineFits(v)
  BY <1>5 DEF LineFits
<1>7. run' \in RunTypes \cup {None} /\ disturbed' \in BOOLEAN
  BY <1>1, <1>2, <1>4 DEF EvidenceTyped, runVars
<1> QED
  BY <1>2, <1>5, <1>6, <1>7, IdleStep DEF runVars

LEMMA ValidateStep ==
    ASSUME EvidenceSound, NEW w \in Shells, NEW allow \in BOOLEAN, Validate(w, allow)
    PROVE  EvidenceSound'
<1>1. EvidenceTyped
  BY DEF EvidenceSound
<1>2. PICK x \in Nat : cmd' = [cmd EXCEPT ![w] = Command("validate", "done", <<>>, x)]
  BY DEF Validate
<1>3. "validate" \in CommandOps
  BY DEF CommandOps
<1>4. PICK v : Turns(w, v) /\ v.at = "done"
  BY <1>2, <1>3, DoneIs DEF Turns
<1>5. LineFits(v)
  BY <1>4 DEF LineFits
<1>6. /\ UNCHANGED <<version, attested, rec, proof, accepted>> /\ ledger' = ledger
      /\ run' \in RunTypes \cup {None} /\ disturbed' \in BOOLEAN
  BY <1>1 DEF EvidenceTyped, runVars, Validate
<1> QED
  BY <1>4, <1>5, <1>6, IdleStep

LEMMA CheckRecordStep ==
    ASSUME EvidenceParameters, EvidenceSound, NEW w \in Shells, CheckRecord(w)
    PROVE  EvidenceSound'
<1>0. PICK u : u = cmd[w]
  OBVIOUS
<1>1. EvidenceTyped
  BY DEF EvidenceSound
<1>2. u \in Commands /\ Fits(u) /\ u.at = "check" /\ u.op = "add"
  BY <1>0, <1>1 DEF EvidenceTyped, CheckRecord, Fits
<1>3. Given(w) \in Records /\ Given(w) = Head(u.queue) /\ u.queue # <<>>
  BY <1>0, <1>1, <1>2, GivenIs DEF Given, Busy, Fits
<1>4. /\ run' = run /\ version' = version /\ attested' = attested /\ rec' = rec /\ proof' = proof
      /\ ledger' = ledger /\ accepted' = accepted /\ disturbed' = disturbed
  BY DEF CheckRecord, runVars
<1>5. CASE Acceptable(Given(w))
  <2>0. PICK t, a : t = DOMAIN Given(w).proofs /\ a = "import"
    OBVIOUS
  <2>1. t \in SUBSET Paths /\ t # {}
    BY <1>3, <2>0, <1>5, RecordIs DEF Acceptable, Valid, Signed
  <2>2. cmd' = [cmd EXCEPT ![w] = [u EXCEPT !.at = a, !.todo = t]]
    BY <1>0, <1>5, <2>0 DEF CheckRecord
  <2>3. t = DOMAIN Head(u.queue).proofs
    BY <1>3, <2>0
  <2>4. a \in Stations
    BY <2>0 DEF Stations, Adding
  <2>5. PICK v : v = [u EXCEPT !.at = a, !.todo = t]
    OBVIOUS
  <2>13. /\ v \in Commands
         /\ v.at = a /\ v.op = u.op /\ v.queue = u.queue /\ v.todo = t /\ v.line = u.line
    <3>1. u \in Commands
      BY <1>2
    <3>2. t \in SUBSET Paths
      BY <2>1
    <3>3. v \in Commands
      BY <2>4, <2>5, <3>1, <3>2 DEF Commands
    <3>4. v.at = a
      BY <2>5, <3>1 DEF Commands
    <3>5. v.op = u.op
      BY <2>5, <3>1 DEF Commands
    <3>6. v.queue = u.queue
      BY <2>5, <3>1 DEF Commands
    <3>7. v.todo = t
      BY <2>5, <3>1 DEF Commands
    <3>8. v.line = u.line
      BY <2>5, <3>1 DEF Commands
    <3> QED
      BY <3>3, <3>4, <3>5, <3>6, <3>7, <3>8
  <2>6. Fits(v)
    BY <1>2, <1>3, <2>1, <2>3, <2>13, <2>0 DEF Fits
  <2>7. Turns(w, v)
    BY <2>2, <2>5, <2>13, <2>6, <2>0 DEF Turns
  <2>8. LineFits(v)
    BY <2>13, <2>0 DEF LineFits
  <2>9. run' \in RunTypes \cup {None} /\ disturbed' \in BOOLEAN
    BY <1>1, <1>4 DEF EvidenceTyped
  <2> QED
    BY <1>4, <2>7, <2>8, <2>9, IdleStep
<1>6. CASE ~Acceptable(Given(w))
  <2>1. NextRecord(w, 2)
    BY <1>6 DEF CheckRecord
  <2>2. PICK v : Turns(w, v) /\ v.at \in {"done", "check"}
    BY <1>0, <1>1, <1>2, <2>1, NextOne DEF Turns
  <2>3. LineFits(v)
    BY <2>2 DEF LineFits
  <2>4. run' \in RunTypes \cup {None} /\ disturbed' \in BOOLEAN
    BY <1>1, <1>4 DEF EvidenceTyped
  <2> QED
    BY <1>4, <2>2, <2>3, <2>4, IdleStep
<1> QED
  BY <1>5, <1>6

LEMMA ImportFailsStep ==
    ASSUME EvidenceSound, NEW w \in Shells, ImportFails(w)
    PROVE  EvidenceSound'
<1>1. EvidenceTyped
  BY DEF EvidenceSound
<1>2. Ends(w, 2)
  BY DEF ImportFails, Raises
<1>3. PICK v : Turns(w, v) /\ v.at = "done"
  BY <1>1, <1>2, Ended DEF Turns
<1>4. LineFits(v)
  BY <1>3 DEF LineFits
<1>5. run' \in RunTypes \cup {None} /\ disturbed' \in BOOLEAN
  BY <1>1 DEF EvidenceTyped, ImportFails, runVars
<1> QED
  BY <1>3, <1>4, <1>5, IdleStep DEF ImportFails, runVars

LEMMA DecideStep ==
    ASSUME EvidenceSound, NEW w \in Shells, Decide(w)
    PROVE  EvidenceSound'
<1> DEFINE u == cmd[w]
           a == IF cmd[w].op = "report" THEN "render" ELSE "tail"
           x == IF Go THEN 0 ELSE 3
<1>1. EvidenceTyped
  BY DEF EvidenceSound
<1>2. u \in Commands /\ Fits(u) /\ u.op \in {"derive", "report"}
  BY <1>1 DEF EvidenceTyped, Decide, Fits
<1>3. cmd' = [cmd EXCEPT ![w] = [u EXCEPT !.at = a, !.exit = x]]
  BY DEF Decide
<1>4. a \in {"render", "tail"} /\ a \in Stations /\ x \in Nat
  BY DEF Stations, Adding
<1> HIDE DEF a, x, u
<1>5. PICK v \in Commands :
        /\ v = [u EXCEPT !.at = a, !.exit = x]
        /\ v.at = a /\ v.op = u.op /\ v.queue = u.queue /\ v.todo = u.todo
  BY <1>2, <1>4, Counted
<1>6. Fits(v) /\ LineFits(v)
  BY <1>2, <1>4, <1>5 DEF Fits, LineFits
<1>7. Turns(w, v)
  BY <1>3, <1>5, <1>6 DEF Turns
<1>8. run' \in RunTypes \cup {None} /\ disturbed' \in BOOLEAN
  BY <1>1 DEF EvidenceTyped, Decide, runVars
<1> QED
  BY <1>6, <1>7, <1>8, IdleStep DEF Decide, runVars

LEMMA RenderStep ==
    ASSUME EvidenceSound, NEW w \in Shells, Render(w)
    PROVE  EvidenceSound'
<1> DEFINE u == cmd[w]
<1>1. EvidenceTyped
  BY DEF EvidenceSound
<1>2. u \in Commands /\ Fits(u) /\ u.op \in {"derive", "report"}
  BY <1>1 DEF EvidenceTyped, Render, Fits
<1>3. cmd' = [cmd EXCEPT ![w] = [u EXCEPT !.at = "tail"]]
  BY DEF Render
<1>4. "tail" \in Stations
  BY DEF Stations, Adding
<1> HIDE DEF u
<1>5. PICK v \in Commands :
        /\ v = [u EXCEPT !.at = "tail"]
        /\ v.at = "tail" /\ v.op = u.op /\ v.queue = u.queue /\ v.todo = u.todo
  BY <1>2, <1>4, Stationed
<1>6. Fits(v) /\ LineFits(v)
  BY <1>2, <1>5 DEF Fits, LineFits
<1>7. Turns(w, v)
  BY <1>3, <1>5, <1>6 DEF Turns
<1>8. run' \in RunTypes \cup {None} /\ disturbed' \in BOOLEAN
  BY <1>1 DEF EvidenceTyped, Render, runVars
<1> QED
  BY <1>6, <1>7, <1>8, IdleStep DEF Render, runVars

LEMMA KillStep ==
    ASSUME EvidenceSound, NEW w \in Shells, Kill(w)
    PROVE  EvidenceSound'
<1>1. EvidenceTyped
  BY DEF EvidenceSound
<1>2. Ends(w, 2)
  BY DEF Kill
<1>3. PICK v : Turns(w, v) /\ v.at = "done"
  BY <1>1, <1>2, Ended DEF Turns
<1>4. LineFits(v)
  BY <1>3 DEF LineFits
<1>5. run' \in RunTypes \cup {None}
  BY <1>1 DEF EvidenceTyped, Kill, runVars
<1>6. HalfDone(w) \in BOOLEAN
  BY DEF HalfDone
<1>7. disturbed' \in BOOLEAN
  BY <1>1, <1>6 DEF EvidenceTyped, Kill
<1>8. ledger' = ledger \/ ledger' = Append(ledger, Torn)
  BY DEF Kill
<1> QED
  BY <1>3, <1>4, <1>5, <1>7, <1>8, IdleStep DEF Kill, runVars

\* The last line, whole
LEMMA LastLine ==
    ASSUME EvidenceTyped, ~BrokenTail
    PROVE  NextSeq \in Nat /\ Len(ledger) \in Nat
<1>1. ledger \in Seq(Lines \cup {Torn, Spliced})
  BY DEF EvidenceTyped
<1>2. Len(ledger) \in Nat
  BY <1>1
<1>3. CASE ledger = <<>>
  BY <1>2, <1>3 DEF NextSeq
<1>4. CASE ledger # <<>>
  <2>1. ledger[Len(ledger)] \in Lines \cup {Torn, Spliced}
    BY <1>1, <1>4
  <2>2. ledger[Len(ledger)] \notin {Torn, Spliced}
    BY <1>4 DEF BrokenTail, Torn, Spliced
  <2>3. ledger[Len(ledger)].seq \in Nat
    BY <2>1, <2>2 DEF Lines
  <2> QED
    BY <1>2, <1>4, <2>3 DEF NextSeq
<1> QED
  BY <1>3, <1>4

LEMMA LineIs ==
    ASSUME EvidenceTyped, ~BrokenTail, NEW k \in EventKinds, NEW c \in Checks \cup {None},
           NEW r \in Records \cup {None}, NEW b \in Bundles \cup {None}
    PROVE  /\ Line(k, c, r, b) \in Lines
           /\ Line(k, c, r, b).kind = k /\ Line(k, c, r, b).check = c
           /\ Line(k, c, r, b).record = r /\ Line(k, c, r, b).proofs = b
           /\ Line(k, c, r, b).seq = NextSeq /\ Line(k, c, r, b).after = Len(ledger)
<1>1. NextSeq \in Nat /\ Len(ledger) \in Nat
  BY LastLine
<1> QED
  BY <1>1 DEF Line, Lines

LEMMA ReadTailStep ==
    ASSUME EvidenceParameters, EvidenceSound, NEW w \in Shells, ReadTail(w)
    PROVE  EvidenceSound'
<1>0. PICK u : u = cmd[w]
  OBVIOUS
<1>1. EvidenceTyped /\ Sound
  BY DEF EvidenceSound
<1>2. u \in Commands /\ Fits(u) /\ u.at = "tail" /\ u.op \in {"init", "add", "derive", "report"}
  BY <1>0, <1>1 DEF EvidenceTyped, ReadTail, Fits
<1>3. /\ run' = run /\ version' = version /\ attested' = attested /\ rec' = rec /\ proof' = proof
      /\ ledger' = ledger /\ accepted' = accepted
  BY DEF ReadTail, runVars
<1>4. CASE Unreadable(w)
  <2>1. Ends(w, 2) /\ disturbed' = TRUE
    BY <1>4 DEF ReadTail, Raises
  <2>2. PICK v : Turns(w, v) /\ v.at = "done"
    BY <1>1, <2>1, Ended DEF Turns
  <2>3. LineFits(v)
    BY <2>2 DEF LineFits
  <2>4. run' \in RunTypes \cup {None}
    BY <1>1, <1>3 DEF EvidenceTyped
  <2> QED
    BY <1>3, <2>1, <2>2, <2>3, <2>4, IdleStep
<1>5. CASE ~Unreadable(w)
  <2>0. PICK e, g, a : e = LineOf(w) /\ g = Given(w) /\ a = "append"
    OBVIOUS
  <2>1. cmd' = [cmd EXCEPT ![w] = [u EXCEPT !.at = a, !.line = e]] /\ disturbed' = disturbed
    BY <1>0, <1>5, <2>0 DEF ReadTail
  <2>2. ~BrokenTail /\ (u.op = "add" => rec[g.check] # None)
    BY <1>0, <1>5, <2>0 DEF Unreadable
  <2>3. u.op = "add" =>
           /\ g \in Records /\ g = Head(u.queue) /\ g.check \in Checks /\ g.proofs \in Bundles
           /\ rec[g.check] \in Records
    <3> SUFFICES ASSUME u.op = "add"
                 PROVE  /\ g \in Records /\ g = Head(u.queue) /\ g.check \in Checks /\ g.proofs \in Bundles
                        /\ rec[g.check] \in Records
      OBVIOUS
    <3>1. g \in Records
      BY <1>0, <1>1, <1>2, <2>0, GivenIs DEF Busy
    <3>2. g = Head(u.queue)
      BY <1>0, <2>0 DEF Given
    <3>3. g.check \in Checks /\ g.proofs \in Bundles
      BY <3>1, RecordIs
    <3>4. rec[g.check] \in Records
      BY <1>1, <2>2, <3>3 DEF EvidenceTyped
    <3> QED
      BY <3>1, <3>2, <3>3, <3>4
  <2>4. /\ e \in Lines
        /\ u.op = "add" => /\ e.kind = "evidence_recorded" /\ e.check = g.check
                           /\ e.record = rec[g.check] /\ e.proofs = g.proofs
        /\ u.op # "add" => e.kind # "evidence_recorded"
    <3>1. ASSUME NEW k \in EventKinds \ {"evidence_recorded"}, e = Line(k, None, None, None)
          PROVE  e \in Lines /\ e.kind # "evidence_recorded"
      <4>1. NextSeq \in Nat /\ Len(ledger) \in Nat
        BY <1>1, <2>2, LastLine
      <4> QED
        BY <3>1, <4>1 DEF Line, Lines
    <3>2. CASE u.op = "init"
      <4>1. e = Line("run_initialized", None, None, None)
        BY <3>2, <1>0, <2>0 DEF LineOf
      <4> QED
        BY <3>1, <3>2, <4>1 DEF EventKinds
    <3>3. CASE u.op = "derive"
      <4>1. e = Line("decision_derived", None, None, None)
        BY <3>3, <1>0, <2>0 DEF LineOf
      <4> QED
        BY <3>1, <3>3, <4>1 DEF EventKinds
    <3>4. CASE u.op = "report"
      <4>1. e = Line("report_generated", None, None, None)
        BY <3>4, <1>0, <2>0 DEF LineOf
      <4> QED
        BY <3>1, <3>4, <4>1 DEF EventKinds
    <3>5. CASE u.op = "add"
      <4>1. e = Line("evidence_recorded", g.check, rec[g.check], g.proofs)
        BY <3>5, <1>0, <2>0 DEF LineOf
      <4>2. "evidence_recorded" \in EventKinds
        BY DEF EventKinds
      <4> QED
        BY <1>1, <2>2, <2>3, <3>5, <4>1, <4>2, LineIs
    <3> QED
      BY <1>2, <3>2, <3>3, <3>4, <3>5
  <2>6. a \in Stations
    BY <2>0 DEF Stations, Adding
  <2>7. PICK v : v = [u EXCEPT !.at = a, !.line = e]
    OBVIOUS
  <2>8. /\ v \in Commands /\ v = [u EXCEPT !.at = a, !.line = e]
        /\ v.at = a /\ v.op = u.op /\ v.queue = u.queue /\ v.todo = u.todo /\ v.line = e
    <3>1. u \in Commands /\ e \in Lines
      BY <1>2, <2>4
    <3>2. v \in Commands
      BY <2>6, <2>7, <3>1 DEF Commands
    <3>3. v.at = a /\ v.op = u.op
      BY <2>7, <3>1 DEF Commands
    <3>4. v.queue = u.queue
      BY <2>7, <3>1 DEF Commands
    <3>5. v.todo = u.todo
      BY <2>7, <3>1 DEF Commands
    <3>6. v.line = e
      BY <2>7, <3>1 DEF Commands
    <3> QED
      BY <2>7, <3>2, <3>3, <3>4, <3>5, <3>6
  <2>9. Fits(v)
    BY <1>2, <2>4, <2>8, <2>0 DEF Fits, Adding
  <2>10. Turns(w, v)
    BY <2>1, <2>8, <2>9, <2>0 DEF Turns
  <2>11. LineFits(v)
    BY <2>3, <2>4, <2>8 DEF LineFits
  <2>12. run' \in RunTypes \cup {None} /\ disturbed' \in BOOLEAN
    BY <1>1, <1>3, <2>1 DEF EvidenceTyped
  <2> QED
    BY <1>3, <2>10, <2>11, <2>12, IdleStep
<1> QED
  BY <1>4, <1>5

LEMMA AppendEventStep ==
    ASSUME EvidenceParameters, EvidenceSound, NEW w \in Shells, AppendEvent(w)
    PROVE  EvidenceSound'
<1>0. PICK u, e, g, c : u = cmd[w] /\ e = u.line /\ g = Head(u.queue) /\ c = g.check
  OBVIOUS
<1>1. EvidenceTyped /\ Sound
  BY DEF EvidenceSound
<1>2. u \in Commands /\ Fits(u) /\ u.at = "append" /\ u.op \in {"init", "add", "derive", "report"}
  BY <1>0, <1>1 DEF EvidenceTyped, AppendEvent, Fits
<1>3. /\ run' = run /\ version' = version /\ attested' = attested /\ rec' = rec /\ proof' = proof
      /\ disturbed' = disturbed /\ ledger' = IF TornTail THEN [ledger EXCEPT ![Len(ledger)] = Spliced]
                                                     ELSE Append(ledger, e)
  BY <1>0 DEF AppendEvent, runVars
<1>4. e \in Lines /\ cmd[w].exit \in Nat
  BY <1>0, <1>2 DEF Fits, Commands
<1>5. PICK v : Turns(w, v) /\ v.at \in {"done", "check"}
  <2>1. CASE u.op = "add"
    BY <1>0, <1>1, <1>2, <1>4, <2>1, NextOne DEF Turns, AppendEvent
  <2>2. CASE u.op # "add"
    BY <1>0, <1>1, <1>4, <2>2, Ended DEF Turns, AppendEvent
  <2> QED
    BY <2>1, <2>2
<1>7. LineFits(v)
  BY <1>5 DEF LineFits
<1>8. ledger' \in Seq(Lines \cup {Torn, Spliced}) /\ Grows
  <2>1. CASE TornTail
    BY <1>1, <1>3, <2>1, Joining
  <2>2. CASE ~TornTail
    BY <1>1, <1>3, <1>4, <2>2, Growing
  <2> QED
    BY <2>1, <2>2
<1>9. u.op = "add" => g \in Records /\ accepted' = accepted \cup {g}
  BY <1>0, <1>1, <1>2, GivenIs DEF AppendEvent, Busy, Given
<1>10. u.op # "add" => accepted' = accepted
  BY <1>0 DEF AppendEvent
<1>11. EvidenceTyped'
  <2>1. accepted' \in SUBSET Records
    BY <1>1, <1>9, <1>10 DEF EvidenceTyped
  <2> QED
    BY <1>1, <1>3, <1>5, <1>8, <2>1, TypedKept DEF EvidenceTyped
<1>13. (\A x \in Shells : LineFits(cmd[x]))'
  BY <1>1, <1>5, <1>7, LinesKept DEF Sound
<1>14. u.op = "add" => Backed(g)'
  <2> SUFFICES ASSUME u.op = "add" PROVE Backed(g)'
    OBVIOUS
  <2>1. CASE TornTail
    <3>1. Len(ledger) \in DOMAIN ledger /\ ledger[Len(ledger)].kind = "torn"
      BY <1>1, <2>1 DEF TornTail, BrokenTail, EvidenceTyped
    <3>2. Len(ledger) \in DOMAIN ledger' /\ ledger'[Len(ledger)].kind = "torn"
      BY <1>8, <3>1 DEF Grows, Stays
    <3> QED
      BY <3>2 DEF Backed
  <2>2. CASE ~TornTail
    <3> DEFINE n == Len(ledger) + 1
    <3>1. e.kind = "evidence_recorded" /\ e.check = c /\ e.proofs = g.proofs
      <4>1. LineFits(u)
        BY <1>0, <1>1 DEF Sound
      <4> QED
        BY <1>0, <1>2, <4>1 DEF LineFits
    <3>2. n \in DOMAIN ledger' /\ ledger'[n] = e /\ n \notin DOMAIN ledger
      BY <1>1, <1>3, <1>4, <2>2, Growing
    <3> HIDE DEF n
    <3>3. n \in EventsOf(c)'
      BY <3>1, <3>2 DEF EventsOf
    <3>4. ledger'[n].proofs = g.proofs
      BY <3>1, <3>2
    <3> QED
      BY <1>0, <3>3, <3>4 DEF Backed
  <2> QED
    BY <2>1, <2>2
<1>15. \A r \in accepted : Backed(r)'
  BY <1>1, <1>8, BackedGrows DEF Sound
<1>16. (\A r \in accepted : Backed(r))'
  <2>1. \A r \in accepted' : Backed(r)'
    BY <1>9, <1>10, <1>14, <1>15
  <2> QED
    BY <2>1
<1> QED
  BY <1>11, <1>13, <1>16 DEF EvidenceSound, Sound

LEMMA TestProofStep ==
    ASSUME EvidenceParameters, EvidenceSound, NEW w \in Shells, NEW p \in Paths, TestProof(w, p)
    PROVE  EvidenceSound'
<1>0. PICK u, a : u = cmd[w] /\ a = "copy"
  OBVIOUS
<1>1. EvidenceTyped
  BY DEF EvidenceSound
<1>2. u \in Commands /\ Fits(u) /\ u.at = "import" /\ u.op = "add" /\ p \in u.todo
  BY <1>0, <1>1 DEF EvidenceTyped, TestProof, Fits
<1>3. /\ run' = run /\ disturbed' = disturbed /\ ledger' = ledger
      /\ UNCHANGED <<version, attested, rec, proof, accepted>>
  BY DEF TestProof, runVars
<1>4. cmd' = [cmd EXCEPT ![w] = Looked(u, a, p)]
  BY <1>0 DEF TestProof, Looked
<1>5. a \in Stations
  BY <1>0 DEF Stations, Adding
<1>6. p \in Paths
  OBVIOUS
<1>7. PICK v \in Commands :
        /\ v = Looked(u, a, p)
        /\ v.at = a /\ v.op = u.op /\ v.queue = u.queue /\ v.todo = u.todo /\ v.file = p
  BY <1>2, <1>5, <1>6, Tested
<1>8. Fits(v)
  BY <1>0, <1>2, <1>7 DEF Fits, Adding
<1>9. Turns(w, v) /\ LineFits(v)
  BY <1>0, <1>4, <1>7, <1>8 DEF Turns, LineFits
<1>10. run' \in RunTypes \cup {None} /\ disturbed' \in BOOLEAN
  BY <1>1, <1>3 DEF EvidenceTyped
<1> QED
  BY <1>3, <1>9, <1>10, IdleStep

LEMMA CopyProofStep ==
    ASSUME EvidenceParameters, EvidenceSound, NEW w \in Shells, CopyProof(w)
    PROVE  EvidenceSound'
<1>0. PICK u, a, g, p : u = cmd[w] /\ a = "import" /\ g = Given(w) /\ p = u.file
  OBVIOUS
<1>1. EvidenceTyped
  BY DEF EvidenceSound
<1>2. /\ u \in Commands /\ Fits(u) /\ u.at = "copy" /\ u.op = "add" /\ p \in u.todo
      /\ u.todo \subseteq DOMAIN Head(u.queue).proofs /\ u.todo \subseteq Paths
  BY <1>0, <1>1 DEF EvidenceTyped, CopyProof, Fits, Adding, Commands
<1>3. g \in Records /\ g = Head(u.queue) /\ g.check \in Checks /\ g.proofs[p] \in Contents
  <2>1. g \in Records /\ g = Head(u.queue)
    BY <1>0, <1>1, <1>2, GivenIs DEF Given, Busy
  <2> QED
    BY <1>2, <2>1, RecordIs
<1>4. /\ run' = run /\ disturbed' = disturbed /\ ledger' = ledger
      /\ UNCHANGED <<version, attested, rec, accepted>>
  BY DEF CopyProof, runVars
<1>5. cmd' = [cmd EXCEPT ![w] = Left(u, a, u.todo \ {p})]
  BY <1>0 DEF CopyProof, Left
<1>6. a \in Stations /\ u.todo \ {p} \in SUBSET Paths
  BY <1>0, <1>2 DEF Stations, Adding
<1>7. PICK t : t = u.todo \ {p}
  OBVIOUS
<1>8. PICK v \in Commands :
        /\ v = Left(u, a, t)
        /\ v.at = a /\ v.op = u.op /\ v.queue = u.queue /\ v.todo = t
  BY <1>2, <1>6, <1>7, TakenUp
<1>9. Fits(v)
  BY <1>0, <1>2, <1>7, <1>8 DEF Fits, Adding
<1>10. Turns(w, v) /\ LineFits(v)
  BY <1>0, <1>5, <1>7, <1>8, <1>9 DEF Turns, LineFits
<1>11. proof' \in [Checks -> [Paths -> Contents \cup {None}]]
  <2>1. proof' = [proof EXCEPT ![g.check][p] = g.proofs[p]]
    BY <1>0 DEF CopyProof
  <2>2. proof \in [Checks -> [Paths -> Contents \cup {None}]]
    BY <1>1 DEF EvidenceTyped
  <2> QED
    BY <1>2, <1>3, <2>1, <2>2
<1>12. run' \in RunTypes \cup {None} /\ disturbed' \in BOOLEAN /\ rec' \in [Checks -> Records \cup {None}]
  BY <1>1, <1>4 DEF EvidenceTyped
<1> QED
  BY <1>4, <1>10, <1>11, <1>12, AsideStep

\* A file left half written
LEMMA BreaksOffStep ==
    ASSUME EvidenceSound, NEW w \in Shells,
           \/ \E x \in Contents \cup {None} : CopyFails(w, x)
           \/ \E r \in Records \cup {None} : WriteFails(w, r)
    PROVE  EvidenceSound'
<1>1. EvidenceTyped
  BY DEF EvidenceSound
<1>2. /\ Ends(w, 2) /\ run' = run /\ disturbed' = TRUE /\ ledger' = ledger
      /\ UNCHANGED <<version, attested, accepted>>
  BY DEF CopyFails, WriteFails, Raises, runVars
<1>3. PICK v : Turns(w, v) /\ v.at = "done"
  BY <1>1, <1>2, Ended DEF Turns
<1>4. LineFits(v)
  BY <1>3 DEF LineFits
<1>5. /\ rec \in [Checks -> Records \cup {None}]
      /\ proof \in [Checks -> [Paths -> Contents \cup {None}]]
  BY <1>1 DEF EvidenceTyped
<1>6. /\ rec' \in [Checks -> Records \cup {None}]
      /\ proof' \in [Checks -> [Paths -> Contents \cup {None}]]
  <2>1. ASSUME NEW x \in Contents \cup {None}, CopyFails(w, x)
        PROVE  rec' = rec /\ proof' \in [Checks -> [Paths -> Contents \cup {None}]]
    <3>1. rec' = rec /\ proof' = [proof EXCEPT ![Given(w).check][cmd[w].file] = x]
      BY <2>1 DEF CopyFails
    <3> QED
      BY <1>5, <3>1
  <2>2. ASSUME NEW r \in Records \cup {None}, WriteFails(w, r)
        PROVE  proof' = proof /\ rec' \in [Checks -> Records \cup {None}]
    <3>1. proof' = proof /\ rec' = [rec EXCEPT ![Given(w).check] = r]
      BY <2>2 DEF WriteFails
    <3> QED
      BY <1>5, <3>1
  <2> QED
    BY <1>5, <2>1, <2>2
<1>7. run' \in RunTypes \cup {None} /\ disturbed' \in BOOLEAN
  BY <1>1, <1>2 DEF EvidenceTyped
<1> QED
  BY <1>2, <1>3, <1>4, <1>6, <1>7, AsideStep

LEMMA WriteRecordStep ==
    ASSUME EvidenceParameters, EvidenceSound, NEW w \in Shells, WriteRecord(w)
    PROVE  EvidenceSound'
<1>0. PICK u, g, c, a : u = cmd[w] /\ g = Given(w) /\ c = g.check /\ a = "tail"
  OBVIOUS
<1>1. EvidenceTyped /\ Sound
  BY DEF EvidenceSound
<1>2. u \in Commands /\ Fits(u) /\ u.at = "import" /\ u.op = "add" /\ u.todo = {}
  BY <1>0, <1>1 DEF EvidenceTyped, WriteRecord, Fits
<1>3. g \in Records /\ g = Head(u.queue) /\ u.queue # <<>> /\ c \in Checks /\ g # None
  BY <1>0, <1>1, <1>2, GivenIs, RecordIs DEF Given, Busy, Fits
<1>4. /\ run' = run /\ version' = version /\ attested' = attested /\ proof' = proof
      /\ ledger' = ledger /\ accepted' = accepted /\ disturbed' = disturbed
      /\ rec' = [rec EXCEPT ![c] = g]
  BY <1>0 DEF WriteRecord, runVars
<1>5. a \in Stations
  BY <1>0 DEF Stations, Adding
<1>6. PICK v \in Commands :
        /\ v = [u EXCEPT !.at = a]
        /\ v.at = a /\ v.op = u.op /\ v.queue = u.queue /\ v.todo = u.todo
  BY <1>2, <1>5, Stationed
<1>7. cmd' = [cmd EXCEPT ![w] = v]
  BY <1>0, <1>6 DEF WriteRecord
<1>8. Turns(w, v)
  <2>1. Fits(v)
    BY <1>0, <1>2, <1>6 DEF Fits, Adding
  <2> QED
    BY <1>6, <1>7, <2>1 DEF Turns
<1>9. rec' \in [Checks -> Records \cup {None}]
  <2>1. rec \in [Checks -> Records \cup {None}]
    BY <1>1 DEF EvidenceTyped
  <2> QED
    BY <1>3, <1>4, <2>1
<1>10. LineFits(v)
  BY <1>0, <1>6 DEF LineFits
<1>11. /\ proof' \in [Checks -> [Paths -> Contents \cup {None}]]
       /\ run' \in RunTypes \cup {None} /\ disturbed' \in BOOLEAN
  BY <1>1, <1>4 DEF EvidenceTyped
<1> QED
  BY <1>4, <1>8, <1>9, <1>10, <1>11, AsideStep

\* What happens around the commands writes no line and accepts no record.
LEMMA AroundStep ==
    ASSUME EvidenceSound, Around
    PROVE  EvidenceSound'
<1>1. EvidenceTyped /\ Sound
  BY DEF EvidenceSound
<1>2. cmd' = cmd /\ ledger' = ledger /\ accepted' = accepted /\ run' = run
  BY DEF Around, Attest, Upgrade, AlterRecord, AlterProof, runVars
<1>4. EvidenceTyped'
  <2>1. version' \in Versions
    BY <1>1 DEF Around, Attest, Upgrade, AlterRecord, AlterProof, runVars, EvidenceTyped
  <2>2. attested' \in SUBSET Records
    BY <1>1 DEF Around, Attest, Upgrade, AlterRecord, AlterProof, runVars, EvidenceTyped
  <2>3. rec' \in [Checks -> Records \cup {None}]
    BY <1>1 DEF Around, Attest, Upgrade, AlterRecord, AlterProof, runVars, EvidenceTyped
  <2>4. proof' \in [Checks -> [Paths -> Contents \cup {None}]]
    BY <1>1 DEF Around, Attest, Upgrade, AlterRecord, AlterProof, runVars, EvidenceTyped
  <2>5. disturbed' \in BOOLEAN
    BY <1>1 DEF Around, Attest, Upgrade, AlterRecord, AlterProof, runVars, EvidenceTyped
  <2>6. (\A w \in Shells : Fits(cmd[w]))'
    BY <1>1, <1>2 DEF EvidenceTyped, Fits
  <2>7. (cmd \in [Shells -> Commands])'
    BY <1>1, <1>2 DEF EvidenceTyped, Commands, Lines, Stations, Adding, CommandOps, EventKinds, Bundles
  <2>8. (ledger \in Seq(Lines \cup {Torn, Spliced}))'
    BY <1>1, <1>2 DEF EvidenceTyped, Lines, EventKinds, Bundles, Torn, Spliced
  <2> QED
    BY <1>1, <1>2, <2>1, <2>2, <2>3, <2>4, <2>5, <2>6, <2>7, <2>8 DEF EvidenceTyped
<1>6. (\A w \in Shells : LineFits(cmd[w]))' /\ (\A r \in accepted : Backed(r))'
  BY <1>1, <1>2 DEF Sound, LineFits, Backed, Twice, EventsOf
<1> QED
  BY <1>4, <1>6 DEF EvidenceSound, Sound

LEMMA EvidenceStarts ==
    ASSUME EvidenceParameters, EvidenceInit
    PROVE  EvidenceSound
<1>0. NoCommand \in Commands /\ Fits(NoCommand) /\ NoCommand.at = "done"
  <2>1. "none" \in CommandOps /\ 0 \in Nat
    BY DEF CommandOps
  <2> QED
    BY <2>1, DoneIs DEF NoCommand
<1>1. /\ cmd \in [Shells -> Commands] /\ \A w \in Shells : cmd[w] = NoCommand
  BY <1>0 DEF EvidenceInit
<1>2. ledger = <<>> /\ ledger \in Seq(Lines \cup {Torn, Spliced}) /\ DOMAIN ledger = {}
  BY DEF EvidenceInit
<1>3. \A w \in Shells : Fits(cmd[w]) /\ cmd[w].at = "done"
  BY <1>0, <1>1
<1>4. EvidenceTyped
  <2>1. run \in RunTypes \cup {None} /\ version \in Versions /\ attested \in SUBSET Records
    BY DEF EvidenceInit
  <2>2. /\ rec \in [Checks -> Records \cup {None}]
        /\ proof \in [Checks -> [Paths -> Contents \cup {None}]]
    BY DEF EvidenceInit
  <2>3. accepted \in SUBSET Records /\ disturbed \in BOOLEAN
    BY DEF EvidenceInit
  <2> QED
    BY <1>1, <1>2, <1>3, <2>1, <2>2, <2>3 DEF EvidenceTyped
<1>6. \A w \in Shells : LineFits(cmd[w])
  BY <1>3 DEF LineFits
<1>7. accepted = {}
  BY DEF EvidenceInit
<1> QED
  BY <1>4, <1>6, <1>7 DEF EvidenceSound, Sound

LEMMA EvidenceSteps ==
    ASSUME EvidenceParameters, EvidenceSound, [EvidenceNext]_evidenceVars
    PROVE  EvidenceSound'
<1>1. CASE UNCHANGED evidenceVars
  <2>1. EvidenceTyped'
    BY <1>1 DEF EvidenceSound, EvidenceTyped, evidenceVars, Fits, Commands, Lines, Stations,
                Adding, CommandOps, EventKinds, Bundles, Torn, Spliced
  <2>2. Sound'
    <3>1. Sound /\ cmd' = cmd /\ ledger' = ledger /\ accepted' = accepted /\ rec' = rec /\ proof' = proof
      BY <1>1 DEF EvidenceSound, evidenceVars
    <3>4. (\A w \in Shells : LineFits(cmd[w]))' /\ (\A r \in accepted : Backed(r))'
      BY <3>1 DEF Sound, LineFits, Backed, Twice, EventsOf
    <3> QED
      BY <3>4 DEF Sound
  <2> QED
    BY <2>1, <2>2 DEF EvidenceSound
<1>2. CASE \E w \in Shells : Starts(w)
  BY <1>2, PrepareRunStep, StartAddStep, StartDecisionStep, ValidateStep DEF Starts
<1>3. CASE \E w \in Shells : Proceeds(w)
  BY <1>3, CheckRecordStep, TestProofStep, CopyProofStep, ImportFailsStep, WriteRecordStep,
     BreaksOffStep, DecideStep, RenderStep, ReadTailStep, AppendEventStep DEF Proceeds
<1>4. CASE \E w \in Shells : Kill(w)
  BY <1>4, KillStep
<1>5. CASE Around
  BY <1>5, AroundStep
<1> QED
  BY <1>1, <1>2, <1>3, <1>4, <1>5 DEF EvidenceNext

LEMMA EvidenceInvariance ==
    ASSUME EvidenceParameters
    PROVE  EvidenceSpec => []EvidenceSound
<1>1. EvidenceInit => EvidenceSound
  BY EvidenceStarts
<1>2. EvidenceSound /\ [EvidenceNext]_evidenceVars => EvidenceSound'
  BY EvidenceSteps
<1> QED
  BY <1>1, <1>2, PTL DEF EvidenceSpec

\* With a GO there is one event of the check, and it backs the record.
LEMMA AcceptedDecided ==
    ASSUME EvidenceParameters, EvidenceSound
    PROVE  AcceptedIsDecided
<1> SUFFICES ASSUME run # None, Go, NEW r \in accepted
             PROVE  rec[r.check].proofs = r.proofs
  BY DEF AcceptedIsDecided
<1>0. PICK c : c = r.check
  OBVIOUS
<1>1. EvidenceTyped /\ Backed(r)
  BY DEF EvidenceSound, Sound
<1>2. c \in Checks
  BY <1>0, <1>1, RecordIs DEF EvidenceTyped
<1>3. LedgerErrors = {} /\ EvidenceErrors = {} /\ StatusOf(c) = "PASS"
  BY <1>2 DEF Go, IntegrityErrors
<1>4. ASSUME NEW i \in DOMAIN ledger, ledger[i].kind = "torn" PROVE FALSE
  <2>1. ledger # <<>> /\ BrokenLine(i)
    BY <1>4 DEF BrokenLine
  <2>2. <<"line", i>> \in LedgerErrors
    BY <2>1 DEF LedgerErrors
  <2> QED
    BY <1>3, <2>2
<1>5. ~Twice(c)
  <2> SUFFICES ASSUME Twice(c) PROVE FALSE
    OBVIOUS
  <2>1. <<"duplicate", c>> \in EvidenceErrors
    BY <1>2 DEF EvidenceErrors
  <2> QED
    BY <1>3, <2>1
<1>6. PICK i \in EventsOf(c) : ledger[i].proofs = r.proofs
  BY <1>0, <1>1, <1>4, <1>5 DEF Backed
<1>7. Event(c) = ledger[i]
  <2>1. \A j \in EventsOf(c) : j = i
    BY <1>5, <1>6 DEF Twice
  <2>2. i <= i
    BY <1>1, <1>6 DEF EventsOf, EvidenceTyped
  <2>3. (CHOOSE k \in EventsOf(c) : \A j \in EventsOf(c) : j <= k) \in EventsOf(c)
    BY <1>6, <2>1, <2>2
  <2> QED
    BY <2>1, <2>3 DEF Event
<1>8. c \in Found
  BY <1>3 DEF StatusOf
<1>9. Intact(c)
  <2> SUFFICES ASSUME ~Intact(c) PROVE FALSE
    OBVIOUS
  <2>1. <<"altered", c>> \in EvidenceErrors
    BY <1>2, <1>8 DEF EvidenceErrors
  <2> QED
    BY <1>3, <2>1
<1>10. ledger[i].proofs = rec[c].proofs
  BY <1>7, <1>9 DEF Intact
<1> QED
  BY <1>0, <1>6, <1>10

\* Every variable keeps to its values, and a command has in hand what belongs
\* to where it is, however many commands of phase6ctl.py run at once.
THEOREM EvidenceTypeCorrect ==
    ASSUME EvidenceParameters
    PROVE  EvidenceSpec => []EvidenceTyped
<1>1. EvidenceSound => EvidenceTyped
  BY DEF EvidenceSound
<1> QED
  BY <1>1, EvidenceInvariance, PTL

\* A GO is decided on the proofs of every record that add-evidence has printed
\* PASS for: between its checks and its line of the ledger other commands may
\* do what they like, but not replace them unseen by verify_ledger and
\* reconcile_evidence (phase6ctl.py).
THEOREM AcceptedAreDecided ==
    ASSUME EvidenceParameters
    PROVE  EvidenceSpec => []AcceptedIsDecided
<1>1. EvidenceSound => AcceptedIsDecided
  BY AcceptedDecided
<1> QED
  BY <1>1, EvidenceInvariance, PTL

\* No step takes a line away or changes one, but for the end of a torn one.
LEMMA LinesStand ==
    ASSUME EvidenceSound, [EvidenceNext]_evidenceVars
    PROVE  Grows
<1>1. EvidenceTyped
  BY DEF EvidenceSound
<1>2. ASSUME NEW w \in Shells, AppendEvent(w) PROVE Grows
  <2>1. cmd[w].line \in Lines
    BY <1>1, <1>2 DEF AppendEvent, EvidenceTyped, Fits
  <2>2. ledger' = IF TornTail THEN [ledger EXCEPT ![Len(ledger)] = Spliced] ELSE Append(ledger, cmd[w].line)
    BY <1>2 DEF AppendEvent
  <2> QED
    BY <1>1, <2>1, <2>2, Growing, Joining
<1>3. ASSUME NEW w \in Shells, Kill(w) PROVE Grows
  <2>1. ledger' = ledger \/ ledger' = Append(ledger, Torn)
    BY <1>3 DEF Kill
  <2> QED
    BY <1>1, <2>1, Growing, Standing
<1>4. ASSUME NEW w \in Shells, Starts(w) PROVE ledger' = ledger
  BY <1>4 DEF Starts, PrepareRun, StartAdd, StartDecision, Validate
<1>5. ASSUME NEW w \in Shells, Proceeds(w), ~AppendEvent(w) PROVE ledger' = ledger
  BY <1>5 DEF Proceeds, CheckRecord, TestProof, CopyProof, ImportFails, CopyFails,
               WriteRecord, WriteFails, Decide, Render, ReadTail
<1>6. Around => ledger' = ledger
  BY DEF Around, Attest, Upgrade, AlterRecord, AlterProof
<1>7. UNCHANGED evidenceVars => ledger' = ledger
  BY DEF evidenceVars
<1> QED
  BY <1>2, <1>3, <1>4, <1>5, <1>6, <1>7, Standing DEF EvidenceNext

\* append_event opens the ledger to append: a line verify_ledger refuses stays
\* where it is and stays refused.
THEOREM BrokenForGood ==
    ASSUME EvidenceParameters
    PROVE  EvidenceSpec => BreaksStay
<1>1. EvidenceSound /\ [EvidenceNext]_evidenceVars =>
        (\A i \in DOMAIN ledger : BrokenLine(i) => (i \in DOMAIN ledger' /\ BrokenLine(i)'))
  <2> SUFFICES ASSUME EvidenceSound, [EvidenceNext]_evidenceVars, NEW i \in DOMAIN ledger,
                      BrokenLine(i)
               PROVE  i \in DOMAIN ledger' /\ BrokenLine(i)'
    OBVIOUS
  <2>1. Grows
    BY LinesStand
  <2> QED
    BY <2>1 DEF Grows, Stays, BrokenLine
<1> QED
  BY <1>1, EvidenceInvariance, PTL DEF EvidenceSpec, BreaksStay

---------------------------------------------------------------------------
\* The argument for UndisturbedRunIsIntact: what an undisturbed run looks like
\* in the middle of its commands.

Untouched(c) == EventsOf(c) = {} /\ rec[c] = None /\ \A p \in Paths : proof[c][p] = None

Filed(c, r, got) == \A p \in Paths : proof[c][p] = IF p \in got THEN r.proofs[p] ELSE None

Taken(c) == {r \in accepted : r.check = c}

Recorded(c) ==
    \E i \in EventsOf(c), r \in Records :
        /\ EventsOf(c) = {i} /\ rec[c] = r /\ Taken(c) \subseteq {r}
        /\ ledger[i].record = r /\ ledger[i].proofs = r.proofs
        /\ Valid(c, r) /\ Filed(c, r, DOMAIN r.proofs)

Importing(v) == v.at \in {"import", "copy"}

OnTheWay(v, c) ==
    /\ EventsOf(c) = {} /\ Valid(c, Head(v.queue))
    /\ rec[c] = IF Importing(v) THEN None ELSE Head(v.queue)
    /\ Filed(c, Head(v.queue), Got(v))

InOrder(c) ==
    \/ \E w \in Shells : UnderWay(cmd[w], c) /\ OnTheWay(cmd[w], c)
    \/ (\A w \in Shells : ~UnderWay(cmd[w], c)) /\ (Untouched(c) \/ Recorded(c))

Initialising(v) == v.at # "done" /\ v.op = "init"

LineReady(v) ==
    v.at = "append" =>
        /\ v.line.seq = Len(ledger) + 1 /\ v.line.after = Len(ledger)
        /\ v.op = "init" => v.line.kind = "run_initialized"
        /\ v.op = "add" => v.line.record = Head(v.queue)

Chained ==
    /\ \A i \in DOMAIN ledger : ~BrokenLine(i)
    /\ ledger # <<>> => ledger[1].kind = "run_initialized"
    /\ (run # None /\ ledger = <<>>) => \E w \in Shells : Initialising(cmd[w])
    /\ \A w \in Shells : Initialising(cmd[w]) => ledger = <<>>

Orderly ==
    /\ \A w, v \in Shells : Busy(w) /\ Busy(v) => w = v
    /\ run = None => ledger = <<>> /\ \A w \in Shells : ~Busy(w)
    /\ run # None => version = run.version
    /\ Chained
    /\ \A w \in Shells : LineReady(cmd[w])

Whole == ~disturbed => Orderly /\ \A c \in Checks : InOrder(c)

LEMMA UnderWayIsBusy ==
    ASSUME NEW w \in Shells, NEW c, UnderWay(cmd[w], c)
    PROVE  Busy(w)
BY DEF UnderWay, Busy, Adding

\* A step that leaves the ledger alone
LEMMA OrderlyKept ==
    ASSUME EvidenceTyped, Orderly, NEW w \in Shells, NEW v, Turns(w, v),
           run' = run, version' = version, ledger' = ledger,
           v.at # "done" => run # None /\ (Busy(w) \/ ~Others(w)),
           Initialising(v) <=> Initialising(cmd[w]), LineReady(v)
    PROVE  Orderly'
<1>1. cmd'[w] = v /\ \A u \in Shells \ {w} : cmd'[u] = cmd[u]
  BY TypedTurn
<1>2. \A u, x \in Shells : Busy(u)' /\ Busy(x)' => u = x
  BY <1>1 DEF Orderly, Busy, Others
<1>3. \A u \in Shells : Initialising(cmd'[u]) <=> Initialising(cmd[u])
  BY <1>1
<1>4. Chained'
  <2>1. \A i \in DOMAIN ledger : ~BrokenLine(i)'
    BY DEF Orderly, Chained, BrokenLine
  <2>2. ledger # <<>> => ledger[1].kind = "run_initialized"
    BY DEF Orderly, Chained
  <2>3. (run # None /\ ledger = <<>>) => \E u \in Shells : Initialising(cmd'[u])
    BY <1>3 DEF Orderly, Chained
  <2>4. \A u \in Shells : Initialising(cmd'[u]) => ledger = <<>>
    BY <1>3 DEF Orderly, Chained
  <2>5. /\ (ledger # <<>> => ledger[1].kind = "run_initialized")'
        /\ ((run # None /\ ledger = <<>>) => \E u \in Shells : Initialising(cmd[u]))'
        /\ (\A u \in Shells : Initialising(cmd[u]) => ledger = <<>>)'
    BY <2>2, <2>3, <2>4 DEF Initialising
  <2>6. (\A i \in DOMAIN ledger : ~BrokenLine(i))'
    BY <2>1
  <2> QED
    BY <2>5, <2>6 DEF Chained
<1>5. (\A u \in Shells : LineReady(cmd[u]))'
  <2>1. \A u \in Shells : LineReady(cmd'[u])
    BY <1>1 DEF Orderly
  <2> QED
    BY <2>1 DEF LineReady
<1>6. (run = None => ledger = <<>> /\ \A u \in Shells : ~Busy(u))'
  <2>1. run = None => v.at = "done" /\ ledger = <<>> /\ \A u \in Shells : ~Busy(u)
    BY DEF Orderly
  <2>2. run = None => \A u \in Shells : ~Busy(u)'
    BY <1>1, <2>1 DEF Busy
  <2> QED
    BY <2>1, <2>2
<1>7. (run # None => version = run.version)'
  BY DEF Orderly
<1> QED
  BY <1>2, <1>4, <1>5, <1>6, <1>7 DEF Orderly

\* What shell w has under way may begin and may be given up, as long as
\* nothing has been imported.
Passes(u, v, c) ==
    \/ /\ UnderWay(u, c) /\ UnderWay(v, c) /\ v.queue = u.queue /\ Got(v) = Got(u)
       /\ Importing(v) <=> Importing(u)
    \/ ~UnderWay(u, c) /\ ~UnderWay(v, c)
    \/ UnderWay(u, c) /\ ~UnderWay(v, c) /\ Importing(u) /\ Got(u) = {}
    \/ /\ ~UnderWay(u, c) /\ UnderWay(v, c) /\ Importing(v) /\ Got(v) = {}
       /\ Valid(c, Head(v.queue)) /\ Untouched(c)

LEMMA InOrderKept ==
    ASSUME EvidenceTyped, Orderly, NEW c \in Checks, InOrder(c),
           NEW w \in Shells, NEW v, Turns(w, v), Passes(cmd[w], v, c), run' = run,
           attested \subseteq attested',
           rec'[c] = rec[c], proof'[c] = proof[c], Taken(c)' = Taken(c),
           EventsOf(c)' = EventsOf(c), \A i \in EventsOf(c) : ledger'[i] = ledger[i]
    PROVE  InOrder(c)'
<1>0. PICK u : u = cmd[w]
  OBVIOUS
<1>1. cmd'[w] = v /\ \A x \in Shells \ {w} : cmd'[x] = cmd[x]
  BY TypedTurn
<1>2. \A r : Valid(c, r) => Valid(c, r)'
  BY DEF Valid, Signed
<1>3. Untouched(c) => Untouched(c)'
  BY DEF Untouched
<1>4. \A r, got : Filed(c, r, got) => Filed(c, r, got)'
  BY DEF Filed
<1>5. Recorded(c) => Recorded(c)'
  <2> SUFFICES ASSUME Recorded(c) PROVE Recorded(c)'
    OBVIOUS
  <2>1. PICK i \in EventsOf(c), r \in Records :
           /\ EventsOf(c) = {i} /\ rec[c] = r /\ Taken(c) \subseteq {r}
           /\ ledger[i].record = r /\ ledger[i].proofs = r.proofs
           /\ Valid(c, r) /\ Filed(c, r, DOMAIN r.proofs)
    BY DEF Recorded
  <2>2. /\ i \in EventsOf(c)' /\ EventsOf(c)' = {i} /\ rec'[c] = r /\ Taken(c)' \subseteq {r}
        /\ ledger'[i].record = r /\ ledger'[i].proofs = r.proofs
        /\ Valid(c, r)' /\ Filed(c, r, DOMAIN r.proofs)'
    BY <1>2, <1>4, <2>1
  <2> QED
    BY <2>2 DEF Recorded
<1>6. ASSUME NEW x, NEW y, x.queue = y.queue, Got(x) = Got(y), Importing(x) <=> Importing(y),
             OnTheWay(x, c)
      PROVE  OnTheWay(y, c)'
  <2>1. Valid(c, Head(y.queue))' /\ Filed(c, Head(y.queue), Got(y))'
    BY <1>2, <1>4, <1>6 DEF OnTheWay
  <2> QED
    BY <1>6, <2>1 DEF OnTheWay, Got, Importing
<1>7. CASE \E x \in Shells \ {w} : UnderWay(cmd[x], c) /\ OnTheWay(cmd[x], c)
  <2>0. PICK x \in Shells \ {w} : UnderWay(cmd[x], c) /\ OnTheWay(cmd[x], c)
    BY <1>7
  <2>1. PICK y : y = cmd[x] /\ UnderWay(y, c) /\ OnTheWay(y, c)
    BY <2>0
  <2>2. OnTheWay(y, c)'
    BY <1>6, <2>1
  <2>3. y = cmd'[x]
    BY <1>1, <2>1
  <2>4. UnderWay(cmd'[x], c) /\ OnTheWay(y, c)'
    BY <2>1, <2>2, <2>3
  <2>5. (UnderWay(cmd[x], c) /\ OnTheWay(cmd[x], c))'
    BY <2>3, <2>4 DEF UnderWay, OnTheWay, Got, Filed, Importing
  <2> QED
    BY <2>5 DEF InOrder
<1>8. CASE UnderWay(u, c) /\ OnTheWay(u, c) /\ UnderWay(v, c)
  <2>1. v.queue = u.queue /\ Got(v) = Got(u) /\ (Importing(v) <=> Importing(u))
    BY <1>0, <1>8 DEF Passes
  <2>2. OnTheWay(v, c)'
    BY <1>6, <1>8, <2>1
  <2>3. (UnderWay(cmd[w], c) /\ OnTheWay(cmd[w], c))'
    BY <1>1, <1>8, <2>2 DEF UnderWay, OnTheWay, Got, Filed, Importing
  <2> QED
    BY <2>3 DEF InOrder
<1>9. CASE UnderWay(u, c) /\ OnTheWay(u, c) /\ ~UnderWay(v, c)
  <2>1. Importing(u) /\ Got(u) = {}
    BY <1>0, <1>9 DEF Passes
  <2>2. Untouched(c)
    BY <1>9, <2>1 DEF OnTheWay, Untouched, Filed
  <2>3. \A x \in Shells : ~UnderWay(cmd'[x], c)
    BY <1>0, <1>1, <1>9, UnderWayIsBusy DEF Orderly
  <2>4. (\A x \in Shells : ~UnderWay(cmd[x], c))'
    BY <2>3 DEF UnderWay
  <2> QED
    BY <1>3, <2>2, <2>4 DEF InOrder
<1>10. CASE (\A x \in Shells : ~UnderWay(cmd[x], c)) /\ (Untouched(c) \/ Recorded(c)) /\ ~UnderWay(v, c)
  <2>1. \A x \in Shells : ~UnderWay(cmd'[x], c)
    BY <1>1, <1>10
  <2>2. (\A x \in Shells : ~UnderWay(cmd[x], c))'
    BY <2>1 DEF UnderWay
  <2> QED
    BY <1>3, <1>5, <1>10, <2>2 DEF InOrder
<1>11. CASE (\A x \in Shells : ~UnderWay(cmd[x], c)) /\ UnderWay(v, c)
  <2>1. Importing(v) /\ Got(v) = {} /\ Valid(c, Head(v.queue)) /\ Untouched(c)
    BY <1>0, <1>11 DEF Passes
  <2>2. OnTheWay(v, c)
    BY <2>1 DEF OnTheWay, Untouched, Filed
  <2>3. OnTheWay(v, c)'
    BY <1>6, <2>2
  <2>4. (UnderWay(cmd[w], c) /\ OnTheWay(cmd[w], c))'
    BY <1>1, <1>11, <2>3 DEF UnderWay, OnTheWay, Got, Filed, Importing
  <2> QED
    BY <2>4 DEF InOrder
<1> QED
  BY <1>0, <1>7, <1>8, <1>9, <1>10, <1>11 DEF InOrder

\* A command turns, and no file and no line changes.
LEMMA WholeTurn ==
    ASSUME EvidenceTyped, Whole, ~disturbed, NEW w \in Shells, NEW v, Turns(w, v),
           run' = run, version' = version, attested' = attested, ledger' = ledger,
           rec' = rec, proof' = proof, accepted' = accepted,
           v.at # "done" => run # None /\ (Busy(w) \/ ~Others(w)),
           Initialising(v) <=> Initialising(cmd[w]), LineReady(v),
           \A c \in Checks : Passes(cmd[w], v, c)
    PROVE  Whole'
<1>1. Orderly /\ \A c \in Checks : InOrder(c)
  BY DEF Whole
<1>2. Orderly'
  BY <1>1, OrderlyKept
<1>3. \A c \in Checks : InOrder(c)'
  <2> SUFFICES ASSUME NEW c \in Checks PROVE InOrder(c)'
    OBVIOUS
  <2>1. EventsOf(c)' = EventsOf(c) /\ Taken(c)' = Taken(c)
    BY DEF EventsOf, Taken
  <2> QED
    BY <1>1, <2>1, InOrderKept
<1> QED
  BY <1>2, <1>3 DEF Whole

LEMMA StartsWhole ==
    ASSUME EvidenceParameters, EvidenceTyped, Whole, ~disturbed', NEW w \in Shells, Starts(w)
    PROVE  Whole'
<1>1. ASSUME NEW v, Turns(w, v), ~Busy(w), run # None, v.at \in {"done", "check", "evaluate"},
             v.op # "init", ~disturbed, v.at # "done" => ~Others(w),
             UNCHANGED <<runVars, rec, proof, ledger, accepted>>
      PROVE  Whole'
  <2>2. ~Initialising(v) /\ ~Initialising(cmd[w]) /\ LineReady(v)
    BY <1>1 DEF Initialising, LineReady, Busy
  <2>3. \A c \in Checks : Passes(cmd[w], v, c)
    BY <1>1, UnderWayIsBusy DEF Passes, UnderWay, Adding
  <2>4. /\ run' = run /\ version' = version /\ attested' = attested /\ ledger' = ledger
        /\ rec' = rec /\ proof' = proof /\ accepted' = accepted
    BY <1>1 DEF runVars
  <2> QED
    BY <1>1, <2>2, <2>3, <2>4, WholeTurn
<1>2. ASSUME NEW queue \in Batches, StartAdd(w, queue) PROVE Whole'
  <2>1. queue \in Seq(Records) /\ queue # <<>>
    BY BatchIs
  <2>2. Begin(w, "add", "check", queue) /\ run # None /\ UNCHANGED <<runVars, rec, proof, ledger, accepted>>
    BY <1>2 DEF StartAdd
  <2>3. /\ ~Busy(w) /\ disturbed' = (disturbed \/ Others(w))
        /\ \E v \in Commands : cmd' = [cmd EXCEPT ![w] = v] /\ Fits(v) /\ v.at = "check" /\ v.op = "add"
    BY <2>1, <2>2, Begun
  <2>4. PICK v : Turns(w, v) /\ v.at = "check" /\ v.op = "add"
    BY <2>3 DEF Turns
  <2>5. ~disturbed /\ ~Others(w)
    BY <2>3, Zenon
  <2> QED
    BY <1>1, <2>2, <2>3, <2>4, <2>5
<1>3. ASSUME NEW op \in {"derive", "report"}, StartDecision(w, op) PROVE Whole'
  <2>1. PICK q : q = <<>>
    OBVIOUS
  <2>2. q \in Seq(Records) /\ Begin(w, op, "evaluate", q) /\ run # None
    BY <1>3, <2>1, NothingQueued DEF StartDecision
  <2>3. /\ ~Busy(w) /\ disturbed' = (disturbed \/ Others(w))
        /\ \E v \in Commands : cmd' = [cmd EXCEPT ![w] = v] /\ Fits(v) /\ v.at = "evaluate" /\ v.op = op
    BY <2>2, Begun
  <2>4. PICK v : Turns(w, v) /\ v.at = "evaluate" /\ v.op = op
    BY <2>3 DEF Turns
  <2>5. UNCHANGED <<runVars, rec, proof, ledger, accepted>>
    BY <1>3 DEF StartDecision
  <2>6. ~disturbed /\ ~Others(w)
    BY <2>3, Zenon
  <2> QED
    BY <1>1, <2>2, <2>3, <2>4, <2>5, <2>6
<1>4. ASSUME NEW allow \in BOOLEAN, Validate(w, allow) PROVE Whole'
  <2>1. PICK x \in Nat : cmd' = [cmd EXCEPT ![w] = Command("validate", "done", <<>>, x)]
    BY <1>4 DEF Validate
  <2>2. "validate" \in CommandOps
    BY DEF CommandOps
  <2>3. PICK v : Turns(w, v) /\ v.at = "done" /\ v.op = "validate"
    BY <2>1, <2>2, DoneIs DEF Turns
  <2>4. ~Busy(w) /\ run # None /\ ~disturbed /\ UNCHANGED <<runVars, rec, proof, ledger, accepted>>
    BY <1>4 DEF Validate
  <2> QED
    BY <1>1, <2>3, <2>4
<1>5. ASSUME NEW staging \in BOOLEAN, NEW live \in BOOLEAN, PrepareRun(w, staging, live)
      PROVE  Whole'
  <2>0. PICK q : q = <<>>
    OBVIOUS
  <2>1. /\ run = None /\ Begin(w, "init", "tail", q) /\ q \in Seq(Records)
        /\ run' = [version |-> version, staging |-> staging, live |-> live]
        /\ UNCHANGED <<version, attested, rec, proof, ledger, accepted>>
    BY <1>5, <2>0, NothingQueued DEF PrepareRun
  <2>2. /\ ~Busy(w) /\ disturbed' = (disturbed \/ Others(w))
        /\ \E v \in Commands : cmd' = [cmd EXCEPT ![w] = v] /\ Fits(v) /\ v.at = "tail" /\ v.op = "init"
    BY <2>1, Begun
  <2>3. PICK v : Turns(w, v) /\ v.at = "tail" /\ v.op = "init"
    BY <2>2 DEF Turns
  <2>4. Orderly /\ \A c \in Checks : InOrder(c)
    BY <2>2 DEF Whole
  <2>5. ledger = <<>> /\ (\A u \in Shells : ~Busy(u)) /\ DOMAIN ledger = {}
    BY <2>1, <2>4 DEF Orderly
  <2>6. cmd'[w] = v /\ \A u \in Shells \ {w} : cmd'[u] = cmd[u]
    BY <2>3, TypedTurn
  <2>7. \A u \in Shells : cmd'[u].at # "append" /\ (u # w => cmd'[u].at = "done")
    BY <2>3, <2>5, <2>6 DEF Busy
  <2>8. run' # None /\ version' = run'.version
    <3>1. run' \in RunTypes
      BY <2>1 DEF EvidenceTyped, RunTypes
    <3>2. None \notin RunTypes
      BY DEF EvidenceParameters
    <3>3. run'.version = version
      BY <2>1
    <3> QED
      BY <2>1, <3>1, <3>2, <3>3
  <2>9. Orderly'
    <3>1. \A u, x \in Shells : Busy(u)' /\ Busy(x)' => u = x
      BY <2>7 DEF Busy
    <3>2. Initialising(cmd'[w])
      BY <2>3, <2>6 DEF Initialising
    <3>3. Chained'
      <4>1. ledger' = <<>> /\ DOMAIN ledger' = {}
        BY <2>1, <2>5
      <4>2. (\E u \in Shells : Initialising(cmd[u]))'
        BY <3>2 DEF Initialising
      <4> QED
        BY <4>1, <4>2 DEF Chained
    <3>4. (\A u \in Shells : LineReady(cmd[u]))'
      BY <2>7 DEF LineReady
    <3> QED
      BY <2>8, <3>1, <3>3, <3>4 DEF Orderly
  <2>10. \A c \in Checks : InOrder(c)'
    <3> SUFFICES ASSUME NEW c \in Checks PROVE InOrder(c)'
      OBVIOUS
    <3>1. Untouched(c)
      BY <2>4, <2>5, UnderWayIsBusy DEF InOrder, Recorded, EventsOf
    <3>2. Untouched(c)'
      BY <2>1, <3>1 DEF Untouched, EventsOf
    <3>3. \A u \in Shells : ~UnderWay(cmd'[u], c)
      BY <2>3, <2>6, <2>7 DEF UnderWay, Adding
    <3>4. (\A u \in Shells : ~UnderWay(cmd[u], c))'
      BY <3>3 DEF UnderWay
    <3> QED
      BY <3>2, <3>4 DEF InOrder
  <2> QED
    BY <2>9, <2>10 DEF Whole
<1> QED
  BY <1>2, <1>3, <1>4, <1>5 DEF Starts

\* A command that ends, or goes on to the next record, having nothing in hand
LEMMA EndsWhole ==
    ASSUME EvidenceTyped, Whole, ~disturbed, NEW w \in Shells, NEW v, Turns(w, v),
           Busy(w), ~Initialising(cmd[w]), v.at # "done" => v.op # "init",
           v.at \in {"done", "check", "render", "tail"}, v.op = "add" => v.at # "tail",
           \A c \in Checks : UnderWay(cmd[w], c) => Importing(cmd[w]) /\ Got(cmd[w]) = {},
           UNCHANGED <<runVars, rec, proof, ledger, accepted>>
    PROVE  Whole'
<1>1. ~Initialising(v) /\ LineReady(v)
  BY DEF Initialising, LineReady
<1>2. \A c \in Checks : Passes(cmd[w], v, c)
  BY DEF Passes, UnderWay, Adding
<1>3. run # None
  BY DEF Whole, Orderly
<1>4. /\ run' = run /\ version' = version /\ attested' = attested /\ ledger' = ledger
      /\ rec' = rec /\ proof' = proof /\ accepted' = accepted
  BY DEF runVars
<1> QED
  BY <1>1, <1>2, <1>3, <1>4, WholeTurn

LEMMA DecisionsWhole ==
    ASSUME EvidenceTyped, Whole, ~disturbed', NEW w \in Shells, Decide(w) \/ Render(w)
    PROVE  Whole'
<1>0. PICK u, a, x : u = cmd[w] /\ a = (IF cmd[w].op = "report" THEN "render" ELSE "tail")
                     /\ x = IF Go THEN 0 ELSE 3
  OBVIOUS
<1>1. u \in Commands /\ Fits(u) /\ u.op \in {"derive", "report"} /\ u.at \in {"evaluate", "render"}
  BY <1>0 DEF EvidenceTyped, Decide, Render, Fits
<1>2. a \in {"render", "tail"} /\ a \in Stations /\ x \in Nat
  BY <1>0 DEF Stations, Adding
<1>3. PICK v : Turns(w, v) /\ v.at \in {"render", "tail"} /\ v.op = u.op
  <2>1. CASE Decide(w)
    <3>1. cmd' = [cmd EXCEPT ![w] = [u EXCEPT !.at = a, !.exit = x]]
      BY <1>0, <2>1 DEF Decide
    <3>2. PICK v \in Commands :
            /\ v = [u EXCEPT !.at = a, !.exit = x]
            /\ v.at = a /\ v.op = u.op /\ v.queue = u.queue /\ v.todo = u.todo
      BY <1>1, <1>2, Counted
    <3>3. Fits(v)
      BY <1>1, <1>2, <3>2 DEF Fits
    <3>4. Turns(w, v)
      BY <3>1, <3>2, <3>3 DEF Turns
    <3> QED
      BY <1>2, <3>2, <3>4
  <2>2. CASE Render(w)
    <3>0. PICK b : b = "tail"
      OBVIOUS
    <3>1. cmd' = [cmd EXCEPT ![w] = [u EXCEPT !.at = b]]
      BY <1>0, <2>2, <3>0 DEF Render
    <3>2. b \in Stations
      BY <3>0 DEF Stations, Adding
    <3>3. PICK v \in Commands :
            /\ v = [u EXCEPT !.at = b]
            /\ v.at = b /\ v.op = u.op /\ v.queue = u.queue /\ v.todo = u.todo
      BY <1>1, <3>2, Stationed
    <3>4. Fits(v)
      BY <1>1, <3>0, <3>3 DEF Fits
    <3>5. Turns(w, v)
      BY <3>1, <3>3, <3>4 DEF Turns
    <3> QED
      BY <3>0, <3>3, <3>5
  <2> QED
    BY <2>1, <2>2
<1>4. Busy(w) /\ ~Initialising(cmd[w]) /\ \A c \in Checks : ~UnderWay(cmd[w], c)
  BY <1>0, <1>1 DEF Busy, Initialising, UnderWay
<1>5. ~disturbed /\ UNCHANGED <<runVars, rec, proof, ledger, accepted>>
  BY DEF Decide, Render
<1> QED
  BY <1>1, <1>3, <1>4, <1>5, EndsWhole

LEMMA KillWhole ==
    ASSUME EvidenceTyped, Whole, ~disturbed', NEW w \in Shells, Kill(w)
    PROVE  Whole'
<1>1. Ends(w, 2) /\ Busy(w)
  BY DEF Kill
<1>2. PICK v : Turns(w, v) /\ v.at = "done" /\ v.op = cmd[w].op
  BY <1>1, Ended DEF Turns
<1>3. ~disturbed /\ ~HalfDone(w) /\ UNCHANGED <<runVars, rec, proof, ledger, accepted>>
  BY DEF Kill
<1>4. ~Initialising(cmd[w]) /\ v.op # "init"
  BY <1>2, <1>3 DEF HalfDone, Initialising
<1>5. ASSUME NEW c \in Checks, UnderWay(cmd[w], c)
      PROVE  Importing(cmd[w]) /\ Got(cmd[w]) = {}
  BY <1>3, <1>5 DEF HalfDone, UnderWay, Got, Given, Adding, Importing
<1> QED
  BY <1>1, <1>2, <1>3, <1>4, <1>5, EndsWhole

LEMMA ImportFailsWhole ==
    ASSUME EvidenceTyped, Whole, ~disturbed', NEW w \in Shells, ImportFails(w)
    PROVE  Whole'
<1>1. Ends(w, 2) /\ Busy(w)
  BY DEF ImportFails, Raises, Busy
<1>2. PICK v : Turns(w, v) /\ v.at = "done" /\ v.op = cmd[w].op
  BY <1>1, Ended DEF Turns
<1>3. /\ ~disturbed /\ cmd[w].todo = DOMAIN Given(w).proofs
      /\ UNCHANGED <<runVars, rec, proof, ledger, accepted>>
  BY DEF ImportFails
<1>4. ~Initialising(cmd[w]) /\ v.op # "init" /\ Importing(cmd[w])
  BY <1>2 DEF ImportFails, Initialising, Importing, EvidenceTyped, Fits
<1>5. Got(cmd[w]) = {}
  BY <1>3 DEF Got, Given
<1> QED
  BY <1>1, <1>2, <1>3, <1>4, <1>5, EndsWhole

LEMMA CheckWhole ==
    ASSUME EvidenceParameters, EvidenceTyped, Whole, ~disturbed', NEW w \in Shells, CheckRecord(w)
    PROVE  Whole'
<1>0. PICK u, g, a, t : u = cmd[w] /\ g = Given(w) /\ a = "import" /\ t = DOMAIN g.proofs
  OBVIOUS
<1>1. ~disturbed /\ UNCHANGED <<runVars, rec, proof, ledger, accepted>>
  BY DEF CheckRecord
<1>2. u \in Commands /\ Fits(u) /\ u.at = "check" /\ u.op = "add" /\ Busy(w)
  BY <1>0 DEF EvidenceTyped, CheckRecord, Fits, Busy
<1>3. g \in Records /\ g = Head(u.queue) /\ u.queue # <<>> /\ t \in SUBSET Paths /\ g.check \in Checks
  BY <1>0, <1>2, GivenIs, RecordIs DEF Given, Fits
<1>4. CASE ~Acceptable(Given(w))
  <2>1. NextRecord(w, 2)
    BY <1>4 DEF CheckRecord
  <2>2. PICK v : Turns(w, v) /\ v.at \in {"done", "check"} /\ v.op = "add"
    BY <1>0, <1>2, <2>1, NextOne DEF Turns
  <2>3. ~Initialising(cmd[w]) /\ \A c \in Checks : ~UnderWay(cmd[w], c)
    BY <1>0, <1>2 DEF Initialising, UnderWay, Adding
  <2> QED
    BY <1>1, <1>2, <2>2, <2>3, EndsWhole
<1>5. CASE Acceptable(Given(w))
  <2>1. cmd' = [cmd EXCEPT ![w] = [u EXCEPT !.at = a, !.todo = t]]
    BY <1>0, <1>5 DEF CheckRecord
  <2>2. PICK v : v = [u EXCEPT !.at = a, !.todo = t]
    OBVIOUS
  <2>3. a \in Stations
    BY <1>0 DEF Stations, Adding
  <2>4. v \in Commands
    BY <1>2, <1>3, <2>2, <2>3 DEF Commands
  <2>5. v.at = a /\ v.op = u.op
    BY <1>2, <2>2 DEF Commands
  <2>6. v.queue = u.queue
    BY <1>2, <2>2 DEF Commands
  <2>7. v.todo = t
    BY <1>2, <2>2 DEF Commands
  <2>8. Valid(g.check, g) /\ rec[g.check] = None /\ t # {}
    BY <1>0, <1>5 DEF Acceptable, Valid, Signed
  <2>9. Turns(w, v)
    <3>1. Fits(v)
      BY <1>0, <1>2, <1>3, <2>5, <2>6, <2>7, <2>8 DEF Fits
    <3> QED
      BY <2>1, <2>2, <2>4, <3>1 DEF Turns
  <2>10. ~Initialising(v) /\ ~Initialising(cmd[w]) /\ LineReady(v)
    BY <1>0, <1>2, <2>5 DEF Initialising, LineReady
  <2>11. Orderly /\ \A c \in Checks : InOrder(c)
    BY <1>1 DEF Whole
  <2>12. run # None
    BY <1>2, <2>11 DEF Orderly
  <2>13. \A x \in Shells, c \in Checks : ~UnderWay(cmd[x], c)
    BY <1>0, <1>2, <2>11, UnderWayIsBusy DEF Orderly, UnderWay, Adding
  <2>14. Untouched(g.check)
    <3>1. Untouched(g.check) \/ Recorded(g.check)
      BY <1>3, <2>11, <2>13 DEF InOrder
    <3>2. ~Recorded(g.check)
      BY <2>8 DEF Recorded, EvidenceParameters
    <3> QED
      BY <3>1, <3>2
  <2>15. ASSUME NEW c \in Checks PROVE Passes(cmd[w], v, c)
    <3>1. Got(v) = {}
      BY <1>0, <1>3, <2>6, <2>7 DEF Got
    <3>2. CASE c = g.check
      BY <1>0, <1>2, <1>3, <2>5, <2>6, <2>8, <2>13, <2>14, <3>1, <3>2 DEF Passes, UnderWay, Adding, Importing
    <3>3. CASE c # g.check
      BY <1>3, <2>6, <2>13, <3>3 DEF Passes, UnderWay
    <3> QED
      BY <3>2, <3>3
  <2>16. /\ run' = run /\ version' = version /\ attested' = attested /\ ledger' = ledger
         /\ rec' = rec /\ proof' = proof /\ accepted' = accepted
    BY <1>1 DEF runVars
  <2> QED
    BY <1>1, <1>2, <2>9, <2>10, <2>12, <2>15, <2>16, WholeTurn
<1> QED
  BY <1>4, <1>5

LEMMA ReadTailWhole ==
    ASSUME EvidenceParameters, EvidenceTyped, Whole, ~disturbed', NEW w \in Shells, ReadTail(w)
    PROVE  Whole'
<1>0. PICK u, e, g, a : u = cmd[w] /\ e = LineOf(w) /\ g = Given(w) /\ a = "append"
  OBVIOUS
<1>1. ~Unreadable(w)
  BY DEF ReadTail
<1>2. ~disturbed /\ cmd' = [cmd EXCEPT ![w] = [u EXCEPT !.at = a, !.line = e]]
      /\ UNCHANGED <<runVars, rec, proof, ledger, accepted>>
  BY <1>0, <1>1 DEF ReadTail
<1>3. /\ u \in Commands /\ Fits(u) /\ u.at = "tail" /\ u.op \in {"init", "add", "derive", "report"}
      /\ Busy(w)
  BY <1>0 DEF EvidenceTyped, ReadTail, Fits, Busy
<1>4. Orderly /\ \A c \in Checks : InOrder(c)
  BY <1>2 DEF Whole
<1>5. ~BrokenTail /\ Len(ledger) \in Nat
  BY <1>1 DEF Unreadable, EvidenceTyped
<1>6. NextSeq = Len(ledger) + 1
  <2>1. CASE ledger = <<>>
    BY <2>1 DEF NextSeq
  <2>2. CASE ledger # <<>>
    <3>1. Len(ledger) \in DOMAIN ledger
      BY <2>2 DEF EvidenceTyped
    <3>2. ledger[Len(ledger)].seq = Len(ledger)
      BY <1>4, <3>1 DEF Orderly, Chained, BrokenLine
    <3> QED
      BY <2>2, <3>2 DEF NextSeq
  <2> QED
    BY <2>1, <2>2
<1>7. u.op = "add" =>
        /\ g \in Records /\ g = Head(u.queue) /\ g.check \in Checks /\ g.proofs \in Bundles
        /\ rec[g.check] = g
  <2> SUFFICES ASSUME u.op = "add"
               PROVE  /\ g \in Records /\ g = Head(u.queue) /\ g.check \in Checks /\ g.proofs \in Bundles
                      /\ rec[g.check] = g
    OBVIOUS
  <2>1. g \in Records /\ g = Head(u.queue) /\ g.check \in Checks /\ g.proofs \in Bundles
    BY <1>0, <1>3, GivenIs, RecordIs DEF Given
  <2>2. UnderWay(cmd[w], g.check)
    BY <1>0, <1>3, <2>1 DEF UnderWay, Adding
  <2>3. PICK x \in Shells : UnderWay(cmd[x], g.check) /\ OnTheWay(cmd[x], g.check)
    BY <1>4, <2>1, <2>2 DEF InOrder
  <2>4. x = w
    BY <1>3, <1>4, <2>3, UnderWayIsBusy DEF Orderly
  <2>5. rec[g.check] = Head(u.queue)
    BY <1>0, <1>3, <2>3, <2>4 DEF OnTheWay, Importing
  <2> QED
    BY <2>1, <2>5
<1>8. /\ e \in Lines /\ e.seq = Len(ledger) + 1 /\ e.after = Len(ledger)
      /\ u.op = "init" => e.kind = "run_initialized"
      /\ u.op = "add" => e.record = g
  <2>1. ASSUME NEW k \in EventKinds, e = Line(k, None, None, None)
        PROVE  e \in Lines /\ e.seq = Len(ledger) + 1 /\ e.after = Len(ledger) /\ e.kind = k
    <3>1. /\ Line(k, None, None, None) \in Lines
          /\ Line(k, None, None, None).kind = k
          /\ Line(k, None, None, None).seq = NextSeq
          /\ Line(k, None, None, None).after = Len(ledger)
      <4>1. NextSeq \in Nat /\ Len(ledger) \in Nat
        BY <1>5, LastLine
      <4> QED
        BY <4>1 DEF Line, Lines
    <3> QED
      BY <1>6, <2>1, <3>1
  <2>2. CASE u.op = "init"
    <3>1. e = Line("run_initialized", None, None, None)
      BY <1>0, <2>2 DEF LineOf
    <3> QED
      BY <2>1, <2>2, <3>1 DEF EventKinds
  <2>3. CASE u.op = "derive"
    <3>1. e = Line("decision_derived", None, None, None)
      BY <1>0, <2>3 DEF LineOf
    <3> QED
      BY <2>1, <2>3, <3>1 DEF EventKinds
  <2>4. CASE u.op = "report"
    <3>1. e = Line("report_generated", None, None, None)
      BY <1>0, <2>4 DEF LineOf
    <3> QED
      BY <2>1, <2>4, <3>1 DEF EventKinds
  <2>5. CASE u.op = "add"
    <3>1. e = Line("evidence_recorded", g.check, rec[g.check], g.proofs)
      BY <1>0, <2>5 DEF LineOf
    <3>2. "evidence_recorded" \in EventKinds
      BY DEF EventKinds
    <3>3. g \in Records /\ g.check \in Checks /\ g.proofs \in Bundles /\ rec[g.check] = g
      BY <1>7, <2>5
    <3> QED
      BY <1>5, <1>6, <2>5, <3>1, <3>2, <3>3, LineIs
  <2> QED
    BY <1>3, <2>2, <2>3, <2>4, <2>5
<1>9. a \in Stations
  BY <1>0 DEF Stations, Adding
<1>10. PICK v : v = [u EXCEPT !.at = a, !.line = e]
  OBVIOUS
<1>16. v \in Commands /\ v.at = a /\ v.op = u.op /\ v.queue = u.queue /\ v.todo = u.todo /\ v.line = e
  <2>1. u \in Commands /\ e \in Lines
    BY <1>3, <1>8
  <2>2. v \in Commands
    BY <1>9, <1>10, <2>1 DEF Commands
  <2>3. v.at = a /\ v.op = u.op
    BY <1>10, <2>1 DEF Commands
  <2>4. v.queue = u.queue
    BY <1>10, <2>1 DEF Commands
  <2>5. v.todo = u.todo
    BY <1>10, <2>1 DEF Commands
  <2>6. v.line = e
    BY <1>10, <2>1 DEF Commands
  <2> QED
    BY <2>2, <2>3, <2>4, <2>5, <2>6
<1>11. Turns(w, v)
  <2>1. Fits(v)
    BY <1>0, <1>3, <1>8, <1>10, <1>16 DEF Fits, Adding
  <2> QED
    BY <1>2, <1>10, <1>16, <2>1 DEF Turns
<1>12. (Initialising(v) <=> Initialising(cmd[w])) /\ LineReady(v)
  BY <1>0, <1>3, <1>7, <1>8, <1>10, <1>16 DEF Initialising, LineReady
<1>13. \A c \in Checks : Passes(cmd[w], v, c)
  BY <1>0, <1>3, <1>10, <1>16 DEF Passes, UnderWay, Got, Adding, Importing
<1>14. run # None
  BY <1>3, <1>4 DEF Orderly
<1>15. /\ run' = run /\ version' = version /\ attested' = attested /\ ledger' = ledger
       /\ rec' = rec /\ proof' = proof /\ accepted' = accepted
  BY <1>2 DEF runVars
<1> QED
  BY <1>2, <1>3, <1>11, <1>12, <1>13, <1>14, <1>15, WholeTurn

\* Looking whether there is a file of that name
LEMMA TestWhole ==
    ASSUME EvidenceTyped, Whole, ~disturbed', NEW w \in Shells, NEW p \in Paths, TestProof(w, p)
    PROVE  Whole'
<1>0. PICK u, a : u = cmd[w] /\ a = "copy"
  OBVIOUS
<1>1. /\ u \in Commands /\ Fits(u) /\ u.at = "import" /\ u.op = "add" /\ p \in u.todo /\ Busy(w)
  BY <1>0 DEF EvidenceTyped, TestProof, Fits, Busy
<1>2. /\ run' = run /\ version' = version /\ attested' = attested /\ ledger' = ledger
      /\ rec' = rec /\ proof' = proof /\ accepted' = accepted /\ ~disturbed
  BY DEF TestProof, runVars
<1>3. cmd' = [cmd EXCEPT ![w] = Looked(u, a, p)]
  BY <1>0 DEF TestProof, Looked
<1>4. a \in Stations
  BY <1>0 DEF Stations, Adding
<1>6. PICK v \in Commands :
        /\ v = Looked(u, a, p)
        /\ v.at = a /\ v.op = u.op /\ v.queue = u.queue /\ v.todo = u.todo /\ v.file = p
  BY <1>1, <1>4, Tested
<1>7. Fits(v)
  BY <1>0, <1>1, <1>6 DEF Fits, Adding
<1>8. Turns(w, v)
  BY <1>3, <1>6, <1>7 DEF Turns
<1>9. (Initialising(v) <=> Initialising(cmd[w])) /\ LineReady(v)
  BY <1>0, <1>1, <1>6 DEF Initialising, LineReady
<1>10. \A c \in Checks : Passes(cmd[w], v, c)
  BY <1>0, <1>1, <1>6 DEF Passes, UnderWay, Got, Adding, Importing
<1>11. run # None
  BY <1>1, <1>2 DEF Whole, Orderly
<1> QED
  BY <1>1, <1>2, <1>8, <1>9, <1>10, <1>11, WholeTurn

\* Copying a file and writing the record move the files of one check.
LEMMA FilesWhole ==
    ASSUME EvidenceParameters, EvidenceTyped, Whole, ~disturbed', NEW w \in Shells,
           CopyProof(w) \/ WriteRecord(w)
    PROVE  Whole'
<1>0. PICK u, g, c, v : u = cmd[w] /\ g = Given(w) /\ c = g.check /\ v = cmd'[w]
  OBVIOUS
<1>1. /\ run' = run /\ version' = version /\ attested' = attested /\ ledger' = ledger
      /\ accepted' = accepted /\ ~disturbed
  <2>1. ASSUME CopyProof(w)
        PROVE  UNCHANGED <<runVars, ledger, accepted>> /\ ~disturbed
    BY <2>1 DEF CopyProof
  <2>2. ASSUME WriteRecord(w)
        PROVE  UNCHANGED <<runVars, ledger, accepted>> /\ ~disturbed
    BY <2>2 DEF WriteRecord
  <2> QED
    BY <2>1, <2>2 DEF runVars
<1>2. /\ u \in Commands /\ Fits(u) /\ Importing(u) /\ u.op = "add" /\ Busy(w)
      /\ u.todo \subseteq DOMAIN Head(u.queue).proofs
  BY <1>0 DEF EvidenceTyped, CopyProof, WriteRecord, Fits, Busy, Adding, Importing
<1>3. g \in Records /\ g = Head(u.queue) /\ u.queue # <<>> /\ c \in Checks
  <2>1. g \in Records /\ g = Head(u.queue)
    BY <1>0, <1>2, GivenIs DEF Given
  <2>2. u.queue # <<>>
    BY <1>2 DEF Fits, Importing
  <2> QED
    BY <1>0, <2>1, <2>2, RecordIs
<1>4. Orderly /\ \A d \in Checks : InOrder(d)
  BY <1>1 DEF Whole
<1>5. UnderWay(u, c) /\ OnTheWay(u, c)
  <2>1. UnderWay(cmd[w], c)
    BY <1>0, <1>2, <1>3 DEF UnderWay, Adding, Importing
  <2>2. PICK x \in Shells : UnderWay(cmd[x], c) /\ OnTheWay(cmd[x], c)
    BY <1>3, <1>4, <2>1 DEF InOrder
  <2>3. x = w
    BY <1>2, <1>4, <2>2, UnderWayIsBusy DEF Orderly
  <2> QED
    BY <1>0, <2>1, <2>2, <2>3
<1>6. /\ Turns(w, v) /\ v.op = "add" /\ v.queue = u.queue /\ v.at \in {"import", "tail"}
      /\ \A d \in Checks \ {c} : rec'[d] = rec[d] /\ proof'[d] = proof[d]
      /\ rec'[c] = IF Importing(v) THEN None ELSE g
      /\ Filed(c, g, Got(v))'
  <2>0. /\ rec \in [Checks -> Records \cup {None}] /\ cmd \in [Shells -> Commands]
        /\ proof \in [Checks -> [Paths -> Contents \cup {None}]]
    BY DEF EvidenceTyped
  <2>1. ASSUME CopyProof(w)
        PROVE  /\ Turns(w, v) /\ v.op = "add" /\ v.queue = u.queue /\ v.at \in {"import", "tail"}
               /\ \A d \in Checks \ {c} : rec'[d] = rec[d] /\ proof'[d] = proof[d]
               /\ rec'[c] = IF Importing(v) THEN None ELSE g
               /\ Filed(c, g, Got(v))'
    <3>0. PICK p, a : p = u.file /\ a = "import"
      OBVIOUS
    <3>1. PICK t : t = u.todo \ {p}
      OBVIOUS
    <3>2. cmd' = [cmd EXCEPT ![w] = Left(u, a, t)]
      BY <1>0, <2>1, <3>0, <3>1 DEF CopyProof, Left
    <3>3. a \in Stations /\ t \in SUBSET Paths
      BY <1>2, <3>0, <3>1 DEF Stations, Adding, Commands
    <3>4. PICK x \in Commands :
            /\ x = Left(u, a, t)
            /\ x.at = a /\ x.op = u.op /\ x.queue = u.queue /\ x.todo = t
      BY <1>2, <3>3, TakenUp
    <3>14. cmd' = [cmd EXCEPT ![w] = x]
      BY <3>2, <3>4
    <3>15. v = x
      BY <1>0, <2>0, <3>14
    <3>5. /\ v \in Commands /\ v.at = a /\ v.op = u.op /\ v.queue = u.queue /\ v.todo = u.todo \ {p}
          /\ cmd' = [cmd EXCEPT ![w] = v]
      BY <3>1, <3>4, <3>14, <3>15
    <3>6. u.at = "copy" /\ p \in u.todo
      BY <1>0, <1>2, <2>1, <3>0 DEF CopyProof, Fits
    <3>7. Fits(v)
      BY <1>2, <3>0, <3>5, <3>6 DEF Fits, Adding
    <3>8. proof' = [proof EXCEPT ![c][p] = g.proofs[p]] /\ rec' = rec
      BY <1>0, <2>1, <3>0 DEF CopyProof
    <3>9. Got(v) = Got(u) \cup {p}
      BY <1>2, <3>5, <3>6 DEF Got
    <3>10. \A q \in Paths : proof[c][q] = IF q \in Got(u) THEN g.proofs[q] ELSE None
      BY <1>3, <1>5 DEF OnTheWay, Filed
    <3>11. \A q \in Paths : proof'[c][q] = IF q \in Got(v) THEN g.proofs[q] ELSE None
      BY <1>3, <2>0, <3>8, <3>9, <3>10
    <3>12. \A d \in Checks \ {c} : proof'[d] = proof[d]
      BY <2>0, <3>8
    <3>13. rec[c] = None
      BY <1>2, <1>5 DEF OnTheWay
    <3> QED
      BY <1>2, <3>0, <3>5, <3>7, <3>8, <3>11, <3>12, <3>13 DEF Turns, Filed, Importing
  <2>2. ASSUME WriteRecord(w)
        PROVE  /\ Turns(w, v) /\ v.op = "add" /\ v.queue = u.queue /\ v.at \in {"import", "tail"}
               /\ \A d \in Checks \ {c} : rec'[d] = rec[d] /\ proof'[d] = proof[d]
               /\ rec'[c] = IF Importing(v) THEN None ELSE g
               /\ Filed(c, g, Got(v))'
    <3>1. PICK a : a = "tail"
      OBVIOUS
    <3>2. cmd' = [cmd EXCEPT ![w] = [u EXCEPT !.at = a]]
      BY <1>0, <2>2, <3>1 DEF WriteRecord
    <3>3. v = [u EXCEPT !.at = a]
      BY <1>0, <2>0, <3>2
    <3>4. a \in Stations
      BY <3>1 DEF Stations, Adding
    <3>5. v \in Commands /\ v.at = a /\ v.op = u.op /\ v.queue = u.queue /\ v.todo = u.todo
      BY <1>2, <3>3, <3>4, Stationed
    <3>6. u.at = "import" /\ u.todo = {} /\ rec' = [rec EXCEPT ![c] = g] /\ proof' = proof
      BY <1>0, <2>2 DEF WriteRecord
    <3>7. Fits(v)
      BY <1>2, <3>1, <3>5, <3>6 DEF Fits, Adding
    <3>8. \A q \in Paths : proof'[c][q] = IF q \in Got(v) THEN g.proofs[q] ELSE None
      BY <1>3, <1>5, <3>5, <3>6 DEF OnTheWay, Filed, Got
    <3>9. rec'[c] = g /\ \A d \in Checks \ {c} : rec'[d] = rec[d]
      BY <1>3, <2>0, <3>6
    <3> QED
      BY <1>2, <3>1, <3>2, <3>3, <3>5, <3>6, <3>7, <3>8, <3>9 DEF Turns, Filed, Importing
  <2> QED
    BY <2>1, <2>2
<1>7. Orderly'
  <2>1. run # None
    BY <1>2, <1>4 DEF Orderly
  <2>2. LineReady(v)
    BY <1>6 DEF LineReady
  <2>3. ~Initialising(v) /\ ~Initialising(cmd[w])
    BY <1>0, <1>2, <1>6 DEF Initialising
  <2> QED
    BY <1>1, <1>2, <1>4, <1>6, <2>1, <2>2, <2>3, OrderlyKept
<1>8. ASSUME NEW d \in Checks PROVE InOrder(d)'
  <2>1. EventsOf(d)' = EventsOf(d) /\ Taken(d)' = Taken(d)
    BY <1>1 DEF EventsOf, Taken
  <2>2. CASE d = c
    <3>1. UnderWay(v, c)
      BY <1>3, <1>6, <1>0 DEF UnderWay, Adding
    <3>2. OnTheWay(v, c)'
      <4>1. EventsOf(c)' = {} /\ Valid(c, g)
        BY <1>3, <1>5, <2>1, <2>2 DEF OnTheWay
      <4>2. Valid(c, g)'
        BY <1>1, <4>1 DEF Valid, Signed
      <4>3. g = Head(v.queue)
        BY <1>3, <1>6
      <4> QED
        BY <1>6, <4>1, <4>2, <4>3 DEF OnTheWay, Got, Importing
    <3>3. (UnderWay(cmd[w], c) /\ OnTheWay(cmd[w], c))'
      BY <1>0, <3>1, <3>2 DEF UnderWay, OnTheWay, Got, Filed, Importing
    <3> QED
      BY <2>2, <3>3 DEF InOrder
  <2>3. CASE d # c
    <3>1. Passes(cmd[w], v, d)
      BY <1>0, <1>3, <1>6, <2>3 DEF Passes, UnderWay
    <3>2. rec'[d] = rec[d] /\ proof'[d] = proof[d] /\ attested \subseteq attested'
      BY <1>1, <1>6, <2>3
    <3> QED
      BY <1>1, <1>4, <1>6, <2>1, <3>1, <3>2, InOrderKept
  <2> QED
    BY <2>2, <2>3
<1> QED
  BY <1>7, <1>8 DEF Whole

\* The line is written: what the command had in hand is settled.
LEMMA AppendWhole ==
    ASSUME EvidenceParameters, EvidenceSound, Whole, ~disturbed', NEW w \in Shells, AppendEvent(w)
    PROVE  Whole'
<1>0. PICK u, e, g, c, n : u = cmd[w] /\ e = u.line /\ g = Head(u.queue) /\ c = g.check
                           /\ n = Len(ledger) + 1
  OBVIOUS
<1>1. EvidenceTyped /\ Sound
  BY DEF EvidenceSound
<1>2. /\ u \in Commands /\ Fits(u) /\ u.at = "append" /\ u.op \in {"init", "add", "derive", "report"}
      /\ Busy(w)
  BY <1>0, <1>1 DEF EvidenceTyped, AppendEvent, Fits, Busy
<1>3. /\ run' = run /\ version' = version /\ attested' = attested /\ rec' = rec /\ proof' = proof
      /\ ~disturbed /\ ledger' = IF TornTail THEN [ledger EXCEPT ![Len(ledger)] = Spliced]
                                                     ELSE Append(ledger, e)
  BY <1>0 DEF AppendEvent, runVars
<1>4. e \in Lines /\ cmd[w].exit \in Nat /\ e.kind # "torn"
  <2>1. e \in Lines /\ cmd[w].exit \in Nat
    BY <1>0, <1>2 DEF Fits, Commands
  <2> QED
    BY <2>1 DEF Lines, EventKinds
<1>5. Orderly /\ \A d \in Checks : InOrder(d)
  BY <1>3 DEF Whole
<1>6. ~TornTail
  <2> SUFFICES ASSUME TornTail PROVE FALSE
    OBVIOUS
  <2>1. Len(ledger) \in DOMAIN ledger /\ ledger[Len(ledger)].kind = "torn"
    BY <1>1 DEF TornTail, BrokenTail, EvidenceTyped
  <2> QED
    BY <1>5, <2>1 DEF Orderly, Chained, BrokenLine
<1>7. PICK v : Turns(w, v) /\ v.at \in {"done", "check"} /\ (v.at # "done" => v.op # "init")
  <2>1. CASE u.op = "add"
    <3>1. NextRecord(w, cmd[w].exit)
      BY <1>0, <2>1 DEF AppendEvent
    <3> QED
      BY <1>0, <1>1, <1>4, <2>1, <3>1, NextOne DEF Turns
  <2>2. CASE u.op # "add"
    <3>1. Ends(w, cmd[w].exit)
      BY <1>0, <2>2 DEF AppendEvent
    <3> QED
      BY <1>1, <1>4, <3>1, Ended DEF Turns
  <2> QED
    BY <2>1, <2>2
<1>8. /\ Grows /\ Extends /\ n \in Nat /\ n \in DOMAIN ledger' /\ ledger'[n] = e /\ ledger' # <<>>
      /\ DOMAIN ledger = 1..(n - 1) /\ DOMAIN ledger' = 1..n
  <2>1. ledger' = Append(ledger, e)
    BY <1>3, <1>6
  <2>2. /\ Grows /\ Extends /\ Len(ledger) \in Nat /\ ledger'[Len(ledger) + 1] = e
        /\ DOMAIN ledger = 1..Len(ledger) /\ DOMAIN ledger' = 1..(Len(ledger) + 1)
    BY <1>1, <1>4, <2>1, Growing
  <2>3. n - 1 = Len(ledger) /\ n \in 1..n
    BY <1>0, <2>2
  <2>4. ledger' # <<>>
    BY <1>0, <2>2, <2>3
  <2> QED
    BY <1>0, <2>2, <2>3, <2>4
<1>9. /\ e.seq = n /\ e.after = n - 1
      /\ u.op = "init" => e.kind = "run_initialized"
      /\ u.op = "add" => e.record = g
  <2>1. LineReady(u)
    BY <1>0, <1>5 DEF Orderly
  <2>2. Len(ledger) = n - 1
    BY <1>0, <1>8
  <2> QED
    BY <1>0, <1>2, <2>1, <2>2 DEF LineReady
<1>10. /\ cmd'[w] = v
       /\ \A x \in Shells \ {w} : cmd'[x] = cmd[x] /\ cmd[x].at = "done"
  <2>1. cmd'[w] = v /\ \A x \in Shells \ {w} : cmd'[x] = cmd[x]
    BY <1>1, <1>7, TypedTurn
  <2>2. \A x \in Shells \ {w} : cmd[x].at = "done"
    BY <1>2, <1>5 DEF Orderly, Busy
  <2> QED
    BY <2>1, <2>2
<1>11. \A x \in Shells, d \in Checks : ~UnderWay(cmd'[x], d)
  BY <1>7, <1>10 DEF UnderWay, Adding
<1>12. Orderly'
  <2>1. \A x, y \in Shells : Busy(x)' /\ Busy(y)' => x = y
    BY <1>10 DEF Busy
  <2>2. run' # None /\ version' = run'.version
    BY <1>2, <1>3, <1>5 DEF Orderly
  <2>3. (\A x \in Shells : LineReady(cmd[x]))'
    BY <1>7, <1>10 DEF LineReady
  <2>4. \A x \in Shells : ~Initialising(cmd'[x])
    BY <1>7, <1>10 DEF Initialising
  <2>5. ASSUME NEW i \in DOMAIN ledger' PROVE ~BrokenLine(i)'
    <3>1. CASE i = n
      BY <1>4, <1>8, <1>9, <3>1 DEF BrokenLine
    <3>2. CASE i # n
      <4>1. i \in DOMAIN ledger
        BY <1>8, <3>2
      <4>2. ledger'[i] = ledger[i] /\ ~BrokenLine(i)
        BY <1>5, <1>8, <4>1 DEF Extends, Orderly, Chained
      <4> QED
        BY <4>2 DEF BrokenLine
    <3> QED
      BY <3>1, <3>2
  <2>6. ledger'[1].kind = "run_initialized"
    <3>1. CASE ledger = <<>>
      <4>1. PICK x \in Shells : Initialising(cmd[x])
        BY <1>2, <1>5, <3>1 DEF Orderly, Chained
      <4>2. x = w
        BY <1>10, <4>1 DEF Initialising
      <4>3. n = 1
        BY <1>0, <3>1
      <4> QED
        BY <1>0, <1>8, <1>9, <4>1, <4>2, <4>3 DEF Initialising
    <3>2. CASE ledger # <<>>
      <4>1. 1 \in DOMAIN ledger /\ ledger[1].kind = "run_initialized"
        BY <1>1, <1>5, <3>2 DEF EvidenceTyped, Orderly, Chained
      <4> QED
        BY <1>8, <4>1 DEF Extends
    <3> QED
      BY <3>1, <3>2
  <2>7. Chained'
    <3>1. (\A x \in Shells : ~Initialising(cmd[x]))'
      BY <2>4 DEF Initialising
    <3>2. (\A i \in DOMAIN ledger : ~BrokenLine(i))'
      BY <2>5
    <3> QED
      BY <1>8, <2>6, <3>1, <3>2 DEF Chained
  <2> QED
    BY <2>1, <2>2, <2>3, <2>7 DEF Orderly
<1>13. ASSUME NEW d \in Checks, u.op = "add", d = c PROVE InOrder(d)'
  <2>1. UnderWay(cmd[w], c)
    BY <1>0, <1>2, <1>13 DEF UnderWay, Adding
  <2>2. PICK x \in Shells : UnderWay(cmd[x], c) /\ OnTheWay(cmd[x], c)
    BY <1>5, <1>13, <2>1 DEF InOrder
  <2>3. x = w
    BY <1>2, <1>5, <2>2, UnderWayIsBusy DEF Orderly
  <2>4. OnTheWay(u, c)
    BY <1>0, <2>2, <2>3
  <2>5. EventsOf(c) = {} /\ Valid(c, g) /\ rec[c] = g /\ Filed(c, g, DOMAIN g.proofs)
    <3>1. Got(u) = DOMAIN g.proofs
      BY <1>0, <1>2, <1>13 DEF Got, Fits
    <3> QED
      BY <1>0, <1>2, <2>4, <3>1 DEF OnTheWay, Importing
  <2>6. e.kind = "evidence_recorded" /\ e.check = c /\ e.proofs = g.proofs /\ e.record = g
    <3>1. LineFits(u)
      BY <1>0, <1>1 DEF Sound
    <3> QED
      BY <1>0, <1>2, <1>9, <1>13, <3>1 DEF LineFits
  <2>7. EventsOf(c)' = {n}
    <3>1. ASSUME NEW i \in EventsOf(c)' PROVE i = n
      <4> SUFFICES ASSUME i # n PROVE FALSE
        OBVIOUS
      <4>1. i \in DOMAIN ledger' /\ ledger'[i].kind = "evidence_recorded" /\ ledger'[i].check = c
        BY <3>1 DEF EventsOf
      <4>2. i \in DOMAIN ledger
        BY <1>8, <4>1
      <4>3. ledger'[i] = ledger[i]
        BY <1>8, <4>2 DEF Extends
      <4> QED
        BY <2>5, <4>1, <4>2, <4>3 DEF EventsOf
    <3>2. n \in EventsOf(c)'
      BY <1>8, <2>6 DEF EventsOf
    <3> QED
      BY <3>1, <3>2
  <2>8. g \in Records
    BY <1>0, <1>1, <1>2, <1>13, GivenIs DEF Given
  <2>9. Valid(c, g)' /\ Filed(c, g, DOMAIN g.proofs)'
    BY <1>3, <2>5 DEF Valid, Signed, Filed
  <2>10. Recorded(c)'
    <3>0. Taken(c)' \subseteq {g}
      <4>1. \A r \in accepted : r.check # c
        <5> SUFFICES ASSUME NEW r \in accepted, r.check = c PROVE FALSE
          OBVIOUS
        <5>1. Backed(r)
          BY <1>1 DEF Sound
        <5>2. \A i \in DOMAIN ledger : ledger[i].kind # "torn"
          BY <1>5 DEF Orderly, Chained, BrokenLine
        <5> QED
          BY <2>5, <5>1, <5>2 DEF Backed, Twice
      <4>2. accepted' = accepted \cup {g}
        BY <1>0, <1>13 DEF AppendEvent, Given
      <4> QED
        BY <4>1, <4>2 DEF Taken
    <3>1. /\ n \in EventsOf(c)' /\ EventsOf(c)' = {n} /\ rec'[c] = g /\ Taken(c)' \subseteq {g}
          /\ ledger'[n].record = g /\ ledger'[n].proofs = g.proofs
          /\ Valid(c, g)' /\ Filed(c, g, DOMAIN g.proofs)'
      BY <1>3, <1>8, <2>5, <2>6, <2>7, <2>9, <3>0
    <3> QED
      BY <2>8, <3>1 DEF Recorded
  <2>11. (\A y \in Shells : ~UnderWay(cmd[y], d))'
    BY <1>11 DEF UnderWay
  <2> QED
    BY <1>13, <2>10, <2>11 DEF InOrder
<1>14. ASSUME NEW d \in Checks, ~(u.op = "add" /\ d = c) PROVE InOrder(d)'
  <2>1. ~(e.kind = "evidence_recorded" /\ e.check = d)
    <3>1. LineFits(u)
      BY <1>0, <1>1 DEF Sound
    <3> QED
      BY <1>0, <1>2, <1>14, <3>1 DEF LineFits
  <2>2. ASSUME NEW i \in EventsOf(d)' PROVE i \in EventsOf(d)
    <3>1. i \in DOMAIN ledger' /\ ledger'[i].kind = "evidence_recorded" /\ ledger'[i].check = d
      BY <2>2 DEF EventsOf
    <3>2. i # n
      BY <1>8, <2>1, <3>1
    <3>3. i \in DOMAIN ledger
      BY <1>8, <3>1, <3>2
    <3>4. ledger'[i] = ledger[i]
      BY <1>8, <3>3 DEF Extends
    <3> QED
      BY <3>1, <3>3, <3>4 DEF EventsOf
  <2>3. EventsOf(d)' = EventsOf(d) /\ \A i \in EventsOf(d) : ledger'[i] = ledger[i]
    BY <1>8, <2>2, EventsGrow
  <2>4. Passes(cmd[w], v, d)
    <3>1. ~UnderWay(cmd[w], d)
      BY <1>0, <1>14 DEF UnderWay
    <3>2. ~UnderWay(v, d)
      BY <1>7 DEF UnderWay, Adding
    <3> QED
      BY <3>1, <3>2 DEF Passes
  <2>5. attested \subseteq attested' /\ rec'[d] = rec[d] /\ proof'[d] = proof[d]
    BY <1>3
  <2>6. Taken(d)' = Taken(d)
    <3>1. CASE u.op = "add"
      <4>1. accepted' = accepted \cup {g} /\ g.check # d
        BY <1>0, <1>14, <3>1 DEF AppendEvent, Given
      <4> QED
        BY <4>1 DEF Taken
    <3>2. CASE u.op # "add"
      BY <1>0, <3>2 DEF AppendEvent, Taken
    <3> QED
      BY <3>1, <3>2
  <2> QED
    BY <1>1, <1>3, <1>5, <1>7, <2>3, <2>4, <2>5, <2>6, InOrderKept
<1> QED
  BY <1>12, <1>13, <1>14 DEF Whole

\* What happens around the commands disturbs the run, but for a signature and
\* for an upgrade before the run begins.
LEMMA AroundWhole ==
    ASSUME EvidenceTyped, Whole, ~disturbed', Around
    PROVE  Whole'
<1>1. /\ cmd' = cmd /\ ledger' = ledger /\ run' = run /\ rec' = rec /\ proof' = proof /\ ~disturbed
      /\ accepted' = accepted /\ attested \subseteq attested' /\ (run # None => version' = version)
  <2>1. ASSUME NEW r \in Records, Attest(r)
        PROVE  /\ cmd' = cmd /\ ledger' = ledger /\ run' = run /\ rec' = rec /\ proof' = proof
               /\ ~disturbed /\ attested \subseteq attested' /\ version' = version /\ accepted' = accepted
    BY <2>1 DEF Attest
  <2>2. ASSUME NEW x \in Versions, Upgrade(x)
        PROVE  /\ cmd' = cmd /\ ledger' = ledger /\ run' = run /\ rec' = rec /\ proof' = proof
               /\ attested' = attested /\ ~disturbed /\ run = None /\ accepted' = accepted
    BY <2>2 DEF Upgrade
  <2>3. ASSUME NEW c \in Checks, NEW r \in Records \cup {None}, AlterRecord(c, r) PROVE FALSE
    BY <2>3 DEF AlterRecord
  <2>4. ASSUME NEW c \in Checks, NEW p \in Paths, NEW x \in Contents \cup {None}, AlterProof(c, p, x)
        PROVE  FALSE
    BY <2>4 DEF AlterProof
  <2> QED
    BY <2>1, <2>2, <2>3, <2>4 DEF Around
<1>2. Orderly /\ \A c \in Checks : InOrder(c)
  BY <1>1 DEF Whole
<1>3. Orderly'
  <2>1. Chained'
    BY <1>1, <1>2 DEF Orderly, Chained, BrokenLine, Initialising
  <2>2. (\A w \in Shells : LineReady(cmd[w]))'
    BY <1>1, <1>2 DEF Orderly, LineReady
  <2>3. (run # None => version = run.version)'
    BY <1>1, <1>2 DEF Orderly
  <2>4. (\A w, v \in Shells : Busy(w) /\ Busy(v) => w = v)' /\ (run = None => ledger = <<>> /\ \A w \in Shells : ~Busy(w))'
    BY <1>1, <1>2 DEF Orderly, Busy
  <2> QED
    BY <2>1, <2>2, <2>3, <2>4 DEF Orderly
<1>4. ASSUME NEW c \in Checks PROVE InOrder(c)'
  <2>1. \A r : Valid(c, r) => Valid(c, r)'
    BY <1>1 DEF Valid, Signed
  <2>2. EventsOf(c)' = EventsOf(c)
    BY <1>1 DEF EventsOf
  <2>3. Untouched(c) => Untouched(c)'
    BY <1>1, <2>2 DEF Untouched
  <2>4. \A r, got : Filed(c, r, got) => Filed(c, r, got)'
    BY <1>1 DEF Filed
  <2>5. Recorded(c) => Recorded(c)'
    <3> SUFFICES ASSUME Recorded(c) PROVE Recorded(c)'
      OBVIOUS
    <3>1. PICK i \in EventsOf(c), r \in Records :
             /\ EventsOf(c) = {i} /\ rec[c] = r /\ Taken(c) \subseteq {r}
             /\ ledger[i].record = r /\ ledger[i].proofs = r.proofs
             /\ Valid(c, r) /\ Filed(c, r, DOMAIN r.proofs)
      BY DEF Recorded
    <3>2. /\ i \in EventsOf(c)' /\ EventsOf(c)' = {i} /\ rec'[c] = r /\ Taken(c)' \subseteq {r}
          /\ ledger'[i].record = r /\ ledger'[i].proofs = r.proofs
          /\ Valid(c, r)' /\ Filed(c, r, DOMAIN r.proofs)'
      BY <1>1, <2>1, <2>2, <2>4, <3>1 DEF Taken
    <3> QED
      BY <3>2 DEF Recorded
  <2>6. ASSUME NEW x, OnTheWay(x, c) PROVE OnTheWay(x, c)'
    <3>1. Valid(c, Head(x.queue))' /\ Filed(c, Head(x.queue), Got(x))'
      BY <2>1, <2>4, <2>6 DEF OnTheWay
    <3> QED
      BY <1>1, <2>2, <2>6, <3>1 DEF OnTheWay, Got, Importing
  <2>7. CASE \E x \in Shells : UnderWay(cmd[x], c) /\ OnTheWay(cmd[x], c)
    <3>0. PICK x \in Shells : UnderWay(cmd[x], c) /\ OnTheWay(cmd[x], c)
      BY <2>7
    <3>1. PICK y : y = cmd[x] /\ UnderWay(y, c) /\ OnTheWay(y, c)
      BY <3>0
    <3>2. OnTheWay(y, c)'
      BY <2>6, <3>1
    <3>3. y = cmd'[x]
      BY <1>1, <3>1
    <3>4. UnderWay(cmd'[x], c) /\ OnTheWay(y, c)'
      BY <3>1, <3>2, <3>3
    <3>5. (UnderWay(cmd[x], c) /\ OnTheWay(cmd[x], c))'
      BY <3>3, <3>4 DEF UnderWay, OnTheWay, Got, Filed, Importing
    <3> QED
      BY <3>5 DEF InOrder
  <2>8. CASE (\A x \in Shells : ~UnderWay(cmd[x], c)) /\ (Untouched(c) \/ Recorded(c))
    <3>1. (\A x \in Shells : ~UnderWay(cmd[x], c))'
      BY <1>1, <2>8 DEF UnderWay
    <3> QED
      BY <2>3, <2>5, <2>8, <3>1 DEF InOrder
  <2> QED
    BY <1>2, <2>7, <2>8 DEF InOrder
<1> QED
  BY <1>3, <1>4 DEF Whole

LEMMA WholeStarts ==
    ASSUME EvidenceInit
    PROVE  Whole
<1>1. \A w \in Shells : cmd[w].at = "done"
  BY DEF EvidenceInit, NoCommand, Command
<1>2. run = None /\ ledger = <<>> /\ DOMAIN ledger = {}
  BY DEF EvidenceInit
<1>3. Orderly
  BY <1>1, <1>2 DEF Orderly, Chained, Busy, Initialising, LineReady
<1>4. \A c \in Checks : InOrder(c)
  <2> SUFFICES ASSUME NEW c \in Checks PROVE InOrder(c)
    OBVIOUS
  <2>1. EventsOf(c) = {}
    BY <1>2 DEF EventsOf
  <2>2. rec[c] = None /\ \A p \in Paths : proof[c][p] = None
    BY DEF EvidenceInit
  <2>3. \A w \in Shells : ~UnderWay(cmd[w], c)
    BY <1>1 DEF UnderWay, Adding
  <2> QED
    BY <2>1, <2>2, <2>3 DEF InOrder, Untouched
<1> QED
  BY <1>3, <1>4 DEF Whole

LEMMA WholeSteps ==
    ASSUME EvidenceParameters, EvidenceSound, Whole, [EvidenceNext]_evidenceVars
    PROVE  Whole'
<1> SUFFICES ASSUME ~disturbed' PROVE Whole'
  BY DEF Whole
<1>0. EvidenceTyped
  BY DEF EvidenceSound
<1>1. CASE UNCHANGED evidenceVars
  <2>1. /\ run' = run /\ version' = version /\ attested' = attested /\ rec' = rec /\ proof' = proof
        /\ ledger' = ledger /\ cmd' = cmd /\ accepted' = accepted /\ disturbed' = disturbed
    BY <1>1 DEF evidenceVars
  <2>2. Orderly => Orderly'
    BY <2>1 DEF Orderly, Chained, BrokenLine, Initialising, LineReady, Busy
  <2>3. \A c \in Checks : InOrder(c) => InOrder(c)'
    <3> SUFFICES ASSUME NEW c \in Checks PROVE InOrder(c)' = InOrder(c)
      OBVIOUS
    <3>1. EventsOf(c)' = EventsOf(c)
      BY <2>1 DEF EventsOf
    <3>2. \A r : Valid(c, r)' = Valid(c, r)
      BY <2>1 DEF Valid, Signed
    <3>3. \A r, got : Filed(c, r, got)' = Filed(c, r, got)
      BY <2>1 DEF Filed
    <3>4. Untouched(c)' = Untouched(c) /\ Recorded(c)' = Recorded(c)
      BY <2>1, <3>1, <3>2, <3>3 DEF Untouched, Recorded, Taken
    <3>5. \A w \in Shells : (UnderWay(cmd[w], c) /\ OnTheWay(cmd[w], c))' = (UnderWay(cmd[w], c) /\ OnTheWay(cmd[w], c))
      BY <2>1 DEF UnderWay, OnTheWay, EventsOf, Valid, Signed, Filed, Got, Importing
    <3>6. \A w \in Shells : UnderWay(cmd[w], c)' = UnderWay(cmd[w], c)
      BY <2>1 DEF UnderWay
    <3> QED
      BY <3>4, <3>5, <3>6 DEF InOrder
  <2> QED
    BY <2>1, <2>2, <2>3 DEF Whole
<1>2. CASE \E w \in Shells : Starts(w)
  BY <1>0, <1>2, StartsWhole
<1>3. ASSUME NEW w \in Shells, Proceeds(w) PROVE Whole'
  <2>1. CASE CheckRecord(w)
    BY <1>0, <2>1, CheckWhole
  <2>2. CASE CopyProof(w) \/ WriteRecord(w)
    BY <1>0, <2>2, FilesWhole
  <2>7. CASE \E p \in Paths : TestProof(w, p)
    BY <1>0, <2>7, TestWhole
  <2>8. ASSUME \/ \E x \in Contents \cup {None} : CopyFails(w, x)
               \/ \E r \in Records \cup {None} : WriteFails(w, r)
        PROVE  FALSE
    BY <2>8 DEF CopyFails, WriteFails
  <2>3. CASE ImportFails(w)
    BY <1>0, <2>3, ImportFailsWhole
  <2>4. CASE Decide(w) \/ Render(w)
    BY <1>0, <2>4, DecisionsWhole
  <2>5. CASE ReadTail(w)
    BY <1>0, <2>5, ReadTailWhole
  <2>6. CASE AppendEvent(w)
    BY <2>6, AppendWhole
  <2> QED
    BY <1>3, <2>1, <2>2, <2>3, <2>4, <2>5, <2>6, <2>7, <2>8 DEF Proceeds
<1>4. CASE \E w \in Shells : Kill(w)
  BY <1>0, <1>4, KillWhole
<1>5. CASE Around
  BY <1>0, <1>5, AroundWhole
<1> QED
  BY <1>1, <1>2, <1>3, <1>4, <1>5 DEF EvidenceNext

LEMMA WholeIntact ==
    ASSUME EvidenceParameters, EvidenceSound, Whole
    PROVE  UndisturbedRunIsIntact
<1> SUFFICES ASSUME run # None, ~disturbed, \A w \in Shells : ~Busy(w)
             PROVE  IntegrityErrors = {} /\ \A r \in accepted : rec[r.check] = r
  BY DEF UndisturbedRunIsIntact
<1>0. EvidenceTyped
  BY DEF EvidenceSound
<1>1. Orderly /\ \A c \in Checks : InOrder(c)
  BY DEF Whole
<1>2. LedgerErrors = {}
  <2>1. ledger # <<>>
    BY <1>1 DEF Orderly, Chained, Initialising, Busy
  <2>2. \A i \in DOMAIN ledger : ~BrokenLine(i)
    BY <1>1 DEF Orderly, Chained
  <2>3. ledger[1].kind = "run_initialized" /\ version = run.version
    BY <1>1, <2>1 DEF Orderly, Chained
  <2>4. {j \in DOMAIN ledger : BrokenLine(j)} = {}
    BY <2>2
  <2> QED
    BY <2>1, <2>3, <2>4 DEF LedgerErrors
<1>3. ASSUME NEW c \in Checks
      PROVE  /\ ~Twice(c) /\ (c \in Ledgered => c \in Found)
             /\ (c \in Found => Intact(c)) /\ ~Unledgered(c)
  <2>1. Untouched(c) \/ Recorded(c)
    BY <1>1, UnderWayIsBusy DEF InOrder
  <2>2. CASE Untouched(c)
    BY <2>2 DEF Untouched, Twice, Ledgered, Found, Unledgered
  <2>3. CASE Recorded(c)
    <3>1. PICK i \in EventsOf(c), r \in Records :
             /\ EventsOf(c) = {i} /\ rec[c] = r /\ Taken(c) \subseteq {r}
             /\ ledger[i].record = r /\ ledger[i].proofs = r.proofs
             /\ Valid(c, r) /\ Filed(c, r, DOMAIN r.proofs)
      BY <2>3 DEF Recorded
    <3>2. ~Twice(c) /\ c \in Ledgered
      BY <3>1 DEF Twice, Ledgered
    <3>3. c \in Found
      <4>1. r # None
        BY RecordIs
      <4> QED
        BY <3>1, <3>2, <4>1 DEF Found
    <3>4. Event(c) = ledger[i]
      <4>1. i <= i
        BY <1>0, <3>1 DEF EventsOf, EvidenceTyped
      <4>2. (CHOOSE k \in EventsOf(c) : \A j \in EventsOf(c) : j <= k) \in EventsOf(c)
        BY <3>1, <4>1
      <4> QED
        BY <3>1, <4>2 DEF Event
    <3>5. DOMAIN r.proofs \subseteq Paths
      BY RecordIs
    <3>6. \A p \in Paths : proof[c][p] = IF p \in DOMAIN r.proofs THEN r.proofs[p] ELSE None
      BY <3>1 DEF Filed
    <3>7. Intact(c)
      BY <3>1, <3>4, <3>5, <3>6 DEF Intact
    <3>8. ~Unledgered(c)
      <4>1. \A p \in Paths : proof[c][p] # None => p \in DOMAIN rec[c].proofs
        BY <3>1, <3>6
      <4> QED
        BY <3>2, <3>3, <4>1 DEF Unledgered
    <3> QED
      BY <3>2, <3>3, <3>7, <3>8
  <2> QED
    BY <2>1, <2>2, <2>3
<1>4. EvidenceErrors = {}
  <2>1. {d \in Checks : Twice(d)} = {} /\ {d \in Checks : Unledgered(d)} = {}
    BY <1>3
  <2>2. Ledgered \ Found = {} /\ {d \in Found : ~Intact(d)} = {}
    BY <1>3 DEF Ledgered, Found
  <2> QED
    BY <2>1, <2>2 DEF EvidenceErrors
<1>5. ASSUME NEW r \in accepted PROVE rec[r.check] = r
  <2>0. PICK c : c = r.check
    OBVIOUS
  <2>1. c \in Checks /\ r \in Taken(c)
    BY <1>0, <2>0, RecordIs DEF EvidenceTyped, Taken
  <2>2. EventsOf(c) # {}
    <3>1. Backed(r)
      BY DEF EvidenceSound, Sound
    <3>2. \A i \in DOMAIN ledger : ledger[i].kind # "torn"
      BY <1>1 DEF Orderly, Chained, BrokenLine
    <3> QED
      BY <2>0, <3>1, <3>2 DEF Backed, Twice
  <2>3. Recorded(c)
    BY <1>1, <2>1, <2>2, UnderWayIsBusy DEF InOrder, Untouched
  <2> QED
    BY <2>0, <2>1, <2>3 DEF Recorded
<1> QED
  BY <1>2, <1>4, <1>5 DEF IntegrityErrors

\* UndisturbedRunIsIntact: init, add-evidence, derive and generate-report undo
\* no integrity of their own (phase6ctl.py, verify_ledger and
\* reconcile_evidence).  What they leave between two commands is the invariant
\* Whole; while a command is at work, one check is on its way.
THEOREM UndisturbedIsIntact ==
    ASSUME EvidenceParameters
    PROVE  EvidenceSpec => []UndisturbedRunIsIntact
<1>1. EvidenceInit => EvidenceSound /\ Whole
  BY EvidenceStarts, WholeStarts
<1>2. EvidenceSound /\ Whole /\ [EvidenceNext]_evidenceVars => EvidenceSound' /\ Whole'
  BY EvidenceSteps, WholeSteps
<1>3. EvidenceSound /\ Whole => UndisturbedRunIsIntact
  BY WholeIntact
<1> QED
  BY <1>1, <1>2, <1>3, PTL DEF EvidenceSpec
=============================================================================
