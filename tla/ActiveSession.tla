---------------------------- MODULE ActiveSession ----------------------------
(***************************************************************************)
(* One ActiveAgentSession and what the active-memory store keeps for it.   *)
(*                                                                         *)
(* Three tasks share the session and interleave at every await: the        *)
(* application (start, drain, close), the heartbeat task (renewal, and     *)
(* from it resynchronisation and re-registration), and a writer of         *)
(* contexts.  A store call takes effect when it is answered; a call that   *)
(* fails, or that is cancelled, may have been carried out.  Leases and     *)
(* presences lapse by themselves.                                          *)
(*                                                                         *)
(* Every registration has an instance id of its own, so the instance also  *)
(* names the lease.  Awareness events are lossy pointers and left out.     *)
(***************************************************************************)
EXTENDS Naturals, Sequences

CONSTANTS
    Threshold,   \* heartbeat_failure_threshold
    MaxFaults,   \* bound: store calls that fail
    MaxLapses    \* bound: leases and presences that lapse

ASSUME BoundsAssumption ==
    /\ Threshold \in Nat \ {0}
    /\ MaxFaults \in Nat
    /\ MaxLapses \in Nat

VARIABLES
    state,     \* lifecycle state of the session
    instance,  \* its current instance id
    lease,     \* the instance whose lease the session holds, or NoLease
    failures,  \* consecutive heartbeat failures
    app,       \* where the application is
    beat,      \* where the heartbeat task is
    writer,    \* the lease under which a context write is under way, or NoLease
    drained,   \* TRUE once drain was called
    listed,    \* instances with a presence that has not expired
    leased,    \* instances with a lease that has not expired
    context,   \* instances with a stored context
    faults,    \* failed calls so far
    lapses     \* lapses so far

session == <<state, instance, lease, failures, app, beat, writer, drained>>
store   == <<listed, leased, context>>
vars    == <<session, store, faults, lapses>>

NoLease == 0

Instances == Nat \ {NoLease}

\* _ALLOWED_TRANSITIONS
Allowed ==
    [NEW             |-> {"REGISTERING"},
     REGISTERING     |-> {"ACTIVE", "FAILED"},
     ACTIVE          |-> {"DEGRADED", "DRAINING", "RE_REGISTERING"},
     DEGRADED        |-> {"RESYNCHRONIZING", "DRAINING", "FAILED"},
     RESYNCHRONIZING |-> {"ACTIVE", "RE_REGISTERING", "DEGRADED"},
     RE_REGISTERING  |-> {"RESYNCHRONIZING", "DEGRADED"},
     DRAINING        |-> {"CLOSED"},
     FAILED          |-> {"CLOSED"},
     CLOSED          |-> {}]

States == DOMAIN Allowed

Init ==
    /\ state = "NEW"
    /\ instance = 1
    /\ lease = NoLease
    /\ failures = 0
    /\ app = "new"
    /\ beat = "none"
    /\ writer = NoLease
    /\ drained = FALSE
    /\ listed = {} /\ leased = {} /\ context = {}
    /\ faults = 0
    /\ lapses = 0

---------------------------------------------------------------------------
\* The store.  A failed call costs a fault and may have been carried out.
Fails == faults < MaxFaults /\ faults' = faults + 1

\* register: the presence is written before the lease.
Registered(i) ==
    /\ listed' = listed \cup {i}
    /\ leased' = leased \cup {i}
    /\ UNCHANGED context

RegisteredInPart(i) ==
    \/ UNCHANGED store
    \/ listed' = listed \cup {i} /\ UNCHANGED <<leased, context>>
    \/ Registered(i)

\* Mutation: the context is left to expire.
PresenceRemoved(i) ==
    /\ listed' = listed \ {i}
    /\ leased' = leased \ {i}
    /\ UNCHANGED context

\* unregister removes everything the instance has.
Unregistered(i) ==
    /\ listed' = listed \ {i}
    /\ leased' = leased \ {i}
    /\ context' = context \ {i}

\* _valid_lease, and the presence that goes with it
Valid(i) == i \in leased /\ i \in listed

\* What is not renewed in time expires; a context expires on its own too.
Lapse(i) ==
    /\ lapses < MaxLapses
    /\ lapses' = lapses + 1
    /\ listed' \in {listed, listed \ {i}}
    /\ leased' \in {leased, leased \ {i}}
    /\ context' \in {context, context \ {i}}
    /\ UNCHANGED <<session, faults>>

---------------------------------------------------------------------------
\* transition_to, one state after the other: an edge that is not allowed
\* raises where it is met.
Passable(path) ==
    \A n \in 1..Len(path) : path[n] \in Allowed[IF n = 1 THEN state ELSE path[n - 1]]

\* The heartbeat task moves along a path of states and goes on at next.  What
\* raises in it ends it, and an ACTIVE session is degraded.
Move(path, next) ==
    IF Passable(path)
    THEN state' = path[Len(path)] /\ beat' = next
    ELSE beat' = "dead" /\ state' = (IF state = "ACTIVE" THEN "DEGRADED" ELSE state)

Beats == UNCHANGED <<app, writer, drained, lapses>>

---------------------------------------------------------------------------
\* The application.
Start ==
    /\ app = "new"
    /\ app' = "register"
    /\ state' = "REGISTERING"
    /\ UNCHANGED <<instance, lease, failures, beat, writer, drained, store, faults, lapses>>

StartAnswered ==
    /\ app = "register"
    /\ \/ /\ Registered(instance)
          /\ lease' = instance
          /\ app' = "announce"
          /\ UNCHANGED <<state, faults>>
       \/ /\ Fails /\ RegisteredInPart(instance)
          /\ state' = "FAILED"
          /\ app' = "failed"
          /\ UNCHANGED lease
    /\ UNCHANGED <<instance, failures, beat, writer, drained, lapses>>

StartAnnounced ==
    /\ app = "announce"
    /\ app' = "idle"
    /\ state' = "ACTIVE"
    /\ beat' = "sleep"
    /\ UNCHANGED <<instance, lease, failures, writer, drained, store, faults, lapses>>

\* The task that opens the session is cancelled; open_session still closes it.
StartCancelled ==
    /\ \/ app = "register" /\ RegisteredInPart(instance)
       \/ app = "announce" /\ UNCHANGED store
    /\ app' = "failed"
    /\ UNCHANGED <<state, instance, lease, failures, beat, writer, drained, faults, lapses>>

Drain ==
    /\ app = "idle"
    /\ ~drained
    /\ drained' = TRUE
    /\ state' = IF state \in {"ACTIVE", "DEGRADED"} THEN "DRAINING" ELSE state
    /\ UNCHANGED <<instance, lease, failures, app, beat, writer, store, faults, lapses>>

\* What a call of the heartbeat task that is cancelled may have done.
Cancelled ==
    \/ beat = "cleanup" /\ Unregistered(lease)
    \/ beat = "register" /\ RegisteredInPart(instance)
    \/ UNCHANGED store

\* close: the heartbeat task is cancelled and awaited, DRAINING is entered if
\* the table allows it, and the lease is given back.
Close ==
    /\ app \in {"idle", "failed"}
    /\ Cancelled
    /\ beat' = "none"
    /\ state' = IF "DRAINING" \in Allowed[state] THEN "DRAINING" ELSE state
    /\ app' = IF lease = NoLease THEN "finalize" ELSE "unregister"
    /\ UNCHANGED <<instance, lease, failures, writer, drained, faults, lapses>>

CloseAnswered ==
    /\ app = "unregister"
    /\ \/ Unregistered(lease) /\ UNCHANGED faults
       \/ Fails /\ (Unregistered(lease) \/ UNCHANGED store)
    /\ app' = "finalize"
    /\ UNCHANGED <<state, instance, lease, failures, beat, writer, drained, lapses>>

\* _finalize_closed_state
Finalize ==
    /\ app = "finalize"
    /\ app' = "closed"
    /\ state' = IF "CLOSED" \in Allowed[state] THEN "CLOSED" ELSE state
    /\ UNCHANGED <<instance, lease, failures, beat, writer, drained, store, faults, lapses>>

---------------------------------------------------------------------------
\* The heartbeat task.
BeatWakes ==
    /\ beat = "sleep"
    /\ beat' = "renew"
    /\ Beats /\ UNCHANGED <<state, instance, lease, failures, store, faults>>

\* Mutation: a degraded session re-registers without resynchronising first.
ReregisterAtOnce ==
    /\ Move(<<"RE_REGISTERING">>, "cleanup")
    /\ instance' = instance + 1
    /\ UNCHANGED <<lease, failures, store, faults>>

\* _reregister enters RE_REGISTERING, from DEGRADED through RESYNCHRONIZING,
\* and takes a new instance id.
Reregister ==
    /\ Move(IF state = "DEGRADED" THEN <<"RESYNCHRONIZING", "RE_REGISTERING">>
                                  ELSE <<"RE_REGISTERING">>, "cleanup")
    /\ instance' = instance + 1
    /\ UNCHANGED <<lease, failures, store, faults>>

\* _heartbeat_once
RenewAnswered ==
    /\ beat = "renew"
    /\ \/ /\ Valid(lease)
          /\ failures' = 0
          /\ IF state = "DEGRADED" THEN Move(<<"RESYNCHRONIZING">>, "presence")
                                   ELSE beat' = "sleep" /\ UNCHANGED state
          /\ UNCHANGED <<instance, lease, store, faults>>
       \/ /\ ~Valid(lease) /\ state = "DRAINING"
          /\ beat' = "sleep"
          /\ UNCHANGED <<state, instance, lease, failures, store, faults>>
       \/ ~Valid(lease) /\ state # "DRAINING" /\ Reregister
       \/ /\ Fails
          /\ failures' = failures + 1
          /\ IF failures + 1 >= Threshold /\ state = "ACTIVE"
             THEN Move(<<"DEGRADED">>, "sleep")
             ELSE beat' = "sleep" /\ UNCHANGED state
          /\ UNCHANGED <<instance, lease, store>>
    /\ Beats

\* _resynchronize
PresenceAnswered ==
    /\ beat = "presence"
    /\ \/ /\ instance \in listed
          /\ Move(<<"ACTIVE">>, "sleep")
          /\ UNCHANGED <<instance, lease, failures, store, faults>>
       \/ instance \notin listed /\ Reregister
       \/ /\ Fails
          /\ Move(<<"DEGRADED">>, "sleep")
          /\ UNCHANGED <<instance, lease, failures, store>>
    /\ Beats

\* Mutation: the presence and context of the old incarnation are left behind.
CleanupForgotten ==
    /\ beat = "cleanup"
    /\ beat' = "register"
    /\ Beats /\ UNCHANGED <<state, instance, lease, failures, store, faults>>

\* _reregister clears what is left of the previous incarnation, best effort.
CleanupAnswered ==
    /\ beat = "cleanup"
    /\ \/ Unregistered(lease) /\ UNCHANGED faults
       \/ Fails /\ (Unregistered(lease) \/ UNCHANGED store)
    /\ beat' = "register"
    /\ Beats /\ UNCHANGED <<state, instance, lease, failures>>

\* Mutation: a registration that failed is taken for one that succeeded.
RegisterTrusted ==
    /\ beat = "register"
    /\ \/ Registered(instance) /\ UNCHANGED faults
       \/ Fails /\ RegisteredInPart(instance)
    /\ lease' = lease
    /\ failures' = 0
    /\ beat' = "announce"
    /\ Beats /\ UNCHANGED <<state, instance>>

\* _register within _reregister
RegisterAnswered ==
    /\ beat = "register"
    /\ \/ /\ Registered(instance)
          /\ lease' = instance
          /\ failures' = 0
          /\ beat' = "announce"
          /\ UNCHANGED <<state, faults>>
       \/ /\ Fails /\ RegisteredInPart(instance)
          /\ Move(<<"DEGRADED">>, "sleep")
          /\ UNCHANGED <<lease, failures>>
    /\ Beats /\ UNCHANGED instance

Announced ==
    /\ beat = "announce"
    /\ Move(<<"RESYNCHRONIZING", "ACTIVE">>, "sleep")
    /\ Beats /\ UNCHANGED <<instance, lease, failures, store, faults>>

Beat ==
    \/ BeatWakes \/ RenewAnswered \/ PresenceAnswered
    \/ CleanupAnswered \/ RegisterAnswered \/ Announced

---------------------------------------------------------------------------
\* replace_context: permitted in ACTIVE only, under the lease held at the call.
WriteStarts ==
    /\ writer = NoLease
    /\ state = "ACTIVE"
    /\ writer' = lease
    /\ UNCHANGED <<state, instance, lease, failures, app, beat, drained, store, faults, lapses>>

\* put_context
WriteAnswered ==
    /\ writer # NoLease
    /\ \/ Valid(writer) /\ context' = context \cup {writer} /\ UNCHANGED faults
       \/ ~Valid(writer) /\ UNCHANGED <<context, faults>>
       \/ /\ Fails
          /\ context' \in {context} \cup {context \cup {i} : i \in {j \in {writer} : Valid(j)}}
    /\ writer' = NoLease
    /\ UNCHANGED <<state, instance, lease, failures, app, beat, drained, listed, leased, lapses>>

---------------------------------------------------------------------------
Application ==
    \/ Start \/ StartAnswered \/ StartAnnounced \/ StartCancelled
    \/ Drain \/ Close \/ CloseAnswered \/ Finalize

Next ==
    \/ Application
    \/ Beat
    \/ WriteStarts \/ WriteAnswered
    \/ \E i \in listed \cup leased : Lapse(i)

Spec == Init /\ [][Next]_vars

\* The event loop runs the heartbeat task whenever it can; nobody has to open,
\* drain or close a session, and nothing has to fail or lapse.
FairSpec == Spec /\ WF_vars(Beat)
---------------------------------------------------------------------------
TypeOK ==
    /\ state \in States
    /\ instance \in Instances
    /\ lease \in Instances \cup {NoLease}
    /\ failures \in 0..MaxFaults
    /\ app \in {"new", "register", "announce", "failed", "idle", "unregister", "finalize", "closed"}
    /\ beat \in {"none", "sleep", "renew", "presence", "cleanup", "register", "announce", "dead"}
    /\ writer \in Instances \cup {NoLease}
    /\ drained \in BOOLEAN
    /\ listed \subseteq Instances
    /\ leased \subseteq Instances
    /\ context \subseteq Instances
    /\ faults \in 0..MaxFaults
    /\ lapses \in 0..MaxLapses

\* However drains, outages and lapses interleave with it, the heartbeat task
\* never meets a lifecycle edge that is not allowed: such an edge once "ended
\* the heartbeat loop for good", leaving a session degraded for ever.
HeartbeatSurvives == beat # "dead"

\* An ACTIVE session, the only one that writes, holds the lease of the very
\* instance it says it is, whatever became of earlier registrations.
SpeaksForItself == state = "ACTIVE" => lease = instance

\* Peers "do not list two instances of one agent": as long as the store
\* answers, nothing of an earlier incarnation outlives a re-registration.
OneInstanceListed ==
    faults = 0 /\ state = "ACTIVE" => (listed \cup leased \cup context) \subseteq {instance}

\* A session that reached CLOSED gave back its lease and left nothing behind.
ClosedLeavesNothing ==
    faults = 0 /\ state = "CLOSED" => listed \cup leased \cup context = {}

\* A degraded session becomes ACTIVE again once the store answers, unless it is
\* shut down first (ADR-067).
Recovers == (state = "DEGRADED") ~> (state = "ACTIVE" \/ drained \/ app # "idle")

\* drain: "stop writes, keep lease until close()".
DrainStopsWrites == [][drained /\ writer = NoLease => writer' = NoLease]_vars
=============================================================================
