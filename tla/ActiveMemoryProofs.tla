------------------------- MODULE ActiveMemoryProofs -------------------------
(***************************************************************************)
(* Proofs about active memory: ActiveSession (an agent's session), then    *)
(* ActiveStores (the two adapters of the store behind it).                 *)
(***************************************************************************)
EXTENDS ActiveSession, ActiveStores, FiniteSetTheorems, TLAPS

---------------------------------------------------------------------------
(***************************************************************************)
(* Theorems about ActiveSession for any threshold and any number of faults *)
(* and lapses.  The heartbeat survives because the lifecycle state is a    *)
(* function of where the heartbeat task waits, drains included; an ACTIVE  *)
(* session holds its own lease because a lease that is not its own is no   *)
(* longer valid, so that no renewal of it can succeed.                     *)
(***************************************************************************)
\* Everything the store keeps for the agent.
Traces == listed \cup leased \cup context

\* The application is in close, or past it.
Closing == {"unregister", "finalize", "closed"}

\* The numbers of TypeOK: every consecutive failure is a failed call.
Counters ==
    /\ failures \in 0..faults
    /\ faults \in 0..MaxFaults
    /\ lapses \in 0..MaxLapses

\* The rest of TypeOK.
Kinds ==
    /\ state \in States
    /\ instance \in Instances
    /\ lease \in Instances \cup {NoLease}
    /\ app \in {"new", "register", "announce", "failed", "idle", "unregister", "finalize", "closed"}
    /\ beat \in {"none", "sleep", "renew", "presence", "cleanup", "register", "announce", "dead"}
    /\ writer \in Instances \cup {NoLease}
    /\ drained \in BOOLEAN
    /\ listed \subseteq Instances
    /\ leased \subseteq Instances
    /\ context \subseteq Instances

\* Which lifecycle states go with which points of the two tasks.
Places ==
    /\ beat # "dead"
    /\ app = "idle" <=> beat # "none"
    /\ app = "new" => state = "NEW"
    /\ app \in {"register", "announce"} => state = "REGISTERING"
    /\ app = "failed" => state \in {"REGISTERING", "FAILED"}
    /\ app \in Closing =>
          state \in {"REGISTERING", "FAILED", "RESYNCHRONIZING", "RE_REGISTERING",
                     "DRAINING", "CLOSED"}
    /\ state = "CLOSED" => app = "closed"
    /\ beat \in {"sleep", "renew"} => state \in {"ACTIVE", "DEGRADED", "DRAINING"}
    /\ beat = "presence" => state = "RESYNCHRONIZING"
    /\ beat \in {"cleanup", "register", "announce"} => state = "RE_REGISTERING"

\* Whose lease the session holds.
LeaseMatches ==
    /\ app \in {"new", "register"} => lease = NoLease
    /\ app \in {"announce", "idle"} => lease # NoLease
    /\ state = "ACTIVE" \/ app = "announce" \/ beat \in {"presence", "announce"}
          => lease = instance
    /\ lease # instance => ~Valid(lease)

\* What the store keeps as long as it has answered every call.
Clean ==
    faults = 0 =>
        /\ app \in {"new", "register", "announce", "idle"} => Traces \subseteq {lease}
        /\ beat = "register" => Traces = {}
        /\ state # "FAILED"
        /\ state = "DRAINING" /\ app = "unregister" => Traces \subseteq {lease}
        /\ state = "DRAINING" /\ app = "finalize" => Traces = {}
        /\ state = "CLOSED" => Traces = {}

IInv == Kinds /\ Counters /\ Places /\ LeaseMatches /\ Clean

---------------------------------------------------------------------------
\* The paths the heartbeat task takes from the states it takes them in are in
\* the table, so moving along them raises nothing.
LEMMA MoveOne ==
    ASSUME NEW from, NEW to, NEW next, state = from, to \in Allowed[from], Move(<<to>>, next)
    PROVE  state' = to /\ beat' = next
BY DEF Move, Passable

\* The same for two edges in a row.
LEMMA MoveTwo ==
    ASSUME NEW from, NEW via, NEW to, NEW next,
           state = from, via \in Allowed[from], to \in Allowed[via], Move(<<via, to>>, next)
    PROVE  state' = to /\ beat' = next
BY DEF Move, Passable

\* The edges the heartbeat task takes are in _ALLOWED_TRANSITIONS.
LEMMA Edges ==
    /\ "RESYNCHRONIZING" \in Allowed["DEGRADED"]
    /\ "RE_REGISTERING" \in Allowed["RESYNCHRONIZING"]
    /\ "RE_REGISTERING" \in Allowed["ACTIVE"]
    /\ "DEGRADED" \in Allowed["ACTIVE"]
    /\ "ACTIVE" \in Allowed["RESYNCHRONIZING"]
    /\ "DEGRADED" \in Allowed["RESYNCHRONIZING"]
    /\ "DEGRADED" \in Allowed["RE_REGISTERING"]
    /\ "RESYNCHRONIZING" \in Allowed["RE_REGISTERING"]
BY DEF Allowed

\* Where DRAINING and CLOSED can be entered from.
LEMMA Exits ==
    ASSUME state \in States
    PROVE  /\ "DRAINING" \in Allowed[state] <=> state \in {"ACTIVE", "DEGRADED"}
           /\ "CLOSED" \in Allowed[state] <=> state \in {"DRAINING", "FAILED"}
BY DEF Allowed, States

\* The lifecycle states are the keys of the table.
LEMMA StatesAre ==
    States = {"NEW", "REGISTERING", "ACTIVE", "DEGRADED", "RESYNCHRONIZING", "RE_REGISTERING",
              "DRAINING", "FAILED", "CLOSED"}
BY DEF Allowed, States

\* Re-registration goes through with a new instance id.
LEMMA ReregisterMoves ==
    ASSUME state \in {"ACTIVE", "DEGRADED", "RESYNCHRONIZING"}, Reregister
    PROVE  /\ state' = "RE_REGISTERING" /\ beat' = "cleanup"
           /\ instance' = instance + 1
           /\ UNCHANGED <<lease, failures, listed, leased, context, faults>>
<1>1. CASE state = "DEGRADED"
  BY <1>1, Edges, MoveTwo DEF Reregister, store
<1>2. CASE state # "DEGRADED"
  BY <1>2, Edges, MoveOne DEF Reregister, store
<1>3. QED
  BY <1>1, <1>2

---------------------------------------------------------------------------
\* What an answered renewal leads to.
LEMMA RenewMoves ==
    ASSUME IInv, RenewAnswered
    PROVE  \/ /\ Valid(lease) /\ failures' = 0 /\ state = "DEGRADED"
              /\ state' = "RESYNCHRONIZING" /\ beat' = "presence"
              /\ UNCHANGED <<instance, lease, faults>>
           \/ /\ failures' \in {0, failures} /\ beat' = "sleep"
              /\ UNCHANGED <<state, instance, lease, faults>>
           \/ /\ ~Valid(lease)
              /\ state' = "RE_REGISTERING" /\ beat' = "cleanup" /\ instance' = instance + 1
              /\ UNCHANGED <<lease, failures, faults>>
           \/ /\ Fails /\ failures' = failures + 1 /\ beat' = "sleep"
              /\ state' = state \/ (state = "ACTIVE" /\ state' = "DEGRADED")
              /\ UNCHANGED <<instance, lease>>
<1>1. beat = "renew" /\ state \in {"ACTIVE", "DEGRADED", "DRAINING"}
  BY DEF RenewAnswered, IInv, Places
<1>2. CASE Valid(lease) /\ failures' = 0 /\ UNCHANGED <<instance, lease, store, faults>>
             /\ IF state = "DEGRADED" THEN Move(<<"RESYNCHRONIZING">>, "presence")
                                      ELSE beat' = "sleep" /\ UNCHANGED state
  <2>1. CASE state = "DEGRADED"
    BY <1>2, <2>1, Edges, MoveOne
  <2>2. CASE state # "DEGRADED"
    BY <1>2, <2>2
  <2>3. QED
    BY <2>1, <2>2
<1>3. CASE ~Valid(lease) /\ state = "DRAINING" /\ beat' = "sleep"
             /\ UNCHANGED <<state, instance, lease, failures, store, faults>>
  BY <1>3
<1>4. CASE ~Valid(lease) /\ state # "DRAINING" /\ Reregister
  BY <1>1, <1>4, ReregisterMoves
<1>5. CASE Fails /\ failures' = failures + 1 /\ UNCHANGED <<instance, lease, store>>
             /\ IF failures + 1 >= Threshold /\ state = "ACTIVE"
                THEN Move(<<"DEGRADED">>, "sleep") ELSE beat' = "sleep" /\ UNCHANGED state
  <2>1. CASE failures + 1 >= Threshold /\ state = "ACTIVE"
    BY <1>5, <2>1, Edges, MoveOne
  <2>2. CASE ~(failures + 1 >= Threshold /\ state = "ACTIVE")
    BY <1>5, <2>2
  <2>3. QED
    BY <2>1, <2>2
<1>6. QED
  BY <1>2, <1>3, <1>4, <1>5 DEF RenewAnswered

\* What an answered presence read leads to.
LEMMA PresenceMoves ==
    ASSUME IInv, PresenceAnswered
    PROVE  /\ UNCHANGED <<lease, failures>>
           /\ \/ /\ state' = "ACTIVE" /\ beat' = "sleep"
                 /\ UNCHANGED <<instance, faults>>
              \/ /\ instance \notin listed
                 /\ state' = "RE_REGISTERING" /\ beat' = "cleanup" /\ instance' = instance + 1
                 /\ UNCHANGED faults
              \/ /\ Fails /\ state' = "DEGRADED" /\ beat' = "sleep"
                 /\ UNCHANGED instance
<1>1. beat = "presence" /\ state = "RESYNCHRONIZING"
  BY DEF PresenceAnswered, IInv, Places
<1>2. CASE Move(<<"ACTIVE">>, "sleep") /\ UNCHANGED <<instance, lease, failures, store, faults>>
  BY <1>1, <1>2, Edges, MoveOne
<1>3. CASE instance \notin listed /\ Reregister
  BY <1>1, <1>3, ReregisterMoves
<1>4. CASE Fails /\ Move(<<"DEGRADED">>, "sleep") /\ UNCHANGED <<instance, lease, failures, store>>
  BY <1>1, <1>4, Edges, MoveOne
<1>5. QED
  BY <1>2, <1>3, <1>4 DEF PresenceAnswered

\* What an answered registration leads to.
LEMMA RegisterMoves ==
    ASSUME IInv, RegisterAnswered
    PROVE  /\ UNCHANGED instance
           /\ \/ /\ Registered(instance) /\ lease' = instance /\ failures' = 0
                 /\ beat' = "announce" /\ UNCHANGED <<state, faults>>
              \/ /\ Fails /\ RegisteredInPart(instance)
                 /\ state' = "DEGRADED" /\ beat' = "sleep" /\ UNCHANGED <<lease, failures>>
<1>1. state = "RE_REGISTERING"
  BY DEF RegisterAnswered, IInv, Places
<1>2. CASE Fails /\ RegisteredInPart(instance) /\ Move(<<"DEGRADED">>, "sleep")
             /\ UNCHANGED <<lease, failures>>
  BY <1>1, <1>2, Edges, MoveOne DEF RegisterAnswered
<1>3. QED
  BY <1>2 DEF RegisterAnswered

\* A re-registration ends by way of RESYNCHRONIZING in ACTIVE.
LEMMA AnnouncedMoves ==
    ASSUME IInv, Announced
    PROVE  state' = "ACTIVE" /\ beat' = "sleep"
<1>1. state = "RE_REGISTERING"
  BY DEF Announced, IInv, Places
<1>2. QED
  BY <1>1, Edges, MoveTwo DEF Announced

\* A lapse only takes away.
LEMMA LapseShrinks ==
    ASSUME NEW i, Lapse(i)
    PROVE  /\ listed' \subseteq listed /\ leased' \subseteq leased /\ context' \subseteq context
           /\ UNCHANGED <<state, instance, lease, failures, app, beat, writer, drained, faults>>
BY DEF Lapse, session

\* A call that failed shows in the number of faults.
LEMMA FailsCounts ==
    ASSUME Counters, Fails
    PROVE  /\ faults' # 0 /\ faults' \in 0..MaxFaults
           /\ failures \in 0..faults' /\ failures + 1 \in 0..faults'
BY BoundsAssumption DEF Counters, Fails

\* A re-registration takes another instance.
LEMMA NextInstance ==
    ASSUME Kinds
    PROVE  instance + 1 \in Instances /\ instance + 1 # instance
BY DEF Kinds, Instances, NoLease

---------------------------------------------------------------------------
\* A session that was never started.
THEOREM InitIInv == Init => IInv
<1> SUFFICES ASSUME Init PROVE IInv
  OBVIOUS
<1>1. Kinds
  <2>1. instance \in Instances /\ lease \in Instances \cup {NoLease}
    BY DEF Init, Instances, NoLease
  <2>2. QED
    BY <2>1, StatesAre DEF Init, Kinds
<1>2. Counters
  BY BoundsAssumption DEF Init, Counters
<1>3. Places /\ LeaseMatches /\ Clean
  BY DEF Init, Places, LeaseMatches, Clean, Closing, Traces, Valid
<1>4. QED
  BY <1>1, <1>2, <1>3 DEF IInv

\* Registration begins without a lease.
LEMMA StartStep ==
    ASSUME IInv, Start
    PROVE  IInv'
<1> USE DEF IInv
<1>1. Kinds'
  BY StatesAre DEF Kinds, Start, store
<1>2. Counters'
  BY DEF Counters, Start
<1>3. Places'
  BY DEF Places, Start
<1>4. LeaseMatches'
  BY DEF LeaseMatches, Valid, Start, store
<1>5. Clean'
  BY DEF Clean, Traces, Start, store
<1>6. QED
  BY <1>1, <1>2, <1>3, <1>4, <1>5

\* A registration that fails leaves no lease the session knows of.
LEMMA StartAnsweredStep ==
    ASSUME IInv, StartAnswered
    PROVE  IInv'
<1> USE DEF IInv
<1>1. Kinds'
  BY StatesAre DEF Kinds, StartAnswered, Registered, RegisteredInPart, store
<1>2. Counters'
  BY FailsCounts DEF Counters, StartAnswered
<1>3. Places'
  BY DEF Places, StartAnswered
<1>4. LeaseMatches'
  <2>1. CASE Registered(instance) /\ lease' = instance /\ app' = "announce"
    BY <2>1 DEF Kinds, LeaseMatches, Instances, StartAnswered
  <2>2. CASE Fails /\ app' = "failed" /\ state' = "FAILED" /\ RegisteredInPart(instance)
               /\ UNCHANGED lease
    <3>1. lease = NoLease /\ NoLease \notin listed /\ instance # NoLease
      BY DEF Kinds, LeaseMatches, Instances, StartAnswered
    <3>2. NoLease \notin listed'
      BY <2>2, <3>1 DEF RegisteredInPart, Registered, store
    <3>3. QED
      BY <2>2, <3>1, <3>2 DEF LeaseMatches, Valid, StartAnswered
  <2>3. QED
    BY <2>1, <2>2 DEF StartAnswered
<1>5. Clean'
  BY ZenonT(40), FailsCounts
     DEF Kinds, LeaseMatches, Clean, Traces, Instances, StartAnswered, Registered
<1>6. QED
  BY <1>1, <1>2, <1>3, <1>4, <1>5

\* The session becomes ACTIVE with the lease it was given.
LEMMA StartAnnouncedStep ==
    ASSUME IInv, StartAnnounced
    PROVE  IInv'
<1> USE DEF IInv
<1>1. Kinds'
  BY StatesAre DEF Kinds, StartAnnounced, store
<1>2. Counters'
  BY DEF Counters, StartAnnounced
<1>3. Places'
  BY DEF Places, Closing, StartAnnounced
<1>4. LeaseMatches'
  BY DEF LeaseMatches, StartAnnounced
<1>5. Clean'
  BY DEF Clean, Traces, StartAnnounced, store
<1>6. QED
  BY <1>1, <1>2, <1>3, <1>4, <1>5

\* A start cancelled in mid-call may have registered all the same.
LEMMA StartCancelledStep ==
    ASSUME IInv, StartCancelled
    PROVE  IInv'
<1> USE DEF IInv
<1>1. Kinds'
  BY DEF Kinds, StartCancelled, Registered, RegisteredInPart, store
<1>2. Counters'
  BY DEF Counters, StartCancelled
<1>3. Places'
  BY DEF Places, StartCancelled
<1>4. LeaseMatches'
  BY DEF LeaseMatches, Valid, StartCancelled, Registered, RegisteredInPart, store
<1>5. Clean'
  BY DEF Places, Clean, StartCancelled
<1>6. QED
  BY <1>1, <1>2, <1>3, <1>4, <1>5

\* A drain takes effect only where the table has the edge to DRAINING.
LEMMA DrainStep ==
    ASSUME IInv, Drain
    PROVE  IInv'
<1> USE DEF IInv
<1>1. Kinds'
  BY StatesAre DEF Kinds, Drain, store
<1>2. Counters'
  BY DEF Counters, Drain
<1>3. Places'
  BY DEF Places, Drain
<1>4. LeaseMatches'
  BY DEF LeaseMatches, Valid, Drain, store
<1>5. Clean'
  BY DEF Clean, Traces, Drain, store
<1>6. QED
  BY <1>1, <1>2, <1>3, <1>4, <1>5

\* close cancels the heartbeat wherever it waits, its call perhaps carried out.
LEMMA CloseStep ==
    ASSUME IInv, Close
    PROVE  IInv'
<1> USE DEF IInv
<1>1. Kinds'
  BY StatesAre
     DEF Kinds, Close, Cancelled, Unregistered, Registered, RegisteredInPart, store
<1>2. Counters'
  BY DEF Counters, Close
<1>3. Places'
  BY Exits DEF Kinds, Places, Close
<1>4. LeaseMatches'
  BY DEF LeaseMatches, Valid, Close, Cancelled, Unregistered, Registered, RegisteredInPart,
     store
<1>5. Clean'
  BY Exits DEF Kinds, Places, Clean, Traces, Instances, Close, Cancelled, store
<1>6. QED
  BY <1>1, <1>2, <1>3, <1>4, <1>5

\* Unregistering leaves nothing of the instance, or a failed call.
LEMMA CloseAnsweredStep ==
    ASSUME IInv, CloseAnswered
    PROVE  IInv'
<1> USE DEF IInv
<1>1. Kinds'
  BY DEF Kinds, CloseAnswered, Unregistered, store
<1>2. Counters'
  BY FailsCounts DEF Counters, CloseAnswered
<1>3. Places'
  BY DEF Places, Closing, CloseAnswered
<1>4. LeaseMatches'
  BY DEF LeaseMatches, Valid, CloseAnswered, Unregistered, store
<1>5. Clean'
  BY FailsCounts DEF Clean, Traces, CloseAnswered, Unregistered
<1>6. QED
  BY <1>1, <1>2, <1>3, <1>4, <1>5

\* CLOSED is reached from DRAINING and FAILED only.
LEMMA FinalizeStep ==
    ASSUME IInv, Finalize
    PROVE  IInv'
<1> USE DEF IInv
<1>1. Kinds'
  BY StatesAre DEF Kinds, Finalize, store
<1>2. Counters'
  BY DEF Counters, Finalize
<1>3. Places'
  BY DEF Places, Closing, Finalize
<1>4. LeaseMatches'
  BY DEF LeaseMatches, Valid, Finalize, store
<1>5. Clean'
  BY Exits DEF Kinds, Clean, Traces, Finalize, store
<1>6. QED
  BY <1>1, <1>2, <1>3, <1>4, <1>5

\* The next renewal is sent in the state the sleep was left in.
LEMMA BeatWakesStep ==
    ASSUME IInv, BeatWakes
    PROVE  IInv'
<1> USE DEF IInv
<1>1. Kinds'
  BY DEF Kinds, BeatWakes, Beats, store
<1>2. Counters'
  BY DEF Counters, BeatWakes, Beats
<1>3. Places'
  BY DEF Places, BeatWakes, Beats
<1>4. LeaseMatches'
  BY DEF LeaseMatches, Valid, BeatWakes, Beats, store
<1>5. Clean'
  BY DEF Clean, Traces, BeatWakes, Beats, store
<1>6. QED
  BY <1>1, <1>2, <1>3, <1>4, <1>5

\* A renewal that succeeds was of a valid lease, hence of the own instance.
LEMMA RenewAnsweredStep ==
    ASSUME IInv, RenewAnswered
    PROVE  IInv'
<1> USE DEF IInv
<1>1. Kinds'
  BY RenewMoves, NextInstance, StatesAre DEF Kinds, RenewAnswered, Beats, Reregister, store
<1>2. Counters'
  BY RenewMoves, FailsCounts DEF Counters, RenewAnswered, Beats
<1>3. Places'
  BY RenewMoves DEF Places, RenewAnswered, Beats
<1>4. LeaseMatches'
  BY RenewMoves DEF Places, LeaseMatches, Valid, RenewAnswered, Beats, Reregister, store
<1>5. Clean'
  BY RenewMoves, FailsCounts DEF Clean, Traces, RenewAnswered, Beats, Reregister, store
<1>6. QED
  BY <1>1, <1>2, <1>3, <1>4, <1>5

\* Resynchronisation ends ACTIVE, re-registers or falls back to DEGRADED.
LEMMA PresenceAnsweredStep ==
    ASSUME IInv, PresenceAnswered
    PROVE  IInv'
<1> USE DEF IInv
<1>1. Kinds'
  BY PresenceMoves, NextInstance, StatesAre
     DEF Kinds, PresenceAnswered, Beats, Reregister, store
<1>2. Counters'
  BY PresenceMoves, FailsCounts DEF Counters, PresenceAnswered, Beats
<1>3. Places'
  BY PresenceMoves DEF Places, Closing, PresenceAnswered, Beats
<1>4. LeaseMatches'
  BY PresenceMoves
     DEF Places, LeaseMatches, Valid, PresenceAnswered, Beats, Reregister, store
<1>5. Clean'
  BY PresenceMoves, FailsCounts
     DEF Clean, Traces, PresenceAnswered, Beats, Reregister, store
<1>6. QED
  BY <1>1, <1>2, <1>3, <1>4, <1>5

\* The clean-up of the old instance leaves nothing or a failed call.
LEMMA CleanupAnsweredStep ==
    ASSUME IInv, CleanupAnswered
    PROVE  IInv'
<1> USE DEF IInv
<1>1. Kinds'
  BY DEF Kinds, CleanupAnswered, Beats, Unregistered, store
<1>2. Counters'
  BY FailsCounts DEF Counters, CleanupAnswered, Beats
<1>3. Places'
  BY DEF Places, CleanupAnswered, Beats
<1>4. LeaseMatches'
  BY DEF LeaseMatches, Valid, CleanupAnswered, Beats, Unregistered, store
<1>5. Clean'
  BY FailsCounts DEF Places, Clean, Traces, CleanupAnswered, Unregistered
<1>6. QED
  BY <1>1, <1>2, <1>3, <1>4, <1>5

\* A re-registration that fails part way leaves a lease that is not valid.
LEMMA RegisterAnsweredStep ==
    ASSUME IInv, RegisterAnswered
    PROVE  IInv'
<1> USE DEF IInv
<1>1. Kinds'
  BY RegisterMoves, StatesAre
     DEF Kinds, RegisterAnswered, Beats, Registered, RegisteredInPart, store
<1>2. Counters'
  BY FailsCounts DEF Counters, RegisterAnswered, Beats
<1>3. Places'
  BY RegisterMoves DEF Places, Closing, RegisterAnswered, Beats
<1>4. LeaseMatches'
  <2>1. CASE Registered(instance) /\ lease' = instance /\ beat' = "announce" /\ UNCHANGED state
    BY <2>1 DEF Kinds, Places, LeaseMatches, Instances, RegisterAnswered, Beats
  <2>2. CASE RegisteredInPart(instance) /\ state' = "DEGRADED" /\ beat' = "sleep"
               /\ UNCHANGED lease
    <3>1. lease # instance => ~Valid(lease)'
      BY <2>2 DEF LeaseMatches, Valid, RegisteredInPart, Registered, store
    <3>2. QED
      BY <2>2, <3>1 DEF LeaseMatches, RegisterAnswered, Beats
  <2>3. QED
    BY <2>1, <2>2, RegisterMoves
<1>5. Clean'
  BY FailsCounts DEF Places, Clean, Traces, RegisterAnswered, Registered
<1>6. QED
  BY <1>1, <1>2, <1>3, <1>4, <1>5

\* The lease of a re-registered session is of its new instance.
LEMMA AnnouncedStep ==
    ASSUME IInv, Announced
    PROVE  IInv'
<1> USE DEF IInv
<1>1. Kinds'
  BY AnnouncedMoves, StatesAre DEF Kinds, Announced, Beats, store
<1>2. Counters'
  BY DEF Counters, Announced, Beats
<1>3. Places'
  BY AnnouncedMoves DEF Places, Closing, Announced, Beats
<1>4. LeaseMatches'
  BY DEF LeaseMatches, Announced, Beats
<1>5. Clean'
  BY AnnouncedMoves DEF Clean, Traces, Announced, Beats, store
<1>6. QED
  BY <1>1, <1>2, <1>3, <1>4, <1>5

\* A write takes along the lease it was allowed under.
LEMMA WriteStartsStep ==
    ASSUME IInv, WriteStarts
    PROVE  IInv'
<1> USE DEF IInv
<1>1. Kinds'
  BY DEF Kinds, WriteStarts, store
<1>2. Counters'
  BY DEF Counters, WriteStarts
<1>3. Places'
  BY DEF Places, WriteStarts
<1>4. LeaseMatches'
  BY DEF LeaseMatches, WriteStarts
<1>5. Clean'
  BY DEF Clean, Traces, WriteStarts, store
<1>6. QED
  BY <1>1, <1>2, <1>3, <1>4, <1>5

\* A context is stored only while the lease it was sent under is valid.
LEMMA WriteAnsweredStep ==
    ASSUME IInv, WriteAnswered
    PROVE  IInv'
<1> USE DEF IInv
<1>1. Kinds'
  BY DEF Kinds, WriteAnswered
<1>2. Counters'
  BY FailsCounts DEF Counters, WriteAnswered
<1>3. Places'
  BY DEF Places, WriteAnswered
<1>4. LeaseMatches'
  BY DEF LeaseMatches, Valid, WriteAnswered
<1>5. Clean'
  BY FailsCounts DEF Clean, Traces, Valid, WriteAnswered
<1>6. QED
  BY <1>1, <1>2, <1>3, <1>4, <1>5

\* Expiry only removes keys.
LEMMA LapseStep ==
    ASSUME IInv, NEW i \in listed \cup leased, Lapse(i)
    PROVE  IInv'
<1> USE DEF IInv
<1>1. Kinds'
  BY LapseShrinks DEF Kinds
<1>2. Counters'
  BY LapseShrinks, BoundsAssumption DEF Counters, Lapse
<1>3. Places'
  BY LapseShrinks DEF Places
<1>4. LeaseMatches'
  BY LapseShrinks DEF LeaseMatches, Valid
<1>5. Clean'
  BY LapseShrinks DEF Clean, Traces
<1>6. QED
  BY <1>1, <1>2, <1>3, <1>4, <1>5

---------------------------------------------------------------------------
\* Every step keeps the inductive invariant.
THEOREM IInvStep == IInv /\ [Next]_vars => IInv'
<1> SUFFICES ASSUME IInv, [Next]_vars PROVE IInv'
  OBVIOUS
<1>1. CASE Application
  BY <1>1, StartStep, StartAnsweredStep, StartAnnouncedStep, StartCancelledStep, DrainStep,
     CloseStep, CloseAnsweredStep, FinalizeStep
     DEF Application
<1>2. CASE Beat
  BY <1>2, BeatWakesStep, RenewAnsweredStep, PresenceAnsweredStep, CleanupAnsweredStep,
     RegisterAnsweredStep, AnnouncedStep
     DEF Beat
<1>3. CASE WriteStarts \/ WriteAnswered
  BY <1>3, WriteStartsStep, WriteAnsweredStep
<1>4. CASE \E i \in listed \cup leased : Lapse(i)
  BY <1>4, LapseStep
<1>5. CASE UNCHANGED vars
  BY <1>5
     DEF vars, session, store, IInv, Kinds, Counters, Places, LeaseMatches, Clean, Traces,
         Valid
<1>6. QED
  BY <1>1, <1>2, <1>3, <1>4, <1>5 DEF Next

\* The inductive invariant holds in every reachable state.
THEOREM Invariance == Spec => []IInv
BY InitIInv, IInvStep, PTL DEF Spec

\* Every reachable state of a session and its store is well typed.
THEOREM TypeCorrect == Spec => []TypeOK
<1>1. ASSUME IInv PROVE TypeOK
  <2>1. failures \in 0..MaxFaults
    BY <1>1, BoundsAssumption DEF IInv, Counters
  <2>2. QED
    BY <1>1, <2>1 DEF IInv, Kinds, Counters, TypeOK
<1>2. QED
  BY <1>1, Invariance, PTL

\* No interleaving of drains, outages and lapses leads the heartbeat task to a
\* lifecycle edge that the table does not have.
THEOREM HeartbeatLives == Spec => []HeartbeatSurvives
<1>1. IInv => HeartbeatSurvives
  BY DEF IInv, Places, HeartbeatSurvives
<1>2. QED
  BY <1>1, Invariance, PTL

\* An ACTIVE session holds the lease of the instance it claims to be.
THEOREM HoldsOwnLease == Spec => []SpeaksForItself
<1>1. IInv => SpeaksForItself
  BY DEF IInv, LeaseMatches, SpeaksForItself
<1>2. QED
  BY <1>1, Invariance, PTL

\* While the store answers, an ACTIVE session is the only instance listed.
THEOREM ListedOnce == Spec => []OneInstanceListed
<1>1. IInv => OneInstanceListed
  <2> SUFFICES ASSUME IInv, faults = 0, state = "ACTIVE"
               PROVE  (listed \cup leased \cup context) \subseteq {instance}
    BY DEF OneInstanceListed
  <2>1. app = "idle"
    BY DEF IInv, Kinds, Places, Closing
  <2>2. lease = instance
    BY DEF IInv, LeaseMatches
  <2>3. QED
    BY <2>1, <2>2 DEF IInv, Clean, Traces
<1>2. QED
  BY <1>1, Invariance, PTL

\* A session that reached CLOSED while the store answered left nothing behind.
THEOREM LeavesNothing == Spec => []ClosedLeavesNothing
<1>1. IInv => ClosedLeavesNothing
  BY DEF IInv, Clean, Traces, ClosedLeavesNothing
<1>2. QED
  BY <1>1, Invariance, PTL

---------------------------------------------------------------------------
(***************************************************************************)
(* The reference adapter and the Redis adapter answer alike, for every set *)
(* of instances and for all lifetimes.                                     *)
(*                                                                         *)
(* SameAnswers says nothing of what is stored.  StoresInv does: for an     *)
(* instance that has not parted, keys and dictionary entries are the same, *)
(* and the reference's counter is the version in the context's key, lapsed *)
(* or not.                                                                 *)
(***************************************************************************)
Parameters ==
    /\ IsFiniteSet(Incarnations)
    /\ LeaseTtl \in Nat \ {0}
    /\ PresenceTtl \in Nat \ {0}
    /\ ContextTtl \in Nat \ {0}
    /\ PageSize \in Nat \ {0}
    /\ Rank \in [Incarnations -> Nat]
    /\ None \notin Nat \cup Presence \cup Lease \cup Context \cup Incarnations

Alike(i) ==
    /\ mem.presence[i] = red.presence[i]
    /\ mem.lease[i] = red.lease[i]
    /\ mem.context[i] = red.context[i]
    /\ mem.version[i] = IF red.context[i] = None THEN 0 ELSE red.context[i].version

Indexed(i) ==
    red.index[i] = IF red.presence[i] = None THEN None ELSE red.presence[i].expires

StoresInv ==
    /\ StoresTyped
    /\ \A i \in Incarnations : Indexed(i)
    /\ \A i \in Incarnations \ parted : Alike(i)
    /\ SameAnswers

LEMMA InitInv == ASSUME Parameters PROVE StoresInit => StoresInv
BY DEF Parameters, StoresInit, StoresInv, StoresTyped, Table, Indexed, Alike, SameAnswers

\* What the stores write is well typed.
LEMMA GivenKinds ==
    ASSUME Parameters, now \in Nat
    PROVE  /\ Fresh \in Presence
           /\ \A id \in LeaseIds : Given(0, id) \in Lease
           /\ \A v \in Nat, d \in Drafts : Written(v + 1, d) \in Context
BY DEF Parameters, Fresh, Presence, Given, Lease, Written, Context

LEMMA TickInv == ASSUME Parameters, StoresInv, Tick PROVE StoresInv'
BY DEF Tick, StoresInv, StoresTyped, Indexed, Alike, SameAnswers


\* A call about instance i leaves the others as they are.
Untouched(i) ==
    \A j \in Incarnations \ {i} :
        /\ mem'.presence[j] = mem.presence[j] /\ red'.presence[j] = red.presence[j]
        /\ mem'.lease[j] = mem.lease[j] /\ red'.lease[j] = red.lease[j]
        /\ mem'.context[j] = mem.context[j] /\ red'.context[j] = red.context[j]
        /\ mem'.version[j] = mem.version[j] /\ red'.index[j] = red.index[j]

LEMMA CallInv ==
    ASSUME StoresInv, StoresTyped', NEW i \in Incarnations, Untouched(i),
           parted \subseteq parted', parted' \subseteq parted \cup {i},
           Indexed(i)', i \notin parted' => Alike(i)',
           SameAnswers'
    PROVE  StoresInv'
<1>1. ASSUME NEW j \in Incarnations PROVE Indexed(j)'
  BY DEF StoresInv, Untouched, Indexed
<1>2. ASSUME NEW j \in Incarnations \ parted' PROVE Alike(j)'
  <2>1. CASE j = i
    BY <2>1
  <2>2. CASE j # i
    BY <2>2 DEF StoresInv, Untouched, Alike
  <2> QED
    BY <2>1, <2>2
<1> QED
  BY <1>1, <1>2 DEF StoresInv

LEMMA RegisterInv ==
    ASSUME Parameters, StoresInv, NEW i \in Incarnations, NEW id \in LeaseIds, Register(i, id)
    PROVE  StoresInv'
<1>1. Fresh \in Presence /\ Given(i, id) \in Lease /\ now + PresenceTtl \in Nat
  BY GivenKinds DEF StoresInv, StoresTyped, Given, Lease, Parameters
<1>2. StoresTyped'
  BY <1>1 DEF StoresInv, StoresTyped, Register, MRegistered, RRegistered, Table, Answered
<1>3. Untouched(i)
  BY DEF Untouched, StoresInv, StoresTyped, Table, Register, MRegistered, RRegistered
<1>4. /\ mem'.presence[i] = Fresh /\ red'.presence[i] = Fresh
      /\ mem'.lease[i] = Given(i, id) /\ red'.lease[i] = Given(i, id)
      /\ mem'.context[i] = mem.context[i] /\ red'.context[i] = red.context[i]
      /\ mem'.version[i] = mem.version[i] /\ red'.index[i] = now + PresenceTtl
  BY DEF StoresInv, StoresTyped, Table, Register, MRegistered, RRegistered
<1>5. Fresh # None /\ Fresh.expires = now + PresenceTtl /\ Given(i, id).expires = now + LeaseTtl
  BY <1>1 DEF Fresh, Given, Parameters
<1>6. Indexed(i)'
  BY <1>4, <1>5 DEF Indexed
<1>7. i \notin parted' => Alike(i)'
  BY <1>4, <1>5 DEF Alike, StoresInv, Parameters, Register, StoresTyped
<1>8. SameAnswers'
  BY DEF SameAnswers, Register, Answered
<1> QED
  BY <1>2, <1>3, <1>6, <1>7, <1>8, CallInv DEF Register

\* A lease that is held on either side is held on both; so with a live presence.
LEMMA HeldAlike ==
    ASSUME Parameters, StoresInv, NEW i \in Incarnations \ parted, NEW id \in LeaseIds
    PROVE  /\ MHolds(i, id) <=> RHolds(i, id)
           /\ Live(mem.presence[i]) <=> Get(red.presence[i]) # None
<1>1. Alike(i)
  BY DEF StoresInv
<1>2. mem.lease[i] # None => mem.lease[i] \in Lease
  BY DEF StoresInv, StoresTyped, Table
<1>3. mem.presence[i] # None => mem.presence[i] \in Presence
  BY DEF StoresInv, StoresTyped, Table
<1>4. now \in Nat
  BY DEF StoresInv, StoresTyped
<1> QED
  BY <1>1, <1>2, <1>3, <1>4
  DEF MHolds, RHolds, Live, Get, Alike, Lease, Presence

LEMMA RenewInv ==
    ASSUME Parameters, StoresInv, NEW i \in Incarnations, NEW id \in LeaseIds, Renew(i, id)
    PROVE  StoresInv'
<1>1. Fresh \in Presence /\ Given(i, id) \in Lease /\ now + PresenceTtl \in Nat /\ now + LeaseTtl \in Nat
  BY GivenKinds DEF StoresInv, StoresTyped, Given, Lease, Parameters
<1>2. MRenews(i, id) => [mem.lease[i] EXCEPT !.expires = now + LeaseTtl] = Given(i, id)
  <2>1. MRenews(i, id) => mem.lease[i] \in Lease /\ mem.lease[i].id = id
    BY DEF MRenews, MHolds, Live, StoresInv, StoresTyped, Table
  <2> QED
    BY <2>1 DEF Lease, Given
<1>3. mem' = IF MRenews(i, id)
             THEN [mem EXCEPT !.lease[i] = Given(i, id), !.presence[i] = Fresh] ELSE mem
  <2>1. MRenews(i, id) => [mem EXCEPT !.lease[i].expires = now + LeaseTtl, !.presence[i] = Fresh]
                          = [mem EXCEPT !.lease[i] = Given(i, id), !.presence[i] = Fresh]
    BY <1>2 DEF StoresInv, StoresTyped, Table
  <2> QED
    BY <2>1 DEF Renew, MRenewed
<1>0. red' = IF RRenews(i, id)
             THEN [red EXCEPT !.lease[i] = Given(i, id), !.presence[i] = Fresh,
                              !.index[i] = now + PresenceTtl]
             ELSE red
  BY DEF Renew, RRenewed
<1>4. StoresTyped'
  <2>1. mem' \in [presence : Table(Presence), lease : Table(Lease),
                  context : Table(Context), version : [Incarnations -> Nat]]
    BY <1>1, <1>3 DEF StoresInv, StoresTyped, Table
  <2>2. red' \in [presence : Table(Presence), lease : Table(Lease),
                  context : Table(Context), index : Table(Nat)]
    BY <1>1, <1>0 DEF StoresInv, StoresTyped, Table
  <2> QED
    BY <2>1, <2>2 DEF StoresInv, StoresTyped, Renew, Answered
<1>5. Untouched(i)
  BY <1>3, <1>0 DEF Untouched, StoresInv, StoresTyped, Table
<1>b. /\ mem'.context[i] = mem.context[i] /\ mem'.version[i] = mem.version[i]
      /\ MRenews(i, id) => mem'.presence[i] = Fresh /\ mem'.lease[i] = Given(i, id)
      /\ ~MRenews(i, id) => mem'.presence[i] = mem.presence[i] /\ mem'.lease[i] = mem.lease[i]
  BY <1>3 DEF StoresInv, StoresTyped, Table
<1>c. /\ red'.context[i] = red.context[i]
      /\ RRenews(i, id) => /\ red'.presence[i] = Fresh /\ red'.lease[i] = Given(i, id)
                           /\ red'.index[i] = now + PresenceTtl
      /\ ~RRenews(i, id) => /\ red'.presence[i] = red.presence[i] /\ red'.lease[i] = red.lease[i]
                            /\ red'.index[i] = red.index[i]
  BY <1>0 DEF StoresInv, StoresTyped, Table
<1>7. Fresh # None /\ Fresh.expires = now + PresenceTtl /\ Given(i, id).expires = now + LeaseTtl
  BY <1>1 DEF Fresh, Given, Parameters
<1>8. Indexed(i)'
  BY <1>c, <1>7 DEF Indexed, StoresInv
<1>9. i \notin parted => (MRenews(i, id) <=> RRenews(i, id))
  BY HeldAlike DEF MRenews, RRenews
<1>10. i \notin parted' => Alike(i)'
  BY <1>b, <1>c, <1>7, <1>9 DEF Alike, StoresInv, Parameters, Renew, StoresTyped
<1>11. SameAnswers'
  BY <1>9 DEF SameAnswers, Renew, Answered
<1> QED
  BY <1>4, <1>5, <1>8, <1>10, <1>11, CallInv DEF Renew

LEMMA UnregisterInv ==
    ASSUME Parameters, StoresInv, NEW i \in Incarnations, NEW id \in LeaseIds, Unregister(i, id)
    PROVE  StoresInv'
<1>1. StoresTyped'
  BY DEF StoresInv, StoresTyped, Unregister, MUnregistered, RUnregistered, Table, Answered
<1>2. Untouched(i)
  BY DEF Untouched, StoresInv, StoresTyped, Table, Unregister, MUnregistered, RUnregistered
<1>3. /\ MYields(i, id) => /\ mem'.presence[i] = None /\ mem'.lease[i] = None
                           /\ mem'.context[i] = None /\ mem'.version[i] = 0
      /\ ~MYields(i, id) => mem' = mem
      /\ RYields(i, id) => /\ red'.presence[i] = None /\ red'.lease[i] = None
                           /\ red'.context[i] = None /\ red'.index[i] = None
      /\ ~RYields(i, id) => red' = red
  BY DEF StoresInv, StoresTyped, Table, Unregister, MUnregistered, RUnregistered
<1>4. Indexed(i)'
  BY <1>3 DEF Indexed, StoresInv
<1>5. i \notin parted' => i \notin parted /\ (MYields(i, id) <=> RYields(i, id))
  BY DEF Unregister, MYields, RYields
<1>6. i \notin parted' => Alike(i)'
  BY <1>3, <1>5 DEF Alike, StoresInv
<1>7. SameAnswers'
  BY DEF SameAnswers, Unregister, Answered
<1> QED
  BY <1>1, <1>2, <1>4, <1>6, <1>7, CallInv DEF Unregister

LEMMA PutInv ==
    ASSUME Parameters, StoresInv, NEW i \in Incarnations, NEW id \in LeaseIds,
           NEW expected, NEW d \in Drafts, PutContext(i, id, expected, d)
    PROVE  StoresInv'
<1>1. MVersion(i) \in Nat /\ RVersion(i) \in Nat
  BY DEF MVersion, RVersion, Get, Live, StoresInv, StoresTyped, Table, Context
<1>2. Written(MVersion(i) + 1, d) \in Context /\ Written(RVersion(i) + 1, d) \in Context
  BY <1>1, GivenKinds DEF StoresInv, StoresTyped
<1>3. StoresTyped'
  <2>1. mem' \in [presence : Table(Presence), lease : Table(Lease),
                  context : Table(Context), version : [Incarnations -> Nat]]
    <3>1. \A n \in Nat, x \in Context :
             [mem EXCEPT !.version[i] = n, !.context[i] = x]
                 \in [presence : Table(Presence), lease : Table(Lease),
                      context : Table(Context), version : [Incarnations -> Nat]]
      BY DEF StoresInv, StoresTyped, Table
    <3>2. MVersion(i) + 1 \in Nat
      BY <1>1
    <3> QED
      BY <3>1, <3>2, <1>2 DEF PutContext, StoresInv, StoresTyped
  <2>2. red' \in [presence : Table(Presence), lease : Table(Lease),
                  context : Table(Context), index : Table(Nat)]
    BY <1>1, <1>2 DEF StoresInv, StoresTyped, Table, PutContext
  <2> QED
    BY <2>1, <2>2 DEF StoresInv, StoresTyped, PutContext, Answered
<1>4. Untouched(i)
  BY DEF Untouched, StoresInv, StoresTyped, Table, PutContext
<1>5. /\ mem'.presence[i] = mem.presence[i] /\ red'.presence[i] = red.presence[i]
      /\ mem'.lease[i] = mem.lease[i] /\ red'.lease[i] = red.lease[i]
      /\ red'.index[i] = red.index[i]
      /\ IF MPut(i, id, expected) = "committed"
         THEN mem'.context[i] = Written(MVersion(i) + 1, d) /\ mem'.version[i] = MVersion(i) + 1
         ELSE mem'.context[i] = mem.context[i] /\ mem'.version[i] = mem.version[i]
      /\ red'.context[i] = IF RPut(i, id, expected) = "committed"
                           THEN Written(RVersion(i) + 1, d) ELSE red.context[i]
  BY DEF StoresInv, StoresTyped, Table, PutContext
<1>6. Indexed(i)'
  BY <1>5 DEF Indexed, StoresInv
<1>7. i \notin parted' => i \notin parted /\ MVersion(i) = RVersion(i) /\ ~Outlived(i, id)
  BY DEF PutContext
<1>8. i \notin parted' => MPut(i, id, expected) = RPut(i, id, expected)
  <2>1. ASSUME i \notin parted, mem.presence[i] = None PROVE Get(red.presence[i]) = None
    BY <2>1, HeldAlike DEF Live
  <2> QED
    BY <1>7, <2>1, HeldAlike DEF MPut, RPut, Outlived
<1>9. Written(RVersion(i) + 1, d) # None /\ Written(RVersion(i) + 1, d).version = RVersion(i) + 1
  BY <1>2 DEF Parameters, Written
<1>10. i \notin parted' => Alike(i)'
  BY <1>5, <1>7, <1>8, <1>9 DEF Alike, StoresInv
<1>11. SameAnswers'
  BY <1>7, <1>8 DEF SameAnswers, PutContext, Answered
<1> QED
  BY <1>3, <1>4, <1>6, <1>10, <1>11, CallInv DEF PutContext

LEMMA NextInv == ASSUME Parameters, StoresInv, [StoresNext]_storesVars PROVE StoresInv'
<1>1. CASE Tick
  BY <1>1, TickInv
<1>2. CASE \E i \in Incarnations, id \in LeaseIds : Register(i, id)
  BY <1>2, RegisterInv
<1>3. CASE \E i \in Incarnations, id \in LeaseIds : Renew(i, id)
  BY <1>3, RenewInv
<1>4. CASE \E i \in Incarnations, id \in LeaseIds : Unregister(i, id)
  BY <1>4, UnregisterInv
<1>5. CASE \E i \in Incarnations, id \in LeaseIds :
              \E expected \in Nat \cup {None}, d \in Drafts : PutContext(i, id, expected, d)
  BY <1>5, PutInv
<1>6. CASE UNCHANGED storesVars
  BY <1>6 DEF storesVars, StoresInv, StoresTyped, Indexed, Alike, SameAnswers
<1> QED
  BY <1>1, <1>2, <1>3, <1>4, <1>5, <1>6 DEF StoresNext

LEMMA Inductive == ASSUME Parameters PROVE StoresSpec => []StoresInv
BY InitInv, NextInv, PTL DEF StoresSpec

\* Every call, register to put_context, gets the same answer from both adapters,
\* except about an instance whose context lapsed before its next version, whose
\* lease outlived its presence when it put a context, or whose lapsed lease a
\* stranger released.
THEOREM AnswersAgree == ASSUME Parameters PROVE StoresSpec => []SameAnswers
BY Inductive, PTL DEF StoresInv

LEMMA ReadsInv == ASSUME Parameters, StoresInv PROVE SameReads
BY HeldAlike DEF StoresInv, SameReads, Alike, MPresence, RPresence, MContext, RContext, MRead, RRead, Get, Parameters

\* So do get_presence and get_context of a named instance, with the same exceptions.
THEOREM ReadsAgree == ASSUME Parameters PROVE StoresSpec => []SameReads
BY Inductive, ReadsInv, PTL

\* The index lists the instances whose presence is live.
LEMMA IndexIsPresence ==
    ASSUME Parameters, StoresInv, NEW i \in Incarnations
    PROVE  i \in RIndexed <=> RPresence(i) # None
<1>1. red.presence[i] # None => red.presence[i] \in Presence
  BY DEF StoresInv, StoresTyped, Table
<1> QED
  BY <1>1 DEF StoresInv, Indexed, RIndexed, RPresence, RRead, Get, Live, Presence, Parameters

\* A page that has room for the whole set holds the whole set.
LEMMA Roomy ==
    ASSUME NEW S, IsFiniteSet(S), NEW T, T \subseteq S, NEW i \in S, i \notin T,
           NEW n \in Nat, Cardinality(S) <= n
    PROVE  Cardinality(T) \in 0 .. n - 1
<1>1. IsFiniteSet(S \ {i}) /\ Cardinality(S \ {i}) = Cardinality(S) - 1
  BY FS_RemoveElement
<1>2. T \subseteq S \ {i}
  OBVIOUS
<1>3. IsFiniteSet(T) /\ Cardinality(T) <= Cardinality(S \ {i})
  BY <1>1, <1>2, FS_Subset
<1>4. Cardinality(T) \in Nat /\ Cardinality(S) \in Nat
  BY <1>3, FS_CardinalityType
<1> QED
  BY <1>1, <1>3, <1>4

LEMMA PagesAgree ==
    ASSUME Parameters, StoresInv, parted = {}, Cardinality(RIndexed) <= PageSize, NEW scope
    PROVE  MPage(scope, None, PageSize) = RPage(scope, 0, PageSize)
<1>1. IsFiniteSet(RIndexed) /\ RIndexed \subseteq Incarnations
  BY FS_Subset DEF Parameters, RIndexed
<1>2. \A i \in Incarnations : MPresence(i) = None <=> RPresence(i) = None
  BY ReadsInv DEF SameReads
<1>3. MMatches(scope) = {i \in RIndexed : InScope(i, scope)}
  BY <1>1, <1>2, IndexIsPresence DEF MMatches
<1>4. MStart(None, scope) = 0
  BY DEF MStart, MMatches, Parameters
<1>5. ASSUME NEW i \in MMatches(scope) PROVE MPlace(i, scope) \in 0 .. PageSize - 1
  <2>1. IsFiniteSet(MMatches(scope)) /\ Cardinality(MMatches(scope)) <= Cardinality(RIndexed)
    BY <1>1, <1>3, FS_Subset
  <2>2. Cardinality(MMatches(scope)) <= PageSize
    BY <2>1, <1>1, FS_CardinalityType DEF Parameters
  <2>3. Rank[i] \in Nat /\ PageSize \in Nat
    BY <1>1, <1>3 DEF Parameters
  <2> DEFINE Earlier == {j \in MMatches(scope) : Rank[j] < Rank[i]}
  <2>4. i \notin Earlier /\ Earlier \subseteq MMatches(scope)
    BY <2>3
  <2>5. Cardinality(Earlier) \in 0 .. PageSize - 1
    <3> HIDE DEF Earlier
    <3> QED
      BY <2>1, <2>2, <2>3, <2>4, Roomy
  <2> QED
    BY <2>5 DEF MPlace
<1>6. ASSUME NEW i \in RIndexed PROVE RPlace(i) \in 0 .. PageSize - 1
  <2>1. Rank[i] \in Nat /\ PageSize \in Nat /\ red.index[i] \in Nat
    BY <1>1 DEF Parameters, StoresInv, StoresTyped, Table, RIndexed
  <2> DEFINE Earlier == {j \in RIndexed : red.index[j] < red.index[i]
                                          \/ (red.index[j] = red.index[i] /\ Rank[j] < Rank[i])}
  <2>2. i \notin Earlier /\ Earlier \subseteq RIndexed
    BY <2>1
  <2>3. Cardinality(Earlier) \in 0 .. PageSize - 1
    <3> HIDE DEF Earlier
    <3> QED
      BY <1>1, <2>1, <2>2, Roomy
  <2> QED
    BY <2>3 DEF RPlace
<1>7. 0 + PageSize - 1 = PageSize - 1
  BY DEF Parameters
<1> QED
  BY <1>1, <1>3, <1>4, <1>5, <1>6, <1>7, IndexIsPresence DEF MPage, RPage

\* A session that asks for its peers is told the same on both, as long as the
\* index fits into the one page it asks for and no instance met an exception.
THEOREM PeersAgree == ASSUME Parameters PROVE StoresSpec => []SamePeers
<1>1. StoresInv => SamePeers
  BY PagesAgree DEF SamePeers, MPeers, RPeers
<1> QED
  BY <1>1, Inductive, PTL

\* A subscriber to a group hears the same events on both buses, if its queue has
\* room; one to the whole deployment hears more of them in memory.
LEMMA GroupEvents ==
    ASSUME NEW scope, NEW event, scope.group # None
    PROVE  MHears(scope, event) <=> RHears(scope, event)
BY DEF MHears, RHears

\* Whoever subscribes to a session's role and to one of its groups, or to the
\* whole deployment, hears of it on either bus.
LEMMA AnnouncementIsHeard ==
    ASSUME NEW i \in Incarnations, NEW role \in {None, RoleOf[i]},
           NEW group \in GroupsOf[i] \cup {None}
    PROVE  \E event \in Channels(i) :
              /\ MHears([group |-> group, role |-> role], event)
              /\ RHears([group |-> group, role |-> role], event)
<1> DEFINE pointer == [group |-> group, role |-> RoleOf[i]]
<1>1. pointer \in Channels(i)
  BY DEF Channels
<1>2. /\ MHears([group |-> group, role |-> role], pointer)
      /\ RHears([group |-> group, role |-> role], pointer)
  BY DEF MHears, RHears
<1> QED
  BY <1>1, <1>2

\* Active memory reports itself healthy only if no step of either probe failed.
LEMMA HealthyIsProbed ==
    ASSUME NEW enabled \in BOOLEAN, NEW refused, Healthy(enabled, refused)
    PROVE  \A s \in {"ping", "scalar", "sorted_set", "publish"} : refused[s] = "no"
<1>1. ASSUME NEW steps, Probe(steps, refused).connectivity = "healthy"
      PROVE  \A n \in DOMAIN steps : refused[steps[n]] = "no"
  BY <1>1 DEF Probe
<1>2. \A n \in {1, 2, 3} : refused[<<"ping", "scalar", "sorted_set">>[n]] = "no"
  BY <1>1 DEF Healthy, ReportsError, StoreProbe
<1>3. \A n \in {1, 2} : refused[<<"ping", "publish">>[n]] = "no"
  BY <1>1 DEF Healthy, ReportsError, BusProbe
<1>4. refused["ping"] = "no" /\ refused["scalar"] = "no" /\ refused["sorted_set"] = "no"
  BY <1>2
<1>5. refused["publish"] = "no"
  BY <1>3
<1> QED
  BY <1>4, <1>5
=============================================================================
