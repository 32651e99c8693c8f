------------------------- MODULE ProjectionDelivery -------------------------
(***************************************************************************)
(* The outbox events of one record, from the lifecycle operations that     *)
(* queue them through the workers that deliver them to the projection      *)
(* targets: run_once event by event, store read by store read and provider *)
(* call by provider call.                                                  *)
(*                                                                         *)
(* Links, events and copies of different records never meet, so one record *)
(* is enough.  "RETIRED" stands for SUPERSEDED and ARCHIVED.  No adapter   *)
(* passes an identity along, so every delivery makes a copy of its own,    *)
(* named here by a number.  The lease of OutboxLease is reduced to who     *)
(* holds an event; an overrun lets another worker take it.                 *)
(*                                                                         *)
(* Providers are of two kinds.  One answers a delivery with an episode id, *)
(* which is then the locator (Zep).  The other queues it, and the locator  *)
(* is the name all episodes of the record share (Graphiti's server).       *)
(***************************************************************************)
EXTENDS Naturals, FiniteSets

CONSTANTS
    Targets,        \* delivering projection targets
    Workers,        \* worker processes
    NoWorker,       \* an event nobody holds
    Faults,         \* which of AllFaults may happen
    Reactivates,    \* TRUE iff governance may restore a retired record
    Deployments,    \* what may run: workers, and a provider of which kind
    MaxAttempts,    \* outbox_max_attempts
    LinkInstallAttempts,  \* _LINK_INSTALL_ATTEMPTS
    MaxOps,         \* bound: lifecycle operations after the write
    MaxFaults,      \* bound: faults
    MaxCopies       \* bound: deliveries

AllFaults ==
    {"refused",    \* the provider call raises and did nothing
     "unanswered", \* the provider call raises although it was carried out
     "crash",      \* the worker process dies
     "overrun"}    \* a lease expires while its holder is still working

ASSUME FaultsAssumption == Faults \subseteq AllFaults
ASSUME WorkersAssumption == IsFiniteSet(Workers)
ASSUME NoWorkerAssumption == NoWorker \notin Workers
ASSUME DeploymentsAssumption ==
    Deployments \subseteq
        [workers : SUBSET Workers,
         byName : BOOLEAN,         \* locators are names and deliveries are queued
         missingRaises : BOOLEAN]  \* removing a copy that is not there is an error
ASSUME BoundsAssumption ==
    /\ MaxAttempts \in Nat \ {0}
    /\ LinkInstallAttempts \in Nat \ {0}
    /\ MaxOps \in Nat
    /\ MaxFaults \in Nat
    /\ MaxCopies \in Nat

VARIABLES
    deployed,  \* the deployment, which stays as it is
    state,     \* lifecycle state of the record
    ops,       \* lifecycle operations so far; numbers the events they queue
    event,     \* event[n][t]: what operation n queued for target t
    link,      \* link[t]: the copy the projection link of t names, or NoCopy
    provider,  \* provider[t]: the copies target t holds
    queued,    \* queued[t]: deliveries target t accepted and has not ingested
    made,      \* copies made so far
    worker,    \* worker[w]: where w is in run_once
    faults     \* faults so far

vars == <<deployed, state, ops, event, link, provider, queued, made, worker, faults>>

NoCopy == 0
Copies == 1..MaxCopies

EventIds == (0..MaxOps) \X Targets

Open == {"PENDING", "PROCESSING"}

NoEvent == [kind |-> "none", status |-> "ABSENT", attempts |-> 0, holder |-> NoWorker]

Queued(kind) == [kind |-> kind, status |-> "PENDING", attempts |-> 0, holder |-> NoWorker]

\* at: the next thing to do; id: the event; seen: the link read last;
\* copy: the locator the provider returned; tries: links that changed under us.
Idle == [at |-> "idle", id |-> <<0, CHOOSE t \in Targets : TRUE>>,
         seen |-> NoCopy, copy |-> NoCopy, tries |-> 0]

\* The write committed the record ACTIVE with one project intent per target.
Init ==
    /\ deployed \in Deployments
    /\ state = "ACTIVE"
    /\ ops = 0
    /\ event = [i \in EventIds |-> IF i[1] = 0 THEN Queued("project") ELSE NoEvent]
    /\ link = [t \in Targets |-> NoCopy]
    /\ provider = [t \in Targets |-> {}]
    /\ queued = [t \in Targets |-> {}]
    /\ made = 0
    /\ worker = [w \in Workers |-> Idle]
    /\ faults = 0

---------------------------------------------------------------------------
\* Lifecycle operations: state and intents commit together.  The targets that
\* may hold a copy are the delivering ones, and links of others never appear.
Operate(from, to, kind) ==
    /\ state \in from
    /\ ops < MaxOps
    /\ state' = to
    /\ ops' = ops + 1
    /\ event' = [i \in EventIds |-> IF i[1] = ops + 1 THEN Queued(kind) ELSE event[i]]
    /\ UNCHANGED <<deployed, link, provider, queued, made, worker, faults>>

\* A supersession, a lifecycle transition or a retention run.
Retire == Operate({"ACTIVE"}, "RETIRED", "retire")

Reactivate == Reactivates /\ Operate({"RETIRED"}, "ACTIVE", "project")

Delete == Operate({"ACTIVE", "RETIRED"}, "DELETION_PENDING", "erase")

---------------------------------------------------------------------------
\* Claims.  Oldest first, but an older event may be backing off or sit in the
\* batch of another worker or of one that died.
Fault(f) == f \in Faults /\ faults < MaxFaults /\ faults' = faults + 1

Oldest(i) ==
    \A j \in EventIds :
        j[1] < i[1] /\ event[j].status = "PENDING"
            => event[j].attempts > 0 \/ Cardinality(deployed.workers) > 1 \/ faults > 0

Take(w, i) ==
    /\ worker[w] = Idle
    /\ event' = [event EXCEPT ![i].status = "PROCESSING", ![i].holder = w]
    /\ worker' = [worker EXCEPT ![w] = [Idle EXCEPT !.at = event[i].kind, !.id = i]]
    /\ UNCHANGED <<deployed, state, ops, link, provider, queued, made>>

Claim(w, i) ==
    /\ event[i].status = "PENDING" /\ Oldest(i)
    /\ Take(w, i)
    /\ UNCHANGED faults

\* A lease whose holder died expires in time; one whose holder is slow is a fault.
Reclaim(w, i) ==
    /\ event[i].status = "PROCESSING"
    /\ \/ event[i].holder = NoWorker /\ UNCHANGED faults
       \/ event[i].holder \notin {NoWorker, w} /\ Fault("overrun")
    /\ Take(w, i)

Crash(w) ==
    /\ worker[w] # Idle
    /\ Fault("crash")
    /\ event' = [i \in EventIds |->
          IF event[i].holder = w THEN [event[i] EXCEPT !.holder = NoWorker] ELSE event[i]]
    /\ worker' = [worker EXCEPT ![w] = Idle]
    /\ UNCHANGED <<deployed, state, ops, link, provider, queued, made>>

\* update_outbox: the outcome counts only for the holder of the lease.
Settle(w, status, attempts) ==
    /\ LET i == worker[w].id IN
       event' = IF event[i].holder = w
                THEN [event EXCEPT ![i].status = status, ![i].attempts = attempts,
                                   ![i].holder = NoWorker]
                ELSE event
    /\ worker' = [worker EXCEPT ![w] = Idle]
    /\ UNCHANGED <<deployed, state, ops, link, provider, queued, made, faults>>

Delivered(w) ==
    /\ worker[w].at = "settle"
    /\ Settle(w, "DELIVERED", event[worker[w].id].attempts + 1)

Failed(w) ==
    LET attempts == event[worker[w].id].attempts + 1 IN
    /\ worker[w].at = "failed"
    /\ Settle(w, IF attempts >= MaxAttempts THEN "DEAD" ELSE "PENDING", attempts)

---------------------------------------------------------------------------
\* Steps of a delivery.  target(w) is the target the event is addressed to.
target(w) == worker[w].id[2]

GoTo(w, at) == worker' = [worker EXCEPT ![w].at = at]

OnlyMoves == UNCHANGED <<deployed, state, ops, event, link, provider, queued, made, faults>>

\* --- memory.record.project ---
ProjectReads(w) ==
    /\ worker[w].at = "project"
    /\ GoTo(w, IF state = "ACTIVE" THEN "deliver" ELSE "settle")
    /\ OnlyMoves

\* The provider accepts a delivery: it holds the copy, or queues it.
Accept(t) ==
    /\ made < MaxCopies
    /\ made' = made + 1
    /\ IF deployed.byName
       THEN queued' = [queued EXCEPT ![t] = @ \cup {made + 1}] /\ UNCHANGED provider
       ELSE provider' = [provider EXCEPT ![t] = @ \cup {made + 1}] /\ UNCHANGED queued

\* adapter.project: a new copy each time, or an error, or both.
ProjectCalls(w) ==
    /\ worker[w].at = "deliver"
    /\ \/ /\ Accept(target(w))
          /\ \/ /\ worker' = [worker EXCEPT ![w].at = "reread", ![w].copy = made + 1]
                /\ UNCHANGED faults
             \/ GoTo(w, "failed") /\ Fault("unanswered")
       \/ /\ GoTo(w, "failed") /\ Fault("refused")
          /\ UNCHANGED <<provider, queued, made>>
    /\ UNCHANGED <<deployed, state, ops, event, link>>

\* The provider works its queue off.
Ingest(t, copy) ==
    /\ copy \in queued[t]
    /\ queued' = [queued EXCEPT ![t] = @ \ {copy}]
    /\ provider' = [provider EXCEPT ![t] = @ \cup {copy}]
    /\ UNCHANGED <<deployed, state, ops, event, link, made, worker, faults>>

ProjectRereads(w) ==
    /\ worker[w].at = "reread"
    /\ GoTo(w, IF state = "ACTIVE" THEN "getlink" ELSE "compensate")
    /\ OnlyMoves

\* _install_link reads the link it means to replace...
InstallReads(w) ==
    /\ worker[w].at = "getlink"
    /\ worker' = [worker EXCEPT ![w].at = "install", ![w].seen = link[target(w)]]
    /\ OnlyMoves

\* Mutation: the link is saved without looking at the record.
InstallBlindly(w) ==
    /\ worker[w].at = "install"
    /\ link' = [link EXCEPT ![target(w)] = worker[w].copy]
    /\ GoTo(w, "settle")
    /\ UNCHANGED <<deployed, state, ops, event, provider, queued, made, faults>>

\* ...and save_projection_link_if_active replaces it if record and link allow;
\* a link that changed is read again, so many times.
InstallWrites(w) ==
    /\ worker[w].at = "install"
    /\ \/ /\ state = "ACTIVE" /\ link[target(w)] = worker[w].seen
          /\ link' = [link EXCEPT ![target(w)] = worker[w].copy]
          /\ GoTo(w, "settle")
       \/ /\ state = "ACTIVE" /\ link[target(w)] # worker[w].seen
          /\ worker' = [worker EXCEPT ![w].tries = @ + 1,
                ![w].at = IF worker[w].tries + 1 < LinkInstallAttempts THEN "getlink" ELSE "withdraw"]
          /\ UNCHANGED link
       \/ state # "ACTIVE" /\ GoTo(w, "compensate") /\ UNCHANGED link
    /\ UNCHANGED <<deployed, state, ops, event, provider, queued, made, faults>>

\* The copies a locator leads to: by name, every episode of the record.
Located(t, copy) == IF deployed.byName THEN provider[t] ELSE provider[t] \cap {copy}

\* adapter.retire or adapter.erase: a locator that leads nowhere may be an error.
Remove(w, copy, next) ==
    LET t == target(w) IN
    /\ \/ /\ provider' = [provider EXCEPT ![t] = @ \ Located(t, copy)]
          /\ \/ /\ GoTo(w, IF deployed.missingRaises /\ Located(t, copy) = {} THEN "failed" ELSE next)
                /\ UNCHANGED faults
             \/ GoTo(w, "failed") /\ Fault("unanswered")
       \/ /\ GoTo(w, "failed") /\ Fault("refused")
          /\ UNCHANGED provider
    /\ UNCHANGED <<deployed, state, ops, event, link, queued, made>>

\* The copy just made is withdrawn: the record is no longer current, or (after
\* the last conflict) the link would not hold still and the event is retried.
Compensate(w) ==
    \/ worker[w].at = "compensate" /\ Remove(w, worker[w].copy, "settle")
    \/ worker[w].at = "withdraw" /\ Remove(w, worker[w].copy, "failed")

\* --- memory.record.retire ---
RetireReadsLink(w) ==
    /\ worker[w].at = "retire"
    /\ worker' = [worker EXCEPT ![w].at = "retire2", ![w].seen = link[target(w)]]
    /\ OnlyMoves

\* Mutation: a late retirement does not look at the record.
RetireUnread(w) ==
    /\ worker[w].at = "retire2"
    /\ GoTo(w, IF worker[w].seen = NoCopy THEN "settle" ELSE "unproject")
    /\ OnlyMoves

RetireReadsRecord(w) ==
    /\ worker[w].at = "retire2"
    /\ GoTo(w, IF state = "ACTIVE" \/ worker[w].seen = NoCopy THEN "settle" ELSE "unproject")
    /\ OnlyMoves

RetireCalls(w) == worker[w].at = "unproject" /\ Remove(w, worker[w].seen, "unlink")

\* _drop_live_copy deletes the link, whichever copy it names by now, and the
\* retirement receipt is saved.
RetireUnlinks(w) ==
    /\ worker[w].at = "unlink"
    /\ link' = [link EXCEPT ![target(w)] = NoCopy]
    /\ GoTo(w, "settle")
    /\ UNCHANGED <<deployed, state, ops, event, provider, queued, made, faults>>

\* --- memory.record.erase ---

\* Mutation: an erase that finds no link is an error, not the end of the matter.
EraseNeedsLink(w) ==
    /\ worker[w].at = "erase"
    /\ worker' = [worker EXCEPT ![w].seen = link[target(w)],
          ![w].at = IF link[target(w)] = NoCopy THEN "failed" ELSE "erase2"]
    /\ OnlyMoves

EraseReads(w) ==
    /\ worker[w].at = "erase"
    /\ worker' = [worker EXCEPT ![w].seen = link[target(w)],
          ![w].at = IF link[target(w)] = NoCopy THEN "remaining" ELSE "erase2"]
    /\ OnlyMoves

EraseCalls(w) == worker[w].at = "erase2" /\ Remove(w, worker[w].seen, "erase3")

EraseUnlinks(w) ==
    /\ worker[w].at = "erase3"
    /\ link' = [link EXCEPT ![target(w)] = NoCopy]
    /\ GoTo(w, "remaining")
    /\ UNCHANGED <<deployed, state, ops, event, provider, queued, made, faults>>

\* list_projection_links: the last target completes the deletion.
NoLinks == \A t \in Targets : link[t] = NoCopy

EraseLists(w) ==
    /\ worker[w].at = "remaining"
    /\ GoTo(w, IF NoLinks THEN "complete" ELSE "settle")
    /\ OnlyMoves

\* complete_deletion looks again, in its transaction.
Complete(w) ==
    /\ worker[w].at = "complete"
    /\ \/ NoLinks /\ state' = "DELETED" /\ GoTo(w, "settle")
       \/ ~NoLinks /\ UNCHANGED state /\ GoTo(w, "failed")
    /\ UNCHANGED <<deployed, ops, event, link, provider, queued, made, faults>>

---------------------------------------------------------------------------
Step(w) ==
    \/ ProjectReads(w) \/ ProjectCalls(w) \/ ProjectRereads(w)
    \/ InstallReads(w) \/ InstallWrites(w) \/ Compensate(w)
    \/ RetireReadsLink(w) \/ RetireReadsRecord(w) \/ RetireCalls(w) \/ RetireUnlinks(w)
    \/ EraseReads(w) \/ EraseCalls(w) \/ EraseUnlinks(w) \/ EraseLists(w) \/ Complete(w)
    \/ Delivered(w) \/ Failed(w)

Next ==
    \/ Retire \/ Reactivate \/ Delete
    \/ \E w \in deployed.workers :
        \/ \E i \in EventIds : Claim(w, i) \/ Reclaim(w, i)
        \/ Step(w)
        \/ Crash(w)
    \/ \E t \in Targets, copy \in Copies : Ingest(t, copy)

Spec == Init /\ [][Next]_vars

\* Workers that are alive keep working, look for work (an abandoned lease runs
\* out), and the provider works its queue off.  Nobody has to operate, fail,
\* crash or overrun.
FairSpec ==
    /\ Spec
    /\ \A w \in Workers :
        /\ WF_vars(Step(w))
        /\ WF_vars(w \in deployed.workers /\ \E i \in EventIds :
              Claim(w, i) \/ (event[i].holder = NoWorker /\ Reclaim(w, i)))
    /\ \A t \in Targets : WF_vars(\E copy \in Copies : Ingest(t, copy))
---------------------------------------------------------------------------
\* Deleted means deleted everywhere canonical state looks: no projection link
\* is left or comes back, whatever deliveries were in flight ("The store
\* refuses complete_deletion while any link remains", ADR-084).
DeletedHoldsNoLink == state = "DELETED" => NoLinks

\* A link to a copy of a record that is not current never goes unattended: the
\* intent queued last for that target withdraws or erases it, and it is open,
\* or dead where an operator finds it; it was not settled over the link.
StaleLinkIsOwed ==
    \A t \in Targets :
        link[t] # NoCopy /\ state # "ACTIVE" =>
            /\ event[<<ops, t>>].kind \in {"retire", "erase"}
            /\ event[<<ops, t>>].status \in Open \cup {"DEAD"}

Quiet ==
    /\ \A i \in EventIds : event[i].status \in {"ABSENT", "DELIVERED"}
    /\ \A w \in Workers : worker[w] = Idle
    /\ \A t \in Targets : queued[t] = {}

\* A late or retried event does not undo a reactivation: when one worker has
\* delivered everything, the copy of a current record is where its link says.
\* (Two workers can undo one: the retirement read the record before.)
ReactivationSticks ==
    Cardinality(deployed.workers) = 1 /\ Quiet /\ state = "ACTIVE" => \A t \in Targets : link[t] \in provider[t]

\* A deletion that was asked for comes to an end, although calls fail, workers
\* die and leases are outrun, where removing a copy twice is no error.  (Where
\* it is one, a worker that dies between removal and unlinking prevents it.)
DeletionCompletes ==
    (state = "DELETION_PENDING" /\ ~deployed.missingRaises) ~> (state = "DELETED")
=============================================================================
