---------------------------- MODULE Maintenance ----------------------------
(***************************************************************************)
(* Maintenance runs over one namespace, against writers and governance     *)
(* that go on meanwhile, and against another run of the same job.          *)
(*                                                                         *)
(* A run reads the namespace once, plans, and then applies its actions one *)
(* by one: each goes through the service, which looks at the store as it   *)
(* is by then and commits or refuses.  The digests of the actions a run    *)
(* applied enter the ledger with its receipt, at its end; a run that dies  *)
(* has done what it has done and leaves no receipt.                        *)
(*                                                                         *)
(* The window inside one service call is MemoryLedger's.  max_records and  *)
(* max_actions are taken to be larger than the namespace.                  *)
(***************************************************************************)
EXTENDS MaintenancePlan

CONSTANTS
    Workers,       \* processes that run maintenance
    Topics,        \* what writers may store together: a set of observations,
                   \* and how many of them (the bound on records of others)
    MaxMoved,      \* bound: lifecycle changes made by others
    MaxNow,        \* bound: the clock
    MaxReviews     \* max_reviews_per_run

ASSUME BoundsAssumption ==
    {MaxMoved, MaxNow, MaxReviews} \subseteq Nat

Observations == UNION {topic.says : topic \in Topics}

\* The digests of what an observation says, as written and as stored
Digests(o) == {o.content, o.again.content}

\* Intervals end by Forever; the digest of a content covers what it asserts.
ASSUME TopicsAssumption ==
    /\ \A o \in Observations :
          /\ o.from \in 0..Forever /\ o.to \in 0..Forever /\ o.consent \subseteq 0..Forever
          /\ o.evidence \subseteq Explicit
          /\ o.signs \subseteq Signs /\ o.again.signs \subseteq Signs
    /\ \A o, p \in Observations :
          Digests(o) \cap Digests(p) # {} => o.fact = p.fact /\ o.object = p.object

VARIABLES
    rec,     \* the records of the namespace, in the order they were recorded
    ledger,  \* action digests of finished runs
    run,     \* run[w]: the run of worker w
    now,     \* the clock
    moved    \* lifecycle changes by others so far

maintenanceVars == <<rec, ledger, run, now, moved>>

States == {"ACTIVE", "QUARANTINED", "SUPERSEDED", "ARCHIVED", "DELETED"}
SupersedableStates == {"ACTIVE", "SUPERSEDED", "ARCHIVED"}

NoDigest == <<>>
NoRun == [at |-> "idle", read |-> <<>>, todo |-> {}, done |-> {}, reviews |-> 0]

MaintenanceInit ==
    /\ rec = <<>>
    /\ ledger = {}
    /\ run = [w \in Workers |-> NoRun]
    /\ now = 0
    /\ moved = 0

Observed == {r \in DOMAIN rec : rec[r].key = NoDigest}

\* Bound: derived records; a consolidation leaves fewer current records than it
\* found, but for those somebody restores, so none that is not held meets it
MaxDerived == Cardinality(Observed) - 1 + MaxMoved

---------------------------------------------------------------------------
\* The others.

\* A write of a new record; one that admission rejects leaves no record.
Observe(topic, o) ==
    /\ \A r \in Observed : \E p \in topic.says : p.content = rec[r].content
    /\ Cardinality(Observed) < topic.most
    /\ Admitted(o) # "REJECTED"
    /\ rec' = Append(rec, [class |-> o.class, content |-> o.content, fact |-> o.fact,
                           object |-> o.object, from |-> o.from, to |-> o.to,
                           consent |-> o.consent, evidence |-> o.evidence,
                           signs |-> o.signs, again |-> o.again, state |-> Admitted(o),
                           links |-> {}, conflicts |-> {}, key |-> NoDigest])
    /\ UNCHANGED <<ledger, run, now, moved>>

\* An invalidation archives a current record, governance releases a quarantined
\* one or restores one that was closed, a deletion takes one.
Move(r, new) ==
    /\ moved < MaxMoved
    /\ <<rec[r].state, new>> \in {<<"ACTIVE", "ARCHIVED">>, <<"QUARANTINED", "ACTIVE">>,
                                  <<"SUPERSEDED", "ACTIVE">>, <<"ARCHIVED", "ACTIVE">>,
                                  <<"ACTIVE", "DELETED">>}
    /\ rec' = [rec EXCEPT ![r].state = new]
    /\ moved' = moved + 1
    /\ UNCHANGED <<ledger, run, now>>

Tick ==
    /\ now < MaxNow
    /\ now' = now + 1
    /\ UNCHANGED <<rec, ledger, run, moved>>

---------------------------------------------------------------------------
\* A run.

\* What _load reads: the ACTIVE and the QUARANTINED records.
Loaded == [r \in {q \in DOMAIN rec : rec[q].state \in {"ACTIVE", "QUARANTINED"}} |-> rec[r]]

StartRun(w) ==
    /\ run[w] = NoRun
    /\ \E read \in {Loaded} : \E todo \in {Fresh(read, now, ledger)} :
          /\ todo # {}
          /\ run' = [run EXCEPT ![w] = [NoRun EXCEPT !.at = "applying", !.read = read,
                                                     !.todo = todo]]
    /\ UNCHANGED <<rec, ledger, now, moved>>

\* The plan's order: operation by operation.
Rank == [operation \in {"DEDUPE", "REFINE", "SUPERSEDE", "ARCHIVE", "RECONCILE",
                        "REVIEW_QUARANTINE"} |->
            CASE operation = "DEDUPE" -> 1 [] operation = "REFINE" -> 2
              [] operation = "SUPERSEDE" -> 3 [] operation = "ARCHIVE" -> 4
              [] operation = "RECONCILE" -> 5 [] operation = "REVIEW_QUARANTINE" -> 6]

Turn(w, a) == /\ a \in run[w].todo
              /\ \A b \in run[w].todo : Rank[a.operation] <= Rank[b.operation]

\* An action is reported applied, or a failure is; either way it is behind.
Reported(w, a, applied) ==
    run' = [run EXCEPT ![w].todo = @ \ {a},
                       ![w].done = IF applied THEN @ \cup {a} ELSE @,
                       ![w].read = IF run[w].todo = {a} THEN <<>> ELSE @,
                       ![w].reviews = IF a.operation = "REVIEW_QUARANTINE" THEN @ + 1 ELSE @]

\* _derived_request: the words of the latest source as they are stored, under its
\* consent alone, over the whole interval, on the evidence of every source and with
\* the digest as idempotency key.  The declarations do not come along.
DerivedRequest(R, a) ==
    LET primary == Max(a.sources) IN
    [R[primary] EXCEPT !.content = R[primary].again.content,
                       !.signs = R[primary].again.signs,
                       !.from = Min({R[s].from : s \in a.sources}),
                       !.to = Max({R[s].to : s \in a.sources}),
                       !.evidence = UNION {R[s].evidence : s \in a.sources},
                       !.links = a.sources, !.conflicts = {}, !.key = Digest(a)]

\* What comes of it
Outcome(R, a) == Admitted(DerivedRequest(R, a))
Derived(R, a) == [DerivedRequest(R, a) EXCEPT !.state = Outcome(R, a)]

Present(a) == \E r \in DOMAIN rec : rec[r].key = Digest(a)

\* _admit looks the superseded records up again.
SourcesCarryTruth(a) == \A s \in a.sources : rec[s].state \in SupersedableStates

\* The sources of a run that has not committed yet are not superseded by it.
Committed(w, a) ==
    LET d == Derived(run[w].read, a) IN
    /\ Len(rec) < Cardinality(Observed) + MaxDerived
    /\ rec' = Append([r \in DOMAIN rec |->
                         IF r \in a.sources /\ d.state = "ACTIVE"
                         THEN [rec[r] EXCEPT !.state = "SUPERSEDED"] ELSE rec[r]], d)

\* _apply_consolidation.  A derived record that admission rejects (consent of the
\* latest source need not reach back to where the earliest begins) is not stored,
\* one that it holds supersedes nothing, and either is reported as a failure; one
\* that is already there is reported applied.
Consolidate(w, a) ==
    /\ Turn(w, a) /\ a.operation \in Consolidating
    /\ LET outcome == Outcome(run[w].read, a) IN
       \/ Present(a) /\ Reported(w, a, TRUE) /\ UNCHANGED rec
       \/ ~Present(a) /\ outcome = "REJECTED"
             /\ Reported(w, a, FALSE) /\ UNCHANGED rec
       \/ ~Present(a) /\ outcome = "ACTIVE" /\ ~SourcesCarryTruth(a)
             /\ Reported(w, a, FALSE) /\ UNCHANGED rec
       \/ ~Present(a) /\ outcome = "ACTIVE" /\ SourcesCarryTruth(a)
             /\ Committed(w, a) /\ Reported(w, a, TRUE)
       \/ ~Present(a) /\ outcome = "QUARANTINED"
             /\ Committed(w, a) /\ Reported(w, a, FALSE)
    /\ UNCHANGED <<ledger, now, moved>>

\* Mutant: a current record has to be superseded before it is archived
GovernedBySteps == {<<"ACTIVE", "SUPERSEDED">>, <<"SUPERSEDED", "ARCHIVED">>}

Governed == {<<"ACTIVE", "SUPERSEDED">>, <<"ACTIVE", "ARCHIVED">>, <<"SUPERSEDED", "ARCHIVED">>}

\* _apply_transition: the whole set, or nothing
Transition(w, a) ==
    /\ Turn(w, a) /\ a.operation \in {"SUPERSEDE", "ARCHIVE"}
    /\ LET targets == Consumed({a})
           new == IF a.operation = "SUPERSEDE" THEN "SUPERSEDED" ELSE "ARCHIVED"
           allowed == \A r \in targets : <<rec[r].state, new>> \in Governed IN
       /\ rec' = [r \in DOMAIN rec |->
                     IF allowed /\ r \in targets THEN [rec[r] EXCEPT !.state = new] ELSE rec[r]]
       /\ Reported(w, a, allowed)
    /\ UNCHANGED <<ledger, now, moved>>

\* _apply_reconcile: link_conflicts, of two current records
Reconcile(w, a) ==
    /\ Turn(w, a) /\ a.operation = "RECONCILE"
    /\ LET current == \A r \in a.sources : rec[r].state = "ACTIVE" IN
       /\ rec' = [r \in DOMAIN rec |->
                     IF current /\ r \in a.sources
                     THEN [rec[r] EXCEPT !.conflicts = @ \cup (a.sources \ {r}),
                                         !.links = @ \cup (a.sources \ {r})]
                     ELSE rec[r]]
       /\ Reported(w, a, current)
    /\ UNCHANGED <<ledger, now, moved>>

\* _apply_review: a clean release moves the record if it is still quarantined;
\* an escalation is applied without moving it; a hold is not applied, and
\* neither is a review the budget of the run has no room for.
Review(w, a, opinion) ==
    /\ Turn(w, a) /\ a.operation = "REVIEW_QUARANTINE"
    /\ LET r == Max(a.sources)
           outcome == IF run[w].reviews < MaxReviews THEN ApplyPolicy(rec[r], opinion) ELSE "HOLD"
           released == /\ outcome = "RELEASE" /\ ~RequiresHuman(rec[r], opinion)
                       /\ rec[r].state = "QUARANTINED" IN
       /\ rec' = IF released THEN [rec EXCEPT ![r].state = "ACTIVE"] ELSE rec
       /\ Reported(w, a, released \/ outcome = "ESCALATE")
    /\ UNCHANGED <<ledger, now, moved>>

\* save_maintenance_run
FinishRun(w) ==
    /\ run[w].at = "applying" /\ run[w].todo = {}
    /\ ledger' = ledger \cup {Digest(a) : a \in run[w].done}
    /\ run' = [run EXCEPT ![w] = NoRun]
    /\ UNCHANGED <<rec, now, moved>>

\* The job is stopped, or its receipt cannot be stored.
LoseRun(w) ==
    /\ run[w].at = "applying"
    /\ moved < MaxMoved
    /\ moved' = moved + 1
    /\ run' = [run EXCEPT ![w] = NoRun]
    /\ UNCHANGED <<rec, ledger, now>>

Works(w) ==
    \/ StartRun(w) \/ FinishRun(w)
    \/ \E a \in run[w].todo :
          \/ Consolidate(w, a) \/ Transition(w, a) \/ Reconcile(w, a)
          \/ \E opinion \in Opinions : Review(w, a, opinion)

MaintenanceNext ==
    \/ \E topic \in Topics : \E o \in topic.says : Observe(topic, o)
    \/ \E r \in DOMAIN rec, new \in States : Move(r, new)
    \/ Tick
    \/ \E w \in Workers : Works(w) \/ LoseRun(w)

\* The job is scheduled again and again, and a run that started goes on.
MaintenanceSpec == MaintenanceInit /\ [][MaintenanceNext]_maintenanceVars /\ \A w \in Workers : WF_maintenanceVars(Works(w))

---------------------------------------------------------------------------
\* Properties

Covered(S) == UNION {rec[r].from..(rec[r].to - 1) : r \in S}

\* A consolidated memory says no more than its sources did: it is valid at
\* exactly the instants at least one of them was (a fact that lapsed and came
\* back keeps its gap) and asserts what they assert, however old the reading it
\* was planned from.
ConsolidationIsExact ==
    \A d \in {r \in DOMAIN rec : rec[r].key # NoDigest} :
        /\ Covered({d}) = Covered(rec[d].key[2])
        /\ \A s \in rec[d].key[2] : rec[s].fact = rec[d].fact /\ rec[s].object = rec[d].object

HeldBack == \E r \in DOMAIN rec : rec[r].key # NoDigest /\ rec[r].state = "QUARANTINED"

\* A consolidation whose derived record admission rejects: its digest never enters
\* the ledger, so every run plans it again and fails it again.
NeverAdmitted(R, a) == a.operation \in Consolidating /\ Outcome(R, a) = "REJECTED"

\* A namespace that is left alone comes to rest: there is an end to what runs
\* find to do, but for reviews that are held and consolidations no consent covers.
\* (Unless a derived record was held for review: released, it is one more copy of
\* the sources it did not close.)
ComesToRest ==
    <>HeldBack \/
    <>[](\A read \in {Loaded} : \A a \in Fresh(read, now, ledger) :
            a.operation = "REVIEW_QUARANTINE" \/ NeverAdmitted(read, a))

\* What _apply_consolidation says of a derived record held for review: report
\* it rather than claiming a consolidation that did not happen.
ClaimedMeansDone ==
    \A d \in ledger : d[1] \in Consolidating =>
        \A r \in DOMAIN rec : rec[r].key = d => rec[r].state # "QUARANTINED"
=============================================================================
