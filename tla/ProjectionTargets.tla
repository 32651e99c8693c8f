--------------------------- MODULE ProjectionTargets ---------------------------
(***************************************************************************)
(* A namespace moves to a new graph store: the runtime that binds the      *)
(* projection targets is replaced, a rebuild projects every record again,  *)
(* the operator records the cutover, waits for the rollback window to end, *)
(* destroys the old store and releases the copies it held.  Beside him the *)
(* worker delivers events and clients retire, restore and delete records.  *)
(*                                                                         *)
(* A graph store is named by the provider scope scheme its copies are      *)
(* written under; a target without scoped groups keeps one store for good. *)
(* An episode is addressed by the record's name, so a store either holds a *)
(* record or does not.  Slow ingestion and two workers racing on one event *)
(* are ProjectionDelivery's.                                               *)
(*                                                                         *)
(* Times are compared with cut_over_at only, so a time is which side of it *)
(* it lies on: see Stamps.                                                 *)
(***************************************************************************)
EXTENDS Naturals, Sequences, FiniteSets

CONSTANTS
    Records,      \* the records, 1..n, in the order they were recorded
    Graph,        \* the target graph intelligence follows
    Plain,        \* targets whose provider has no scoped groups
    Runtimes,     \* the runtimes deployed one after another
    Limit,        \* records a rebuild queues per target and run
    MaxQueued,    \* bound: events queued when a rebuild or a cutover is started
    OutboxMaxAttempts,   \* outbox_max_attempts
    Touched,      \* bound: the records clients operate on and faults hit
    MaxMoves,     \* bound: lifecycle operations and faults together
    MaxFaults     \* bound: faults

Targets == {Graph} \cup Plain

\* Runtimes[i]: the scope scheme of the code, the mode of every target it
\* binds ("ABSENT": none), and the targets whose provider is configured.
Delivers(rt, t) == rt.mode[t] \in {"ACTIVE", "SHADOW"}

Valid(rt) ==
    /\ \A t \in Targets : Delivers(rt, t) => t \in rt.adapters
    /\ rt.mode[Graph] = "ACTIVE"

Deployments ==
    [scheme : Nat, mode : [Targets -> {"ACTIVE", "SHADOW", "DISABLED", "ABSENT"}],
     adapters : SUBSET Targets]

\* Runtimes are deployed to move on: none goes back to an earlier scheme.
ASSUME RuntimesAssumption ==
    /\ Runtimes \in Seq(Deployments)
    /\ Len(Runtimes) >= 2
    /\ \A i \in DOMAIN Runtimes : Valid(Runtimes[i])
    /\ \A i, j \in DOMAIN Runtimes : i <= j => Runtimes[i].scheme <= Runtimes[j].scheme
ASSUME BoundsAssumption ==
    /\ Records \subseteq Nat /\ IsFiniteSet(Records) /\ Touched \subseteq Records
    /\ Limit \in Nat \ {0} /\ MaxQueued \in Nat /\ OutboxMaxAttempts \in Nat \ {0}
    /\ MaxMoves \in Nat /\ MaxFaults \in Nat

VARIABLES
    runtime,    \* the runtime the service, the worker and the CLI run
    state,      \* lifecycle state of each record
    link,       \* link[r][t]: the projection link
    open,       \* undelivered events, the worker's own not among them
    dead,       \* events given up
    held,       \* <<r, t, s>>: store s of target t holds a copy of r
    dropped,    \* copies a provider accepted and lost
    destroyed,  \* graph stores the operator destroyed
    worker,     \* the event the worker delivers and where it stands
    operator,   \* the command the operator runs and where it stands
    cutover,    \* the latest cutover receipt
    ops,        \* lifecycle operations so far
    faults      \* faults so far

canon == <<state, ops>>
stores == <<held, dropped, destroyed>>
targetsVars == <<runtime, state, link, open, dead, held, dropped, destroyed,
          worker, operator, cutover, ops, faults>>

Runtime == Runtimes[runtime]
SchemeIn(rt, t) == IF t = Graph THEN rt.scheme ELSE 0
Scheme(t) == SchemeIn(Runtime, t)

---------------------------------------------------------------------------
\* Links.  copies: legacy copies; pending: a deletion waits for them.
NoLink == [live |-> 0, withdrawn |-> TRUE, pending |-> FALSE, copies |-> {}, is |-> FALSE]
Live(s, copies) ==
    [live |-> s, withdrawn |-> FALSE, pending |-> FALSE, copies |-> copies, is |-> TRUE]

\* "past": not later than the latest cutover.  "later": after it.  "now": after
\* the clock was read by the cutover being checked.
Stamps == {"past", "later", "now"}
Now == IF operator.at \in {"lists", "confirms", "checks", "commits"} THEN "now" ELSE "later"

\* The latest cutover stays, or the one being checked becomes it.
Abandon == [st \in Stamps |-> IF st = "now" THEN "later" ELSE st]
Govern == [st \in Stamps |-> IF st = "now" THEN "later" ELSE "past"]

Restamped(l, f) == [l EXCEPT !.copies = {[c EXCEPT !.stamp = f[c.stamp]] : c \in l.copies}]

Restamp(f) ==
    /\ link' = [r \in Records |-> [t \in Targets |-> Restamped(link[r][t], f)]]
    /\ worker' = [worker EXCEPT !.stamp = f[@], !.seen = Restamped(@, f)]

Stale(l, t) == l.is /\ ~l.withdrawn /\ l.live # Scheme(t)

\* The link's own copy left behind in a store this runtime does not reach.
LeftBehind(l, t, stamp) ==
    l.copies \cup (IF Stale(l, t) THEN {[scheme |-> l.live, stamp |-> stamp]} ELSE {})

---------------------------------------------------------------------------
Event(r, t, kind) == [r |-> r, t |-> t, kind |-> kind, attempts |-> 0]
Idle == [at |-> "idle", event |-> Event(0, Graph, "none"), stamp |-> "past", seen |-> NoLink]
Resting == [at |-> "idle", lost |-> {}, left |-> {}, confirmed |-> {},
            listed |-> <<>>, expected |-> <<>>, queue |-> {}]

\* The first runtime has projected every record; the second was just deployed.
TargetsInit ==
    /\ runtime = 2
    /\ state = [r \in Records |-> "ACTIVE"]
    /\ link = [r \in Records |-> [t \in Targets |->
          IF Delivers(Runtimes[1], t) THEN Live(SchemeIn(Runtimes[1], t), {}) ELSE NoLink]]
    /\ open = {} /\ dead = {}
    /\ held = {<<r, t, SchemeIn(Runtimes[1], t)>> :
                  r \in Records, t \in {u \in Targets : Delivers(Runtimes[1], u)}}
    /\ dropped = {} /\ destroyed = {}
    /\ worker = Idle /\ operator = Resting
    /\ cutover = [scheme |-> Runtimes[1].scheme, window |-> "none"]
    /\ ops = 0 /\ faults = 0

---------------------------------------------------------------------------
\* Lifecycle operations: the state and one event per target commit together.
DeliveryTargets == {t \in Targets : Delivers(Runtime, t)}
CopyHolders(r) == DeliveryTargets \cup {t \in Targets : link[r][t].is}

Operate(r, from, to, kind, targets) ==
    /\ state[r] \in from
    /\ ops + faults < MaxMoves /\ ops' = ops + 1
    /\ state' = [state EXCEPT ![r] = to]
    /\ open' = open \cup {Event(r, t, kind) : t \in targets}
    /\ UNCHANGED <<runtime, link, dead, stores, worker, operator, cutover, faults>>

Retire(r) == Operate(r, {"ACTIVE"}, "RETIRED", "retire", CopyHolders(r))
Restore(r) == Operate(r, {"RETIRED"}, "ACTIVE", "project", DeliveryTargets)
Delete(r) == Operate(r, {"ACTIVE", "RETIRED"}, "DELETION_PENDING", "erase", CopyHolders(r))

---------------------------------------------------------------------------
\* The worker.  event: what it claimed; seen: the link it read last.
rec == worker.event.r
tgt == worker.event.t
Copy == <<rec, tgt, Scheme(tgt)>>
Current == link[rec][tgt]

Fault ==
    /\ rec \in Touched
    /\ faults < MaxFaults /\ ops + faults < MaxMoves
    /\ faults' = faults + 1

Goes(at) == worker' = [worker EXCEPT !.at = at]
Sees(at, l) == worker' = [worker EXCEPT !.at = at, !.seen = l]
Settles == worker' = Idle
Links(l) == link' = [link EXCEPT ![rec][tgt] = l]
WorkerKeeps == UNCHANGED <<runtime, canon, operator, cutover>>

TakeEvent(e) ==
    /\ worker.at = "idle" /\ e \in open
    /\ open' = open \ {e}
    /\ worker' = [Idle EXCEPT !.at = e.kind, !.event = e, !.stamp = Now]
    /\ UNCHANGED <<link, dead, stores, faults>> /\ WorkerKeeps

\* An exception: the event is retried, or dead after OutboxMaxAttempts.
Fails ==
    LET e == [worker.event EXCEPT !.attempts = @ + 1]
    IN  /\ Settles
        /\ \/ e.attempts < OutboxMaxAttempts /\ open' = open \cup {e} /\ UNCHANGED dead
           \/ e.attempts >= OutboxMaxAttempts /\ dead' = dead \cup {worker.event} /\ UNCHANGED open

\* The target is unknown to this runtime, or its provider is not configured.
Unreachable == Runtime.mode[tgt] = "ABSENT" \/ tgt \notin Runtime.adapters

CallFails ==
    /\ worker.at \in {"project", "remove", "compensate"}
    /\ Fails
    /\ \/ Unreachable /\ UNCHANGED faults
       \/ Fault
    /\ UNCHANGED <<link, stores>> /\ WorkerKeeps

ProjectSkips ==
    /\ worker.at = "project"
    /\ state[rec] # "ACTIVE" \/ ~Delivers(Runtime, tgt)
    /\ Settles
    /\ UNCHANGED <<link, open, dead, stores, faults>> /\ WorkerKeeps

\* Acceptance is all the provider promises: it may still lose the copy, which
\* operator.lost (a history) then no longer counts among those lost before.
ProjectCalls ==
    /\ worker.at = "project"
    /\ state[rec] = "ACTIVE" /\ Delivers(Runtime, tgt)
    /\ \/ /\ held' = held \cup {Copy} /\ dropped' = dropped \ {Copy}
          /\ UNCHANGED faults
          /\ UNCHANGED operator
       \/ /\ Copy \notin held
          /\ Fault
          /\ dropped' = dropped \cup {Copy} /\ UNCHANGED held
          /\ operator' = [operator EXCEPT !.lost = @ \ {Copy}]
    /\ Goes("derive")
    /\ UNCHANGED <<runtime, canon, link, open, dead, destroyed, cutover>>

InstallReads ==
    /\ worker.at = "derive"
    /\ Sees("install", Current)
    /\ UNCHANGED <<link, open, dead, stores, faults>> /\ WorkerKeeps

InstallWrites ==
    /\ worker.at = "install"
    /\ \/ state[rec] # "ACTIVE" /\ Goes("compensate") /\ UNCHANGED link
       \/ state[rec] = "ACTIVE" /\ Current # worker.seen /\ Goes("derive") /\ UNCHANGED link
       \/ /\ state[rec] = "ACTIVE" /\ Current = worker.seen
          /\ Links(Live(Scheme(tgt), LeftBehind(worker.seen, tgt, worker.stamp)))
          /\ Settles
    /\ UNCHANGED <<open, dead, stores, faults>> /\ WorkerKeeps

\* Removing a copy the store does not have is an error.
Remove ==
    /\ worker.at \in {"remove", "compensate"} /\ ~Unreachable
    /\ \/ /\ Copy \in held
          /\ held' = held \ {Copy}
          /\ IF worker.at = "remove" THEN Goes("unlink") ELSE Settles
          /\ UNCHANGED <<open, dead>>
       \/ Copy \notin held /\ Fails /\ UNCHANGED held
    /\ UNCHANGED <<link, dropped, destroyed, faults>> /\ WorkerKeeps

RetireReads ==
    /\ worker.at = "retire"
    /\ IF state[rec] = "ACTIVE" \/ ~Current.is \/ Current.withdrawn
          THEN Settles
          ELSE Sees(IF Stale(Current, tgt) THEN "retain" ELSE "remove", Current)
    /\ UNCHANGED <<link, open, dead, stores, faults>> /\ WorkerKeeps

\* The copy of a stale link cannot be removed from here: it becomes a legacy
\* copy, and the link it leaves is withdrawn.
Retain ==
    /\ worker.at = "retain"
    /\ LET kept == [worker.seen EXCEPT !.withdrawn = TRUE,
                        !.copies = LeftBehind(worker.seen, tgt, worker.stamp)]
       IN  /\ Links(kept)
           /\ IF worker.event.kind = "retire" THEN Settles ELSE Sees("unlink", kept)
    /\ UNCHANGED <<open, dead, stores, faults>> /\ WorkerKeeps

EraseReads ==
    /\ worker.at = "erase"
    /\ Sees(IF ~Current.is THEN "list"
            ELSE IF Current.withdrawn THEN "unlink"
            ELSE IF Stale(Current, tgt) THEN "retain" ELSE "remove", Current)
    /\ UNCHANGED <<link, open, dead, stores, faults>> /\ WorkerKeeps

\* The link goes, unless it names legacy copies: then it waits for a release.
Unlink ==
    /\ worker.at = "unlink"
    /\ Links(IF worker.seen.copies = {} THEN NoLink
             ELSE [worker.seen EXCEPT !.withdrawn = TRUE,
                      !.pending = @ \/ worker.event.kind = "erase"])
    /\ IF worker.event.kind = "erase" THEN Goes("list") ELSE Settles
    /\ UNCHANGED <<open, dead, stores, faults>> /\ WorkerKeeps

EraseLists ==
    /\ worker.at = "list"
    /\ state' = IF \E t \in Targets : link[rec][t].is THEN state
                ELSE [state EXCEPT ![rec] = "DELETED"]
    /\ Settles
    /\ UNCHANGED <<runtime, link, open, dead, stores, faults, operator, cutover, ops>>

WorkerStep ==
    \/ \E e \in open : TakeEvent(e)
    \/ ProjectSkips \/ ProjectCalls \/ InstallReads \/ InstallWrites \/ Remove
    \/ RetireReads \/ Retain \/ EraseReads \/ Unlink \/ EraseLists

\* The process dies with its event half done; its lease runs out.  (A worker
\* that dies before it changed anything might as well not have claimed.)
WorkerDies ==
    /\ worker.at \in {"derive", "install", "compensate", "unlink", "list"}
    /\ Fault
    /\ open' = open \cup {worker.event}
    /\ worker' = Idle
    /\ UNCHANGED <<link, dead, stores>> /\ WorkerKeeps

---------------------------------------------------------------------------
\* The next runtime is deployed and its worker starts: only if it can address
\* every target that canonical state still owes work.
Owed ==
    {t \in Targets : \E r \in Records : link[r][t].is}
        \cup {e.t : e \in open}
        \cup (IF worker.at = "idle" THEN {} ELSE {tgt})

Unresolved(rt) == {t \in Owed : rt.mode[t] = "ABSENT"}

Deploy ==
    /\ operator = Resting
    /\ runtime < Len(Runtimes)
    /\ Unresolved(Runtimes[runtime + 1]) = {}
    /\ runtime' = runtime + 1
    /\ open' = IF worker.at = "idle" THEN open ELSE open \cup {worker.event}
    /\ worker' = Idle
    /\ UNCHANGED <<canon, link, dead, stores, operator, cutover, faults>>

---------------------------------------------------------------------------
\* rebuild_projection --apply: the oldest records without a link, then the
\* newest whose copy is gone or lies in another store, Limit in all.
Oldest(S, n) == {r \in S : Cardinality({q \in S : q < r}) < n}
Newest(S, n) == {r \in S : Cardinality({q \in S : q > r}) < n}

Active == {r \in Records : state[r] = "ACTIVE"}
Unprojected(t) == Oldest({r \in Active : ~link[r][t].is}, Limit)
NeedsAgain(r, t) == link[r][t].is /\ (link[r][t].withdrawn \/ Stale(link[r][t], t))

\* Mutation: only the newest page of records is looked at.
RescopePage(t) ==
    {r \in Newest(Active, Limit) : t = Graph /\ NeedsAgain(r, t)}

Rescope(t) ==
    Newest({r \in Active : t = Graph /\ NeedsAgain(r, t)},
           Limit - Cardinality(Unprojected(t)))

Owing(t) == {Event(r, t, "project") : r \in Unprojected(t) \cup Rescope(t)}

RebuildKeeps == UNCHANGED <<runtime, canon, link, dead, stores, worker, cutover, faults>>

\* What owes a target a copy is read, one target after the other (a target's
\* records and links as one read).  Bounds: a rebuild is run when it has something
\* to queue and the queue is short.
RebuildReads(t) ==
    LET left == IF operator = Resting THEN DeliveryTargets ELSE operator.left
    IN  /\ operator = Resting \/ operator.at = "rebuilds"
        /\ operator = Resting =>
              /\ Cardinality(open) <= MaxQueued
              /\ ~ UNION {Owing(u) : u \in DeliveryTargets} \subseteq open
        /\ t \in left
        /\ operator' = [operator EXCEPT !.at = "rebuilds", !.left = left \ {t},
                                         !.queue = @ \cup Owing(t)]
        /\ UNCHANGED open /\ RebuildKeeps

\* The events are committed, whatever became of the records since they were read.
RebuildCommits ==
    /\ operator.at = "rebuilds" /\ operator.left = {}
    /\ open' = open \cup operator.queue
    /\ operator' = Resting
    /\ RebuildKeeps

---------------------------------------------------------------------------
\* record_graph_cutover --apply: the clock, the active records, the copies the
\* provider lists, the links record by record, the backlog, the receipt.
OperatorKeeps == UNCHANGED <<runtime, canon, open, dead, faults>>
Command(at) == operator' = [operator EXCEPT !.at = at]

\* A check that finds the namespace not ready raises and writes nothing.
Refuse ==
    /\ operator' = Resting
    /\ Restamp(Abandon)
    /\ UNCHANGED <<stores, cutover>> /\ OperatorKeeps

Late(l) == \E c \in l.copies : c.stamp # "past"

\* Bounds: a cutover is checked when the queue is short, and a second receipt is
\* recorded only when a release needs it.
StartCutover ==
    /\ operator = Resting /\ Cardinality(open) <= MaxQueued
    /\ \/ cutover.scheme # Runtime.scheme
       \/ \E r \in Records, t \in Targets : Late(link[r][t])
    /\ Command("lists")
    /\ UNCHANGED <<link, worker, stores, cutover>> /\ OperatorKeeps

CutoverLists ==
    /\ operator.at = "lists"
    /\ operator' = [operator EXCEPT !.at = "confirms", !.left = Active, !.lost = dropped]
    /\ UNCHANGED <<link, worker, stores, cutover>> /\ OperatorKeeps

CutoverConfirms ==
    /\ operator.at = "confirms"
    /\ operator' = [operator EXCEPT !.at = "checks",
                       !.confirmed = {r \in Records : <<r, Graph, Runtime.scheme>> \in held}]
    /\ UNCHANGED <<link, worker, stores, cutover>> /\ OperatorKeeps

\* Mutation: a link is taken for the copy it names.
ProjectedByLink(r) == link[r][Graph].is /\ ~NeedsAgain(r, Graph)

Projected(r) ==
    /\ link[r][Graph].is /\ ~NeedsAgain(r, Graph)
    /\ r \in operator.confirmed

CutoverReads(r) ==
    /\ operator.at = "checks" /\ r \in Newest(operator.left, 1)
    /\ IF Projected(r)
          THEN /\ operator' = [operator EXCEPT !.left = @ \ {r}]
               /\ UNCHANGED <<link, worker, stores, cutover>> /\ OperatorKeeps
          ELSE Refuse

\* Dead events are not in the backlog.
Backlog == open # {} \/ worker.at # "idle"

CutoverCounts ==
    /\ operator.at = "checks" /\ operator.left = {}
    /\ IF Backlog
          THEN Refuse
          ELSE /\ Command("commits")
               /\ UNCHANGED <<link, worker, stores, cutover>> /\ OperatorKeeps

CutoverCommits ==
    /\ operator.at = "commits"
    /\ cutover' = [scheme |-> Runtime.scheme, window |-> "open"]
    /\ operator' = Resting
    /\ Restamp(Govern)
    /\ UNCHANGED stores /\ OperatorKeeps

WindowEnds ==
    /\ cutover.window = "open"
    /\ cutover' = [cutover EXCEPT !.window = "ended"]
    /\ UNCHANGED <<link, worker, operator, stores>> /\ OperatorKeeps

\* The operator destroys what the latest cutover left behind (runbook, rule 3).
Destroy ==
    LET old == {s \in {Runtimes[i].scheme : i \in DOMAIN Runtimes} : s < cutover.scheme}
    IN  /\ operator = Resting /\ cutover.window = "ended"
        /\ ~ old \subseteq destroyed
        /\ destroyed' = destroyed \cup old
        /\ held' = {h \in held : h[2] # Graph \/ h[3] \notin old}
        /\ UNCHANGED <<link, worker, operator, dropped, cutover>> /\ OperatorKeeps

---------------------------------------------------------------------------
\* release_legacy_projection_copies --apply, once the store is gone (rule 4):
\* the records with their states, then each record's links, then one
\* transaction that finds every link it changes as it was read.
Releasable(l) == l.is /\ l.copies # {}

StartRelease ==
    /\ operator = Resting /\ cutover.window = "ended"
    /\ \A s \in {Runtimes[i].scheme : i \in DOMAIN Runtimes} :
          s < cutover.scheme => s \in destroyed
    /\ \E r \in Records, t \in Targets : Releasable(link[r][t]) /\ ~Late(link[r][t])
    /\ operator' = [Resting EXCEPT !.at = "plans", !.left = Records,
                       !.listed = state,
                       !.expected = [r \in Records |-> [t \in Targets |-> NoLink]]]
    /\ UNCHANGED <<link, worker, stores, cutover>> /\ OperatorKeeps

\* Mutation: copies are released whichever migration left them.
NothingLater(r) == TRUE

\* No copy of r was superseded after the cutover that governs the release.
PredatesCutover(r) == \A t \in Targets : ~Late(link[r][t])

ReleaseReads(r) ==
    /\ operator.at = "plans" /\ r \in Newest(operator.left, 1)
    /\ operator' =
          IF PredatesCutover(r)
          THEN [operator EXCEPT !.left = @ \ {r}, !.expected[r] = link[r]]
          ELSE Resting
    /\ UNCHANGED <<link, worker, stores, cutover>> /\ OperatorKeeps

AsPlanned ==
    \A r \in Records, t \in Targets :
        Releasable(operator.expected[r][t]) => link[r][t] = operator.expected[r][t]

Released(l) ==
    IF ~Releasable(l) THEN l ELSE IF l.withdrawn THEN NoLink ELSE [l EXCEPT !.copies = {}]

\* The deletion completes if the release removes every link the record has.
Completes(r) ==
    LET links == {operator.expected[r][t] : t \in Targets}
    IN  /\ operator.listed[r] = "DELETION_PENDING"
        /\ \E l \in links : Releasable(l) /\ l.withdrawn /\ l.pending
        /\ \A l \in links : l.is => Releasable(l) /\ l.withdrawn

ReleaseCommits ==
    /\ operator.at = "plans" /\ operator.left = {}
    /\ operator' = Resting
    /\ IF AsPlanned
          THEN /\ link' = [r \in Records |-> [t \in Targets |->
                      IF Releasable(operator.expected[r][t]) THEN Released(link[r][t])
                      ELSE link[r][t]]]
               /\ state' = [r \in Records |->
                      IF Completes(r) THEN "DELETED" ELSE state[r]]
          ELSE UNCHANGED <<link, state>>
    /\ UNCHANGED <<runtime, open, dead, stores, worker, cutover, ops, faults>>

OperatorStep ==
    \/ \E r \in Records : CutoverReads(r) \/ ReleaseReads(r)
    \/ RebuildCommits \/ CutoverLists \/ CutoverConfirms \/ CutoverCounts \/ CutoverCommits
    \/ ReleaseCommits

---------------------------------------------------------------------------
TargetsNext ==
    \/ \E r \in Touched : Retire(r) \/ Restore(r) \/ Delete(r)
    \/ WorkerStep \/ CallFails \/ WorkerDies
    \/ Deploy \/ StartCutover \/ WindowEnds \/ Destroy \/ StartRelease
    \/ \E t \in DeliveryTargets : RebuildReads(t)
    \/ OperatorStep

TargetsSpec == TargetsInit /\ [][TargetsNext]_targetsVars

\* The worker polls for ever, a command that was started ends; the operator
\* repeats a step of the runbook until it takes.
MigrationFairness ==
    /\ WF_targetsVars(WorkerStep \/ CallFails)
    /\ WF_targetsVars(OperatorStep)
    /\ SF_targetsVars(\E t \in DeliveryTargets : RebuildReads(t))
    /\ SF_targetsVars(StartCutover)

ReleaseFairness ==
    /\ WF_targetsVars(WindowEnds)
    /\ SF_targetsVars(Destroy)
    /\ SF_targetsVars(StartRelease)

MigrationSpec == TargetsSpec /\ MigrationFairness
ReleaseSpec == MigrationSpec /\ ReleaseFairness

---------------------------------------------------------------------------
\* The stores a link says hold a copy.
Names(l) ==
    IF ~l.is THEN {}
    ELSE {c.scheme : c \in l.copies} \cup (IF l.withdrawn THEN {} ELSE {l.live})

\* A copy that a link names is never forgotten while its store still holds it:
\* neither a re-projection into a new store, nor a retirement or an erasure that
\* cannot reach the old one, nor a release loses an erasure obligation
\* (outbox_worker.py _carried_legacy_copies, _retain_stale_link;
\* memory_service.py _require_predates_cutover).
NamedCopiesAreKept ==
    [][\A r \in Records, t \in Targets :
          \A s \in Names(link[r][t]) \ Names(link'[r][t]) : <<r, t, s>> \notin held']_targetsVars

\* What still owes r a copy in the graph target.
Queued(r) ==
    \E e \in open \cup dead \cup {worker.event} :
        e.r = r /\ e.t = Graph /\ e.kind = "project"

\* When a cutover is recorded, every ACTIVE record has its projection queued, or
\* a live link under the new scheme and a copy in the new store, unless the
\* provider lost that copy while the check ran.  The old store may go
\* (memory_service.py record_graph_cutover).
CutoverLeavesNothing ==
    [][cutover' # cutover /\ cutover'.window = "open" =>
          \A r \in Active :
              LET copy == <<r, Graph, Runtime.scheme>>
              IN  \/ Queued(r)
                  \/ /\ Runtime.scheme \in Names(link[r][Graph])
                     /\ copy \in held \cup (dropped \ operator.lost)]_targetsVars

\* Rebuilds and deliveries bring a migration to the point where its cutover is
\* recorded, in batches and through faults, unless a provider lost a copy it
\* had accepted (memory_service.py _rescope_candidates: "the rebuild loop could
\* never finish").
MigrationCompletes ==
    []<>(cutover.scheme = Runtime.scheme \/ dropped # {})

\* A deletion that was asked for completes, if need be with the release of the
\* legacy copies (memory_service.py release_legacy_projection_copies: "those
\* deletions complete").
DeletionCompletes ==
    \A r \in Records : state[r] = "DELETION_PENDING" ~> state[r] = "DELETED"
=============================================================================
