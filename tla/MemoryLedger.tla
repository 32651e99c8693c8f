---------------------------- MODULE MemoryLedger ----------------------------
(***************************************************************************)
(* Canonical records and the operations of MemoryService that move them    *)
(* through their lifecycle: write (and close and promote, which write),    *)
(* transition_lifecycle, apply_retention, delete, and the completion of a  *)
(* deletion by the outbox worker.                                          *)
(*                                                                         *)
(* Every service operation reads, plans and then commits in one store      *)
(* transaction.  Between the plan and the commit other callers commit      *)
(* too; what protects the plan is the previous_state each status event     *)
(* carries and the unique index on idempotency keys.  A plan reads all its *)
(* records at once here: the commit compares each of them separately, so   *)
(* a plan put together from reads at different times commits only when a   *)
(* plan read at the commit would.                                          *)
(*                                                                         *)
(* Projection is reduced to whether some target holds a linked copy of a   *)
(* record and which intent was queued for it last; authorisation, tenancy  *)
(* and content are left out.                                               *)
(***************************************************************************)
EXTENDS Naturals, FiniteSets

CONSTANTS
    Records,     \* record ids in circulation (uuid4 in the code)
    NoRecord,    \* no record
    Keys,        \* explicit idempotency keys
    NoKey,       \* a write without one (the service mints an identity)
    Callers,     \* concurrent requests
    Rolling,     \* TRUE iff targets may be enabled or disabled in one process
                 \* while a request that another process planned goes on
    MaxMoves     \* bound: lifecycle transitions and retention runs

ASSUME NoValuesAssumption == NoRecord \notin Records /\ NoKey \notin Keys
ASSUME MaxMovesAssumption == MaxMoves \in Nat
ASSUME RollingAssumption == Rolling \in BOOLEAN

VARIABLES
    state,     \* state[r]: lifecycle state of the stored record, "NONE" if not stored
    key,       \* key[r]: its idempotency key
    replaces,  \* replaces[r]: the records its request asked to supersede
    linked,    \* linked[r]: some target has a projection link for r
    intent,    \* intent[r]: the outbox intent committed last for r
    erasure,   \* erasure[r]: status of r's deletion receipt
    plan,      \* plan[c]: what caller c has read and is about to commit
    acks,      \* receipts handed to writers that gave a key
    moves,     \* lifecycle transitions planned so far
    delivering \* TRUE iff some projection target delivers

vars == <<state, key, replaces, linked, intent, erasure, plan, acks, moves, delivering>>

Stored     == {"ACTIVE", "QUARANTINED", "SUPERSEDED", "ARCHIVED", "DELETION_PENDING", "DELETED"}
Tombstoned == {"DELETION_PENDING", "DELETED"}

\* _SUPERSEDABLE_STATES
Supersedable == {"ACTIVE", "SUPERSEDED", "ARCHIVED"}

\* _LIFECYCLE_TRANSITIONS, as the states each target state may be reached from
MovableTo(new) ==
    CASE new = "SUPERSEDED" -> {"ACTIVE"}
      [] new = "ARCHIVED"   -> {"ACTIVE", "SUPERSEDED"}
      [] new = "ACTIVE"     -> {"SUPERSEDED", "ARCHIVED", "QUARANTINED"}

\* The intent a transition commits with it: projection when the record becomes
\* current, retirement when it stops being current.
IntentOf(new) == IF new = "ACTIVE" THEN "project" ELSE "retire"

\* A plan: the row it inserts (a write's), the previous state it expects of each
\* record it moves ("any" for the others), the state it moves them to, and the
\* records it queues outbox intents for.
Expectation(S) == [r \in Records |-> IF r \in S THEN state[r] ELSE "any"]

MovePlan(op, S, to, told) ==
    [op |-> op, record |-> NoRecord, new |-> "NONE", key |-> NoKey, replaces |-> {},
     expect |-> Expectation(S), to |-> to, told |-> told]

NoPlan ==
    [op |-> "idle", record |-> NoRecord, new |-> "NONE", key |-> NoKey, replaces |-> {},
     expect |-> [r \in Records |-> "any"], to |-> "NONE", told |-> {}]

Plans ==
    [op : {"idle", "write", "move", "delete"}, record : Records \cup {NoRecord},
     new : {"NONE", "ACTIVE", "QUARANTINED"}, key : Keys \cup {NoKey},
     replaces : SUBSET Records, expect : [Records -> Stored \cup {"any"}],
     to : Stored \cup {"NONE"}, told : SUBSET Records]

\* _copy_holders is not empty: a copy is linked, or may be in flight.
Copies(r) == delivering \/ linked[r]

\* What a write of record r supersedes, unless it is quarantined, is moved with it.
WritePlan(r, k, new, S) ==
    LET superseded == IF new = "ACTIVE" THEN S ELSE {}
        current    == IF new = "ACTIVE" /\ delivering THEN {r} ELSE {} IN
    [op |-> "write", record |-> r, new |-> new, key |-> k, replaces |-> S,
     expect |-> Expectation(superseded), to |-> "SUPERSEDED",
     told |-> {s \in superseded : Copies(s)} \cup current]

Reserved == {plan[c].record : c \in {d \in Callers : plan[d].op = "write"}}

Init ==
    /\ state = [r \in Records |-> "NONE"]
    /\ key = [r \in Records |-> NoKey]
    /\ replaces = [r \in Records |-> {}]
    /\ linked = [r \in Records |-> FALSE]
    /\ intent = [r \in Records |-> "none"]
    /\ erasure = [r \in Records |-> "none"]
    /\ plan = [c \in Callers |-> NoPlan]
    /\ acks = {}
    /\ moves = 0
    /\ delivering \in BOOLEAN

---------------------------------------------------------------------------
\* Reading and planning.

HolderOf(k) == {r \in Records : state[r] # "NONE" /\ key[r] = k}

Ack(k, status, r) == [key |-> k, status |-> status, record |-> r]

\* _admit finds the explicit key taken: a DUPLICATE receipt, nothing else.
WriteReplayed(c, k) ==
    /\ plan[c] = NoPlan
    /\ HolderOf(k) # {}
    /\ acks' = acks \cup {Ack(k, "DUPLICATE", r) : r \in HolderOf(k)}
    /\ UNCHANGED <<state, key, replaces, linked, intent, erasure, plan, moves, delivering>>

\* _admit plans a new record: admission admits or quarantines it, and the
\* records it supersedes must carry truth a successor can replace.  What a
\* quarantined candidate supersedes is deferred.
PlanWrite(c, k, new, S) ==
    /\ plan[c] = NoPlan
    /\ k \in Keys => HolderOf(k) = {}
    /\ new = "ACTIVE" => \A r \in S : state[r] \in Supersedable
    /\ \E r \in Records \ Reserved :
        /\ state[r] = "NONE"
        /\ plan' = [plan EXCEPT ![c] = WritePlan(r, k, new, S)]
    /\ UNCHANGED <<state, key, replaces, linked, intent, erasure, acks, moves, delivering>>

\* _plan_lifecycle_transition and apply_retention: a set of records, each from
\* a state the governed table allows.  (Retention archives ACTIVE and
\* SUPERSEDED records, which the table allows too.)
PlanMove(c, S, new) ==
    /\ plan[c] = NoPlan
    /\ moves < MaxMoves
    /\ S # {}
    /\ \A r \in S : state[r] \in MovableTo(new)
    /\ plan' = [plan EXCEPT ![c] =
          MovePlan("move", S, new,
                   {r \in S : IF new = "ACTIVE" THEN delivering ELSE Copies(r)})]
    /\ moves' = moves + 1
    /\ UNCHANGED <<state, key, replaces, linked, intent, erasure, acks, delivering>>

\* delete: any record that is not already tombstoned; with no copy to erase
\* it is complete at once.
PlanDelete(c, r) ==
    /\ plan[c] = NoPlan
    /\ state[r] \in Stored \ Tombstoned
    /\ plan' = [plan EXCEPT ![c] =
          IF Copies(r) THEN MovePlan("delete", {r}, "DELETION_PENDING", {r})
                       ELSE MovePlan("delete", {r}, "DELETED", {})]
    /\ UNCHANGED <<state, key, replaces, linked, intent, erasure, acks, moves, delivering>>

---------------------------------------------------------------------------
\* Committing.

\* _insert_status_event compares previous_state inside the transaction.
Moved(p, r) == p.expect[r] # "any"

\* Mutation: the status event carries no previous_state, so nothing is compared.
CommittedBlindly(p) == p.op # "idle"

StillAsRead(p) == \A r \in Records : Moved(p, r) => state[r] = p.expect[r]

\* Mutation: no unique index; the duplicate lookup alone guards the key.
KeyNotIndexed(p) == p.op = "write"

\* The unique index on (tenant, namespace, idempotency_key).
KeyFree(p) == p.key \in Keys => HolderOf(p.key) = {}

\* The admission status the receipt carries.
Verdict(p) ==
    IF p.new = "QUARANTINED" THEN "QUARANTINED"
    ELSE IF p.replaces = {} THEN "ADMITTED" ELSE "SUPERSEDED"

\* commit_write: the record, its initial event, the supersessions and the
\* outbox intents, all or nothing.
CommitWrite(c) ==
    LET p == plan[c] IN
    /\ p.op = "write"
    /\ StillAsRead(p)
    /\ KeyFree(p)
    /\ state' = [r \in Records |->
          IF r = p.record THEN p.new ELSE IF Moved(p, r) THEN p.to ELSE state[r]]
    /\ key' = [key EXCEPT ![p.record] = p.key]
    /\ replaces' = [replaces EXCEPT ![p.record] = p.replaces]
    /\ intent' = [r \in Records |->
          IF r \notin p.told THEN intent[r]
          ELSE IF r = p.record THEN "project" ELSE "retire"]
    /\ acks' = IF p.key \in Keys
               THEN acks \cup {Ack(p.key, Verdict(p), p.record)}
               ELSE acks
    /\ plan' = [plan EXCEPT ![c] = NoPlan]
    /\ UNCHANGED <<linked, erasure, moves, delivering>>

\* The unique index refuses the insert: a concurrent retry won, and the caller
\* gets the receipt a replay gets.
CommitReplayed(c) ==
    LET p == plan[c] IN
    /\ p.op = "write"
    /\ ~KeyFree(p)
    /\ acks' = acks \cup {Ack(p.key, "DUPLICATE", r) : r \in HolderOf(p.key)}
    /\ plan' = [plan EXCEPT ![c] = NoPlan]
    /\ UNCHANGED <<state, key, replaces, linked, intent, erasure, moves, delivering>>

\* Mutation: an archive without its retirement intents.
CommitMoveSilently(c) ==
    LET p == plan[c] IN
    /\ p.op = "move"
    /\ StillAsRead(p)
    /\ state' = [r \in Records |-> IF Moved(p, r) THEN p.to ELSE state[r]]
    /\ intent' = [r \in Records |->
          IF r \in p.told /\ p.to = "ACTIVE" THEN "project" ELSE intent[r]]
    /\ plan' = [plan EXCEPT ![c] = NoPlan]
    /\ UNCHANGED <<key, replaces, linked, erasure, acks, moves, delivering>>

\* commit_lifecycle, commit_archive
CommitMove(c) ==
    LET p == plan[c] IN
    /\ p.op = "move"
    /\ StillAsRead(p)
    /\ state' = [r \in Records |-> IF Moved(p, r) THEN p.to ELSE state[r]]
    /\ intent' = [r \in Records |-> IF r \in p.told THEN IntentOf(p.to) ELSE intent[r]]
    /\ plan' = [plan EXCEPT ![c] = NoPlan]
    /\ UNCHANGED <<key, replaces, linked, erasure, acks, moves, delivering>>

\* commit_deletion: tombstone, receipt and erase intents.
CommitDelete(c) ==
    LET p == plan[c] IN
    /\ p.op = "delete"
    /\ StillAsRead(p)
    /\ state' = [r \in Records |-> IF Moved(p, r) THEN p.to ELSE state[r]]
    /\ erasure' = [r \in Records |->
          IF Moved(p, r) THEN (IF p.to = "DELETED" THEN "COMPLETE" ELSE "PENDING")
          ELSE erasure[r]]
    /\ intent' = [r \in Records |-> IF r \in p.told THEN "erase" ELSE intent[r]]
    /\ plan' = [plan EXCEPT ![c] = NoPlan]
    /\ UNCHANGED <<key, replaces, linked, acks, moves, delivering>>

\* The transaction rolls back on a stale previous_state, or the request dies
\* before it commits: nothing happened.
GiveUp(c) ==
    /\ plan[c] # NoPlan
    /\ plan' = [plan EXCEPT ![c] = NoPlan]
    /\ UNCHANGED <<state, key, replaces, linked, intent, erasure, acks, moves, delivering>>

---------------------------------------------------------------------------
\* The outbox worker's side of the ledger.

\* Mutation: save_projection_link, which does not look at the record.
InstallLinkAnyway(r) ==
    /\ delivering
    /\ state[r] # "NONE"
    /\ ~linked[r]
    /\ linked' = [linked EXCEPT ![r] = TRUE]
    /\ UNCHANGED <<state, key, replaces, intent, erasure, plan, acks, moves, delivering>>

\* save_projection_link_if_active, after a delivery.
InstallLink(r) ==
    /\ delivering
    /\ state[r] = "ACTIVE"
    /\ ~linked[r]
    /\ linked' = [linked EXCEPT ![r] = TRUE]
    /\ UNCHANGED <<state, key, replaces, intent, erasure, plan, acks, moves, delivering>>

\* A retirement or an erasure removed the copy, whatever became of the record
\* since the worker read it.
DropLink(r) ==
    /\ linked[r]
    /\ linked' = [linked EXCEPT ![r] = FALSE]
    /\ UNCHANGED <<state, key, replaces, intent, erasure, plan, acks, moves, delivering>>

\* complete_deletion refuses while a link remains.
CompleteDeletion(r) ==
    /\ intent[r] = "erase"
    /\ ~linked[r]
    /\ erasure[r] # "COMPLETE"
    /\ state' = [state EXCEPT ![r] = "DELETED"]
    /\ erasure' = [erasure EXCEPT ![r] = "COMPLETE"]
    /\ UNCHANGED <<key, replaces, linked, intent, plan, acks, moves, delivering>>

\* Targets are enabled or disabled, by a restart: of the whole deployment, which no
\* request in flight survives, or of one process after the other.
Reconfigure ==
    /\ Rolling \/ \A c \in Callers : plan[c] = NoPlan
    /\ delivering' = ~delivering
    /\ UNCHANGED <<state, key, replaces, linked, intent, erasure, plan, acks, moves>>

Next ==
    \/ \E c \in Callers :
        \/ \E k \in Keys : WriteReplayed(c, k)
        \/ \E k \in Keys \cup {NoKey}, new \in {"ACTIVE", "QUARANTINED"}, S \in SUBSET Records :
              S \subseteq {r \in Records : state[r] # "NONE"} /\ PlanWrite(c, k, new, S)
        \/ \E S \in SUBSET Records, new \in {"SUPERSEDED", "ARCHIVED", "ACTIVE"} :
              PlanMove(c, S, new)
        \/ \E r \in Records : PlanDelete(c, r)
        \/ CommitWrite(c) \/ CommitReplayed(c) \/ CommitMove(c) \/ CommitDelete(c)
        \/ GiveUp(c)
    \/ \E r \in Records : InstallLink(r) \/ DropLink(r) \/ CompleteDeletion(r)
    \/ Reconfigure

Spec == Init /\ [][Next]_vars
---------------------------------------------------------------------------
TypeOK ==
    /\ state \in [Records -> Stored \cup {"NONE"}]
    /\ key \in [Records -> Keys \cup {NoKey}]
    /\ replaces \in [Records -> SUBSET Records]
    /\ linked \in [Records -> BOOLEAN]
    /\ intent \in [Records -> {"none", "project", "retire", "erase"}]
    /\ erasure \in [Records -> {"none", "PENDING", "COMPLETE"}]
    /\ plan \in [Callers -> Plans]
    /\ acks \subseteq [key : Keys, status : {"ADMITTED", "SUPERSEDED", "QUARANTINED", "DUPLICATE"},
                       record : Records]
    /\ moves \in 0..MaxMoves
    /\ delivering \in BOOLEAN

\* Whoever retries or races under one explicit key, at most one record exists
\* and every receipt names it (ADR-008, ADR-071): exactly one of them, if any,
\* is not DUPLICATE.
OneRecordPerKey ==
    /\ \A r, s \in Records :
         state[r] # "NONE" /\ state[s] # "NONE" /\ key[r] = key[s] /\ key[r] \in Keys
         => r = s
    /\ \A a, b \in acks :
         a.key = b.key =>
             /\ a.record = b.record
             /\ (a.status = b.status \/ "DUPLICATE" \in {a.status, b.status})

\* The deletion receipt and the record never disagree, and a record is only
\* called DELETED when canonical state knows of no copy (ADR-057, ADR-084).
DeletionReceiptIsTrue ==
    \A r \in Records :
        /\ erasure[r] = "COMPLETE" <=> state[r] = "DELETED"
        /\ erasure[r] = "PENDING" <=> state[r] = "DELETION_PENDING"
        /\ state[r] = "DELETED" => ~linked[r]

\* No linked copy is left behind: while canonical state knows of a copy of a
\* record that is not current, the intent queued last for it withdraws or
\* erases that copy, however plans overtook each other ("the retirement intent
\* commits in the same transaction as the supersession itself, so the two cannot
\* diverge").  Not so where Rolling: _copy_holders is read before the commit, and
\* by the targets of the process that plans.
StaleCopyIsOwed ==
    \A r \in Records :
        /\ linked[r] /\ state[r] # "ACTIVE" => intent[r] \in {"retire", "erase"}
        /\ state[r] = "DELETION_PENDING" => intent[r] = "erase"

\* Stale plans included, a record only ever makes the moves the governed table
\* and the deletion protocol allow: a tombstone is never undone, and a record
\* in review is neither superseded nor archived.
GovernedMoves ==
    ({"NONE"} \X {"ACTIVE", "QUARANTINED"})
        \cup ({"ACTIVE", "SUPERSEDED", "ARCHIVED"} \X {"SUPERSEDED"})
        \cup ({"ACTIVE", "SUPERSEDED"} \X {"ARCHIVED"})
        \cup ({"SUPERSEDED", "ARCHIVED", "QUARANTINED"} \X {"ACTIVE"})
        \cup ((Stored \ Tombstoned) \X Tombstoned)
        \cup {<<"DELETION_PENDING", "DELETED">>}

OnlyGovernedMoves ==
    [][\A r \in Records :
         state'[r] # state[r] => <<state[r], state'[r]>> \in GovernedMoves]_vars

\* The service warns that a supersession is "deferred until the quarantined
\* candidate is approved": approval would then have to carry it out.
DeferredSupersessionHappens ==
    [][\A q \in Records :
         state[q] = "QUARANTINED" /\ state'[q] = "ACTIVE" =>
             \A r \in replaces[q] : state'[r] # "ACTIVE"]_vars

\* close turns the status of its write into the verdict its caller acts on:
\* ADMITTED and DUPLICATE are COMPLETE, anything else is FAILED.
CloseVerdict(a) == IF a.status \in {"ADMITTED", "DUPLICATE"} THEN "COMPLETE" ELSE "FAILED"

\* One close has one verdict: a retry of the same operation does not turn a
\* failed close into a complete one while its record still awaits review.
CloseVerdictIsStable ==
    \A a \in acks : CloseVerdict(a) = "COMPLETE" => state[a.record] # "QUARANTINED"
=============================================================================
