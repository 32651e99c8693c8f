--------------------------- MODULE GovernedWrite ---------------------------
(***************************************************************************)
(* Governed writes of one namespace: phase_lock, verify_phase_lock,        *)
(* write_governed and link_conflicts, against callers that write, archive  *)
(* and reactivate without a lock.                                          *)
(*                                                                         *)
(* phase_lock reports the namespace and then saves what it saw; a governed *)
(* write reads the lock, then reports the namespace, then commits under    *)
(* the digest of that report.  Other callers commit in every gap.  The     *)
(* PostgreSQL store re-reads the namespace under an advisory lock which    *)
(* only governed writers take, so other callers may also commit between    *)
(* the re-read and the commit; the SQLite and in-memory stores hold their  *)
(* one write lock from the re-read on (OneWriter).                         *)
(*                                                                         *)
(* snapshot_digest covers the fields a stored record never changes and its *)
(* state, for ACTIVE records only: it is the set of ACTIVE records here.   *)
(* Idempotency, rejection and the outbox are MemoryLedger's: what a        *)
(* governed write shares with every write is reduced to its commit.        *)
(***************************************************************************)
EXTENDS Naturals, FiniteSets

CONSTANTS
    Records,    \* record ids in circulation
    Callers,    \* principals that use phase locks
    Admins,     \* those of them with principal.is_admin
    Tasks,      \* task signatures
    NoCaller,   \* nobody
    OneWriter,  \* TRUE iff the store admits one writing transaction at a time
    MaxMoves    \* bound: commits of callers without a lock

ASSUME AdminsAssumption == Admins \subseteq Callers /\ NoCaller \notin Callers
ASSUME TasksAssumption == Tasks # {}
ASSUME OneWriterAssumption == OneWriter \in BOOLEAN
ASSUME MaxMovesAssumption == MaxMoves \in Nat

VARIABLES
    state,    \* state[r]: lifecycle state of the stored record
    linked,   \* pairs of records recorded as contradicting each other
    linking,  \* the pairs a link_conflicts call has checked and will commit
    lock,     \* lock[t]: the phase lock saved for task t
    op,       \* op[c]: what caller c is in the middle of
    holder,   \* the governed writer inside its committing transaction
    intruded, \* records other callers moved since holder re-read the namespace
    grants,   \* <<caller, task, snapshot>> of every lock granted so far
    moves     \* commits of callers without a lock

vars == <<state, linked, linking, lock, op, holder, intruded, grants, moves>>

States == {"NONE", "ACTIVE", "QUARANTINED", "SUPERSEDED", "ARCHIVED"}
Pairs  == {p \in SUBSET Records : Cardinality(p) = 2}
NoLock == [owner |-> NoCaller, granted |-> FALSE, snapshot |-> {}, live |-> FALSE]
Locks  == [owner : Callers \cup {NoCaller}, granted : BOOLEAN,
           snapshot : SUBSET Records, live : BOOLEAN]

Idle == [at |-> "idle", task |-> CHOOSE t \in Tasks : TRUE, lock |-> NoLock]
Ops  == [at : {"idle", "locking", "verifying", "verified"}, task : Tasks, lock : Locks]

Init ==
    /\ state = [r \in Records |-> "NONE"]
    /\ linked = {}
    /\ linking = {}
    /\ lock = [t \in Tasks |-> NoLock]
    /\ op = [c \in Callers |-> Idle]
    /\ holder = NoCaller
    /\ intruded = {}
    /\ grants = {}
    /\ moves = 0

---------------------------------------------------------------------------
\* The namespace as conflicts() reports it.

Active == {r \in Records : state[r] = "ACTIVE"}

\* A recorded contradiction counts while both sides are ACTIVE.
HasConflicts == \E p \in linked : p \subseteq Active

\* phase_lock reads the report ...
StartLock(c, t) ==
    /\ op[c] = Idle
    /\ op' = [op EXCEPT ![c] = [at |-> "locking", task |-> t,
          lock |-> [owner |-> c, granted |-> ~HasConflicts, snapshot |-> Active, live |-> TRUE]]]
    /\ UNCHANGED <<state, linked, linking, lock, holder, intruded, grants, moves>>

\* ... and saves the lock, granted or not, over whoever's lock the task had.
SaveLock(c) ==
    LET new == op[c].lock IN
    /\ op[c].at = "locking"
    /\ lock' = [lock EXCEPT ![op[c].task] = new]
    /\ grants' = IF new.granted THEN grants \cup {<<c, op[c].task, new.snapshot>>} ELSE grants
    /\ op' = [op EXCEPT ![c] = Idle]
    /\ UNCHANGED <<state, linked, linking, holder, intruded, moves>>

\* Time: a lock outlives its ttl.
ExpireLock(t) ==
    /\ lock[t].live
    /\ lock' = [lock EXCEPT ![t].live = FALSE]
    /\ UNCHANGED <<state, linked, linking, op, holder, intruded, grants, moves>>

---------------------------------------------------------------------------
\* write_governed.

\* verify_phase_lock reads the clock and the lock ...
ReadLock(c, t) ==
    /\ op[c] = Idle
    /\ lock[t] # NoLock
    /\ op' = [op EXCEPT ![c] = [at |-> "verifying", task |-> t, lock |-> lock[t]]]
    /\ UNCHANGED <<state, linked, linking, lock, holder, intruded, grants, moves>>

\* Mutation: the owner of the lock is not compared.
AuthorisesAnyone(c, held) ==
    held.granted /\ held.live /\ held.snapshot = Active /\ ~HasConflicts

\* ... and compares it with the report it reads next.
Authorises(c, held) ==
    /\ held.granted
    /\ held.owner = c \/ c \in Admins
    /\ held.live
    /\ held.snapshot = Active
    /\ ~HasConflicts

Verify(c) ==
    /\ op[c].at = "verifying"
    /\ op' = [op EXCEPT ![c] =
          IF Authorises(c, op[c].lock) THEN [@ EXCEPT !.at = "verified"] ELSE Idle]
    /\ UNCHANGED <<state, linked, linking, lock, holder, intruded, grants, moves>>

\* Mutation: the store trusts the verification.
SnapshotTrusted(c) == op[c].at = "verified" /\ holder = NoCaller

\* _require_phase_lock_snapshot: one governed writer at a time re-reads the
\* namespace inside its transaction.
SnapshotStands(c) ==
    /\ op[c].at = "verified"
    /\ holder = NoCaller
    /\ op[c].lock.snapshot = Active

EnterCommit(c) ==
    /\ SnapshotStands(c)
    /\ holder' = c
    /\ UNCHANGED <<state, linked, linking, lock, op, intruded, grants, moves>>

\* PhaseLockSnapshotConflict, or a write that admission rejects or finds to be
\* a duplicate: nothing is committed.
GiveUp(c) ==
    /\ op[c].at = "verified"
    /\ op' = [op EXCEPT ![c] = Idle]
    /\ holder' = IF holder = c THEN NoCaller ELSE holder
    /\ intruded' = IF holder = c THEN {} ELSE intruded
    /\ UNCHANGED <<state, linked, linking, lock, grants, moves>>

Supersedable == {r \in Records : state[r] \in {"ACTIVE", "SUPERSEDED", "ARCHIVED"}}

\* A stored write: record r in its admitted state, and what it supersedes.
Written(r, new, S) ==
    [s \in Records |-> IF s = r THEN new
                       ELSE IF new = "ACTIVE" /\ s \in S THEN "SUPERSEDED" ELSE state[s]]

\* The rest of the transaction.  The priors were read before it and each status
\* event compares its own, so they commit as if read here.
CommitGoverned(c) ==
    /\ holder = c
    /\ \E r \in Records, new \in {"ACTIVE", "QUARANTINED"}, S \in SUBSET Supersedable :
          /\ state[r] = "NONE"
          /\ state' = Written(r, new, S)
    /\ holder' = NoCaller
    /\ intruded' = {}
    /\ op' = [op EXCEPT ![c] = Idle]
    /\ UNCHANGED <<linked, linking, lock, grants, moves>>

---------------------------------------------------------------------------
\* Everyone else.

\* A transaction without a precondition: it waits for a governed one only where
\* the store admits a single writer.
OtherCommit(new) ==
    /\ moves < MaxMoves
    /\ OneWriter => holder = NoCaller
    /\ state' = new
    /\ intruded' = IF holder = NoCaller THEN intruded
                   ELSE intruded \cup {r \in Records : new[r] # state[r]}
    /\ moves' = moves + 1
    /\ UNCHANGED <<linked, linking, lock, op, holder, grants>>

OtherWrite ==
    \E r \in Records, S \in SUBSET Supersedable :
        state[r] = "NONE" /\ OtherCommit(Written(r, "ACTIVE", S))

\* transition_lifecycle, apply_retention and approved quarantine.
OtherMove ==
    \E r \in Records :
        \/ state[r] \in {"ACTIVE", "SUPERSEDED"} /\ OtherCommit([state EXCEPT ![r] = "ARCHIVED"])
        \/ state[r] \in {"SUPERSEDED", "ARCHIVED", "QUARANTINED"}
              /\ OtherCommit([state EXCEPT ![r] = "ACTIVE"])

\* link_conflicts checks that both sides are ACTIVE and that the pair is new ...
CheckLinks(p) ==
    /\ linking = {}
    /\ p \subseteq Active
    /\ p \notin linked
    /\ linking' = {p}
    /\ UNCHANGED <<state, linked, lock, op, holder, intruded, grants, moves>>

\* ... and records it on both, whatever they have become.
CommitLinks ==
    /\ linking # {}
    /\ linked' = linked \cup linking
    /\ linking' = {}
    /\ UNCHANGED <<state, lock, op, holder, intruded, grants, moves>>

Next ==
    \/ \E c \in Callers, t \in Tasks : StartLock(c, t) \/ ReadLock(c, t)
    \/ \E c \in Callers :
          SaveLock(c) \/ Verify(c) \/ EnterCommit(c) \/ GiveUp(c) \/ CommitGoverned(c)
    \/ \E t \in Tasks : ExpireLock(t)
    \/ \E p \in Pairs : CheckLinks(p)
    \/ CommitLinks \/ OtherWrite \/ OtherMove

Spec == Init /\ [][Next]_vars

---------------------------------------------------------------------------
\* Every component of the state is of its type.
TypeOK ==
    /\ state \in [Records -> States]
    /\ linked \subseteq Pairs
    /\ linking \subseteq Pairs
    /\ lock \in [Tasks -> Locks]
    /\ op \in [Callers -> Ops]
    /\ holder \in Callers \cup {NoCaller}
    /\ intruded \subseteq Records
    /\ grants \subseteq Callers \X Tasks \X SUBSET Records
    /\ moves \in Nat

\* While a governed writer is inside its transaction the namespace is the one
\* its lock was granted over, but for what callers without a lock have moved
\* since the re-read: no other governed write gets in, and nothing that
\* happened before the re-read goes unnoticed (ADR-079).
OnlyOthersIntrude ==
    \A c \in Callers : holder = c =>
        /\ op[c].at = "verified"
        /\ Active \ intruded = op[c].lock.snapshot \ intruded
        /\ OneWriter => intruded = {}

\* The caller whose grant authorises c's write: its own, or anyone's if c is an
\* administrator.
MayUse(c) == IF c \in Admins THEN Callers ELSE {c}

\* Authority is never borrowed: a governed writer that reaches its commit holds
\* a conflict-free lock granted for this task to itself over exactly the
\* snapshot it commits under, even where another caller has replaced the
\* task's lock since, or replaces it half way through the verification.
AuthorityIsGranted ==
    \A c \in Callers : op[c].at = "verified" =>
        \E p \in MayUse(c) : <<p, op[c].task, op[c].lock.snapshot>> \in grants
=============================================================================
