------------------------------ MODULE RecordStores ------------------------------
(***************************************************************************)
(* The three record stores side by side: SQLite, PostgreSQL and the        *)
(* in-memory store.  Each action is one commit made on all three; told     *)
(* holds what the three answered.  A SQL commit is a transaction: what it  *)
(* did before a failing statement is rolled back.  The in-memory store has *)
(* no rollback: it checks everything first and then applies, step by step. *)
(*                                                                         *)
(* The stores keep the same facts in different shapes.  The SQL ones hold  *)
(* a unique index over operation keys and a table of maintenance actions;  *)
(* the in-memory one a dictionary of keys and the runs alone.  Cutovers    *)
(* are rows with a creation time in SQL, a list in memory.                 *)
(*                                                                         *)
(* Commits of one store do not interleave: BEGIN IMMEDIATE, row and        *)
(* advisory locks, and the write lock of the in-memory store see to that.  *)
(***************************************************************************)
EXTENDS Integers, FiniteSets, Sequences

CONSTANTS
    Ids,        \* record ids
    Spaces,     \* a tenant and a namespace of it
    Keys,       \* operation identities (idempotency keys)
    Targets,    \* projection target identities
    Locators,   \* what a link points to
    Tasks,      \* task signatures of phase locks
    Terms,      \* structured source selectors
    TermsOf,    \* TermsOf[r]: the selectors r's metadata maps to
    Digests,    \* digests of maintenance actions
    Times,      \* instants
    Receipts,   \* receipt ids; every commit carries a fresh one
    Statuses,   \* the lifecycle states that records take
    MaxMoves,   \* status events of one commit
    Repeats,    \* whether a commit may name a record in two status events
    None

States == {"CANDIDATE", "ACTIVE", "QUARANTINED", "SUPERSEDED", "ARCHIVED",
           "REJECTED", "DELETION_PENDING", "DELETED"}

\* what the constants must be
StoreParameters ==
    /\ None \notin Ids \cup Receipts \cup Locators \cup Spaces /\ None # "active"
    /\ TermsOf \in [Ids -> SUBSET Terms]
    /\ Statuses \subseteq States /\ "DELETED" \in Statuses
    /\ MaxMoves \in Nat
    /\ Times \subseteq Nat
    /\ Repeats \in BOOLEAN

VARIABLES
    lite,    \* the SQLite database
    pg,      \* the PostgreSQL database
    mem,     \* the dictionaries of InMemoryRecordStore
    used,    \* receipt ids already presented
    told     \* what the three stores answered last

vars == <<lite, pg, mem, used, told>>

Row  == [space : Spaces, key : Keys, state : Statuses, superseded : BOOLEAN,
         conflicts : SUBSET Ids, redacted : BOOLEAN]
NewRow == {row \in Row : ~row.superseded /\ row.conflicts = {} /\ ~row.redacted}
Move == [of : Ids, from : Statuses \cup {None}, to : Statuses]
Mark == [kind : {"graph_cutover", "legacy_release"}, space : Spaces, at : Times]
Lock == [space : Spaces, active : SUBSET Ids]     \* what a lock was granted for
Run  == [space : Spaces, applied : BOOLEAN, watermark : Times,
         actions : SUBSET [digest : Digests, applied : BOOLEAN]]

-----------------------------------------------------------------------------
(* Tables.  Put is an assignment to a dictionary entry, an INSERT of a new *)
(* key and an upsert; Keep is INSERT OR IGNORE, ON CONFLICT DO NOTHING and *)
(* setdefault.                                                             *)

Put(f, k, v)   == [x \in DOMAIN f \cup {k} |-> IF x = k THEN v ELSE f[x]]
PutAll(f, g)   == [x \in DOMAIN f \cup DOMAIN g |-> IF x \in DOMAIN g THEN g[x] ELSE f[x]]
KeepAll(f, g)  == PutAll(g, f)
DropAll(f, S)  == [x \in DOMAIN f \ S |-> f[x]]
At(f, k)       == IF k \in DOMAIN f THEN f[k] ELSE None
Empty          == [x \in {} |-> None]

Done(d)         == [db |-> d, said |-> "done"]
Refused(d, why) == [db |-> d, said |-> why]

-----------------------------------------------------------------------------
(* Status events of one commit, in order.  An event fails when its record  *)
(* is missing or not in the state the event was planned from, as the       *)
(* earlier events of the same commit left it.                              *)

Earlier(moves, i) == {j \in 1..(i - 1) : moves[j].of = moves[i].of}
Last(S)           == CHOOSE j \in S : \A k \in S : k <= j

StateAt(rows, moves, i) ==
    IF Earlier(moves, i) = {} THEN rows[moves[i].of].state
    ELSE moves[Last(Earlier(moves, i))].to

LiteEventFails(rows, moves, i) ==
    \/ moves[i].of \notin DOMAIN rows
    \/ moves[i].from # None /\ StateAt(rows, moves, i) # moves[i].from

PgEventFails(rows, moves, i) ==
    \/ moves[i].of \notin DOMAIN rows
    \/ moves[i].from # None /\ StateAt(rows, moves, i) # moves[i].from

\* _check_transition: against the rows as they are, whatever comes before
MemEventFails(rows, move) ==
    \/ move.of \notin DOMAIN rows
    \/ move.from # None /\ rows[move.of].state # move.from

\* the rows after the first n events
Moved(rows, moves, n) ==
    [r \in DOMAIN rows |->
        LET mine == {j \in 1..n : moves[j].of = r} IN
        IF mine = {} THEN rows[r]
        ELSE [rows[r] EXCEPT !.state = moves[Last(mine)].to,
                             !.superseded = @ \/ \E j \in mine : moves[j].to = "SUPERSEDED"]]

LiteFails(rows, moves) == \E i \in 1..Len(moves) : LiteEventFails(rows, moves, i)
PgFails(rows, moves)   == \E i \in 1..Len(moves) : PgEventFails(rows, moves, i)
MemFails(rows, moves)  == \E i \in 1..Len(moves) : MemEventFails(rows, moves[i])

\* how many events the in-memory store applies: _apply_transition checks each again
Applied(rows, moves) ==
    IF LiteFails(rows, moves)
    THEN (CHOOSE i \in 1..Len(moves) : /\ LiteEventFails(rows, moves, i)
                                       /\ \A j \in 1..(i - 1) : ~LiteEventFails(rows, moves, j)) - 1
    ELSE Len(moves)

Entries(by, moves, n) == {[by |-> by, of |-> moves[j].of, to |-> moves[j].to] : j \in 1..n}
MovedIds(moves)       == {moves[j].of : j \in 1..Len(moves)}

-----------------------------------------------------------------------------
(* commit_write: a record, or none when the write was refused admission    *)

Active(rows, space) == {r \in DOMAIN rows : rows[r].space = space /\ rows[r].state = "ACTIVE"}

\* snapshot_digest: of every record of the namespace that is active now
Stale(rows, c) == c.lock # None /\ c.lock.active # Active(rows, c.lock.space)

\* UNIQUE (tenant_id, namespace, idempotency_key)
LiteKeyTaken(d, c) == \E r \in DOMAIN d.records : /\ d.records[r].space = c.row.space
                                                  /\ d.records[r].key = c.row.key
PgKeyTaken(d, c)   == \E r \in DOMAIN d.records : /\ d.records[r].space = c.row.space
                                                  /\ d.records[r].key = c.row.key
MemKeyTaken(m, c)  == At(m.index, <<c.row.space, c.row.key>>) \notin {None, c.id}

NewTerms(r) == [x \in {r} \X TermsOf[r] |-> "active"]

LiteInserted(d, c) ==
    IF c.id = None THEN d
    ELSE [d EXCEPT !.records = Put(@, c.id, c.row), !.terms = KeepAll(@, NewTerms(c.id))]
PgInserted(d, c) ==
    IF c.id = None THEN d
    ELSE [d EXCEPT !.records = Put(@, c.id, c.row), !.terms = KeepAll(@, NewTerms(c.id))]
MemInserted(m, c) ==
    IF c.id = None THEN m
    ELSE [m EXCEPT !.records = Put(@, c.id, c.row),
                   !.index = Put(@, <<c.row.space, c.row.key>>, c.id)]

\* _insert_receipt and its siblings, _insert_status_event, _insert_outbox
LiteSettled(d, kind, c) ==
    [d EXCEPT !.receipts = Put(@, c.by, kind),
              !.records = Moved(@, c.moves, Len(c.moves)),
              !.log = @ \cup Entries(c.by, c.moves, Len(c.moves)),
              !.outbox = PutAll(@, c.events)]
PgSettled(d, kind, c) ==
    [d EXCEPT !.receipts = Put(@, c.by, kind),
              !.records = Moved(@, c.moves, Len(c.moves)),
              !.log = @ \cup Entries(c.by, c.moves, Len(c.moves)),
              !.outbox = PutAll(@, c.events)]

\* what is applied before an event raises stays applied
MemSettled(m, kind, c) ==
    LET n == Applied(m.records, c.moves)
        half == [m EXCEPT !.receipts = Put(@, c.by, kind),
                          !.records = Moved(@, c.moves, n),
                          !.log = @ \cup Entries(c.by, c.moves, n)]
    IN  IF n < Len(c.moves) THEN Refused(half, "store")
        ELSE Done([half EXCEPT !.outbox = PutAll(@, c.events)])

LiteWrite(d, c) ==
    IF Stale(d.records, c) THEN Refused(d, "snapshot")
    ELSE IF c.id # None /\ LiteKeyTaken(d, c) THEN Refused(d, "idempotency")
    ELSE IF LiteFails(LiteInserted(d, c).records, c.moves) THEN Refused(d, "store")
    ELSE Done(LiteSettled(LiteInserted(d, c), "write", c))

PgWrite(d, c) ==
    IF Stale(d.records, c) THEN Refused(d, "snapshot")
    ELSE IF c.id # None /\ PgKeyTaken(d, c) THEN Refused(d, "idempotency")
    ELSE IF PgFails(PgInserted(d, c).records, c.moves) THEN Refused(d, "store")
    ELSE Done(PgSettled(PgInserted(d, c), "write", c))

MemWrite(m, c) ==
    LET placed == MemInserted(m, c)
        indexed == IF c.id = None THEN placed
                   ELSE [placed EXCEPT !.terms = KeepAll(@, NewTerms(c.id))]
    IN  IF Stale(m.records, c) THEN Refused(m, "snapshot")
        ELSE IF c.id # None /\ MemKeyTaken(m, c) THEN Refused(m, "idempotency")
        ELSE IF MemFails(placed.records, c.moves) THEN Refused(m, "store")
        ELSE MemSettled(indexed, "write", c)

-----------------------------------------------------------------------------
(* commit_lifecycle, commit_archive and the bare transition_state: status  *)
(* events of the records the receipt names                                 *)

LiteLifecycle(d, c) ==
    IF MovedIds(c.moves) # c.names \/ LiteFails(d.records, c.moves) THEN Refused(d, "store")
    ELSE Done(LiteSettled(d, "lifecycle", c))
PgLifecycle(d, c) ==
    IF MovedIds(c.moves) # c.names \/ PgFails(d.records, c.moves) THEN Refused(d, "store")
    ELSE Done(PgSettled(d, "lifecycle", c))
MemLifecycle(m, c) ==
    IF MovedIds(c.moves) # c.names \/ MemFails(m.records, c.moves) THEN Refused(m, "store")
    ELSE MemSettled(m, "lifecycle", c)

LiteArchive(d, c) ==
    IF ~c.applied \/ MovedIds(c.moves) # c.names \/ LiteFails(d.records, c.moves)
    THEN Refused(d, "store") ELSE Done(LiteSettled(d, "archive", c))
PgArchive(d, c) ==
    IF ~c.applied \/ MovedIds(c.moves) # c.names \/ PgFails(d.records, c.moves)
    THEN Refused(d, "store") ELSE Done(PgSettled(d, "archive", c))
MemArchive(m, c) ==
    IF ~c.applied \/ MovedIds(c.moves) # c.names \/ MemFails(m.records, c.moves)
    THEN Refused(m, "store") ELSE MemSettled(m, "archive", c)

LiteTransition(d, by, move) ==
    IF LiteFails(d.records, <<move>>) THEN Refused(d, "store")
    ELSE Done([d EXCEPT !.records = Moved(@, <<move>>, 1), !.log = @ \cup Entries(by, <<move>>, 1)])
PgTransition(d, by, move) ==
    IF PgFails(d.records, <<move>>) THEN Refused(d, "store")
    ELSE Done([d EXCEPT !.records = Moved(@, <<move>>, 1), !.log = @ \cup Entries(by, <<move>>, 1)])
MemTransition(m, by, move) ==
    IF MemEventFails(m.records, move) THEN Refused(m, "store")
    ELSE Done([m EXCEPT !.records = Moved(@, <<move>>, 1), !.log = @ \cup Entries(by, <<move>>, 1)])

-----------------------------------------------------------------------------
(* commit_source_invalidation: c.event names the invalidation              *)

Deactivated(terms, names) ==
    [x \in DOMAIN terms |-> IF x[1] \in names THEN "inactive" ELSE terms[x]]

LiteInvalidate(d, c) ==
    IF MovedIds(c.moves) # c.names THEN Refused(d, "store")
    ELSE IF c.event \in d.invalidations THEN Refused(d, "idempotency")
    ELSE IF LiteFails(d.records, c.moves) THEN Refused(d, "store")
    ELSE Done([LiteSettled(d, "lifecycle", c) EXCEPT
                    !.invalidations = @ \cup {c.event},
                    !.owed = @ \cup {<<c.event, r>> : r \in c.names},
                    !.terms = Deactivated(@, c.names)])
PgInvalidate(d, c) ==
    IF MovedIds(c.moves) # c.names THEN Refused(d, "store")
    ELSE IF c.event \in d.invalidations THEN Refused(d, "idempotency")
    ELSE IF PgFails(d.records, c.moves) THEN Refused(d, "store")
    ELSE Done([PgSettled(d, "lifecycle", c) EXCEPT
                    !.invalidations = @ \cup {c.event},
                    !.owed = @ \cup {<<c.event, r>> : r \in c.names},
                    !.terms = Deactivated(@, c.names)])
MemInvalidate(m, c) ==
    LET settled == MemSettled([m EXCEPT !.invalidations = @ \cup {c.event}], "lifecycle", c) IN
    IF MovedIds(c.moves) # c.names THEN Refused(m, "store")
    ELSE IF c.event \in m.invalidations THEN Refused(m, "idempotency")
    ELSE IF MemFails(m.records, c.moves) THEN Refused(m, "store")
    ELSE IF settled.said # "done" THEN settled
    ELSE Done([settled.db EXCEPT !.owed = @ \cup {<<c.event, r>> : r \in c.names},
                                 !.terms = Deactivated(@, c.names)])

-----------------------------------------------------------------------------
(* commit_conflict_links: every pair is written on both of its records     *)

Across(pairs, r) == {q \in Ids : <<r, q>> \in pairs \/ <<q, r>> \in pairs}
Linked(rows, pairs) ==
    [r \in DOMAIN rows |-> [rows[r] EXCEPT !.conflicts = @ \cup Across(pairs, r)]]
Unknown(rows, pairs) == \E p \in pairs : p[1] \notin DOMAIN rows \/ p[2] \notin DOMAIN rows

LiteConflict(d, by, pairs) ==
    IF Unknown(d.records, pairs) THEN Refused(d, "store")
    ELSE Done([d EXCEPT !.receipts = Put(@, by, "conflict_link"), !.records = Linked(@, pairs)])
PgConflict(d, by, pairs) ==
    IF Unknown(d.records, pairs) THEN Refused(d, "store")
    ELSE Done([d EXCEPT !.receipts = Put(@, by, "conflict_link"), !.records = Linked(@, pairs)])
MemConflict(m, by, pairs) ==
    IF Unknown(m.records, pairs) THEN Refused(m, "store")
    ELSE Done([m EXCEPT !.records = Linked(@, pairs), !.receipts = Put(@, by, "conflict_link")])

-----------------------------------------------------------------------------
(* save_phase_lock: one slot for a task of a namespace                     *)

LiteLock(d, slot, lock) == Done([d EXCEPT !.locks = Put(@, slot, lock)])
PgLock(d, slot, lock)   == Done([d EXCEPT !.locks = Put(@, slot, lock)])
MemLock(m, slot, lock)  == Done([m EXCEPT !.locks = Put(@, slot, lock)])

-----------------------------------------------------------------------------
(* Projection links.  A row references its record: the SQL stores refuse a *)
(* link of a record they do not hold.                                      *)

LiteLink(d, at, link) ==
    IF at[1] \notin DOMAIN d.records THEN Refused(d, "store")
    ELSE Done([d EXCEPT !.links = Put(@, at, link)])
PgLink(d, at, link) ==
    IF at[1] \notin DOMAIN d.records THEN Refused(d, "store")
    ELSE Done([d EXCEPT !.links = Put(@, at, link)])
MemLink(m, at, link) == Done([m EXCEPT !.links = Put(@, at, link)])

IsActive(rows, r) == r \in DOMAIN rows /\ rows[r].state = "ACTIVE"

LiteLinkIfActive(d, at, link, previous) ==
    IF ~IsActive(d.records, at[1]) THEN Refused(d, "inactive")
    ELSE IF At(d.links, at) # previous THEN Refused(d, "conflict")
    ELSE Done([d EXCEPT !.links = Put(@, at, link)])
PgLinkIfActive(d, at, link, previous) ==
    IF ~IsActive(d.records, at[1]) THEN Refused(d, "inactive")
    ELSE IF At(d.links, at) # previous THEN Refused(d, "conflict")
    ELSE Done([d EXCEPT !.links = Put(@, at, link)])
MemLinkIfActive(m, at, link, previous) ==
    IF ~IsActive(m.records, at[1]) THEN Refused(m, "inactive")
    ELSE IF At(m.links, at) # previous THEN Refused(m, "conflict")
    ELSE Done([m EXCEPT !.links = Put(@, at, link)])

LiteUnlink(d, at) == Done([d EXCEPT !.links = DropAll(@, {at})])
PgUnlink(d, at)   == Done([d EXCEPT !.links = DropAll(@, {at})])
MemUnlink(m, at)  == Done([m EXCEPT !.links = DropAll(@, {at})])

-----------------------------------------------------------------------------
(* commit_deletion and complete_deletion                                   *)

\* the redacted record was made from an earlier read: kept are the conflicts seen then
Tombstone(rows, move, kept) ==
    Put(rows, move.of, [rows[move.of] EXCEPT !.state = move.to, !.redacted = TRUE,
                                             !.conflicts = kept])
TermsOfOthers(terms, r) == DropAll(terms, {x \in DOMAIN terms : x[1] = r})

LiteDelete(d, c, move) ==
    IF LiteFails(d.records, <<move>>) THEN Refused(d, "store")
    ELSE Done([d EXCEPT !.records = Tombstone(@, move, c.kept),
                        !.log = @ \cup Entries(c.by, <<move>>, 1),
                        !.terms = TermsOfOthers(@, move.of),
                        !.receipts = Put(@, c.by, "deletion"),
                        !.outbox = PutAll(@, c.events)])
PgDelete(d, c, move) ==
    IF PgFails(d.records, <<move>>) THEN Refused(d, "store")
    ELSE Done([d EXCEPT !.records = Tombstone(@, move, c.kept),
                        !.log = @ \cup Entries(c.by, <<move>>, 1),
                        !.terms = TermsOfOthers(@, move.of),
                        !.receipts = Put(@, c.by, "deletion"),
                        !.outbox = PutAll(@, c.events)])
MemDelete(m, c, move) ==
    IF MemEventFails(m.records, move) THEN Refused(m, "store")
    ELSE Done([m EXCEPT !.log = @ \cup Entries(c.by, <<move>>, 1),
                        !.records = Tombstone(@, move, c.kept),
                        !.terms = TermsOfOthers(@, move.of),
                        !.receipts = Put(@, c.by, "deletion"),
                        !.outbox = PutAll(@, c.events)])

Owed(links, r)  == \E x \in DOMAIN links : x[1] = r
Verified(d, r, k) ==
    /\ r \in DOMAIN d.records
    /\ At(d.receipts, k) \in {"deletion", "deletion complete"}
    /\ ~Owed(d.links, r)

\* the status event is only written for a record not yet DELETED
Erased(d, done) ==
    LET rest == {p \in done : d.records[p[1]].state # "DELETED"} IN
    [d EXCEPT !.records = [r \in DOMAIN @ |->
                              IF \E p \in rest : p[1] = r THEN [@[r] EXCEPT !.state = "DELETED"]
                              ELSE @[r]],
              !.log = @ \cup {[by |-> p[2], of |-> p[1], to |-> "DELETED"] : p \in rest},
              !.receipts = [k \in DOMAIN @ |-> IF \E p \in done : p[2] = k
                                               THEN "deletion complete" ELSE @[k]]]

LiteComplete(d, r, k) ==
    IF Verified(d, r, k) THEN Done(Erased(d, {<<r, k>>})) ELSE Refused(d, "store")
PgComplete(d, r, k) ==
    IF Verified(d, r, k) THEN Done(Erased(d, {<<r, k>>})) ELSE Refused(d, "store")
MemComplete(m, r, k) ==
    IF Verified(m, r, k) THEN Done(Erased(m, {<<r, k>>})) ELSE Refused(m, "store")

-----------------------------------------------------------------------------
(* Receipts of the projections: rebuild, retirement, cutover and release   *)

LiteRebuild(d, c) ==
    IF ~c.applied THEN Refused(d, "store")
    ELSE Done([d EXCEPT !.receipts = Put(@, c.by, "rebuild"), !.outbox = PutAll(@, c.events)])
PgRebuild(d, c) ==
    IF ~c.applied THEN Refused(d, "store")
    ELSE Done([d EXCEPT !.receipts = Put(@, c.by, "rebuild"), !.outbox = PutAll(@, c.events)])
MemRebuild(m, c) ==
    IF ~c.applied THEN Refused(m, "store")
    ELSE Done([m EXCEPT !.receipts = Put(@, c.by, "rebuild"), !.outbox = PutAll(@, c.events)])

LiteRetire(d, by) == Done([d EXCEPT !.receipts = Put(@, by, "retirement")])
PgRetire(d, by)   == Done([d EXCEPT !.receipts = Put(@, by, "retirement")])
MemRetire(m, by)  == Done([m EXCEPT !.receipts = Put(@, by, "retirement")])

MarkedBy(by, mark) == [by |-> by, mark |-> mark]

LiteCutover(d, c) ==
    IF ~c.applied THEN Refused(d, "store")
    ELSE Done([d EXCEPT !.marks = Put(@, c.by, c.mark)])
PgCutover(d, c) ==
    IF ~c.applied THEN Refused(d, "store")
    ELSE Done([d EXCEPT !.marks = Put(@, c.by, c.mark)])
MemCutover(m, c) ==
    IF ~c.applied THEN Refused(m, "store")
    ELSE Done([m EXCEPT !.marks = Append(@, MarkedBy(c.by, c.mark))])

\* c.expected is the part of the link table the release was planned from
Planned(d, c) == \A x \in DOMAIN c.expected : At(d.links, x) = c.expected[x]
Relinked(links, c) ==
    DropAll([x \in DOMAIN links |-> IF x \in DOMAIN c.updates THEN c.updates[x] ELSE links[x]],
            c.removals)
AllVerified(d, done) == \A p \in done : Verified(d, p[1], p[2])

LiteRelease(d, c) ==
    LET relinked == [d EXCEPT !.marks = Put(@, c.by, c.mark),
                              !.links = Relinked(@, c)] IN
    IF ~c.applied \/ ~Planned(d, c) \/ ~AllVerified(relinked, c.done) THEN Refused(d, "store")
    ELSE Done(Erased(relinked, c.done))
PgRelease(d, c) ==
    LET relinked == [d EXCEPT !.marks = Put(@, c.by, c.mark),
                              !.links = Relinked(@, c)] IN
    IF ~c.applied \/ ~Planned(d, c) \/ ~AllVerified(relinked, c.done) THEN Refused(d, "store")
    ELSE Done(Erased(relinked, c.done))
\* an update assigns whether or not the link is there; a failure restores the snapshot
MemRelease(m, c) ==
    LET relinked == [m EXCEPT !.marks = Append(@, MarkedBy(c.by, c.mark)),
                              !.links = DropAll(PutAll(@, c.updates), c.removals)] IN
    IF ~c.applied \/ ~Planned(m, c) \/ ~AllVerified(relinked, c.done) THEN Refused(m, "store")
    ELSE Done(Erased(relinked, c.done))

-----------------------------------------------------------------------------
(* save_maintenance_run, and the settling of an outbox event               *)

AppliedDigests(run) == {a.digest : a \in {b \in run.actions : b.applied}}

LiteMaintain(d, by, run) ==
    Done([d EXCEPT !.runs = Put(@, by, run),
                   !.actions = @ \cup ({run.space} \X AppliedDigests(run))])
PgMaintain(d, by, run) ==
    Done([d EXCEPT !.runs = Put(@, by, run),
                   !.actions = @ \cup ({run.space} \X AppliedDigests(run))])
MemMaintain(m, by, run) == Done([m EXCEPT !.runs = Put(@, by, run)])

LiteSettle(d, e) == IF e \notin DOMAIN d.outbox THEN Refused(d, "store")
                    ELSE Done([d EXCEPT !.outbox[e].open = FALSE])
PgSettle(d, e)   == IF e \notin DOMAIN d.outbox THEN Refused(d, "store")
                    ELSE Done([d EXCEPT !.outbox[e].open = FALSE])
MemSettle(m, e)  == IF e \notin DOMAIN m.outbox THEN Refused(m, "store")
                    ELSE Done([m EXCEPT !.outbox[e].open = FALSE])

-----------------------------------------------------------------------------
(* One commit on the three stores                                          *)

LiteEmpty ==
    [records |-> Empty, receipts |-> Empty, log |-> {}, outbox |-> Empty,
     links |-> Empty, locks |-> Empty, terms |-> Empty, invalidations |-> {},
     owed |-> {}, runs |-> Empty, actions |-> {}, marks |-> Empty]
PgEmpty ==
    [records |-> Empty, receipts |-> Empty, log |-> {}, outbox |-> Empty,
     links |-> Empty, locks |-> Empty, terms |-> Empty, invalidations |-> {},
     owed |-> {}, runs |-> Empty, actions |-> {}, marks |-> Empty]
MemEmpty ==
    [records |-> Empty, receipts |-> Empty, log |-> {}, outbox |-> Empty,
     links |-> Empty, locks |-> Empty, terms |-> Empty, invalidations |-> {},
     owed |-> {}, runs |-> Empty, index |-> Empty, marks |-> <<>>]

Init ==
    /\ lite = LiteEmpty /\ pg = PgEmpty /\ mem = MemEmpty
    /\ used = {}
    /\ told = [lite |-> "done", pg |-> "done", mem |-> "done"]

Took(a, b, m) ==
    /\ lite' = a.db /\ pg' = b.db /\ mem' = m.db
    /\ told' = [lite |-> a.said, pg |-> b.said, mem |-> m.said]

Fresh(by) == by \notin used /\ used' = used \cup {by}

Distinct(moves) == \A i, j \in 1..Len(moves) : moves[i].of = moves[j].of => i = j
Plans == {p \in UNION {[1..n -> Move] : n \in 0..MaxMoves} : Repeats \/ Distinct(p)}
Enqueued(by, T) == [x \in {by} \X T |-> [target |-> x[2], open |-> TRUE]]

\* a uuid4: no store has seen it
Unseen(id) == id \notin DOMAIN lite.records \cup DOMAIN mem.records

Write(by, id, row, lock, moves, T) ==
    LET c == [by |-> by, id |-> id, row |-> row, lock |-> lock, moves |-> moves,
              events |-> Enqueued(by, T)] IN
    /\ Fresh(by) /\ Unseen(id)
    /\ Took(LiteWrite(lite, c), PgWrite(pg, c), MemWrite(mem, c))

Lifecycle(by, names, moves, T) ==
    LET c == [by |-> by, names |-> names, moves |-> moves, events |-> Enqueued(by, T)] IN
    /\ Fresh(by)
    /\ Took(LiteLifecycle(lite, c), PgLifecycle(pg, c), MemLifecycle(mem, c))

Archive(by, applied, names, moves, T) ==
    LET c == [by |-> by, applied |-> applied, names |-> names, moves |-> moves,
              events |-> Enqueued(by, T)] IN
    /\ Fresh(by)
    /\ Took(LiteArchive(lite, c), PgArchive(pg, c), MemArchive(mem, c))

Transition(by, move) ==
    /\ Fresh(by)
    /\ Took(LiteTransition(lite, by, move), PgTransition(pg, by, move),
            MemTransition(mem, by, move))

Invalidate(by, event, names, moves, T) ==
    LET c == [by |-> by, event |-> event, names |-> names, moves |-> moves,
              events |-> Enqueued(by, T)] IN
    /\ Fresh(by)
    /\ Took(LiteInvalidate(lite, c), PgInvalidate(pg, c), MemInvalidate(mem, c))

Conflict(by, pairs) ==
    /\ Fresh(by)
    /\ Took(LiteConflict(lite, by, pairs), PgConflict(pg, by, pairs), MemConflict(mem, by, pairs))

SaveLock(slot, lock) ==
    /\ Took(LiteLock(lite, slot, lock), PgLock(pg, slot, lock), MemLock(mem, slot, lock))
    /\ UNCHANGED used

\* the worker saves a link only of a record it has read
SaveLink(at, link) ==
    /\ at[1] \in DOMAIN lite.records
    /\ Took(LiteLink(lite, at, link), PgLink(pg, at, link), MemLink(mem, at, link))
    /\ UNCHANGED used

SaveLinkIfActive(at, link, previous) ==
    /\ Took(LiteLinkIfActive(lite, at, link, previous), PgLinkIfActive(pg, at, link, previous),
            MemLinkIfActive(mem, at, link, previous))
    /\ UNCHANGED used

DeleteLink(at) ==
    /\ Took(LiteUnlink(lite, at), PgUnlink(pg, at), MemUnlink(mem, at))
    /\ UNCHANGED used

Delete(by, move, kept, T) ==
    LET c == [by |-> by, kept |-> kept, events |-> Enqueued(by, T)] IN
    /\ Fresh(by)
    /\ Took(LiteDelete(lite, c, move), PgDelete(pg, c, move), MemDelete(mem, c, move))

Complete(r, k) ==
    /\ Took(LiteComplete(lite, r, k), PgComplete(pg, r, k), MemComplete(mem, r, k))
    /\ UNCHANGED used

Rebuild(by, applied, T) ==
    LET c == [by |-> by, applied |-> applied, events |-> Enqueued(by, T)] IN
    /\ Fresh(by)
    /\ Took(LiteRebuild(lite, c), PgRebuild(pg, c), MemRebuild(mem, c))

Retire(by) ==
    /\ Fresh(by)
    /\ Took(LiteRetire(lite, by), PgRetire(pg, by), MemRetire(mem, by))

Cutover(by, applied, mark) ==
    LET c == [by |-> by, applied |-> applied, mark |-> mark] IN
    /\ Fresh(by)
    /\ Took(LiteCutover(lite, c), PgCutover(pg, c), MemCutover(mem, c))

\* the plan rewrites and removes only links it has read
Release(by, applied, mark, expected, updates, removals, done) ==
    LET c == [by |-> by, applied |-> applied, mark |-> mark, expected |-> expected, updates |-> updates,
              removals |-> removals, done |-> done] IN
    /\ Fresh(by)
    /\ DOMAIN updates \subseteq DOMAIN expected
    /\ Took(LiteRelease(lite, c), PgRelease(pg, c), MemRelease(mem, c))

Maintain(by, run) ==
    /\ Fresh(by)
    /\ Took(LiteMaintain(lite, by, run), PgMaintain(pg, by, run), MemMaintain(mem, by, run))

Settle(e) ==
    /\ Took(LiteSettle(lite, e), PgSettle(pg, e), MemSettle(mem, e))
    /\ UNCHANGED used

Slots   == Ids \X Targets
Tables  == UNION {[S -> Locators] : S \in SUBSET Slots}   \* part of a link table
Pending == {done \in SUBSET (Ids \X Receipts) : \A p, q \in done : p[1] = q[1] => p = q}

Next ==
    \/ \E by \in Receipts, moves \in Plans, T \in SUBSET Targets :
          \/ \E id \in Ids \cup {None}, row \in NewRow, lock \in Lock \cup {None} :
                Write(by, id, row, lock, moves, T)
          \/ \E names \in SUBSET Ids :
                \/ Lifecycle(by, names, moves, T)
                \/ \E applied \in BOOLEAN : Archive(by, applied, names, moves, T)
                \/ \E event \in Receipts : Invalidate(by, event, names, moves, T)
    \/ \E by \in Receipts :
          \/ \E move \in Move : Transition(by, move)
          \/ \E move \in Move, kept \in SUBSET Ids, T \in SUBSET Targets : Delete(by, move, kept, T)
          \/ \E pairs \in SUBSET (Ids \X Ids) : Conflict(by, pairs)
          \/ \E applied \in BOOLEAN, T \in SUBSET Targets : Rebuild(by, applied, T)
          \/ \E applied \in BOOLEAN, mark \in Mark : Cutover(by, applied, mark)
          \/ \E applied \in BOOLEAN, mark \in Mark, expected, updates \in Tables,
                removals \in SUBSET Slots, done \in Pending :
                Release(by, applied, mark, expected, updates, removals, done)
          \/ \E run \in Run : Maintain(by, run)
          \/ Retire(by)
    \/ \E slot \in Spaces \X Tasks, lock \in Lock : SaveLock(slot, lock)
    \/ \E at \in Slots, link \in Locators :
          \/ SaveLink(at, link)
          \/ \E previous \in Locators \cup {None} : SaveLinkIfActive(at, link, previous)
    \/ \E at \in Slots : DeleteLink(at)
    \/ \E r \in Ids, k \in Receipts : Complete(r, k)
    \/ \E e \in DOMAIN lite.outbox : Settle(e)

Spec == Init /\ [][Next]_vars

-----------------------------------------------------------------------------
(* The shape of the three databases                                        *)

SqlTables == {"records", "receipts", "log", "outbox", "links", "locks", "terms",
              "invalidations", "owed", "runs", "actions", "marks"}
MemTables == (SqlTables \ {"actions"}) \cup {"index"}
MarkLists == Seq([by : Receipts, mark : Mark])
Dict(K, V) == UNION {[S -> V] : S \in SUBSET K}

TypeOK ==
    /\ DOMAIN lite = SqlTables /\ DOMAIN pg = SqlTables /\ DOMAIN mem = MemTables
    /\ mem.records \in Dict(Ids, Row)
    /\ mem.marks \in MarkLists
    /\ DOMAIN mem.runs \subseteq used /\ used \subseteq Receipts
    /\ DOMAIN lite.marks \subseteq used /\ DOMAIN pg.marks \subseteq used

-----------------------------------------------------------------------------
(* The three stores hold the same facts.                                   *)

\* The dictionary of keys is what the unique index enforces.
IndexIsExact(m) ==
    /\ \A r \in DOMAIN m.records : At(m.index, <<m.records[r].space, m.records[r].key>>) = r
    /\ \A x \in DOMAIN m.index :
          /\ m.index[x] \in DOMAIN m.records
          /\ x = <<m.records[m.index[x]].space, m.records[m.index[x]].key>>

\* The table of applied actions is what the saved runs say.
ActionsOfRuns(runs) == UNION {{runs[k].space} \X AppliedDigests(runs[k]) : k \in DOMAIN runs}
MarkRows(marks)     == {<<k, marks[k]>> : k \in DOMAIN marks}
MarksOf(list)       == {<<list[i].by, list[i].mark>> : i \in 1..Len(list)}

Mirrors(d, m) ==
    /\ d.records = m.records /\ d.receipts = m.receipts /\ d.log = m.log
    /\ d.outbox = m.outbox /\ d.links = m.links /\ d.locks = m.locks
    /\ d.terms = m.terms /\ d.invalidations = m.invalidations /\ d.owed = m.owed
    /\ d.runs = m.runs /\ d.actions = ActionsOfRuns(m.runs)
    /\ MarkRows(d.marks) = MarksOf(m.marks)

\* ports/record_store.py: one contract, three adapters.  As long as no commit
\* names a record twice, every store holds the same rows, whichever shape it
\* keeps them in.
StoresMirror == Mirrors(lite, mem) /\ Mirrors(pg, mem) /\ IndexIsExact(mem)

\* and every caller is told the same by each of them
SaidAlike == told.lite = told.mem /\ told.pg = told.mem

\* ADR-074, ADR-095: a commit that is refused leaves nothing behind.
AllOrNothing ==
    [][/\ told'.lite # "done" => lite' = lite
       /\ told'.pg # "done" => pg' = pg
       /\ told'.mem # "done" => mem' = mem]_vars
================================================================================
