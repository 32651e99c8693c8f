---------------------------- MODULE AdapterProofs ---------------------------
(***************************************************************************)
(* Proofs about the adapters: RecordStores and StoreReads (the three       *)
(* record stores), then ProviderTransport (the circuit in front of a       *)
(* provider).                                                              *)
(***************************************************************************)
EXTENDS StoreReads, ProviderTransport, FiniteSetTheorems, TLAPS

---------------------------------------------------------------------------
(***************************************************************************)
(* The three record stores hold the same facts and tell their callers the  *)
(* same, for every set of records, keys, targets and times, as long as no  *)
(* commit has two status events about one record.                          *)
(*                                                                         *)
(* The invariant is the mirror itself, with the shape of the databases and *)
(* the fact that a receipt id already used is no key of a new run or mark. *)
(* PostgreSQL's commits are SQLite's, so each commit is compared once,     *)
(* SQLite against memory.                                                  *)
(***************************************************************************)
(* A SQL database and the memory store that hold the same, with the shape  *)
(* of both; u are the receipt ids used so far.                             *)
Kept(m) == m.records \in Dict(Ids, Row) /\ IndexIsExact(m)
Alike(d, m, u) ==
    /\ DOMAIN d = SqlTables /\ DOMAIN m = MemTables
    /\ Mirrors(d, m) /\ Kept(m)
    /\ m.marks \in MarkLists
    /\ DOMAIN m.runs \subseteq u /\ DOMAIN d.marks \subseteq u

(* Two answers that agree: the databases stay alike, the same is said, and *)
(* a refusal leaves both as they were.                                     *)
Agree(a, b, d, m, u) ==
    /\ Alike(a.db, b.db, u) /\ a.said = b.said
    /\ a.said # "done" => a.db = d /\ b.db = m

IInv == TypeOK /\ StoresMirror /\ SaidAlike

-----------------------------------------------------------------------------
(* PostgreSQL's commits are SQLite's.                                      *)

LEMMA PgIsLite ==
    ASSUME NEW d
    PROVE  /\ \A c : PgWrite(d, c) = LiteWrite(d, c)
           /\ \A c : PgLifecycle(d, c) = LiteLifecycle(d, c)
           /\ \A c : PgArchive(d, c) = LiteArchive(d, c)
           /\ \A by, move : PgTransition(d, by, move) = LiteTransition(d, by, move)
           /\ \A c : PgInvalidate(d, c) = LiteInvalidate(d, c)
           /\ \A by, pairs : PgConflict(d, by, pairs) = LiteConflict(d, by, pairs)
           /\ \A slot, plock : PgLock(d, slot, plock) = LiteLock(d, slot, plock)
           /\ \A at, link : PgLink(d, at, link) = LiteLink(d, at, link)
           /\ \A at, link, previous :
                 PgLinkIfActive(d, at, link, previous) = LiteLinkIfActive(d, at, link, previous)
           /\ \A at : PgUnlink(d, at) = LiteUnlink(d, at)
           /\ \A c, move : PgDelete(d, c, move) = LiteDelete(d, c, move)
           /\ \A r, k : PgComplete(d, r, k) = LiteComplete(d, r, k)
           /\ \A c : PgRebuild(d, c) = LiteRebuild(d, c)
           /\ \A by : PgRetire(d, by) = LiteRetire(d, by)
           /\ \A c : PgCutover(d, c) = LiteCutover(d, c)
           /\ \A c : PgRelease(d, c) = LiteRelease(d, c)
           /\ \A by, run : PgMaintain(d, by, run) = LiteMaintain(d, by, run)
           /\ \A e : PgSettle(d, e) = LiteSettle(d, e)
<1>1. \A rows, moves : PgFails(rows, moves) = LiteFails(rows, moves)
  BY DEF PgFails, LiteFails, PgEventFails, LiteEventFails
<1>2. \A c : PgInserted(d, c) = LiteInserted(d, c)
  BY DEF PgInserted, LiteInserted
<1>3. \A e, kind, c : PgSettled(e, kind, c) = LiteSettled(e, kind, c)
  BY DEF PgSettled, LiteSettled
<1>4. \A c : PgKeyTaken(d, c) = LiteKeyTaken(d, c)
  BY DEF PgKeyTaken, LiteKeyTaken
<1>5. \A c : PgWrite(d, c) = LiteWrite(d, c)
  BY <1>1, <1>2, <1>3, <1>4 DEF PgWrite, LiteWrite
<1>6. /\ \A c : PgLifecycle(d, c) = LiteLifecycle(d, c)
      /\ \A c : PgArchive(d, c) = LiteArchive(d, c)
      /\ \A by, move : PgTransition(d, by, move) = LiteTransition(d, by, move)
      /\ \A c, move : PgDelete(d, c, move) = LiteDelete(d, c, move)
  BY <1>1, <1>3 DEF PgLifecycle, LiteLifecycle, PgArchive, LiteArchive, PgTransition,
                    LiteTransition, PgDelete, LiteDelete
<1>7. \A c : PgInvalidate(d, c) = LiteInvalidate(d, c)
  BY <1>1, <1>3 DEF PgInvalidate, LiteInvalidate
<1>8. /\ \A by, pairs : PgConflict(d, by, pairs) = LiteConflict(d, by, pairs)
      /\ \A slot, plock : PgLock(d, slot, plock) = LiteLock(d, slot, plock)
      /\ \A at, link : PgLink(d, at, link) = LiteLink(d, at, link)
      /\ \A at, link, previous :
            PgLinkIfActive(d, at, link, previous) = LiteLinkIfActive(d, at, link, previous)
      /\ \A at : PgUnlink(d, at) = LiteUnlink(d, at)
  BY DEF PgConflict, LiteConflict, PgLock, LiteLock, PgLink, LiteLink, PgLinkIfActive,
         LiteLinkIfActive, PgUnlink, LiteUnlink
<1>9. /\ \A r, k : PgComplete(d, r, k) = LiteComplete(d, r, k)
      /\ \A c : PgRebuild(d, c) = LiteRebuild(d, c)
      /\ \A by : PgRetire(d, by) = LiteRetire(d, by)
      /\ \A c : PgCutover(d, c) = LiteCutover(d, c)
      /\ \A c : PgRelease(d, c) = LiteRelease(d, c)
      /\ \A by, run : PgMaintain(d, by, run) = LiteMaintain(d, by, run)
      /\ \A e : PgSettle(d, e) = LiteSettle(d, e)
  BY DEF PgComplete, LiteComplete, PgRebuild, LiteRebuild, PgRetire, LiteRetire, PgCutover,
         LiteCutover, PgRelease, LiteRelease, PgMaintain, LiteMaintain, PgSettle, LiteSettle
<1> QED BY <1>5, <1>6, <1>7, <1>8, <1>9

-----------------------------------------------------------------------------
(* Status events about different records do not meet each other.           *)

LEMMA PlanFacts ==
    ASSUME StoreParameters, ~Repeats, NEW moves \in Plans
    PROVE  /\ Len(moves) \in Nat
           /\ \A i \in 1..Len(moves) : moves[i] \in Move
           /\ Distinct(moves)
<1>1. PICK n \in 0..MaxMoves : moves \in [1..n -> Move]
  BY DEF Plans
<1>2. n \in Nat /\ Len(moves) = n
  BY <1>1 DEF StoreParameters
<1> QED BY <1>1, <1>2 DEF Plans

LEMMA ChecksAgree ==
    ASSUME NEW rows, NEW moves, Len(moves) \in Nat, Distinct(moves)
    PROVE  /\ LiteFails(rows, moves) = MemFails(rows, moves)
           /\ ~MemFails(rows, moves) => Applied(rows, moves) = Len(moves)
<1>1. \A i \in 1..Len(moves) : Earlier(moves, i) = {}
  BY DEF Earlier, Distinct
<1>2. \A i \in 1..Len(moves) : LiteEventFails(rows, moves, i) = MemEventFails(rows, moves[i])
  BY <1>1 DEF LiteEventFails, MemEventFails, StateAt
<1>3. LiteFails(rows, moves) = MemFails(rows, moves)
  BY <1>2 DEF LiteFails, MemFails
<1> QED BY <1>3 DEF Applied

-----------------------------------------------------------------------------
(* What a commit does to the rows leaves the space and key of each alone.  *)

LEMMA DictFacts ==
    ASSUME NEW K, NEW V, NEW f
    PROVE  f \in Dict(K, V) <=> /\ f = [x \in DOMAIN f |-> f[x]]
                                /\ DOMAIN f \subseteq K
                                /\ \A x \in DOMAIN f : f[x] \in V
<1>1. ASSUME f \in Dict(K, V)
      PROVE  f = [x \in DOMAIN f |-> f[x]] /\ DOMAIN f \subseteq K /\ \A x \in DOMAIN f : f[x] \in V
  BY <1>1 DEF Dict
<1>2. ASSUME f = [x \in DOMAIN f |-> f[x]], DOMAIN f \subseteq K, \A x \in DOMAIN f : f[x] \in V
      PROVE  f \in Dict(K, V)
  BY <1>2 DEF Dict
<1> QED BY <1>1, <1>2

(* Same rows, each in the same space and under the same key. *)
Identified(rows, next) ==
    /\ DOMAIN next = DOMAIN rows
    /\ \A r \in DOMAIN rows : next[r].space = rows[r].space /\ next[r].key = rows[r].key

LEMMA IndexStays ==
    ASSUME NEW m, NEW n, IndexIsExact(m), n.index = m.index, Identified(m.records, n.records)
    PROVE  IndexIsExact(n)
BY DEF IndexIsExact, Identified

LEMMA MovedKeeps ==
    ASSUME NEW rows \in Dict(Ids, Row), NEW moves, Len(moves) \in Nat,
           \A i \in 1..Len(moves) : moves[i] \in Move, Distinct(moves)
    PROVE  /\ Moved(rows, moves, Len(moves)) \in Dict(Ids, Row)
           /\ Identified(rows, Moved(rows, moves, Len(moves)))
<1> DEFINE Mine(r) == {j \in 1..Len(moves) : moves[j].of = r}
           next == Moved(rows, moves, Len(moves))
<1>1. DOMAIN rows \subseteq Ids /\ \A r \in DOMAIN rows : rows[r] \in Row
  BY DictFacts
<1>2. \A r : Mine(r) # {} => Last(Mine(r)) \in Mine(r)
  <2> SUFFICES ASSUME NEW r, Mine(r) # {} PROVE Last(Mine(r)) \in Mine(r)
    OBVIOUS
  <2>1. PICK j \in Mine(r) : TRUE
    OBVIOUS
  <2>2. \A k \in Mine(r) : k = j
    BY DEF Distinct
  <2>3. \E l \in Mine(r) : \A k \in Mine(r) : k <= l
    BY <2>1, <2>2
  <2> QED BY <2>3 DEF Last
<1>3. \A r \in DOMAIN rows : /\ next[r] \in Row /\ next[r].space = rows[r].space
                              /\ next[r].key = rows[r].key
  <2> SUFFICES ASSUME NEW r \in DOMAIN rows
               PROVE next[r] \in Row /\ next[r].space = rows[r].space /\ next[r].key = rows[r].key
    OBVIOUS
  <2>1. CASE Mine(r) = {}
    BY <1>1, <2>1 DEF Moved
  <2>2. CASE Mine(r) # {}
    <3>1. moves[Last(Mine(r))].to \in Statuses
      BY <1>2, <2>2 DEF Move
    <3>2. next[r] = [rows[r] EXCEPT !.state = moves[Last(Mine(r))].to,
                                    !.superseded = @ \/ \E j \in Mine(r) : moves[j].to = "SUPERSEDED"]
      BY <2>2 DEF Moved
    <3> QED BY <1>1, <3>1, <3>2 DEF Row
  <2> QED BY <2>1, <2>2
<1>4. DOMAIN next = DOMAIN rows /\ next = [r \in DOMAIN next |-> next[r]]
  BY DEF Moved
<1> QED BY <1>1, <1>3, <1>4, DictFacts DEF Identified

-----------------------------------------------------------------------------
(* Status events, receipt and outbox events of a commit.                   *)

LEMMA SettledAlike ==
    ASSUME NEW d, NEW m, NEW u, Alike(d, m, u), NEW kind, NEW c, Len(c.moves) \in Nat,
           \A i \in 1..Len(c.moves) : c.moves[i] \in Move, Distinct(c.moves),
           ~MemFails(m.records, c.moves)
    PROVE  /\ Alike(LiteSettled(d, kind, c), MemSettled(m, kind, c).db, u)
           /\ MemSettled(m, kind, c).said = "done"
<1>1. Applied(m.records, c.moves) = Len(c.moves)
  BY ChecksAgree
<1> DEFINE after == MemSettled(m, kind, c).db
           done == LiteSettled(d, kind, c)
<1>2. /\ after = [m EXCEPT !.receipts = Put(@, c.by, kind),
                           !.records = Moved(@, c.moves, Len(c.moves)),
                           !.log = @ \cup Entries(c.by, c.moves, Len(c.moves)),
                           !.outbox = PutAll(@, c.events)]
      /\ MemSettled(m, kind, c).said = "done"
  BY <1>1 DEF MemSettled, Done, Alike, MemTables, SqlTables
<1>3. DOMAIN done = SqlTables /\ DOMAIN after = MemTables /\ Mirrors(done, after)
  BY <1>2 DEF Alike, Mirrors, LiteSettled, SqlTables, MemTables
<1>4. after.records = Moved(m.records, c.moves, Len(c.moves)) /\ after.index = m.index
  BY <1>2 DEF Alike, SqlTables, MemTables
<1>5. Kept(after)
  BY <1>4, MovedKeeps, IndexStays DEF Alike, Kept
<1>6. after.marks = m.marks /\ after.runs = m.runs /\ done.marks = d.marks
  BY <1>2 DEF Alike, SqlTables, MemTables, LiteSettled
<1> QED BY <1>2, <1>3, <1>5, <1>6 DEF Alike

-----------------------------------------------------------------------------
(* Each commit, SQLite against memory.  First those that only put rows or  *)
(* take them out of tables both stores have alike.                         *)

LEMMA PlainCommits ==
    ASSUME NEW d, NEW m, NEW u, Alike(d, m, u)
    PROVE  /\ \A slot, plock : Agree(LiteLock(d, slot, plock), MemLock(m, slot, plock), d, m, u)
           /\ \A at, link : at[1] \in DOMAIN m.records
                 => Agree(LiteLink(d, at, link), MemLink(m, at, link), d, m, u)
           /\ \A at, link, previous :
                 Agree(LiteLinkIfActive(d, at, link, previous),
                       MemLinkIfActive(m, at, link, previous), d, m, u)
           /\ \A at : Agree(LiteUnlink(d, at), MemUnlink(m, at), d, m, u)
           /\ \A c : Agree(LiteRebuild(d, c), MemRebuild(m, c), d, m, u)
           /\ \A by : Agree(LiteRetire(d, by), MemRetire(m, by), d, m, u)
           /\ \A e : Agree(LiteSettle(d, e), MemSettle(m, e), d, m, u)
<1>1. \A links : Alike([d EXCEPT !.links = links], [m EXCEPT !.links = links], u)
  BY DEF Alike, Mirrors, Kept, IndexIsExact, SqlTables, MemTables
<1>2. \A locks : Alike([d EXCEPT !.locks = locks], [m EXCEPT !.locks = locks], u)
  BY DEF Alike, Mirrors, Kept, IndexIsExact, SqlTables, MemTables
<1>3. \A receipts, outbox :
         Alike([d EXCEPT !.receipts = receipts, !.outbox = outbox],
               [m EXCEPT !.receipts = receipts, !.outbox = outbox], u)
  BY DEF Alike, Mirrors, Kept, IndexIsExact, SqlTables, MemTables
<1>4. \A receipts : Alike([d EXCEPT !.receipts = receipts], [m EXCEPT !.receipts = receipts], u)
  BY DEF Alike, Mirrors, Kept, IndexIsExact, SqlTables, MemTables
<1>5. \A outbox : Alike([d EXCEPT !.outbox = outbox], [m EXCEPT !.outbox = outbox], u)
  BY DEF Alike, Mirrors, Kept, IndexIsExact, SqlTables, MemTables
<1>6. /\ d.records = m.records /\ d.links = m.links /\ d.locks = m.locks
      /\ d.receipts = m.receipts /\ d.outbox = m.outbox
  BY DEF Alike, Mirrors
<1>7. \A slot, plock : Agree(LiteLock(d, slot, plock), MemLock(m, slot, plock), d, m, u)
  BY <1>2, <1>6 DEF Agree, LiteLock, MemLock, Done
<1>8. \A at, link : at[1] \in DOMAIN m.records
         => Agree(LiteLink(d, at, link), MemLink(m, at, link), d, m, u)
  BY <1>1, <1>6 DEF Agree, LiteLink, MemLink, Done
<1>9. \A at, link, previous :
         Agree(LiteLinkIfActive(d, at, link, previous),
               MemLinkIfActive(m, at, link, previous), d, m, u)
  BY <1>1, <1>6 DEF Agree, LiteLinkIfActive, MemLinkIfActive, Done, Refused
<1>10. \A at : Agree(LiteUnlink(d, at), MemUnlink(m, at), d, m, u)
  BY <1>1, <1>6 DEF Agree, LiteUnlink, MemUnlink, Done
<1>11. \A c : Agree(LiteRebuild(d, c), MemRebuild(m, c), d, m, u)
  BY <1>3, <1>6 DEF Agree, LiteRebuild, MemRebuild, Done, Refused
<1>12. \A by : Agree(LiteRetire(d, by), MemRetire(m, by), d, m, u)
  BY <1>4, <1>6 DEF Agree, LiteRetire, MemRetire, Done
<1>13. \A e : Agree(LiteSettle(d, e), MemSettle(m, e), d, m, u)
  BY <1>5, <1>6 DEF Agree, LiteSettle, MemSettle, Done, Refused
<1> QED BY <1>7, <1>8, <1>9, <1>10, <1>11, <1>12, <1>13

LEMMA LifecycleAgrees ==
    ASSUME NEW d, NEW m, NEW u, Alike(d, m, u), NEW c, Len(c.moves) \in Nat,
           \A i \in 1..Len(c.moves) : c.moves[i] \in Move, Distinct(c.moves)
    PROVE  /\ Agree(LiteLifecycle(d, c), MemLifecycle(m, c), d, m, u)
           /\ Agree(LiteArchive(d, c), MemArchive(m, c), d, m, u)
<1>1. LiteFails(d.records, c.moves) = MemFails(m.records, c.moves)
  BY ChecksAgree DEF Alike, Mirrors
<1>2. CASE MemFails(m.records, c.moves)
  BY <1>1, <1>2 DEF Agree, LiteLifecycle, MemLifecycle, LiteArchive, MemArchive, Refused
<1>3. CASE ~MemFails(m.records, c.moves)
  <2>1. \A kind : /\ Alike(LiteSettled(d, kind, c), MemSettled(m, kind, c).db, u)
                  /\ MemSettled(m, kind, c).said = "done"
    BY <1>3, SettledAlike
  <2> QED
    BY <1>1, <1>3, <2>1 DEF Agree, LiteLifecycle, MemLifecycle, LiteArchive, MemArchive, Refused, Done
<1> QED BY <1>2, <1>3

LEMMA TransitionAgrees ==
    ASSUME NEW d, NEW m, NEW u, Alike(d, m, u), NEW by, NEW move \in Move
    PROVE  Agree(LiteTransition(d, by, move), MemTransition(m, by, move), d, m, u)
<1>0. PICK moves : moves = <<move>>
  OBVIOUS
<1>1. Len(moves) = 1 /\ moves[1] = move /\ Distinct(moves)
  BY <1>0 DEF Distinct
<1>a. MemFails(m.records, moves) <=> MemEventFails(m.records, move)
  BY <1>1 DEF MemFails
<1>b. LiteFails(m.records, moves) = MemFails(m.records, moves)
  BY <1>1, ChecksAgree
<1>2. LiteFails(d.records, moves) <=> MemEventFails(m.records, move)
  BY <1>a, <1>b DEF Alike, Mirrors
<1>3. CASE MemEventFails(m.records, move)
  BY <1>0, <1>2, <1>3 DEF Agree, LiteTransition, MemTransition, Refused
<1>4. CASE ~MemEventFails(m.records, move)
  <2> DEFINE after == [m EXCEPT !.records = Moved(@, moves, 1), !.log = @ \cup Entries(by, moves, 1)]
             done  == [d EXCEPT !.records = Moved(@, moves, 1), !.log = @ \cup Entries(by, moves, 1)]
  <2>1. DOMAIN done = SqlTables /\ DOMAIN after = MemTables /\ Mirrors(done, after)
    BY DEF Alike, Mirrors, SqlTables, MemTables
  <2>2. after.records = Moved(m.records, moves, Len(moves)) /\ after.index = m.index
    BY <1>1 DEF Alike, SqlTables, MemTables
  <2>3. \A i \in 1..Len(moves) : moves[i] \in Move
    BY <1>1
  <2>a. m.records \in Dict(Ids, Row) /\ IndexIsExact(m)
    BY DEF Alike, Kept
  <2> HIDE DEF after
  <2>b. /\ after.records \in Dict(Ids, Row)
        /\ Identified(m.records, after.records)
    <3>1. Len(moves) \in Nat /\ Distinct(moves)
      BY <1>1
    <3> QED BY <3>1, <2>2, <2>3, <2>a, MovedKeeps, Zenon
  <2>4. Kept(after)
    BY <2>2, <2>a, <2>b, IndexStays DEF Kept
  <2> USE DEF after
  <2>5. Alike(done, after, u)
    BY <2>1, <2>4 DEF Alike, SqlTables, MemTables
  <2> QED BY <1>0, <1>2, <1>4, <2>5 DEF Agree, LiteTransition, MemTransition, Done
<1> QED BY <1>3, <1>4

(* A commit that changes rows but no key of one, and no table whose shape  *)
(* differs, keeps the databases alike.                                     *)
SameTables(d, m, d1, m1) ==
    /\ DOMAIN d1 = SqlTables /\ DOMAIN m1 = MemTables
    /\ d1.records = m1.records /\ d1.receipts = m1.receipts /\ d1.log = m1.log
    /\ d1.outbox = m1.outbox /\ d1.links = m1.links /\ d1.locks = m1.locks
    /\ d1.terms = m1.terms /\ d1.invalidations = m1.invalidations /\ d1.owed = m1.owed
    /\ d1.runs = d.runs /\ d1.actions = d.actions /\ d1.marks = d.marks
    /\ m1.runs = m.runs /\ m1.marks = m.marks /\ m1.index = m.index

LEMMA SameShapes ==
    ASSUME NEW d, NEW m, NEW u, Alike(d, m, u), NEW d1, NEW m1, SameTables(d, m, d1, m1),
           m1.records \in Dict(Ids, Row), Identified(m.records, m1.records)
    PROVE  Alike(d1, m1, u)
<1>1. Kept(m1)
  BY IndexStays DEF Alike, Kept, SameTables
<1>2. Mirrors(d1, m1)
  BY DEF Alike, Mirrors, SameTables
<1> QED BY <1>1, <1>2 DEF Alike, SameTables

LEMMA LinkedKeeps ==
    ASSUME NEW rows \in Dict(Ids, Row), NEW pairs
    PROVE  Linked(rows, pairs) \in Dict(Ids, Row) /\ Identified(rows, Linked(rows, pairs))
<1>1. DOMAIN rows \subseteq Ids /\ \A r \in DOMAIN rows : rows[r] \in Row
  BY DictFacts
<1>2. \A r : Across(pairs, r) \subseteq Ids
  BY DEF Across
<1>3. \A r \in DOMAIN rows : /\ Linked(rows, pairs)[r] \in Row
                              /\ Linked(rows, pairs)[r].space = rows[r].space
                              /\ Linked(rows, pairs)[r].key = rows[r].key
  BY <1>1, <1>2 DEF Linked, Row
<1>4. DOMAIN Linked(rows, pairs) = DOMAIN rows
      /\ Linked(rows, pairs) = [r \in DOMAIN Linked(rows, pairs) |-> Linked(rows, pairs)[r]]
  BY DEF Linked
<1> QED BY <1>1, <1>3, <1>4, DictFacts DEF Identified

LEMMA ConflictAgrees ==
    ASSUME NEW d, NEW m, NEW u, Alike(d, m, u), NEW by, NEW pairs
    PROVE  Agree(LiteConflict(d, by, pairs), MemConflict(m, by, pairs), d, m, u)
<1>1. d.records = m.records
  BY DEF Alike, Mirrors
<1>2. CASE Unknown(m.records, pairs)
  BY <1>1, <1>2 DEF Agree, LiteConflict, MemConflict, Refused
<1>3. CASE ~Unknown(m.records, pairs)
  <2> DEFINE done  == [d EXCEPT !.receipts = Put(@, by, "conflict_link"), !.records = Linked(@, pairs)]
             after == [m EXCEPT !.records = Linked(@, pairs), !.receipts = Put(@, by, "conflict_link")]
  <2>1. after.records \in Dict(Ids, Row) /\ Identified(m.records, after.records)
    BY LinkedKeeps DEF Alike, Kept, SqlTables, MemTables
  <2>2. SameTables(d, m, done, after)
    BY DEF SameTables, Alike, Mirrors, SqlTables, MemTables
  <2> HIDE DEF done, after
  <2>3. Alike(done, after, u)
    BY <2>1, <2>2, SameShapes
  <2> USE DEF done, after
  <2> QED BY <1>1, <1>3, <2>3 DEF Agree, LiteConflict, MemConflict, Done
<1> QED BY <1>2, <1>3

LEMMA InvalidateAgrees ==
    ASSUME NEW d, NEW m, NEW u, Alike(d, m, u), NEW c, Len(c.moves) \in Nat,
           \A i \in 1..Len(c.moves) : c.moves[i] \in Move, Distinct(c.moves)
    PROVE  Agree(LiteInvalidate(d, c), MemInvalidate(m, c), d, m, u)
<1>1. LiteFails(d.records, c.moves) = MemFails(m.records, c.moves)
      /\ d.invalidations = m.invalidations
  BY ChecksAgree DEF Alike, Mirrors
<1>2. CASE MovedIds(c.moves) # c.names \/ c.event \in m.invalidations \/ MemFails(m.records, c.moves)
  BY <1>1, <1>2 DEF Agree, LiteInvalidate, MemInvalidate, Refused
<1>3. CASE /\ MovedIds(c.moves) = c.names /\ c.event \notin m.invalidations
           /\ ~MemFails(m.records, c.moves)
  <2> DEFINE start == [m EXCEPT !.invalidations = @ \cup {c.event}]
             begun == [d EXCEPT !.invalidations = @ \cup {c.event}]
             settled == MemSettled(start, "lifecycle", c)
             after == [settled.db EXCEPT !.owed = @ \cup {<<c.event, r>> : r \in c.names},
                                         !.terms = Deactivated(@, c.names)]
             done == [LiteSettled(d, "lifecycle", c) EXCEPT
                         !.invalidations = @ \cup {c.event},
                         !.owed = @ \cup {<<c.event, r>> : r \in c.names},
                         !.terms = Deactivated(@, c.names)]
  <2>1. start.records = m.records
    BY DEF Alike, SqlTables, MemTables
  <2>2. Alike(begun, start, u)
    BY DEF Alike, Mirrors, Kept, IndexIsExact, SqlTables, MemTables
  <2>a. ~MemFails(start.records, c.moves)
    BY <1>3, <2>1
  <2> HIDE DEF start, begun
  <2>3. Alike(LiteSettled(begun, "lifecycle", c), settled.db, u) /\ settled.said = "done"
    BY <2>a, <2>2, SettledAlike
  <2> USE DEF start, begun
  <2>5. done = [LiteSettled(begun, "lifecycle", c) EXCEPT
                    !.owed = @ \cup {<<c.event, r>> : r \in c.names},
                    !.terms = Deactivated(@, c.names)]
    BY ZenonT(40) DEF LiteSettled, Alike, SqlTables
  <2> DEFINE e == LiteSettled(begun, "lifecycle", c)
             n == settled.db
  <2>6. Alike(e, n, u)
    BY <2>3
  <2> HIDE DEF e, n
  <2>7. \A owed, terms : Alike([e EXCEPT !.owed = owed, !.terms = terms],
                               [n EXCEPT !.owed = owed, !.terms = terms], u)
    BY <2>6 DEF Alike, Mirrors, Kept, IndexIsExact, SqlTables, MemTables
  <2>8. e.owed = n.owed /\ e.terms = n.terms
    BY <2>6 DEF Alike, Mirrors
  <2>9. Alike(done, after, u)
    BY <2>5, <2>7, <2>8 DEF e, n
  <2> QED BY <1>1, <1>3, <2>3, <2>9 DEF Agree, LiteInvalidate, MemInvalidate, Done
<1> QED BY <1>2, <1>3

LEMMA TombstoneKeeps ==
    ASSUME NEW rows \in Dict(Ids, Row), NEW move \in Move, move.of \in DOMAIN rows,
           NEW kept \in SUBSET Ids
    PROVE  Tombstone(rows, move, kept) \in Dict(Ids, Row) /\ Identified(rows, Tombstone(rows, move, kept))
<1> DEFINE next == Tombstone(rows, move, kept)
           row  == [rows[move.of] EXCEPT !.state = move.to, !.redacted = TRUE, !.conflicts = kept]
<1>1. DOMAIN rows \subseteq Ids /\ \A r \in DOMAIN rows : rows[r] \in Row
  BY DictFacts
<1>2. row \in Row /\ row.space = rows[move.of].space /\ row.key = rows[move.of].key
  BY <1>1 DEF Row, Move
<1>3. DOMAIN next = DOMAIN rows /\ next = [r \in DOMAIN next |-> next[r]]
  BY DEF Tombstone, Put
<1>4. \A r \in DOMAIN rows : next[r] = IF r = move.of THEN row ELSE rows[r]
  BY DEF Tombstone, Put
<1> HIDE DEF next, row
<1>5. \A r \in DOMAIN rows : /\ next[r] \in Row /\ next[r].space = rows[r].space
                              /\ next[r].key = rows[r].key
  BY <1>1, <1>2, <1>4
<1>6. next \in Dict(Ids, Row) /\ Identified(rows, next)
  BY <1>1, <1>3, <1>5, DictFacts DEF Identified
<1> QED BY <1>6 DEF next

LEMMA DeleteAgrees ==
    ASSUME NEW d, NEW m, NEW u, Alike(d, m, u), NEW c, c.kept \in SUBSET Ids, NEW move \in Move
    PROVE  Agree(LiteDelete(d, c, move), MemDelete(m, c, move), d, m, u)
<1>0. PICK moves : moves = <<move>>
  OBVIOUS
<1>1. Len(moves) = 1 /\ moves[1] = move /\ Distinct(moves) /\ d.records = m.records
  BY <1>0 DEF Distinct, Alike, Mirrors
<1>2. MemFails(m.records, moves) <=> MemEventFails(m.records, move)
  BY <1>1 DEF MemFails
<1>3. LiteFails(m.records, moves) = MemFails(m.records, moves)
  BY <1>1, ChecksAgree
<1>4. CASE MemEventFails(m.records, move)
  BY <1>0, <1>1, <1>2, <1>3, <1>4 DEF Agree, LiteDelete, MemDelete, Refused
<1>5. CASE ~MemEventFails(m.records, move)
  <2> DEFINE done == [d EXCEPT !.records = Tombstone(@, move, c.kept),
                        !.log = @ \cup Entries(c.by, moves, 1),
                        !.terms = TermsOfOthers(@, move.of),
                        !.receipts = Put(@, c.by, "deletion"),
                        !.outbox = PutAll(@, c.events)]
             after == [m EXCEPT !.log = @ \cup Entries(c.by, moves, 1),
                        !.records = Tombstone(@, move, c.kept),
                        !.terms = TermsOfOthers(@, move.of),
                        !.receipts = Put(@, c.by, "deletion"),
                        !.outbox = PutAll(@, c.events)]
  <2>1. move.of \in DOMAIN m.records /\ m.records \in Dict(Ids, Row)
    BY <1>5 DEF MemEventFails, Alike, Kept
  <2>2. SameTables(d, m, done, after)
    BY DEF SameTables, Alike, Mirrors, SqlTables, MemTables
  <2>3. after.records = Tombstone(m.records, move, c.kept)
    BY DEF Alike, SqlTables, MemTables
  <2>4. LiteDelete(d, c, move) = Done(done) /\ MemDelete(m, c, move) = Done(after)
    BY <1>0, <1>1, <1>2, <1>3, <1>5 DEF LiteDelete, MemDelete
  <2> HIDE DEF done, after
  <2>5. Alike(done, after, u)
    BY <2>1, <2>2, <2>3, TombstoneKeeps, SameShapes
  <2> QED BY <2>4, <2>5 DEF Agree, Done
<1> QED BY <1>4, <1>5

LEMMA VerifiedAlike ==
    ASSUME NEW d, NEW m, d.records = m.records, d.receipts = m.receipts, d.links = m.links
    PROVE  \A r, k : Verified(d, r, k) <=> Verified(m, r, k)
BY DEF Verified

LEMMA ErasedAlike ==
    ASSUME "DELETED" \in Statuses, NEW d, NEW m, NEW u, Alike(d, m, u), NEW done
    PROVE  Alike(Erased(d, done), Erased(m, done), u)
<1> DEFINE e == Erased(d, done)
           n == Erased(m, done)
           rest == {p \in done : m.records[p[1]].state # "DELETED"}
<1>1. m.records \in Dict(Ids, Row) /\ d.records = m.records
  BY DEF Alike, Kept, Mirrors
<1>2. DOMAIN m.records \subseteq Ids /\ \A r \in DOMAIN m.records : m.records[r] \in Row
  BY <1>1, DictFacts
<1>3. SameTables(d, m, e, n)
  BY DEF SameTables, Erased, Alike, Mirrors, SqlTables, MemTables
<1>4. n.records = [r \in DOMAIN m.records |->
                      IF \E p \in rest : p[1] = r THEN [m.records[r] EXCEPT !.state = "DELETED"]
                      ELSE m.records[r]]
  BY DEF Erased, Alike, SqlTables, MemTables
<1> HIDE DEF e, n, rest
<1>5. \A r \in DOMAIN m.records : /\ n.records[r] \in Row /\ n.records[r].space = m.records[r].space
                                   /\ n.records[r].key = m.records[r].key
  BY <1>2, <1>4 DEF Row
<1>6. DOMAIN n.records = DOMAIN m.records /\ n.records = [r \in DOMAIN n.records |-> n.records[r]]
  BY <1>4
<1>7. n.records \in Dict(Ids, Row) /\ Identified(m.records, n.records)
  BY <1>2, <1>5, <1>6, DictFacts DEF Identified
<1>8. Alike(e, n, u)
  BY <1>3, <1>7, SameShapes
<1> QED BY <1>8 DEF e, n

LEMMA CompleteAgrees ==
    ASSUME "DELETED" \in Statuses, NEW d, NEW m, NEW u, Alike(d, m, u), NEW r, NEW k
    PROVE  Agree(LiteComplete(d, r, k), MemComplete(m, r, k), d, m, u)
<1>1. Verified(d, r, k) <=> Verified(m, r, k)
  BY VerifiedAlike DEF Alike, Mirrors
<1>2. Alike(Erased(d, {<<r, k>>}), Erased(m, {<<r, k>>}), u)
  BY ErasedAlike
<1> QED BY <1>1, <1>2 DEF Agree, LiteComplete, MemComplete, Done, Refused

(* A new run adds its own digests; a new mark is one more of the list.     *)
LEMMA RunAdds ==
    ASSUME NEW runs, NEW by, by \notin DOMAIN runs, NEW run
    PROVE  ActionsOfRuns(Put(runs, by, run))
             = ActionsOfRuns(runs) \cup ({run.space} \X AppliedDigests(run))
<1> DEFINE next == Put(runs, by, run)
<1>1. DOMAIN next = DOMAIN runs \cup {by} /\ next[by] = run
      /\ \A k \in DOMAIN runs : next[k] = runs[k]
  BY DEF Put
<1> HIDE DEF next
<1>2. \A x : x \in ActionsOfRuns(next)
                <=> \E k \in DOMAIN next : x \in {next[k].space} \X AppliedDigests(next[k])
  BY DEF ActionsOfRuns
<1>3. \A x : x \in ActionsOfRuns(runs)
                <=> \E k \in DOMAIN runs : x \in {runs[k].space} \X AppliedDigests(runs[k])
  BY DEF ActionsOfRuns
<1>4. \A x : x \in ActionsOfRuns(next)
                <=> x \in ActionsOfRuns(runs) \/ x \in {run.space} \X AppliedDigests(run)
  BY <1>1, <1>2, <1>3
<1> QED BY <1>4 DEF next

LEMMA MaintainAgrees ==
    ASSUME NEW d, NEW m, NEW u, Alike(d, m, u), NEW by, by \notin u, NEW run
    PROVE  Agree(LiteMaintain(d, by, run), MemMaintain(m, by, run), d, m, u \cup {by})
<1> DEFINE done  == [d EXCEPT !.runs = Put(@, by, run),
                              !.actions = @ \cup ({run.space} \X AppliedDigests(run))]
           after == [m EXCEPT !.runs = Put(@, by, run)]
<1>1. /\ done.runs = Put(m.runs, by, run) /\ after.runs = Put(m.runs, by, run)
      /\ done.actions = ActionsOfRuns(m.runs) \cup ({run.space} \X AppliedDigests(run))
  BY DEF Alike, Mirrors, SqlTables, MemTables
<1>2. by \notin DOMAIN m.runs /\ DOMAIN Put(m.runs, by, run) \subseteq u \cup {by}
  BY DEF Alike, Put
<1>3. done.actions = ActionsOfRuns(after.runs)
  BY <1>1, <1>2, RunAdds
<1>4. /\ DOMAIN done = SqlTables /\ DOMAIN after = MemTables
      /\ done.records = after.records /\ done.receipts = after.receipts /\ done.log = after.log
      /\ done.outbox = after.outbox /\ done.links = after.links /\ done.locks = after.locks
      /\ done.terms = after.terms /\ done.invalidations = after.invalidations
      /\ done.owed = after.owed /\ done.marks = d.marks /\ after.marks = m.marks
      /\ after.index = m.index /\ after.records = m.records
  BY DEF Alike, Mirrors, SqlTables, MemTables
<1>5. LiteMaintain(d, by, run) = Done(done) /\ MemMaintain(m, by, run) = Done(after)
  BY DEF LiteMaintain, MemMaintain
<1> HIDE DEF done, after
<1>6. Mirrors(done, after) /\ Kept(after)
  BY <1>1, <1>3, <1>4 DEF Alike, Mirrors, Kept, IndexIsExact
<1>7. Alike(done, after, u \cup {by})
  BY <1>1, <1>2, <1>4, <1>6 DEF Alike
<1> QED BY <1>5, <1>7 DEF Agree, Done

LEMMA MarkAdds ==
    ASSUME NEW d, NEW m, NEW u, Alike(d, m, u), NEW by, NEW mark,
           by \in Receipts, by \notin u, mark \in Mark
    PROVE  /\ MarkRows(Put(d.marks, by, mark)) = MarksOf(Append(m.marks, MarkedBy(by, mark)))
           /\ Append(m.marks, MarkedBy(by, mark)) \in MarkLists
           /\ DOMAIN Put(d.marks, by, mark) \subseteq u \cup {by}
<1> DEFINE table == d.marks
           order == m.marks
           table1 == Put(table, by, mark)
           order1 == Append(order, MarkedBy(by, mark))
           entry == MarkedBy(by, mark)
<1>0. /\ DOMAIN table \subseteq u /\ by \notin DOMAIN table
      /\ MarkRows(table) = MarksOf(order) /\ order \in MarkLists
  BY DEF Alike, Mirrors
<1> HIDE DEF table, order
<1>1. DOMAIN table1 = DOMAIN table \cup {by} /\ table1[by] = mark
      /\ \A k \in DOMAIN table : table1[k] = table[k]
  BY <1>0 DEF Put
<1>2. /\ order1 \in MarkLists /\ Len(order) \in Nat
      /\ Len(order1) = Len(order) + 1 /\ order1[Len(order) + 1] = entry
      /\ \A i \in 1..Len(order) : order1[i] = order[i]
  BY <1>0 DEF MarkLists, MarkedBy
<1> HIDE DEF table1, order1
<1>3. MarkRows(table1) = MarkRows(table) \cup {<<by, mark>>}
  BY <1>0, <1>1 DEF MarkRows
<1>4. MarksOf(order1) = MarksOf(order) \cup {<<entry.by, entry.mark>>}
  <2>1. 1..Len(order1) = (1..Len(order)) \cup {Len(order) + 1}
    BY <1>2
  <2> QED BY <1>2, <2>1 DEF MarksOf
<1>5. entry.by = by /\ entry.mark = mark
  BY DEF MarkedBy
<1> QED BY <1>0, <1>1, <1>2, <1>3, <1>4, <1>5 DEF table, order, table1, order1

LEMMA CutoverAgrees ==
    ASSUME NEW d, NEW m, NEW u, Alike(d, m, u), NEW c, c.by \in Receipts \ u, c.mark \in Mark
    PROVE  Agree(LiteCutover(d, c), MemCutover(m, c), d, m, u \cup {c.by})
<1> DEFINE done  == [d EXCEPT !.marks = Put(@, c.by, c.mark)]
           after == [m EXCEPT !.marks = Append(@, MarkedBy(c.by, c.mark))]
<1>1. /\ done.marks = Put(d.marks, c.by, c.mark)
      /\ after.marks = Append(m.marks, MarkedBy(c.by, c.mark))
  BY DEF Alike, SqlTables, MemTables
<1>2. /\ DOMAIN done = SqlTables /\ DOMAIN after = MemTables
      /\ done.records = after.records /\ done.receipts = after.receipts /\ done.log = after.log
      /\ done.outbox = after.outbox /\ done.links = after.links /\ done.locks = after.locks
      /\ done.terms = after.terms /\ done.invalidations = after.invalidations
      /\ done.owed = after.owed /\ done.runs = after.runs /\ after.runs = m.runs
      /\ done.actions = d.actions /\ after.index = m.index /\ after.records = m.records
  BY DEF Alike, Mirrors, SqlTables, MemTables
<1>4. Alike(d, m, u \cup {c.by})
  BY DEF Alike
<1>5. (c.applied => LiteCutover(d, c) = Done(done) /\ MemCutover(m, c) = Done(after))
      /\ (~c.applied => LiteCutover(d, c) = Refused(d, "store") /\ MemCutover(m, c) = Refused(m, "store"))
  BY DEF LiteCutover, MemCutover
<1> HIDE DEF done, after
<1>6. /\ MarkRows(done.marks) = MarksOf(after.marks)
      /\ after.marks \in MarkLists
      /\ DOMAIN done.marks \subseteq u \cup {c.by}
  BY <1>1, MarkAdds
<1>7. Mirrors(done, after) /\ Kept(after)
  BY <1>2, <1>6 DEF Alike, Mirrors, Kept, IndexIsExact
<1>8. Alike(done, after, u \cup {c.by})
  BY <1>2, <1>6, <1>7 DEF Alike
<1> QED BY <1>4, <1>5, <1>8 DEF Agree, Done, Refused

LEMMA PlanRewrites ==
    ASSUME NEW d, NEW c, Planned(d, c), None \notin Locators, c.expected \in Tables,
           DOMAIN c.updates \subseteq DOMAIN c.expected
    PROVE  Relinked(d.links, c) = DropAll(PutAll(d.links, c.updates), c.removals)
<1>1. \A x \in DOMAIN c.expected : c.expected[x] \in Locators
  BY DEF Tables
<1>2. DOMAIN c.expected \subseteq DOMAIN d.links
  BY <1>1 DEF Planned, At
<1>3. PutAll(d.links, c.updates)
        = [x \in DOMAIN d.links |-> IF x \in DOMAIN c.updates THEN c.updates[x] ELSE d.links[x]]
  BY <1>2 DEF PutAll
<1> QED BY <1>3 DEF Relinked

LEMMA ReleaseAgrees ==
    ASSUME "DELETED" \in Statuses, None \notin Locators,
           NEW d, NEW m, NEW u, Alike(d, m, u), NEW c, c.by \in Receipts, c.by \notin u,
           c.mark \in Mark, c.expected \in Tables, DOMAIN c.updates \subseteq DOMAIN c.expected
    PROVE  Agree(LiteRelease(d, c), MemRelease(m, c), d, m, u \cup {c.by})
<1> DEFINE e == [d EXCEPT !.marks = Put(@, c.by, c.mark), !.links = Relinked(@, c)]
           n == [m EXCEPT !.marks = Append(@, MarkedBy(c.by, c.mark)),
                          !.links = DropAll(PutAll(@, c.updates), c.removals)]
<1>1. d.links = m.links /\ (Planned(d, c) <=> Planned(m, c)) /\ Alike(d, m, u \cup {c.by})
  BY DEF Planned, Alike, Mirrors
<1>2. CASE ~c.applied \/ ~Planned(m, c)
  BY <1>1, <1>2 DEF Agree, LiteRelease, MemRelease, Refused
<1>3. CASE c.applied /\ Planned(m, c)
  <2>1. Relinked(d.links, c) = DropAll(PutAll(m.links, c.updates), c.removals)
    BY <1>1, <1>3, PlanRewrites
  <2>2. /\ e.marks = Put(d.marks, c.by, c.mark)
        /\ n.marks = Append(m.marks, MarkedBy(c.by, c.mark))
        /\ e.links = Relinked(d.links, c)
        /\ n.links = DropAll(PutAll(m.links, c.updates), c.removals)
    BY DEF Alike, SqlTables, MemTables
  <2>3. /\ DOMAIN e = SqlTables /\ DOMAIN n = MemTables
        /\ e.records = n.records /\ e.receipts = n.receipts /\ e.log = n.log
        /\ e.outbox = n.outbox /\ e.locks = n.locks /\ e.terms = n.terms
        /\ e.invalidations = n.invalidations /\ e.owed = n.owed /\ e.runs = n.runs
        /\ n.runs = m.runs /\ e.actions = d.actions /\ n.index = m.index /\ n.records = m.records
    BY DEF Alike, Mirrors, SqlTables, MemTables
  <2>4. /\ LiteRelease(d, c) = IF ~AllVerified(e, c.done) THEN Refused(d, "store")
                               ELSE Done(Erased(e, c.done))
        /\ MemRelease(m, c) = IF ~AllVerified(n, c.done) THEN Refused(m, "store")
                              ELSE Done(Erased(n, c.done))
    BY <1>1, <1>3 DEF LiteRelease, MemRelease
  <2> HIDE DEF e, n
  <2>5. /\ MarkRows(e.marks) = MarksOf(n.marks) /\ n.marks \in MarkLists
        /\ DOMAIN e.marks \subseteq u \cup {c.by}
    BY <2>2, MarkAdds
  <2>6. Mirrors(e, n) /\ Kept(n)
    BY <2>1, <2>2, <2>3, <2>5 DEF Alike, Mirrors, Kept, IndexIsExact
  <2>7. Alike(e, n, u \cup {c.by})
    BY <2>3, <2>5, <2>6 DEF Alike
  <2>8. AllVerified(e, c.done) <=> AllVerified(n, c.done)
    BY <2>6, VerifiedAlike DEF AllVerified, Mirrors
  <2>9. Alike(Erased(e, c.done), Erased(n, c.done), u \cup {c.by})
    BY <2>7, ErasedAlike
  <2> QED BY <1>1, <2>4, <2>8, <2>9 DEF Agree, Done, Refused
<1> QED BY <1>2, <1>3

-----------------------------------------------------------------------------
(* commit_write.  The dictionary of keys refuses exactly what the unique   *)
(* index refuses, and stays exact when the record is new.                  *)

LEMMA KeyTaken ==
    ASSUME None \notin Ids, NEW d, NEW m, NEW u, Alike(d, m, u), NEW c,
           c.id \in Ids, c.id \notin DOMAIN m.records
    PROVE  LiteKeyTaken(d, c) <=> MemKeyTaken(m, c)
<1> DEFINE key == <<c.row.space, c.row.key>>
<1>1. /\ d.records = m.records /\ DOMAIN m.records \subseteq Ids
      /\ \A r \in DOMAIN m.records : At(m.index, <<m.records[r].space, m.records[r].key>>) = r
      /\ \A x \in DOMAIN m.index :
            /\ m.index[x] \in DOMAIN m.records
            /\ x = <<m.records[m.index[x]].space, m.records[m.index[x]].key>>
  BY DictFacts DEF Alike, Mirrors, Kept, IndexIsExact
<1>2. ASSUME LiteKeyTaken(d, c) PROVE MemKeyTaken(m, c)
  BY <1>1, <1>2 DEF LiteKeyTaken, MemKeyTaken
<1>3. ASSUME MemKeyTaken(m, c) PROVE LiteKeyTaken(d, c)
  <2>1. key \in DOMAIN m.index
    BY <1>3 DEF MemKeyTaken, At
  <2> QED BY <1>1, <2>1 DEF LiteKeyTaken
<1> QED BY <1>2, <1>3

LEMMA InsertedAlike ==
    ASSUME None \notin Ids, NEW d, NEW m, NEW u, Alike(d, m, u), NEW c,
           c.id \in Ids, c.id \notin DOMAIN m.records, c.row \in NewRow, ~MemKeyTaken(m, c)
    PROVE  /\ LiteInserted(d, c).records = MemInserted(m, c).records
           /\ Alike(LiteInserted(d, c),
                    [MemInserted(m, c) EXCEPT !.terms = KeepAll(@, NewTerms(c.id))], u)
<1> DEFINE e == LiteInserted(d, c)
           n == [MemInserted(m, c) EXCEPT !.terms = KeepAll(@, NewTerms(c.id))]
           key == <<c.row.space, c.row.key>>
<1>1. /\ d.records = m.records /\ DOMAIN m.records \subseteq Ids
      /\ \A r \in DOMAIN m.records : m.records[r] \in Row
      /\ \A r \in DOMAIN m.records : At(m.index, <<m.records[r].space, m.records[r].key>>) = r
      /\ \A x \in DOMAIN m.index :
            /\ m.index[x] \in DOMAIN m.records
            /\ x = <<m.records[m.index[x]].space, m.records[m.index[x]].key>>
  BY DictFacts DEF Alike, Mirrors, Kept, IndexIsExact
<1>2. key \notin DOMAIN m.index
  BY <1>1 DEF MemKeyTaken, At
<1>3. /\ n.records = Put(m.records, c.id, c.row) /\ n.index = Put(m.index, key, c.id)
      /\ MemInserted(m, c).records = Put(m.records, c.id, c.row)
      /\ e.records = Put(m.records, c.id, c.row)
      /\ n.terms = KeepAll(m.terms, NewTerms(c.id)) /\ e.terms = KeepAll(m.terms, NewTerms(c.id))
  BY <1>1 DEF LiteInserted, MemInserted, Alike, Mirrors, SqlTables, MemTables
<1>4. /\ DOMAIN e = SqlTables /\ DOMAIN n = MemTables
      /\ e.receipts = n.receipts /\ e.log = n.log /\ e.outbox = n.outbox
      /\ e.links = n.links /\ e.locks = n.locks /\ e.invalidations = n.invalidations
      /\ e.owed = n.owed /\ e.runs = n.runs /\ n.runs = m.runs /\ n.marks = m.marks
      /\ e.marks = d.marks /\ e.actions = d.actions
  BY DEF LiteInserted, MemInserted, Alike, Mirrors, SqlTables, MemTables
<1> HIDE DEF e, n
<1>5. /\ DOMAIN n.records = DOMAIN m.records \cup {c.id} /\ n.records[c.id] = c.row
      /\ \A r \in DOMAIN m.records : n.records[r] = m.records[r]
      /\ n.records = [r \in DOMAIN n.records |-> n.records[r]]
  BY <1>3 DEF Put
<1>6. DOMAIN n.index = DOMAIN m.index \cup {key} /\ n.index[key] = c.id
      /\ \A x \in DOMAIN m.index : n.index[x] = m.index[x]
  BY <1>2, <1>3 DEF Put
<1>7. n.records \in Dict(Ids, Row)
  <2>1. c.row \in Row
    BY DEF NewRow
  <2>2. \A r \in DOMAIN n.records : n.records[r] \in Row
    BY <1>1, <1>5, <2>1
  <2>3. DOMAIN n.records \subseteq Ids /\ n.records = [r \in DOMAIN n.records |-> n.records[r]]
    BY <1>1, <1>5
  <2> QED BY ONLY <2>2, <2>3, DictFacts
<1>8. \A r \in DOMAIN n.records : At(n.index, <<n.records[r].space, n.records[r].key>>) = r
  <2>1. \A r \in DOMAIN m.records :
           /\ <<m.records[r].space, m.records[r].key>> \in DOMAIN m.index
           /\ m.index[<<m.records[r].space, m.records[r].key>>] = r
    BY <1>1 DEF At
  <2>2. ASSUME NEW r \in DOMAIN m.records
        PROVE  At(n.index, <<n.records[r].space, n.records[r].key>>) = r
    BY <1>5, <1>6, <2>1 DEF At
  <2>3. At(n.index, <<n.records[c.id].space, n.records[c.id].key>>) = c.id
    BY <1>5, <1>6 DEF At
  <2> QED BY <1>5, <2>2, <2>3
<1>9. \A x \in DOMAIN n.index : /\ n.index[x] \in DOMAIN n.records
                                 /\ x = <<n.records[n.index[x]].space, n.records[n.index[x]].key>>
  <2>1. ASSUME NEW x \in DOMAIN m.index
        PROVE  /\ n.index[x] \in DOMAIN n.records
               /\ x = <<n.records[n.index[x]].space, n.records[n.index[x]].key>>
    <3>1. n.index[x] = m.index[x] /\ m.index[x] \in DOMAIN m.records
      BY <1>1, <1>6
    <3>2. n.records[m.index[x]] = m.records[m.index[x]]
      BY <1>5, <3>1
    <3> QED BY <1>1, <1>5, <3>1, <3>2
  <2>2. /\ n.index[key] \in DOMAIN n.records
        /\ key = <<n.records[n.index[key]].space, n.records[n.index[key]].key>>
    BY <1>5, <1>6
  <2> QED BY <1>6, <2>1, <2>2
<1>10. Kept(n)
  BY <1>7, <1>8, <1>9 DEF Kept, IndexIsExact
<1>11. Mirrors(e, n)
  BY <1>3, <1>4 DEF Alike, Mirrors
<1>12. Alike(e, n, u)
  BY <1>4, <1>10, <1>11 DEF Alike
<1> QED BY <1>3, <1>12 DEF e, n

LEMMA WriteAgrees ==
    ASSUME None \notin Ids, NEW d, NEW m, NEW u, Alike(d, m, u), NEW c,
           c.id \in Ids \cup {None}, c.id \notin DOMAIN m.records, c.row \in NewRow,
           Len(c.moves) \in Nat, \A i \in 1..Len(c.moves) : c.moves[i] \in Move, Distinct(c.moves)
    PROVE  Agree(LiteWrite(d, c), MemWrite(m, c), d, m, u)
<1>1. d.records = m.records
  BY DEF Alike, Mirrors
<1>2. CASE Stale(m.records, c)
  BY <1>1, <1>2 DEF Agree, LiteWrite, MemWrite, Refused
<1>3. CASE ~Stale(m.records, c) /\ c.id # None /\ MemKeyTaken(m, c)
  BY <1>1, <1>3, KeyTaken DEF Agree, LiteWrite, MemWrite, Refused
<1>4. CASE ~Stale(m.records, c) /\ (c.id # None => ~MemKeyTaken(m, c))
  <2> DEFINE e == LiteInserted(d, c)
             n == IF c.id = None THEN MemInserted(m, c)
                  ELSE [MemInserted(m, c) EXCEPT !.terms = KeepAll(@, NewTerms(c.id))]
  <2>1. c.id # None => (LiteKeyTaken(d, c) <=> MemKeyTaken(m, c))
    BY KeyTaken
  <2>2. Alike(e, n, u) /\ e.records = MemInserted(m, c).records
    <3>1. CASE c.id = None
      BY <1>1, <3>1 DEF LiteInserted, MemInserted
    <3>2. CASE c.id # None
      BY <1>4, <3>2, InsertedAlike
    <3> QED BY <3>1, <3>2
  <2>3. /\ LiteWrite(d, c) = IF LiteFails(e.records, c.moves) THEN Refused(d, "store")
                             ELSE Done(LiteSettled(e, "write", c))
        /\ MemWrite(m, c) = IF MemFails(e.records, c.moves) THEN Refused(m, "store")
                            ELSE MemSettled(n, "write", c)
    BY <1>1, <1>4, <2>1, <2>2 DEF LiteWrite, MemWrite
  <2> HIDE DEF e, n
  <2>4. LiteFails(e.records, c.moves) = MemFails(e.records, c.moves)
    BY ChecksAgree
  <2>5. e.records = n.records
    BY <2>2 DEF Alike, Mirrors
  <2>6. ~MemFails(e.records, c.moves)
          => /\ Alike(LiteSettled(e, "write", c), MemSettled(n, "write", c).db, u)
             /\ MemSettled(n, "write", c).said = "done"
    BY <2>2, <2>5, SettledAlike
  <2> QED BY <2>3, <2>4, <2>6 DEF Agree, Done, Refused
<1> QED BY <1>2, <1>3, <1>4

-----------------------------------------------------------------------------
(* The step: what the three answers agree on is the invariant afterwards.  *)

Both == /\ Alike(lite, mem, used) /\ Alike(pg, mem, used)
        /\ used \subseteq Receipts /\ SaidAlike

LEMMA BothIsIInv == Both <=> IInv
BY DEF Both, IInv, TypeOK, StoresMirror, SaidAlike, Alike, Kept

Refusals ==
    /\ told'.lite # "done" => lite' = lite
    /\ told'.pg # "done" => pg' = pg
    /\ told'.mem # "done" => mem' = mem

LEMMA AnswersAgree ==
    ASSUME NEW a, NEW b, NEW n, Took(a, b, n), used' \subseteq Receipts,
           Agree(a, n, lite, mem, used'), Agree(b, n, pg, mem, used')
    PROVE  Both' /\ Refusals
BY DEF Took, Agree, Both, Refusals, SaidAlike, Alike, Mirrors, Kept, IndexIsExact

LEMMA Older ==
    ASSUME NEW d, NEW m, NEW u, NEW w, Alike(d, m, u), u \subseteq w
    PROVE  Alike(d, m, w)
BY DEF Alike

THEOREM CommitsAgree ==
    ASSUME StoreParameters, ~Repeats, Both, Next
    PROVE  Both' /\ Refusals
<1>0. /\ Alike(lite, mem, used) /\ Alike(pg, mem, used) /\ used \subseteq Receipts
      /\ lite.records = mem.records
      /\ "DELETED" \in Statuses /\ None \notin Ids /\ None \notin Locators
  BY DEF Both, StoreParameters, Alike, Mirrors
<1>f. ASSUME NEW by \in Receipts, Fresh(by)
      PROVE  /\ used' = used \cup {by} /\ by \notin used /\ used' \subseteq Receipts
             /\ Alike(lite, mem, used') /\ Alike(pg, mem, used')
  <2>1. used' = used \cup {by} /\ by \notin used /\ used' \subseteq Receipts
    BY <1>0, <1>f DEF Fresh
  <2> QED BY <1>0, <2>1, Older
<1>1. ASSUME NEW by \in Receipts, NEW moves \in Plans, NEW T \in SUBSET Targets,
             NEW id \in Ids \cup {None}, NEW row \in NewRow, NEW plock \in Lock \cup {None},
             Write(by, id, row, plock, moves, T)
      PROVE  Both' /\ Refusals
  <2> DEFINE c == [by |-> by, id |-> id, row |-> row, lock |-> plock, moves |-> moves,
                   events |-> Enqueued(by, T)]
  <2>1. Fresh(by) /\ Unseen(id) /\ Took(LiteWrite(lite, c), PgWrite(pg, c), MemWrite(mem, c))
    BY <1>1 DEF Write
  <2>2. /\ c.id \in Ids \cup {None} /\ c.id \notin DOMAIN mem.records /\ c.row \in NewRow
        /\ c.moves = moves
    BY <2>1 DEF Unseen
  <2>3. /\ Len(c.moves) \in Nat /\ \A i \in 1..Len(c.moves) : c.moves[i] \in Move
        /\ Distinct(c.moves)
    BY <2>2, PlanFacts
  <2> HIDE DEF c
  <2>4. /\ Agree(LiteWrite(lite, c), MemWrite(mem, c), lite, mem, used')
        /\ Agree(LiteWrite(pg, c), MemWrite(mem, c), pg, mem, used')
    BY <1>0, <1>f, <2>1, <2>2, <2>3, WriteAgrees
  <2> QED BY <1>f, <2>1, <2>4, PgIsLite, AnswersAgree
<1>2. ASSUME NEW by \in Receipts, NEW moves \in Plans, NEW T \in SUBSET Targets, NEW names \in SUBSET Ids
      PROVE  /\ Lifecycle(by, names, moves, T) => Both' /\ Refusals
             /\ \A applied \in BOOLEAN : Archive(by, applied, names, moves, T) => Both' /\ Refusals
             /\ \A event \in Receipts : Invalidate(by, event, names, moves, T) => Both' /\ Refusals
  <2>1. ASSUME Lifecycle(by, names, moves, T) PROVE Both' /\ Refusals
    <3> DEFINE c == [by |-> by, names |-> names, moves |-> moves, events |-> Enqueued(by, T)]
    <3>1. Fresh(by) /\ Took(LiteLifecycle(lite, c), PgLifecycle(pg, c), MemLifecycle(mem, c))
      BY <2>1 DEF Lifecycle
    <3>2. /\ Len(c.moves) \in Nat /\ Distinct(c.moves)
          /\ \A i \in 1..Len(c.moves) : c.moves[i] \in Move
      BY PlanFacts
    <3> HIDE DEF c
    <3>3. /\ Agree(LiteLifecycle(lite, c), MemLifecycle(mem, c), lite, mem, used')
          /\ Agree(LiteLifecycle(pg, c), MemLifecycle(mem, c), pg, mem, used')
      BY <1>f, <3>1, <3>2, LifecycleAgrees
    <3> QED BY <1>f, <3>1, <3>3, PgIsLite, AnswersAgree
  <2>2. ASSUME NEW applied \in BOOLEAN, Archive(by, applied, names, moves, T) PROVE Both' /\ Refusals
    <3> DEFINE c == [by |-> by, applied |-> applied, names |-> names, moves |-> moves,
                     events |-> Enqueued(by, T)]
    <3>1. Fresh(by) /\ Took(LiteArchive(lite, c), PgArchive(pg, c), MemArchive(mem, c))
      BY <2>2 DEF Archive
    <3>2. /\ Len(c.moves) \in Nat /\ Distinct(c.moves)
          /\ \A i \in 1..Len(c.moves) : c.moves[i] \in Move
      BY PlanFacts
    <3> HIDE DEF c
    <3>3. /\ Agree(LiteArchive(lite, c), MemArchive(mem, c), lite, mem, used')
          /\ Agree(LiteArchive(pg, c), MemArchive(mem, c), pg, mem, used')
      BY <1>f, <3>1, <3>2, LifecycleAgrees
    <3> QED BY <1>f, <3>1, <3>3, PgIsLite, AnswersAgree
  <2>3. ASSUME NEW event \in Receipts, Invalidate(by, event, names, moves, T) PROVE Both' /\ Refusals
    <3> DEFINE c == [by |-> by, event |-> event, names |-> names, moves |-> moves,
                     events |-> Enqueued(by, T)]
    <3>1. Fresh(by) /\ Took(LiteInvalidate(lite, c), PgInvalidate(pg, c), MemInvalidate(mem, c))
      BY <2>3 DEF Invalidate
    <3>2. /\ Len(c.moves) \in Nat /\ Distinct(c.moves)
          /\ \A i \in 1..Len(c.moves) : c.moves[i] \in Move
      BY PlanFacts
    <3> HIDE DEF c
    <3>3. /\ Agree(LiteInvalidate(lite, c), MemInvalidate(mem, c), lite, mem, used')
          /\ Agree(LiteInvalidate(pg, c), MemInvalidate(mem, c), pg, mem, used')
      BY <1>f, <3>1, <3>2, InvalidateAgrees
    <3> QED BY <1>f, <3>1, <3>3, PgIsLite, AnswersAgree
  <2> QED BY <2>1, <2>2, <2>3
<1>3. ASSUME NEW by \in Receipts, NEW move \in Move, Transition(by, move)
      PROVE  Both' /\ Refusals
  <2>1. /\ Fresh(by)
        /\ Took(LiteTransition(lite, by, move), PgTransition(pg, by, move), MemTransition(mem, by, move))
    BY <1>3 DEF Transition
  <2>2. /\ Agree(LiteTransition(lite, by, move), MemTransition(mem, by, move), lite, mem, used')
        /\ Agree(LiteTransition(pg, by, move), MemTransition(mem, by, move), pg, mem, used')
    BY <1>f, <2>1, TransitionAgrees
  <2> QED BY <1>f, <2>1, <2>2, PgIsLite, AnswersAgree
<1>4. ASSUME NEW by \in Receipts, NEW move \in Move, NEW kept \in SUBSET Ids, NEW T \in SUBSET Targets,
             Delete(by, move, kept, T)
      PROVE  Both' /\ Refusals
  <2> DEFINE c == [by |-> by, kept |-> kept, events |-> Enqueued(by, T)]
  <2>1. Fresh(by) /\ Took(LiteDelete(lite, c, move), PgDelete(pg, c, move), MemDelete(mem, c, move))
    BY <1>4 DEF Delete
  <2>2. c.kept \in SUBSET Ids
    OBVIOUS
  <2> HIDE DEF c
  <2>3. /\ Agree(LiteDelete(lite, c, move), MemDelete(mem, c, move), lite, mem, used')
        /\ Agree(LiteDelete(pg, c, move), MemDelete(mem, c, move), pg, mem, used')
    BY <1>f, <2>1, <2>2, DeleteAgrees
  <2> QED BY <1>f, <2>1, <2>3, PgIsLite, AnswersAgree
<1>5. ASSUME NEW by \in Receipts, NEW pairs, Conflict(by, pairs)
      PROVE  Both' /\ Refusals
  <2>1. /\ Fresh(by)
        /\ Took(LiteConflict(lite, by, pairs), PgConflict(pg, by, pairs), MemConflict(mem, by, pairs))
    BY <1>5 DEF Conflict
  <2>2. /\ Agree(LiteConflict(lite, by, pairs), MemConflict(mem, by, pairs), lite, mem, used')
        /\ Agree(LiteConflict(pg, by, pairs), MemConflict(mem, by, pairs), pg, mem, used')
    BY <1>f, <2>1, ConflictAgrees
  <2> QED BY <1>f, <2>1, <2>2, PgIsLite, AnswersAgree
<1>6. ASSUME NEW by \in Receipts, NEW applied, NEW T, Rebuild(by, applied, T)
      PROVE  Both' /\ Refusals
  <2> DEFINE c == [by |-> by, applied |-> applied, events |-> Enqueued(by, T)]
  <2>1. Fresh(by) /\ Took(LiteRebuild(lite, c), PgRebuild(pg, c), MemRebuild(mem, c))
    BY <1>6 DEF Rebuild
  <2> HIDE DEF c
  <2>2. /\ Agree(LiteRebuild(lite, c), MemRebuild(mem, c), lite, mem, used')
        /\ Agree(LiteRebuild(pg, c), MemRebuild(mem, c), pg, mem, used')
    BY <1>f, <2>1, PlainCommits
  <2> QED BY <1>f, <2>1, <2>2, PgIsLite, AnswersAgree
<1>7. ASSUME NEW by \in Receipts, NEW applied, NEW mark \in Mark, Cutover(by, applied, mark)
      PROVE  Both' /\ Refusals
  <2> DEFINE c == [by |-> by, applied |-> applied, mark |-> mark]
  <2>1. Fresh(by) /\ Took(LiteCutover(lite, c), PgCutover(pg, c), MemCutover(mem, c))
    BY <1>7 DEF Cutover
  <2>2. c.by = by /\ c.mark \in Mark
    OBVIOUS
  <2> HIDE DEF c
  <2>3. /\ c.by \in Receipts \ used /\ used' = used \cup {c.by}
    BY <1>f, <2>1, <2>2
  <2>4. /\ Agree(LiteCutover(lite, c), MemCutover(mem, c), lite, mem, used')
        /\ Agree(LiteCutover(pg, c), MemCutover(mem, c), pg, mem, used')
    BY <1>0, <2>2, <2>3, CutoverAgrees
  <2> QED BY <1>f, <2>1, <2>4, PgIsLite, AnswersAgree
<1>8. ASSUME NEW by \in Receipts, NEW applied, NEW mark \in Mark, NEW expected \in Tables,
             NEW updates \in Tables, NEW removals, NEW done,
             Release(by, applied, mark, expected, updates, removals, done)
      PROVE  Both' /\ Refusals
  <2> DEFINE c == [by |-> by, applied |-> applied, mark |-> mark, expected |-> expected,
                   updates |-> updates, removals |-> removals, done |-> done]
  <2>1. /\ Fresh(by) /\ DOMAIN updates \subseteq DOMAIN expected
        /\ Took(LiteRelease(lite, c), PgRelease(pg, c), MemRelease(mem, c))
    BY <1>8 DEF Release
  <2>2. /\ c.by = by /\ c.mark \in Mark /\ c.expected \in Tables
        /\ DOMAIN c.updates \subseteq DOMAIN c.expected
    BY <2>1
  <2> HIDE DEF c
  <2>3. c.by \in Receipts /\ c.by \notin used /\ used' = used \cup {c.by}
    BY <1>f, <2>1, <2>2
  <2>4. /\ Agree(LiteRelease(lite, c), MemRelease(mem, c), lite, mem, used')
        /\ Agree(LiteRelease(pg, c), MemRelease(mem, c), pg, mem, used')
    BY <1>0, <2>2, <2>3, ReleaseAgrees
  <2> QED BY <1>f, <2>1, <2>4, PgIsLite, AnswersAgree
<1>9. ASSUME NEW by \in Receipts, NEW run \in Run, Maintain(by, run)
      PROVE  Both' /\ Refusals
  <2>1. /\ Fresh(by)
        /\ Took(LiteMaintain(lite, by, run), PgMaintain(pg, by, run), MemMaintain(mem, by, run))
    BY <1>9 DEF Maintain
  <2>2. /\ Agree(LiteMaintain(lite, by, run), MemMaintain(mem, by, run), lite, mem, used')
        /\ Agree(LiteMaintain(pg, by, run), MemMaintain(mem, by, run), pg, mem, used')
    BY <1>0, <1>f, <2>1, MaintainAgrees
  <2> QED BY <1>f, <2>1, <2>2, PgIsLite, AnswersAgree
<1>10. ASSUME NEW by \in Receipts, Retire(by)
       PROVE  Both' /\ Refusals
  <2>1. Fresh(by) /\ Took(LiteRetire(lite, by), PgRetire(pg, by), MemRetire(mem, by))
    BY <1>10 DEF Retire
  <2>2. /\ Agree(LiteRetire(lite, by), MemRetire(mem, by), lite, mem, used')
        /\ Agree(LiteRetire(pg, by), MemRetire(mem, by), pg, mem, used')
    BY <1>f, <2>1, PlainCommits
  <2> QED BY <1>f, <2>1, <2>2, PgIsLite, AnswersAgree
<1>11. ASSUME NEW slot, NEW plock, SaveLock(slot, plock)
       PROVE  Both' /\ Refusals
  <2>1. used' = used /\ Took(LiteLock(lite, slot, plock), PgLock(pg, slot, plock), MemLock(mem, slot, plock))
    BY <1>11 DEF SaveLock
  <2>2. /\ Agree(LiteLock(lite, slot, plock), MemLock(mem, slot, plock), lite, mem, used')
        /\ Agree(LiteLock(pg, slot, plock), MemLock(mem, slot, plock), pg, mem, used')
    BY <1>0, <2>1, PlainCommits
  <2> QED BY <1>0, <2>1, <2>2, PgIsLite, AnswersAgree
<1>12. ASSUME NEW at, NEW link, SaveLink(at, link)
       PROVE  Both' /\ Refusals
  <2>1. /\ used' = used /\ at[1] \in DOMAIN mem.records
        /\ Took(LiteLink(lite, at, link), PgLink(pg, at, link), MemLink(mem, at, link))
    BY <1>0, <1>12 DEF SaveLink
  <2>2. /\ Agree(LiteLink(lite, at, link), MemLink(mem, at, link), lite, mem, used')
        /\ Agree(LiteLink(pg, at, link), MemLink(mem, at, link), pg, mem, used')
    BY <1>0, <2>1, PlainCommits
  <2> QED BY <1>0, <2>1, <2>2, PgIsLite, AnswersAgree
<1>13. ASSUME NEW at, NEW link, NEW previous, SaveLinkIfActive(at, link, previous)
       PROVE  Both' /\ Refusals
  <2>1. /\ used' = used
        /\ Took(LiteLinkIfActive(lite, at, link, previous), PgLinkIfActive(pg, at, link, previous),
                MemLinkIfActive(mem, at, link, previous))
    BY <1>13 DEF SaveLinkIfActive
  <2>2. /\ Agree(LiteLinkIfActive(lite, at, link, previous), MemLinkIfActive(mem, at, link, previous),
                 lite, mem, used')
        /\ Agree(LiteLinkIfActive(pg, at, link, previous), MemLinkIfActive(mem, at, link, previous),
                 pg, mem, used')
    BY <1>0, <2>1, PlainCommits
  <2> QED BY <1>0, <2>1, <2>2, PgIsLite, AnswersAgree
<1>14. ASSUME NEW at, DeleteLink(at)
       PROVE  Both' /\ Refusals
  <2>1. used' = used /\ Took(LiteUnlink(lite, at), PgUnlink(pg, at), MemUnlink(mem, at))
    BY <1>14 DEF DeleteLink
  <2>2. /\ Agree(LiteUnlink(lite, at), MemUnlink(mem, at), lite, mem, used')
        /\ Agree(LiteUnlink(pg, at), MemUnlink(mem, at), pg, mem, used')
    BY <1>0, <2>1, PlainCommits
  <2> QED BY <1>0, <2>1, <2>2, PgIsLite, AnswersAgree
<1>15. ASSUME NEW r, NEW k, Complete(r, k)
       PROVE  Both' /\ Refusals
  <2>1. used' = used /\ Took(LiteComplete(lite, r, k), PgComplete(pg, r, k), MemComplete(mem, r, k))
    BY <1>15 DEF Complete
  <2>2. /\ Agree(LiteComplete(lite, r, k), MemComplete(mem, r, k), lite, mem, used')
        /\ Agree(LiteComplete(pg, r, k), MemComplete(mem, r, k), pg, mem, used')
    BY <1>0, <2>1, CompleteAgrees
  <2> QED BY <1>0, <2>1, <2>2, PgIsLite, AnswersAgree
<1>16. ASSUME NEW e, Settle(e)
       PROVE  Both' /\ Refusals
  <2>1. used' = used /\ Took(LiteSettle(lite, e), PgSettle(pg, e), MemSettle(mem, e))
    BY <1>16 DEF Settle
  <2>2. /\ Agree(LiteSettle(lite, e), MemSettle(mem, e), lite, mem, used')
        /\ Agree(LiteSettle(pg, e), MemSettle(mem, e), pg, mem, used')
    BY <1>0, <2>1, PlainCommits
  <2> QED BY <1>0, <2>1, <2>2, PgIsLite, AnswersAgree
<1> QED
  BY <1>1, <1>2, <1>3, <1>4, <1>5, <1>6, <1>7, <1>8, <1>9, <1>10, <1>11, <1>12, <1>13, <1>14,
     <1>15, <1>16 DEF Next

LEMMA EmptyStores == Init => Both
<1> SUFFICES ASSUME Init PROVE Both
  OBVIOUS
<1>1. /\ DOMAIN lite = SqlTables /\ DOMAIN mem = MemTables /\ pg = lite
      /\ lite.records = mem.records /\ lite.receipts = mem.receipts /\ lite.log = mem.log
      /\ lite.outbox = mem.outbox /\ lite.links = mem.links /\ lite.locks = mem.locks
      /\ lite.terms = mem.terms /\ lite.invalidations = mem.invalidations /\ lite.owed = mem.owed
      /\ lite.runs = mem.runs
  BY DEF Init, LiteEmpty, PgEmpty, MemEmpty, SqlTables, MemTables
<1>2. /\ mem.records = Empty /\ mem.index = Empty /\ mem.runs = Empty /\ mem.marks = <<>>
      /\ lite.marks = Empty /\ lite.actions = {} /\ DOMAIN Empty = {}
  BY DEF Init, LiteEmpty, MemEmpty, Empty
<1>3. mem.records \in Dict(Ids, Row) /\ IndexIsExact(mem)
  <2>1. mem.records = [r \in DOMAIN mem.records |-> mem.records[r]] /\ DOMAIN mem.records = {}
    BY <1>2 DEF Empty
  <2>2. mem.records \in Dict(Ids, Row)
    BY <2>1, DictFacts
  <2> QED BY <1>2, <2>2 DEF IndexIsExact
<1>4. ActionsOfRuns(mem.runs) = {} /\ MarkRows(lite.marks) = {}
  BY <1>2 DEF ActionsOfRuns, MarkRows
<1>5. mem.marks \in MarkLists /\ MarksOf(mem.marks) = {}
  BY <1>2 DEF MarkLists, MarksOf
<1>6. Mirrors(lite, mem)
  BY <1>1, <1>2, <1>4, <1>5 DEF Mirrors
<1>7. Alike(lite, mem, used)
  BY <1>1, <1>2, <1>3, <1>5, <1>6 DEF Alike, Kept
<1> QED BY <1>1, <1>7 DEF Both, SaidAlike, Init

-----------------------------------------------------------------------------
(* The mirror is kept by every behaviour, and a refusal by every step.     *)

LEMMA Invariant == ASSUME StoreParameters, ~Repeats PROVE Spec => []Both
<1>1. Init => Both
  BY EmptyStores
<1>2. Both /\ [Next]_vars => Both'
  <2>1. ASSUME Both, UNCHANGED vars PROVE Both'
    BY <2>1 DEF Both, vars, SaidAlike, Alike, Mirrors, Kept, IndexIsExact
  <2> QED BY <2>1, CommitsAgree
<1> QED BY <1>1, <1>2, PTL DEF Spec

\* The tables keep their shape through any sequence of commits that name no record
\* in two status events.  (A write request may name one twice under supersedes, and
\* nothing in MemoryWriteRequest keeps it from that: such a commit is not covered.)
THEOREM StoresTyped == ASSUME StoreParameters, ~Repeats PROVE Spec => []TypeOK
<1>1. Both => TypeOK
  BY BothIsIInv DEF IInv
<1> QED BY <1>1, Invariant, PTL

\* SQLite, PostgreSQL and the in-memory store hold the same facts after any
\* sequence of commits that name no record twice.
THEOREM ThreeMirrors == ASSUME StoreParameters, ~Repeats PROVE Spec => []StoresMirror
<1>1. Both => StoresMirror
  BY BothIsIInv DEF IInv
<1> QED BY <1>1, Invariant, PTL

\* and in such a sequence the caller of a commit cannot tell which of the three it
\* was made on.
THEOREM SameAnswers == ASSUME StoreParameters, ~Repeats PROVE Spec => []SaidAlike
<1>1. Both => SaidAlike
  BY BothIsIInv DEF IInv
<1> QED BY <1>1, Invariant, PTL

\* A refused commit leaves nothing behind, in the store without rollback too, as long
\* as no commit names a record twice.
THEOREM NothingHalf == ASSUME StoreParameters, ~Repeats PROVE Spec => AllOrNothing
<1>1. Both /\ [Next]_vars => [/\ told'.lite # "done" => lite' = lite
                              /\ told'.pg # "done" => pg' = pg
                              /\ told'.mem # "done" => mem' = mem]_vars
  BY CommitsAgree DEF Refusals
<1> QED BY <1>1, Invariant, PTL DEF Spec, AllOrNothing

-----------------------------------------------------------------------------
(* The reads: ISO text sorts as the instants do, whether or not it spells  *)
(* out the microseconds, so the text index of SQLite answers what          *)
(* timestamps answer.                                                      *)

LEMMA DigitsOrder ==
    ASSUME NEW m \in Nat, m > 0, NEW a \in Nat, NEW b \in Nat,
           NEW x \in 0..(m - 1), NEW y \in 0..(m - 1)
    PROVE  m * a + x <= m * b + y <=> (a < b \/ (a = b /\ x <= y))
<1>1. CASE a < b
  <2>1. a + 1 <= b
    BY <1>1
  <2>2. m * (a + 1) <= m * b
    BY <2>1
  <2>3. m * a + m <= m * b
    BY <2>2
  <2> QED BY <1>1, <2>3
<1>2. CASE b < a
  <2>1. b + 1 <= a
    BY <1>2
  <2>2. m * (b + 1) <= m * a
    BY <2>1
  <2>3. m * b + m <= m * a
    BY <2>2
  <2> QED BY <1>2, <2>3
<1>3. CASE a = b
  <2>1. m * a = m * b
    BY <1>3
  <2> QED BY <1>3, <2>1
<1> QED BY <1>1, <1>2, <1>3

THEOREM TextOrder ==
    ASSUME NEW s \in Nat, NEW t \in Nat
    PROVE  TextLeq(s, t) <=> s <= t
<1>1. PICK m \in Nat : m = Micro /\ m > 0
  BY DEF Micro
<1>2. PICK a \in Nat, b \in Nat : a = s \div m /\ b = t \div m
  BY <1>1
<1>3. PICK x \in 0..(m - 1), y \in 0..(m - 1) : x = s % m /\ y = t % m
  BY <1>1
<1>4. m * a + x = s /\ m * b + y = t
  BY <1>1, <1>2, <1>3
<1>5. TextLeq(s, t) <=> \/ a < b
                        \/ a = b /\ (IF x = 0 THEN Plus ELSE Dot) < (IF y = 0 THEN Plus ELSE Dot)
                        \/ a = b /\ (IF x = 0 THEN Plus ELSE Dot) = (IF y = 0 THEN Plus ELSE Dot) /\ x <= y
  BY <1>1, <1>2, <1>3 DEF TextLeq, TextOf
<1>6. TextLeq(s, t) <=> (a < b \/ (a = b /\ x <= y))
  BY <1>1, <1>3, <1>5 DEF Plus, Dot
<1> QED BY <1>1, <1>4, <1>6, DigitsOrder

LEMMA RecordTimes ==
    ASSUME StoreParameters, ReadParameters, NEW r \in Ids
    PROVE  /\ RecordedAt[r] \in Nat /\ ValidFrom[r] \in Nat
           /\ ValidTo[r] # None => ValidTo[r] \in Nat
BY DEF StoreParameters, ReadParameters

LEMMA WindowsAlike ==
    ASSUME StoreParameters, ReadParameters, NEW hits \in SUBSET Ids, NEW n
    PROVE  LiteNewest(hits, n) = Newest(hits, n) /\ LiteOldest(hits, n) = Oldest(hits, n)
<1>1. \A w, x \in hits : TextLeq(RecordedAt[x], RecordedAt[w]) <=> RecordedAt[x] <= RecordedAt[w]
  BY RecordTimes, TextOrder
<1>2. LiteNewest(hits, n) = Newest(hits, n)
  BY <1>1 DEF LiteNewest, Newest
<1>3. LiteOldest(hits, n) = Oldest(hits, n)
  BY <1>1 DEF LiteOldest, Oldest
<1> QED BY <1>2, <1>3

\* A search finds the same records in the three stores, and when they are few
\* enough for the smallest window it answers the same.
THEOREM SearchesAgree ==
    ASSUME StoreParameters, ReadParameters, NEW d, NEW m, d.records = m.records,
           DOMAIN m.records \subseteq Ids,
           NEW q, q.validAt \in Nat, RecordedBy(q) \in Nat, q.limit \in Nat
    PROVE  /\ LiteSearchHits(d, q) = MemSearchHits(m, q)
           /\ PgSearchHits(d, q) = MemSearchHits(m, q)
           /\ LiteSearch(d, q) = PgSearch(d, q)
           /\ Cardinality(MemSearchHits(m, q)) <= MemWindow * q.limit
                => PgSearch(d, q) = MemSearch(m, q)
<1> DEFINE hits == MemSearchHits(m, q)
<1>1. \A r \in DOMAIN m.records :
         /\ TextLeq(ValidFrom[r], q.validAt) <=> ValidFrom[r] <= q.validAt
         /\ ValidTo[r] # None => (TextLeq(ValidTo[r], q.validAt) <=> ValidTo[r] <= q.validAt)
         /\ TextLeq(RecordedAt[r], RecordedBy(q)) <=> RecordedAt[r] <= RecordedBy(q)
  BY RecordTimes, TextOrder
<1>2. \A r \in DOMAIN m.records : ValidTo[r] # None => ValidTo[r] \in Nat
  BY RecordTimes
<1>3. LiteSearchHits(d, q) = PgSearchHits(d, q)
  BY <1>1, <1>2 DEF LiteSearchHits, PgSearchHits
<1>4. PgSearchHits(d, q) = hits
  BY <1>2 DEF PgSearchHits, MemSearchHits, ValidAt
<1>5. hits \in SUBSET Ids /\ (q.spaces = {} => hits = {})
  BY DEF MemSearchHits
<1> HIDE DEF hits
<1>6. LiteSearch(d, q) = PgSearch(d, q)
  BY <1>3, <1>4, <1>5, WindowsAlike DEF LiteSearch, PgSearch
<1>7. ASSUME Cardinality(hits) <= MemWindow * q.limit PROVE PgSearch(d, q) = MemSearch(m, q)
  <2>1. IsFiniteSet(hits)
    BY <1>5, FS_Subset DEF ReadParameters
  <2>2. Cardinality(hits) \in Nat
    BY <2>1, FS_CardinalityType
  <2>3. Cardinality(hits) <= SqlWindow * q.limit
    <3>1. MemWindow * q.limit <= SqlWindow * q.limit
      BY DEF ReadParameters
    <3>2. MemWindow * q.limit \in Nat /\ SqlWindow * q.limit \in Nat
      BY DEF ReadParameters
    <3> QED BY <1>7, <2>2, <3>1, <3>2
  <2>4. \A n \in Nat : Cardinality(hits) <= n => Newest(hits, n) = {hits}
    <3> SUFFICES ASSUME NEW n \in Nat, Cardinality(hits) <= n PROVE Newest(hits, n) = {hits}
      OBVIOUS
    <3>1. n # None \/ n = None
      OBVIOUS
    <3> QED BY DEF Newest, Fits
  <2>5. MemWindow * q.limit \in Nat /\ SqlWindow * q.limit \in Nat
    BY DEF ReadParameters
  <2>6. MemSearch(m, q) = {hits} /\ Newest(hits, SqlWindow * q.limit) = {hits}
    BY <1>7, <2>3, <2>4, <2>5 DEF MemSearch, hits
  <2>7. PgSearch(d, q) = {hits}
    BY <1>4, <1>5, <2>6 DEF PgSearch
  <2> QED BY <2>6, <2>7
<1> QED BY <1>3, <1>4, <1>6, <1>7 DEF hits

LEMMA DigestsOfRuns ==
    ASSUME NEW d, NEW m, d.actions = ActionsOfRuns(m.runs), NEW space
    PROVE  LiteDigests(d, space) = MemDigests(m, space)
<1>1. ASSUME NEW g \in LiteDigests(d, space) PROVE g \in MemDigests(m, space)
  <2>1. PICK x \in d.actions : x[1] = space /\ g = x[2]
    BY <1>1 DEF LiteDigests
  <2>2. PICK k \in DOMAIN m.runs : x \in {m.runs[k].space} \X AppliedDigests(m.runs[k])
    BY DEF ActionsOfRuns
  <2>3. m.runs[k].space = space /\ g \in AppliedDigests(m.runs[k])
    BY <2>1, <2>2
  <2> QED BY <2>3 DEF MemDigests
<1>2. ASSUME NEW g \in MemDigests(m, space) PROVE g \in LiteDigests(d, space)
  <2>1. PICK k \in DOMAIN m.runs : m.runs[k].space = space /\ g \in AppliedDigests(m.runs[k])
    BY <1>2 DEF MemDigests
  <2>2. <<space, g>> \in {m.runs[k].space} \X AppliedDigests(m.runs[k])
    BY <2>1
  <2>3. <<space, g>> \in d.actions
    BY <2>2 DEF ActionsOfRuns
  <2> QED BY <2>3 DEF LiteDigests
<1> QED BY <1>1, <1>2

\* The other reads, from the shapes each store keeps: the key index against
\* the unique rows, the table of actions against the runs, the selectors
\* against the records they name.
THEOREM LookupsAgree ==
    ASSUME StoreParameters, ReadParameters, NEW d, NEW m, Mirrors(d, m), Kept(m),
           DOMAIN m.terms \subseteq Ids \X Terms
    PROVE  /\ \A space, key : LiteByKey(d, space, key) = MemByKey(m, space, key)
           /\ \A spaces, term : LiteMatches(d, spaces, term) = MemMatches(m, spaces, term)
           /\ \A space : \A before \in Nat : LiteExpired(d, space, before) = MemExpired(m, space, before)
           /\ \A space, target, n : LiteUnprojected(d, space, target, n) = MemUnprojected(m, space, target, n)
           /\ \A space, states, n : LiteList(d, space, states, n) = MemList(m, space, states, n)
           /\ \A space : LiteDigests(d, space) = MemDigests(m, space)
           /\ LiteIdentities(d, d) = MemIdentities(m)
<1>1. /\ d.records = m.records /\ d.links = m.links /\ d.terms = m.terms /\ d.outbox = m.outbox
      /\ d.actions = ActionsOfRuns(m.runs) /\ DOMAIN m.records \subseteq Ids /\ None \notin Ids
      /\ \A r \in DOMAIN m.records : At(m.index, <<m.records[r].space, m.records[r].key>>) = r
      /\ \A x \in DOMAIN m.index :
            /\ m.index[x] \in DOMAIN m.records
            /\ x = <<m.records[m.index[x]].space, m.records[m.index[x]].key>>
  BY DictFacts DEF Mirrors, Kept, IndexIsExact, StoreParameters
<1>2. ASSUME NEW space, NEW key PROVE LiteByKey(d, space, key) = MemByKey(m, space, key)
  <2>1. ASSUME NEW r \in LiteByKey(d, space, key) PROVE r \in MemByKey(m, space, key)
    <3>1. r \in DOMAIN m.records /\ m.records[r].space = space /\ m.records[r].key = key
      BY <1>1, <2>1 DEF LiteByKey
    <3>2. At(m.index, <<space, key>>) = r /\ r # None
      BY <1>1, <3>1
    <3>3. <<space, key>> \in DOMAIN m.index /\ m.index[<<space, key>>] = r
      BY <3>2 DEF At
    <3> QED BY <3>3 DEF MemByKey
  <2>2. ASSUME NEW r \in MemByKey(m, space, key) PROVE r \in LiteByKey(d, space, key)
    <3>1. <<space, key>> \in DOMAIN m.index /\ r = m.index[<<space, key>>]
      BY <2>2 DEF MemByKey
    <3>2. r \in DOMAIN m.records /\ <<space, key>> = <<m.records[r].space, m.records[r].key>>
      BY <1>1, <3>1
    <3> QED BY <1>1, <3>2 DEF LiteByKey
  <2> QED BY <2>1, <2>2
<1>3. ASSUME NEW spaces, NEW term PROVE LiteMatches(d, spaces, term) = MemMatches(m, spaces, term)
  <2>1. ASSUME NEW r \in LiteMatches(d, spaces, term) PROVE r \in MemMatches(m, spaces, term)
    <3>1. /\ r \in DOMAIN m.records /\ m.records[r].space \in spaces /\ m.records[r].state = "ACTIVE"
          /\ At(m.terms, <<r, term>>) = "active"
      BY <1>1, <2>1 DEF LiteMatches
    <3>2. <<r, term>> \in DOMAIN m.terms /\ m.terms[<<r, term>>] = "active"
      BY <3>1 DEF At, StoreParameters
    <3> QED BY <3>1, <3>2 DEF MemMatches
  <2>2. ASSUME NEW r \in MemMatches(m, spaces, term) PROVE r \in LiteMatches(d, spaces, term)
    <3>1. PICK y \in DOMAIN m.terms :
             /\ m.terms[y] = "active" /\ y[2] = term /\ y[1] \in DOMAIN m.records
             /\ m.records[y[1]].space \in spaces /\ m.records[y[1]].state = "ACTIVE" /\ r = y[1]
      BY <2>2 DEF MemMatches
    <3>2. y = <<r, term>>
      BY <3>1
    <3> QED BY <1>1, <3>1, <3>2 DEF LiteMatches, At
  <2> QED BY <2>1, <2>2
<1>4. ASSUME NEW space, NEW before \in Nat PROVE LiteExpired(d, space, before) = MemExpired(m, space, before)
  <2>1. \A r \in DOMAIN m.records :
           ValidTo[r] # None => (TextLeq(ValidTo[r], before) <=> ValidTo[r] <= before)
    BY <1>1, RecordTimes, TextOrder
  <2> QED BY <1>1, <2>1 DEF LiteExpired, MemExpired, Active
<1>5. ASSUME NEW space, NEW target, NEW n
      PROVE  LiteUnprojected(d, space, target, n) = MemUnprojected(m, space, target, n)
  <2>1. Lacking(d, space, target) = Lacking(m, space, target)
    BY <1>1 DEF Lacking
  <2>2. Lacking(m, space, target) \in SUBSET Ids
    BY <1>1 DEF Lacking, Active
  <2> QED BY <2>1, <2>2, WindowsAlike DEF LiteUnprojected, MemUnprojected
<1>6. ASSUME NEW space, NEW states, NEW n PROVE LiteList(d, space, states, n) = MemList(m, space, states, n)
  <2>1. Listed(m.records, space, states) \in SUBSET Ids
    BY <1>1 DEF Listed
  <2> QED BY <1>1, <2>1, WindowsAlike DEF LiteList, MemList
<1>7. ASSUME NEW space PROVE LiteDigests(d, space) = MemDigests(m, space)
  BY <1>1, DigestsOfRuns
<1>8. LiteIdentities(d, d) = MemIdentities(m)
  BY <1>1 DEF LiteIdentities, MemIdentities, Open
<1> QED BY <1>2, <1>3, <1>4, <1>5, <1>6, <1>7, <1>8

---------------------------------------------------------------------------
(***************************************************************************)
(* Proofs about ProviderTransport, for any number of callers, every        *)
(* threshold, recovery window and limit, and both transports.              *)
(*                                                                         *)
(* SparesTheProvider speaks of calm, a history the code does not keep.     *)
(* CircuitInv relates it to what the breaker keeps: the age of the latest  *)
(* failure while it is open, the age of the latest probe while half open.  *)
(***************************************************************************)
\* What the transport keeps between two steps: a circuit that is not closed has
\* reached its threshold, an open one was opened calm ticks ago, and a half-open
\* one let its latest probe through calm ticks ago.
CircuitInv ==
    /\ breaker \in Breakers /\ calm \in 0..Recovery
    /\ breaker.state # "closed" => breaker.failures = Threshold
    /\ breaker.state = "open" => breaker.sinceFailure = calm
    /\ breaker.state = "half_open" => breaker.sinceProbe = calm

CallersTyped ==
    /\ transport \in {"mcp", "zep"} /\ provider \in {"healthy", "erring", "down"}
    /\ session \in Sessions
    /\ op \in [Callers -> Ops]

TransportInv == CircuitInv /\ CallersTyped

---------------------------------------------------------------------------
\* The circuit.

LEMMA CircuitFacts ==
    ASSUME CircuitInv
    PROVE  /\ breaker = [state |-> breaker.state, failures |-> breaker.failures,
                         sinceFailure |-> breaker.sinceFailure, sinceProbe |-> breaker.sinceProbe]
           /\ breaker.state \in {"closed", "open", "half_open"} /\ breaker.failures \in 0..Threshold
           /\ breaker.sinceFailure \in {Never} \cup 0..Recovery
           /\ breaker.sinceProbe \in {Never} \cup 0..Recovery
           /\ calm \in 0..Recovery /\ Recovery \in Nat \ {0} /\ Threshold \in Nat \ {0} /\ Never \notin Nat
  BY BreakerAssumption DEF CircuitInv, Breakers, Never

LEMMA BlameKeeps ==
    ASSUME CircuitInv, Blame
    PROVE  CircuitInv'
<1> DEFINE n == IF breaker.failures < Threshold THEN breaker.failures + 1 ELSE Threshold
           s == IF n >= Threshold THEN "open" ELSE breaker.state
<1>1. breaker' = [state |-> s, failures |-> n, sinceFailure |-> 0, sinceProbe |-> Never]
  BY DEF Blame, RecordFailure
<1>2. /\ breaker'.state = s /\ breaker'.failures = n
      /\ breaker'.sinceFailure = 0 /\ breaker'.sinceProbe = Never
  BY <1>1
<1>3. n \in 0..Threshold /\ (n < Threshold => breaker.failures < Threshold /\ s = breaker.state)
      /\ (n >= Threshold => s = "open" /\ n = Threshold)
  BY CircuitFacts
<1>4. s \in {"closed", "open", "half_open"}
  BY CircuitFacts
<1>5. calm' = IF s = "open" THEN 0 ELSE calm
  BY <1>2 DEF Blame
<1> HIDE DEF n, s
<1>6. breaker' \in Breakers
  BY <1>1, <1>3, <1>4, CircuitFacts DEF Breakers
<1>7. s # "closed" => s = "open" /\ n = Threshold
  BY <1>3, <1>4, CircuitFacts DEF CircuitInv
<1> QED
  BY <1>2, <1>5, <1>6, <1>7, CircuitFacts DEF CircuitInv

LEMMA PraiseKeeps ==
    ASSUME CircuitInv, Praise
    PROVE  CircuitInv'
<1>1. breaker' = Closed /\ calm' = Recovery /\ Closed \in Breakers /\ Closed.state = "closed"
  BY CircuitFacts DEF Praise, RecordSuccess, Closed, Breakers
<1> QED
  BY <1>1, CircuitFacts DEF CircuitInv

LEMMA ProbeKeeps ==
    ASSUME CircuitInv, CanExecute(breaker), breaker' = Executed(breaker),
           calm' = IF breaker.state = "closed" THEN calm ELSE 0
    PROVE  CircuitInv'
<1>1. CASE breaker.state = "closed"
  BY <1>1 DEF Executed, CircuitInv
<1>2. CASE breaker.state # "closed"
  <2>1. breaker' = [state |-> "half_open", failures |-> breaker.failures,
                    sinceFailure |-> breaker.sinceFailure, sinceProbe |-> 0]
    BY <1>2, CircuitFacts DEF Executed
  <2>2. breaker' \in Breakers
    BY <2>1, CircuitFacts DEF Breakers
  <2> QED
    BY <1>2, <2>1, <2>2, CircuitFacts DEF CircuitInv
<1> QED
  BY <1>1, <1>2

LEMMA AgeKeeps ==
    ASSUME CircuitInv, breaker' = AgedBreaker(breaker), calm' = OneTickOn(calm)
    PROVE  CircuitInv'
<1>1. ASSUME NEW a \in {Never} \cup 0..Recovery
      PROVE  OneTickOn(a) \in {Never} \cup 0..Recovery /\ (a \in 0..Recovery => OneTickOn(a) \in 0..Recovery)
  BY BreakerAssumption DEF OneTickOn, Never
<1> DEFINE f == IF breaker.state = "open" THEN OneTickOn(breaker.sinceFailure) ELSE breaker.sinceFailure
           p == OneTickOn(breaker.sinceProbe)
<1>2. breaker' = [state |-> breaker.state, failures |-> breaker.failures,
                  sinceFailure |-> f, sinceProbe |-> p]
  BY CircuitFacts DEF AgedBreaker
<1>3. f \in {Never} \cup 0..Recovery /\ p \in {Never} \cup 0..Recovery /\ calm' \in 0..Recovery
  BY <1>1, CircuitFacts
<1>4. /\ breaker.state = "open" => f = calm'
      /\ breaker.state = "half_open" => p = calm'
  BY DEF CircuitInv
<1> HIDE DEF f, p
<1>5. breaker' \in Breakers
  BY <1>2, <1>3, CircuitFacts DEF Breakers
<1> QED
  BY <1>2, <1>3, <1>4, <1>5 DEF CircuitInv

LEMMA CircuitStays ==
    ASSUME CircuitInv, UNCHANGED <<breaker, calm>>
    PROVE  CircuitInv'
  BY DEF CircuitInv

LEMMA CircuitNext ==
    ASSUME CircuitInv, TransportNext
    PROVE  CircuitInv'
<1>1. ASSUME NEW c \in Callers, Works(c) PROVE CircuitInv'
  <2>1. CASE Enter(c)
    <3>1. CASE CanExecute(breaker)
      BY <2>1, <3>1, ProbeKeeps DEF Enter
    <3>2. CASE ~CanExecute(breaker)
      BY <2>1, <3>2, CircuitStays DEF Enter
    <3> QED
      BY <3>1, <3>2
  <2>2. CASE Report(c)
    <3>1. Blame \/ Praise \/ UNCHANGED <<breaker, calm>>
      BY <2>2 DEF Report
    <3> QED
      BY <3>1, BlameKeeps, PraiseKeeps, CircuitStays
  <2>3. CASE ~Enter(c) /\ ~Report(c)
    <3>1. UNCHANGED <<breaker, calm>>
      BY <1>1, <2>3 DEF Works, Limit, EnsureSession, Initialize, Notify, HandshakeFails, Post, Answer,
                        Rehandshake
    <3> QED
      BY <3>1, CircuitStays
  <2> QED
    BY <2>1, <2>2, <2>3
<1>2. ASSUME NEW c \in Callers, Starts(c) PROVE CircuitInv'
  BY <1>2, CircuitStays DEF Starts, StartWrite, StartSearch, StartCall
<1>3. ASSUME NEW condition, NEW restarted, Change(condition, restarted) PROVE CircuitInv'
  BY <1>3, CircuitStays DEF Change
<1>4. CASE Tick
  BY <1>4, AgeKeeps DEF Tick
<1> QED
  BY <1>1, <1>2, <1>3, <1>4 DEF TransportNext

---------------------------------------------------------------------------
\* The callers.

LEMMA OpType ==
    ASSUME CallersTyped, NEW c \in Callers
    PROVE  /\ op[c] \in Ops /\ op[c].at \in Stations /\ op[c].do \in {"none", "write", "search", "call"}
           /\ op[c].left \in 0..2 /\ op[c].header \in Sessions /\ op[c].again \in BOOLEAN
           /\ op[c].verdict \in Verdicts /\ op[c].passed \in BOOLEAN
  BY DEF CallersTyped, Ops

LEMMA IdleType == Idle \in Ops /\ Idle.at = "idle"
  BY DEF Idle, Ops, Stations, Sessions, Verdicts

LEMMA NextType ==
    ASSUME NEW o \in Ops, o.left # 0
    PROVE  Next1(o) \in Ops /\ Next1(o).at = "enter"
<1>1. o.left \in 1..2 /\ o.do \in {"none", "write", "search", "call"}
  BY DEF Ops
<1>2. o.left - 1 \in 0..2 /\ (IF o.left = 1 THEN "call" ELSE o.do) \in {"none", "write", "search", "call"}
  BY <1>1
<1> QED
  BY <1>2 DEF Next1, Idle, Ops, Stations, Sessions, Verdicts

\* An operation that is over goes on with its next remote call, or rests.
LEMMA GoesOn ==
    ASSUME NEW o \in Ops, NEW next \in Failed(o) \cup Passed(o)
    PROVE  next \in Ops /\ next.at \in {"idle", "enter"}
  BY NextType, IdleType DEF Failed, Passed


\* What a step of caller c may do to the operations.
Moves(c) ==
    /\ op' \in [Callers -> Ops]
    /\ \A d \in Callers \ {c} : op'[d] = op[d]

LEMMA MovesTo ==
    ASSUME CallersTyped, NEW c \in Callers, NEW o \in Ops, op' = [op EXCEPT ![c] = o]
    PROVE  Moves(c) /\ op'[c] = o
  BY DEF CallersTyped, Moves

LEMMA GotoMoves ==
    ASSUME CallersTyped, NEW c \in Callers, NEW station \in Stations, Goto(c, station)
    PROVE  Moves(c) /\ op'[c].at = station
<1>1. [op[c] EXCEPT !.at = station] \in Ops /\ [op[c] EXCEPT !.at = station].at = station
  BY OpType DEF Ops
<1>2. op' = [op EXCEPT ![c] = [op[c] EXCEPT !.at = station]]
  BY DEF Goto
<1> QED
  BY <1>1, <1>2, MovesTo

LEMMA EndMoves ==
    ASSUME CallersTyped, NEW c \in Callers, CallFails(c) \/ CallPasses(c)
    PROVE  Moves(c)
<1>1. PICK next \in Failed(op[c]) \cup Passed(op[c]) : op' = [op EXCEPT ![c] = next]
  BY DEF CallFails, CallPasses
<1> QED
  BY <1>1, OpType, GoesOn, MovesTo

\* A call that is kept out does not reach the provider.
LEMMA KeptOutMoves ==
    ASSUME CallersTyped, NEW c \in Callers, KeptOut(c)
    PROVE  Moves(c) /\ op'[c].at \in {"enter", "out"}
<1>1. PICK next \in Failed(op[c]) :
         op' = [op EXCEPT ![c] = IF next = Idle THEN [Idle EXCEPT !.at = "out"] ELSE next]
  BY DEF KeptOut
<1>2. [Idle EXCEPT !.at = "out"] \in Ops /\ [Idle EXCEPT !.at = "out"].at = "out"
  <2>1. ASSUME NEW o \in Ops
        PROVE  [o EXCEPT !.at = "out"] \in Ops /\ [o EXCEPT !.at = "out"].at = "out"
    BY DEF Ops, Stations
  <2> QED
    BY <2>1, IdleType
<1>3. next \in Ops /\ (next # Idle => next.at = "enter")
  BY OpType, GoesOn, NextType DEF Failed
<1> QED
  BY <1>1, <1>2, <1>3, MovesTo

LEMMA EnterMoves ==
    ASSUME CallersTyped, NEW c \in Callers, Enter(c)
    PROVE  Moves(c) /\ (~CanExecute(breaker) => op'[c].at \in {"enter", "out"})
<1>1. CASE CanExecute(breaker)
  <2>1. PICK station \in {"session", "sent", "limit"} : Goto(c, station)
    BY <1>1 DEF Enter
  <2> QED
    BY <1>1, <2>1, GotoMoves DEF Stations
<1>2. CASE ~CanExecute(breaker)
  BY <1>2, KeptOutMoves DEF Enter
<1> QED
  BY <1>1, <1>2

LEMMA LimitMoves ==
    ASSUME CallersTyped, NEW c \in Callers, Limit(c)
    PROVE  Moves(c)
  BY GotoMoves, EndMoves DEF Limit, Stations

LEMMA HandshakeMoves ==
    ASSUME CallersTyped, NEW c \in Callers, EnsureSession(c) \/ Initialize(c) \/ Notify(c)
    PROVE  Moves(c)
<1>1. PICK station \in Stations : Goto(c, station)
  BY DEF EnsureSession, Initialize, Notify, Stations
<1> QED
  BY <1>1, GotoMoves

LEMMA VerdictType ==
    ASSUME CallersTyped, NEW answer \in Answers
    PROVE  Verdict(answer) \in Verdicts
<1>1. answer \in {"result", "unreachable", "http_error", "tool_error", "error_inside", "invalid_params",
                  "server_error", "not_json", "media_type", "no_such_api"}
  BY DEF CallersTyped, Answers, Outages, Replies, Garbled
<1> QED
  BY <1>1 DEF Verdict, Verdicts, Outages, Garbled, Readable, RpcErrorIsAvailability

LEMMA CallBecomes ==
    ASSUME CallersTyped, NEW c \in Callers,
           NEW at \in Stations, NEW header \in Sessions, NEW again \in BOOLEAN,
           NEW verdict \in Verdicts, NEW passed \in BOOLEAN,
           op' = [op EXCEPT ![c] = [op[c] EXCEPT !.at = at, !.header = header, !.again = again,
                                                !.verdict = verdict, !.passed = passed]]
    PROVE  Moves(c)
<1>1. [op[c] EXCEPT !.at = at, !.header = header, !.again = again, !.verdict = verdict,
                    !.passed = passed] \in Ops
  BY OpType DEF Ops
<1> QED
  BY <1>1, MovesTo

LEMMA CallMoves ==
    ASSUME CallersTyped, NEW c \in Callers,
           HandshakeFails(c) \/ Post(c) \/ Answer(c) \/ Rehandshake(c)
    PROVE  Moves(c)
<1>1. {"report", "sent", "session"} \subseteq Stations /\ "failure" \in Verdicts
      /\ "none" \in Sessions /\ session \in Sessions
  BY DEF Stations, Verdicts, Sessions, CallersTyped
<1>2. CASE HandshakeFails(c)
  <2>1. op' = [op EXCEPT ![c] = [op[c] EXCEPT !.at = "report", !.header = op[c].header,
                  !.again = op[c].again, !.verdict = "failure", !.passed = op[c].passed]]
    BY <1>2, OpType DEF HandshakeFails, Ops
  <2> QED
    BY <1>1, <2>1, OpType, CallBecomes
<1>3. CASE Post(c)
  <2>1. op' = [op EXCEPT ![c] = [op[c] EXCEPT !.at = "sent", !.header = session,
                  !.again = op[c].again, !.verdict = op[c].verdict, !.passed = op[c].passed]]
    BY <1>3, OpType DEF Post, Ops
  <2> QED
    BY <1>1, <2>1, OpType, CallBecomes
<1>4. CASE Answer(c)
  <2>1. PICK answer \in Answers :
           op' = [op EXCEPT ![c].at = "report", ![c].header = "none", ![c].verdict = Verdict(answer),
                            ![c].passed = answer = "result"]
    BY <1>4 DEF Answer
  <2>2. PICK passed \in BOOLEAN : passed = (answer = "result")
    OBVIOUS
  <2>3. op' = [op EXCEPT ![c] = [op[c] EXCEPT !.at = "report", !.header = "none",
                  !.again = op[c].again, !.verdict = Verdict(answer), !.passed = passed]]
    BY <2>1, <2>2, OpType DEF Ops
  <2> QED
    BY <1>1, <2>3, OpType, VerdictType, CallBecomes
<1>5. CASE Rehandshake(c) /\ op[c].again
  <2>1. op' = [op EXCEPT ![c] = [op[c] EXCEPT !.at = "session", !.header = "none",
                  !.again = FALSE, !.verdict = op[c].verdict, !.passed = op[c].passed]]
    BY <1>5, OpType DEF Rehandshake, Ops
  <2> QED
    BY <1>1, <2>1, OpType, CallBecomes
<1>6. CASE Rehandshake(c) /\ ~op[c].again
  <2>1. op' = [op EXCEPT ![c] = [op[c] EXCEPT !.at = "report", !.header = "none",
                  !.again = op[c].again, !.verdict = "failure", !.passed = op[c].passed]]
    BY <1>6, OpType DEF Rehandshake, Ops
  <2> QED
    BY <1>1, <2>1, OpType, CallBecomes
<1> QED
  BY <1>2, <1>3, <1>4, <1>5, <1>6

LEMMA StartBecomes ==
    ASSUME CallersTyped, NEW c \in Callers, NEW do \in {"write", "search", "call"}, NEW left \in 0..2,
           op' = [op EXCEPT ![c] = [op[c] EXCEPT !.at = "enter", !.do = do, !.left = left]]
    PROVE  Moves(c)
<1>1. [op[c] EXCEPT !.at = "enter", !.do = do, !.left = left] \in Ops
  BY OpType DEF Ops, Stations
<1> QED
  BY <1>1, MovesTo

LEMMA StartMoves ==
    ASSUME CallersTyped, NEW c \in Callers, Starts(c)
    PROVE  Moves(c)
<1>1. CASE StartWrite(c) /\ transport = "zep"
  <2>1. op' = [op EXCEPT ![c] = [op[c] EXCEPT !.at = "enter", !.do = "write", !.left = op[c].left]]
    BY <1>1, OpType DEF StartWrite, Ops
  <2> QED
    BY <2>1, OpType, StartBecomes
<1>2. CASE StartWrite(c) /\ transport # "zep"
  <2>1. op' = [op EXCEPT ![c] = [op[c] EXCEPT !.at = "enter", !.do = "call", !.left = 1]]
    BY <1>2, OpType DEF StartWrite, Ops
  <2>2. 1 \in 0..2 /\ "call" \in {"write", "search", "call"}
    OBVIOUS
  <2> QED
    BY <2>1, <2>2, StartBecomes
<1>3. CASE StartSearch(c)
  <2>1. PICK left \in 0..2 : left = IF transport = "zep" THEN 0 ELSE 2
    OBVIOUS
  <2>2. op' = [op EXCEPT ![c] = [op[c] EXCEPT !.at = "enter", !.do = "search", !.left = left]]
    BY <1>3, <2>1, OpType DEF StartSearch, Ops
  <2> QED
    BY <2>2, StartBecomes
<1>4. CASE StartCall(c)
  <2>1. op' = [op EXCEPT ![c] = [op[c] EXCEPT !.at = "enter", !.do = "call", !.left = op[c].left]]
    BY <1>4, OpType DEF StartCall, Ops
  <2> QED
    BY <2>1, OpType, StartBecomes
<1> QED
  BY <1>1, <1>2, <1>3, <1>4 DEF Starts

LEMMA WorkMoves ==
    ASSUME CallersTyped, NEW c \in Callers, Works(c)
    PROVE  Moves(c)
<1>1. CASE Report(c)
  BY <1>1, EndMoves DEF Report
<1> QED
  BY <1>1, EnterMoves, LimitMoves, HandshakeMoves, CallMoves DEF Works

\* The world and the clock change no caller's place but one that waits outside.
LEMMA WorldMoves ==
    ASSUME CallersTyped, Tick \/ (\E condition \in {"healthy", "erring", "down"}, restarted \in BOOLEAN :
                                     Change(condition, restarted))
    PROVE  /\ op' \in [Callers -> Ops]
           /\ \A c \in Callers : op[c].at = "enter" => op'[c].at = "enter"
<1>1. CASE Tick
  <2>1. op' = [c \in Callers |-> IF op[c].at = "out" THEN Idle ELSE op[c]]
    BY <1>1 DEF Tick
  <2>2. ASSUME NEW c \in Callers
        PROVE  op'[c] \in Ops /\ (op[c].at = "enter" => op'[c].at = "enter")
    BY <2>1, OpType, IdleType
  <2> QED
    BY <2>1, <2>2
<1>2. ASSUME NEW condition, NEW restarted, Change(condition, restarted)
      PROVE  /\ op' \in [Callers -> Ops]
             /\ \A c \in Callers : op[c].at = "enter" => op'[c].at = "enter"
  <2>1. CASE op' = op
    BY <2>1 DEF CallersTyped
  <2>2. CASE op' = [c \in Callers |-> [op[c] EXCEPT !.header = Forgotten(@)]]
    <3>1. ASSUME NEW c \in Callers
          PROVE  op'[c] \in Ops /\ op'[c].at = op[c].at
      <4>1. Forgotten(op[c].header) \in Sessions
        BY OpType DEF Forgotten, Sessions
      <4> QED
        BY <2>2, <4>1, OpType DEF Ops
    <3> QED
      BY <2>2, <3>1
  <2> QED
    BY <1>2, <2>1, <2>2 DEF Change
<1> QED
  BY <1>1, <1>2

LEMMA SurroundingsTyped ==
    ASSUME CallersTyped, TransportNext
    PROVE  /\ transport' \in {"mcp", "zep"} /\ provider' \in {"healthy", "erring", "down"}
           /\ session' \in Sessions
<1>1. ASSUME NEW c \in Callers, Works(c)
      PROVE  UNCHANGED <<transport, provider>> /\ session' \in {session, "live", "none"}
  BY <1>1 DEF Works, Enter, Limit, EnsureSession, Initialize, Notify, HandshakeFails, Post, Answer,
              Rehandshake, Report, worldVars, sessionVars
<1>2. ASSUME NEW c \in Callers, Starts(c)
      PROVE  UNCHANGED <<transport, provider, session>>
  BY <1>2 DEF Starts, StartWrite, StartSearch, StartCall, worldVars, sessionVars
<1>3. ASSUME NEW condition \in {"healthy", "erring", "down"}, NEW restarted \in BOOLEAN,
             Change(condition, restarted)
      PROVE  UNCHANGED transport /\ provider' = condition /\ session' \in {session, "stale"}
  BY <1>3 DEF Change, Forgotten
<1>4. CASE Tick
  BY <1>4 DEF Tick, worldVars, sessionVars, CallersTyped
<1> QED
  BY <1>1, <1>2, <1>3, <1>4 DEF TransportNext, CallersTyped, Sessions

LEMMA TransportStep ==
    ASSUME TransportInv, [TransportNext]_transportVars
    PROVE  TransportInv'
<1>1. CASE TransportNext
  <2>1. op' \in [Callers -> Ops]
    BY <1>1, WorkMoves, StartMoves, WorldMoves DEF TransportNext, Moves, TransportInv
  <2> QED
    BY <1>1, <2>1, CircuitNext, SurroundingsTyped DEF TransportInv, CallersTyped
<1>2. CASE UNCHANGED transportVars
  BY <1>2 DEF transportVars, TransportInv, CircuitInv, CallersTyped
<1> QED
  BY <1>1, <1>2

LEMMA TransportStarts == TransportInit => TransportInv
<1> SUFFICES ASSUME TransportInit PROVE TransportInv
  OBVIOUS
<1>1. CircuitInv
  BY BreakerAssumption DEF TransportInit, CircuitInv, Closed, Breakers
<1>2. CallersTyped
  BY CallersAssumption, IdleType DEF TransportInit, CallersTyped, Sessions
<1> QED
  BY <1>1, <1>2 DEF TransportInv

\* Circuit and callers keep their types, and the circuit its ages, however the
\* callers' steps interleave (circuit_breaker.py; transport.py _rpc).
THEOREM Guarded == TransportSpec => []TransportInv
<1>1. TransportInit => TransportInv
  BY TransportStarts
<1>2. TransportInv /\ [TransportNext]_transportVars => TransportInv'
  BY TransportStep
<1> QED
  BY <1>1, <1>2, PTL DEF TransportSpec

\* A call gets past a circuit that is not closed a whole window after the last
\* trouble, and no other step takes a caller that has yet to ask.
LEMMA AskedFirst ==
    ASSUME TransportInv, [TransportNext]_transportVars, NEW c \in Callers, op[c].at = "enter",
           op'[c].at \in {"session", "limit", "sent"}, breaker.state # "closed"
    PROVE  calm = Recovery
<1>1. Enter(c)
  <2>1. ASSUME NEW d \in Callers, Moves(d)
        PROVE  d = c
    BY <2>1 DEF Moves
  <2>2. TransportNext
    BY DEF transportVars
  <2>3. PICK d \in Callers : Works(d) \/ Starts(d)
    BY <2>2, WorldMoves DEF TransportNext, TransportInv
  <2>4. d = c
    BY <2>1, <2>3, WorkMoves, StartMoves DEF TransportInv
  <2> QED
    BY <2>3, <2>4 DEF Works, Starts, StartWrite, StartSearch, StartCall, Limit, EnsureSession, Initialize,
                      Notify, HandshakeFails, Post, Answer, Rehandshake, Report
<1>2. CanExecute(breaker)
  BY <1>1, EnterMoves DEF TransportInv
<1> QED
  BY <1>2, CircuitFacts DEF CanExecute, TransportInv, CircuitInv

\* A provider whose circuit is not closed is left alone for a whole recovery
\* window (circuit_breaker.py can_execute, record_failure).
THEOREM Spared == TransportSpec => SparesTheProvider
<1>1. TransportInv /\ [TransportNext]_transportVars =>
          [\A c \in Callers : op[c].at = "enter" /\ op'[c].at \in {"session", "limit", "sent"}
                                 /\ breaker.state # "closed" => calm = Recovery]_transportVars
  BY AskedFirst
<1> QED
  BY <1>1, Guarded, PTL DEF TransportSpec, SparesTheProvider
=============================================================================
