------------------------------- MODULE StoreReads -------------------------------
(***************************************************************************)
(* What the three record stores answer to their readers, over the          *)
(* databases of RecordStores.  SQLite keeps every instant as ISO text and  *)
(* compares text; PostgreSQL compares timestamps, the in-memory store      *)
(* datetimes.  A bounded answer is a window: any set that keeps the order  *)
(* of its query and leaves ties open, as the stores do.                    *)
(***************************************************************************)
EXTENDS RecordStores

CONSTANTS
    Classes,      \* memory classes
    ClassOf,      \* of a record; these never change
    RecordedAt, ValidFrom,
    ValidTo,      \* an instant or None
    Confidence,   \* of a record that is not redacted
    SqlWindow,    \* records a SQL search reads for each one asked for (20)
    MemWindow     \* the same in memory (10)

\* what they must be
ReadParameters ==
    /\ ClassOf \in [Ids -> Classes]
    /\ RecordedAt \in [Ids -> Times] /\ ValidFrom \in [Ids -> Times]
    /\ ValidTo \in [Ids -> Times \cup {None}] /\ None \notin Times
    /\ Confidence \in [Ids -> Nat]
    /\ SqlWindow \in Nat /\ MemWindow \in Nat /\ MemWindow <= SqlWindow
    /\ IsFiniteSet(Ids)

-----------------------------------------------------------------------------
(* datetime.isoformat of a UTC instant: the microseconds are left out when *)
(* they are zero, so "+00:00" or "." follows the seconds.  Either way the  *)
(* text up to the seconds has a fixed width.                               *)

Micro == 1000000   \* microseconds of a second
Plus == 43
Dot  == 46
TextOf(t) == [seconds |-> t \div Micro, then |-> IF t % Micro = 0 THEN Plus ELSE Dot,
              micros |-> t % Micro]

\* lexical order of two such texts; after "+" both go on alike
TextLeq(s, t) ==
    LET a == TextOf(s)
        b == TextOf(t)
    IN  \/ a.seconds < b.seconds
        \/ a.seconds = b.seconds /\ a.then < b.then
        \/ a.seconds = b.seconds /\ a.then = b.then /\ a.micros <= b.micros

-----------------------------------------------------------------------------
(* Windows: at most n of the hits, none of which is later (or earlier)     *)
(* than one kept.  n = None asks for all.                                  *)

Fits(W, hits, n) ==
    /\ W \subseteq hits
    /\ IF n = None THEN W = hits
       ELSE IF Cardinality(hits) <= n THEN W = hits ELSE Cardinality(W) = n

LiteNewest(hits, n) ==
    {W \in SUBSET hits : Fits(W, hits, n) /\
        \A w \in W, x \in hits \ W : TextLeq(RecordedAt[x], RecordedAt[w])}
LiteOldest(hits, n) ==
    {W \in SUBSET hits : Fits(W, hits, n) /\
        \A w \in W, x \in hits \ W : TextLeq(RecordedAt[w], RecordedAt[x])}
Newest(hits, n) ==
    {W \in SUBSET hits : Fits(W, hits, n) /\
        \A w \in W, x \in hits \ W : RecordedAt[x] <= RecordedAt[w]}
Oldest(hits, n) ==
    {W \in SUBSET hits : Fits(W, hits, n) /\
        \A w \in W, x \in hits \ W : RecordedAt[w] <= RecordedAt[x]}

-----------------------------------------------------------------------------
(* search_records.  q holds the request: spaces, classes (none asks for    *)
(* all), confidence, validAt, recordedBefore or None, the flags superseded *)
(* and archived, and limit.                                                *)

Searched(q) == {"ACTIVE"} \cup (IF q.superseded THEN {"SUPERSEDED"} ELSE {})
                          \cup (IF q.archived THEN {"ARCHIVED"} ELSE {})
RecordedBy(q) == IF q.recordedBefore = None THEN q.validAt ELSE q.recordedBefore
ScoreOf(rows, r) == IF rows[r].redacted THEN 0 ELSE Confidence[r]

LiteSearchHits(d, q) ==
    {r \in DOMAIN d.records :
        /\ d.records[r].space \in q.spaces /\ d.records[r].state \in Searched(q)
        /\ ScoreOf(d.records, r) >= q.confidence
        /\ TextLeq(ValidFrom[r], q.validAt)
        /\ ValidTo[r] # None => ~TextLeq(ValidTo[r], q.validAt)
        /\ TextLeq(RecordedAt[r], RecordedBy(q))
        /\ q.classes # {} => ClassOf[r] \in q.classes}
LiteSearch(d, q) ==
    IF q.spaces = {} THEN {{}} ELSE LiteNewest(LiteSearchHits(d, q), SqlWindow * q.limit)

PgSearchHits(d, q) ==
    {r \in DOMAIN d.records :
        /\ d.records[r].space \in q.spaces /\ d.records[r].state \in Searched(q)
        /\ ScoreOf(d.records, r) >= q.confidence
        /\ ValidFrom[r] <= q.validAt
        /\ ValidTo[r] # None => ValidTo[r] > q.validAt
        /\ RecordedAt[r] <= RecordedBy(q)
        /\ q.classes # {} => ClassOf[r] \in q.classes}
PgSearch(d, q) ==
    IF q.spaces = {} THEN {{}} ELSE Newest(PgSearchHits(d, q), SqlWindow * q.limit)

\* TemporalCoordinates.is_valid_at
ValidAt(r, t) == ValidFrom[r] <= t /\ (ValidTo[r] # None => t < ValidTo[r])
MemSearchHits(m, q) ==
    {r \in DOMAIN m.records :
        /\ m.records[r].space \in q.spaces /\ m.records[r].state \in Searched(q)
        /\ ScoreOf(m.records, r) >= q.confidence
        /\ q.classes # {} => ClassOf[r] \in q.classes
        /\ ValidAt(r, q.validAt)
        /\ RecordedAt[r] <= RecordedBy(q)}
MemSearch(m, q) == Newest(MemSearchHits(m, q), MemWindow * q.limit)

-----------------------------------------------------------------------------
(* list_records, list_expired, list_unprojected_records                    *)

Listed(rows, space, states) ==
    {r \in DOMAIN rows : rows[r].space = space /\ (states # {} => rows[r].state \in states)}
LiteList(d, space, states, n) == LiteNewest(Listed(d.records, space, states), n)
PgList(d, space, states, n)   == Newest(Listed(d.records, space, states), n)
MemList(m, space, states, n)  == Newest(Listed(m.records, space, states), n)

LiteExpired(d, space, before) ==
    {r \in Active(d.records, space) : ValidTo[r] # None /\ TextLeq(ValidTo[r], before)}
PgExpired(d, space, before) ==
    {r \in Active(d.records, space) : ValidTo[r] # None /\ ValidTo[r] <= before}
MemExpired(m, space, before) ==
    {r \in Active(m.records, space) : ValidTo[r] # None /\ ValidTo[r] <= before}

\* LEFT JOIN of the target's links, keeping records without one
Lacking(d, space, target) == {r \in Active(d.records, space) : <<r, target>> \notin DOMAIN d.links}
LiteUnprojected(d, space, target, n) == LiteOldest(Lacking(d, space, target), n)
PgUnprojected(d, space, target, n)   == Oldest(Lacking(d, space, target), n)
MemUnprojected(m, space, target, n)  == Oldest(Lacking(m, space, target), n)

-----------------------------------------------------------------------------
(* find_by_idempotency and get_record                                      *)

LiteByKey(d, space, key) == {r \in DOMAIN d.records : d.records[r].space = space /\ d.records[r].key = key}
PgByKey(d, space, key)   == {r \in DOMAIN d.records : d.records[r].space = space /\ d.records[r].key = key}
MemByKey(m, space, key)  == {m.index[x] : x \in DOMAIN m.index \cap {<<space, key>>}}

LiteGet(d, r) == At(d.records, r)
PgGet(d, r)   == At(d.records, r)
MemGet(m, r)  == At(m.records, r)

-----------------------------------------------------------------------------
(* Source selectors, invalidations and the obligations they leave          *)

LiteMatches(d, spaces, term) ==
    {r \in DOMAIN d.records : /\ At(d.terms, <<r, term>>) = "active"
                              /\ d.records[r].space \in spaces /\ d.records[r].state = "ACTIVE"}
PgMatches(d, spaces, term) ==
    {r \in DOMAIN d.records : /\ At(d.terms, <<r, term>>) = "active"
                              /\ d.records[r].space \in spaces /\ d.records[r].state = "ACTIVE"}
\* from the selectors to their records; a selector may outlive what it names
MemMatches(m, spaces, term) ==
    {x[1] : x \in {y \in DOMAIN m.terms : /\ m.terms[y] = "active" /\ y[2] = term
                                          /\ y[1] \in DOMAIN m.records
                                          /\ m.records[y[1]].space \in spaces
                                          /\ m.records[y[1]].state = "ACTIVE"}}

LiteTermsOf(d, r) == {<<x[2], d.terms[x]>> : x \in {y \in DOMAIN d.terms : y[1] = r}}
PgTermsOf(d, r)   == {<<x[2], d.terms[x]>> : x \in {y \in DOMAIN d.terms : y[1] = r}}
MemTermsOf(m, r)  == {<<x[2], m.terms[x]>> : x \in {y \in DOMAIN m.terms : y[1] = r}}

LiteInvalidated(d, event) == event \in d.invalidations
PgInvalidated(d, event)   == event \in d.invalidations
MemInvalidated(m, event)  == event \in m.invalidations

LiteOwedBy(d, r) == {x[1] : x \in {y \in d.owed : y[2] = r}}
PgOwedBy(d, r)   == {x[1] : x \in {y \in d.owed : y[2] = r}}
MemOwedBy(m, r)  == {x[1] : x \in {y \in m.owed : y[2] = r}}

-----------------------------------------------------------------------------
(* Links, the outbox and the identities still owed work.  The SQL stores   *)
(* read the links first and the outbox in a statement of its own: d and    *)
(* later are the databases the two statements meet.                        *)

LiteLinkOf(d, at) == At(d.links, at)
PgLinkOf(d, at)   == At(d.links, at)
MemLinkOf(m, at)  == At(m.links, at)

LiteLinksOf(d, r) == {<<x[2], d.links[x]>> : x \in {y \in DOMAIN d.links : y[1] = r}}
PgLinksOf(d, r)   == {<<x[2], d.links[x]>> : x \in {y \in DOMAIN d.links : y[1] = r}}
MemLinksOf(m, r)  == {<<x[2], m.links[x]>> : x \in {y \in DOMAIN m.links : y[1] = r}}

Open(d)         == {e \in DOMAIN d.outbox : d.outbox[e].open}
LiteBacklog(d)  == Cardinality(Open(d))
PgBacklog(d)    == Cardinality(Open(d))
MemBacklog(m)   == Cardinality(Open(m))

LiteIdentities(d, later) == {x[2] : x \in DOMAIN d.links} \cup {later.outbox[e].target : e \in Open(later)}
PgIdentities(d, later)   == {x[2] : x \in DOMAIN d.links} \cup {later.outbox[e].target : e \in Open(later)}
MemIdentities(m)         == {x[2] : x \in DOMAIN m.links} \cup {m.outbox[e].target : e \in Open(m)}

LiteLockOf(d, slot) == At(d.locks, slot)
PgLockOf(d, slot)   == At(d.locks, slot)
MemLockOf(m, slot)  == At(m.locks, slot)

-----------------------------------------------------------------------------
(* Maintenance: the watermark and the digests already applied              *)

AppliedRuns(d, space) == {k \in DOMAIN d.runs : d.runs[k].space = space /\ d.runs[k].applied}
\* MAX of a text column
LiteWatermark(d, space) ==
    {t \in {d.runs[k].watermark : k \in AppliedRuns(d, space)} :
        \A k \in AppliedRuns(d, space) : TextLeq(d.runs[k].watermark, t)}
PgWatermark(d, space) ==
    {t \in {d.runs[k].watermark : k \in AppliedRuns(d, space)} :
        \A k \in AppliedRuns(d, space) : d.runs[k].watermark <= t}
MemWatermark(m, space) ==
    {t \in {m.runs[k].watermark : k \in AppliedRuns(m, space)} :
        \A k \in AppliedRuns(m, space) : m.runs[k].watermark <= t}

LiteDigests(d, space) == {x[2] : x \in {y \in d.actions : y[1] = space}}
PgDigests(d, space)   == {x[2] : x \in {y \in d.actions : y[1] = space}}
MemDigests(m, space)  ==
    UNION {AppliedDigests(m.runs[k]) : k \in {j \in DOMAIN m.runs : m.runs[j].space = space}}

-----------------------------------------------------------------------------
(* Cutovers and releases of a namespace, oldest first: the SQL stores sort *)
(* by created_at, the in-memory store keeps the order of the commits.  An  *)
(* answer is the set of its pairs <<earlier, later>>.                      *)

Marked(d, kind, space) ==
    {k \in DOMAIN d.marks : d.marks[k].kind = kind /\ d.marks[k].space = space}
LiteOrder(d, marked) == {p \in marked \X marked : TextLeq(d.marks[p[1]].at, d.marks[p[2]].at)}
PgOrder(d, marked)   == {p \in marked \X marked : d.marks[p[1]].at <= d.marks[p[2]].at}

LiteCutovers(d, space) == LiteOrder(d, Marked(d, "graph_cutover", space))
PgCutovers(d, space)   == PgOrder(d, Marked(d, "graph_cutover", space))
LiteReleases(d, space) == LiteOrder(d, Marked(d, "legacy_release", space))
PgReleases(d, space)   == PgOrder(d, Marked(d, "legacy_release", space))

Places(m, kind, space) ==
    {i \in 1..Len(m.marks) : m.marks[i].mark.kind = kind /\ m.marks[i].mark.space = space}
MemOrder(m, places) ==
    {<<m.marks[p[1]].by, m.marks[p[2]].by>> : p \in {q \in places \X places : q[1] <= q[2]}}
MemCutovers(m, space) == MemOrder(m, Places(m, "graph_cutover", space))
MemReleases(m, space) == MemOrder(m, Places(m, "legacy_release", space))

-----------------------------------------------------------------------------
(* stats: SQL counts every receipt, the in-memory store four kinds of them *)

CountBy(d, s) == Cardinality({r \in DOMAIN d.records : d.records[r].state = s})
LiteStats(d) == [records |-> Cardinality(DOMAIN d.records),
                 receipts |-> Cardinality(DOMAIN d.receipts) + Cardinality(DOMAIN d.marks),
                 backlog |-> LiteBacklog(d), states |-> [s \in States |-> CountBy(d, s)]]
PgStats(d)   == [records |-> Cardinality(DOMAIN d.records),
                 receipts |-> Cardinality(DOMAIN d.receipts) + Cardinality(DOMAIN d.marks),
                 backlog |-> PgBacklog(d), states |-> [s \in States |-> CountBy(d, s)]]
MemStats(m)  == [records |-> Cardinality(DOMAIN m.records),
                 receipts |-> Cardinality({k \in DOMAIN m.receipts :
                     m.receipts[k] \in {"write", "archive", "lifecycle", "conflict_link"}}),
                 backlog |-> MemBacklog(m), states |-> [s \in States |-> CountBy(m, s)]]
================================================================================
