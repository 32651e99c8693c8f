------------------------- MODULE SourceInvalidation -------------------------
(***************************************************************************)
(* Generated-data memory and the source changes that invalidate it:        *)
(* GeneratedDataService.ingest_governed_candidate (a keyed write that may  *)
(* supersede), MemoryService.invalidate_by_source, and the stores' selector*)
(* rows and source_invalidation_events.                                    *)
(*                                                                         *)
(* An invalidation reads for as long as it likes: the established event,   *)
(* one query per selector, then every matched record again; it commits in  *)
(* one transaction that compares the previous state of each record.        *)
(* Ingestion, governance, deletion, other requests and changed grants come *)
(* in between.  A sender repeats a request until it is told "applied".     *)
(*                                                                         *)
(* A selector is the source it names (repository, type and value are       *)
(* compared together).  Lifecycle receipts, retirement intents and         *)
(* revalidation requirements are inserted with the event and never change, *)
(* so the event's record set stands for them.                              *)
(***************************************************************************)
EXTENDS Naturals, FiniteSets

CONSTANTS
    Candidates,  \* governed candidates; each becomes at most one record
    Elder,       \* those an earlier schema may have stored already
    Home,        \* Home[c]: the namespace its record belongs to
    Watches,     \* Watches[c]: the sources its invalidation conditions name
    Replaces,    \* Replaces[c]: the records it asks to supersede
    Requests,    \* source invalidation requests in circulation
    Worlds,      \* what may come together: the candidates that are proposed, and
                 \* for every request its operation identity and the sources of
                 \* its body
    MaxMoves,    \* bound: lifecycle changes, deletions and changes of grants
    MaxLosses    \* bound: requests or answers that are lost

ASSUME MaxMovesAssumption == MaxMoves \in Nat
ASSUME MaxLossesAssumption == MaxLosses \in Nat
ASSUME ElderAssumption == \A w \in Worlds : Elder \subseteq w.proposed /\ w.proposed \subseteq Candidates
ASSUME ReplacesAssumption == Replaces \in [Candidates -> SUBSET Candidates]
ASSUME SelectorsAssumption == \A w \in Worlds : \A q \in Requests : w.sources[q] # {}

VARIABLES
    world,      \* the member of Worlds this behaviour is about
    state,      \* state[c]: lifecycle state of c's record, "NONE" if not stored
    selectors,  \* selectors[c]: "none", "live" or "off" (rows of one record change together)
    applied,    \* applied[e]: the stored event of operation e
    granted,    \* namespaces in which senders hold READ and MAINTAIN
    ingest,     \* ingest[c]: what the write of c has planned
    request,    \* request[q]: how far the serving of q has come
    standing,   \* standing[q]: records q's change concerns, ACTIVE ever since q arrived
    moves,      \* lifecycle changes and changed grants so far
    losses      \* losses so far

vars == <<world, state, selectors, applied, granted, ingest, request, standing, moves, losses>>

Namespaces == {Home[c] : c \in Candidates}
EventOf(q)   == world.event[q]
SourcesOf(q) == world.sources[q]
Events     == {EventOf(q) : q \in Requests}
Stored     == {"ACTIVE", "QUARANTINED", "SUPERSEDED", "ARCHIVED", "DELETION_PENDING"}

\* _SUPERSEDABLE_STATES
Supersedable == {"ACTIVE", "SUPERSEDED", "ARCHIVED"}

\* _LIFECYCLE_TRANSITIONS, as the states each target state may be reached from
MovableTo(new) ==
    CASE new = "SUPERSEDED" -> {"ACTIVE"}
      [] new = "ARCHIVED"   -> {"ACTIVE", "SUPERSEDED"}
      [] new = "ACTIVE"     -> {"SUPERSEDED", "ARCHIVED", "QUARANTINED"}

\* No event stored yet: a stored one has a body, which names a source.
NoEvent == [digest |-> {}, records |-> {}, namespaces |-> {}]
IsApplied(e) == applied[e] # NoEvent

NoPlan  == [verdict |-> "none", previous |-> <<>>]
Waiting == [pc |-> "idle", grants |-> {}, todo |-> {}, found |-> {}, previous |-> <<>>, answer |-> "none"]

\* Schema 9 derives selectors for the records of older schemas: live for the
\* ACTIVE ones, and off for the others.
BackfilledSelectors(c, s) ==
    IF s = "NONE" \/ Watches[c] = {} THEN "none" ELSE IF s = "ACTIVE" THEN "live" ELSE "off"

Init ==
    /\ world \in Worlds
    /\ state \in [Candidates -> {"NONE", "ACTIVE", "QUARANTINED", "SUPERSEDED", "ARCHIVED"}]
    /\ \A c \in Candidates \ Elder : state[c] = "NONE"
    /\ selectors = [c \in Candidates |-> BackfilledSelectors(c, state[c])]
    /\ applied = [e \in Events |-> NoEvent]
    /\ granted \in (SUBSET Namespaces) \ {{}}  \* bound: some grant at least
    /\ ingest = [c \in Candidates |-> NoPlan]
    /\ request = [q \in Requests |-> Waiting]
    /\ standing = [q \in Requests |-> {}]
    /\ moves = 0
    /\ losses = 0

---------------------------------------------------------------------------
\* Ingestion of a governed candidate.

States(S) == [c \in S |-> state[c]]

\* Admission's verdict, and the previous states the write relies on.  A known
\* candidate is a duplicate; a supersession that is refused rejects it.
PlanIngest(c, verdict) ==
    /\ c \in world.proposed
    /\ ingest[c] = NoPlan
    /\ state[c] = "NONE"
    /\ verdict = "ACTIVE" => \A r \in Replaces[c] : state[r] \in Supersedable
    /\ ingest' = [ingest EXCEPT ![c] =
          [verdict |-> verdict, previous |-> States(IF verdict = "ACTIVE" THEN Replaces[c] ELSE {})]]
    /\ UNCHANGED <<state, selectors, applied, granted, request, moves, losses>>

\* commit_write: the record, its selectors and what it supersedes, or nothing.
CommitIngest(c) ==
    LET previous == ingest[c].previous IN
    /\ ingest[c] # NoPlan
    /\ ingest' = [ingest EXCEPT ![c] = NoPlan]
    /\ IF previous = States(DOMAIN previous)
       THEN /\ state' = [r \in Candidates |->
                  IF r = c THEN ingest[c].verdict
                  ELSE IF r \in DOMAIN previous THEN "SUPERSEDED" ELSE state[r]]
            /\ selectors' = [selectors EXCEPT ![c] = IF Watches[c] = {} THEN "none" ELSE "live"]
       ELSE UNCHANGED <<state, selectors>>
    /\ UNCHANGED <<applied, granted, request, moves, losses>>

---------------------------------------------------------------------------
\* Source invalidation.

\* Mutation: rows are matched whatever became of their record.
MatchesAnyState(s) == {c \in Candidates : selectors[c] = "live" /\ s \in Watches[c]}

\* find_source_selector_matches, for one selector.
Matches(s) == {c \in Candidates : state[c] = "ACTIVE" /\ selectors[c] = "live" /\ s \in Watches[c]}

\* _replayed_invalidation: the established result, for those it may be shown to.
Replayed(q, grants) ==
    LET e == applied[EventOf(q)] IN
    IF e.digest # SourcesOf(q) THEN "conflict"
    ELSE IF e.namespaces \subseteq grants THEN "applied" ELSE "denied"

Answered(q, answer) == [request EXCEPT ![q] = [Waiting EXCEPT !.answer = answer]]

\* A request arrives, with the grants its principal has now.
Arrive(q) ==
    /\ request[q].pc = "idle"
    /\ request' = IF IsApplied(EventOf(q)) THEN Answered(q, Replayed(q, granted))
                  ELSE [request EXCEPT ![q] =
                          [Waiting EXCEPT !.pc = "matching", !.grants = granted, !.todo = SourcesOf(q)]]
    /\ UNCHANGED <<state, selectors, applied, granted, ingest, moves, losses>>

\* Mutation: each query's result replaces the one before.
MatchLast(q) ==
    /\ request[q].todo # {}
    /\ LET s == CHOOSE x \in request[q].todo : TRUE IN
        /\ request' = [request EXCEPT ![q].todo = @ \ {s}, ![q].found = Matches(s)]
        /\ UNCHANGED <<state, selectors, applied, granted, ingest, moves, losses>>

\* One query per selector, in the order of the request.
Match(q) ==
    /\ request[q].todo # {}
    /\ LET s == CHOOSE x \in request[q].todo : TRUE IN
        /\ request' = [request EXCEPT ![q].todo = @ \ {s}, ![q].found = @ \cup Matches(s)]
        /\ UNCHANGED <<state, selectors, applied, granted, ingest, moves, losses>>

\* Every namespace of a matched record needs the grants; one denial rejects all.
Authorize(q) ==
    /\ request[q].pc = "matching" /\ request[q].todo = {}
    /\ request' = IF {Home[c] : c \in request[q].found} \subseteq request[q].grants
                  THEN [request EXCEPT ![q].pc = "planning"]
                  ELSE Answered(q, "denied")
    /\ UNCHANGED <<state, selectors, applied, granted, ingest, moves, losses>>

\* _plan_lifecycle_transition reads each record again; one that may not be
\* archived from the state it has by now rejects the whole operation.
PlanRecord(q) ==
    /\ request[q].pc = "planning"
    /\ ~(request[q].found \subseteq DOMAIN request[q].previous)
    /\ LET x == CHOOSE r \in request[q].found \ DOMAIN request[q].previous : TRUE IN
        request' = IF state[x] \in MovableTo("ARCHIVED")
                   THEN [request EXCEPT ![q].previous =
                           [r \in DOMAIN @ \cup {x} |-> IF r = x THEN state[x] ELSE @[r]]]
                   ELSE Answered(q, "stale")
    /\ UNCHANGED <<state, selectors, applied, granted, ingest, moves, losses>>

\* commit_source_invalidation.  An event committed meanwhile is the authority ...
Planned(q) == request[q].pc = "planning" /\ request[q].found = DOMAIN request[q].previous

CommitTaken(q) ==
    /\ Planned(q) /\ IsApplied(EventOf(q))
    /\ request' = Answered(q, Replayed(q, request[q].grants))
    /\ UNCHANGED <<state, selectors, applied, granted, ingest, moves, losses>>

\* ... a record that moved meanwhile rolls everything back ...
Moved(q) == request[q].previous # States(DOMAIN request[q].previous)

CommitStale(q) ==
    /\ Planned(q) /\ ~IsApplied(EventOf(q)) /\ Moved(q)
    /\ request' = Answered(q, "stale")
    /\ UNCHANGED <<state, selectors, applied, granted, ingest, moves, losses>>

\* ... or else the event, the transitions and the selectors commit together.
EventFor(q) ==
    [digest |-> SourcesOf(q), records |-> request[q].found,
     namespaces |-> {Home[c] : c \in request[q].found}]

CommitWhole(q) ==
    LET found == request[q].found IN
    /\ Planned(q) /\ ~IsApplied(EventOf(q)) /\ ~Moved(q)
    /\ applied' = [applied EXCEPT ![EventOf(q)] = EventFor(q)]
    /\ state' = [c \in Candidates |-> IF c \in found THEN "ARCHIVED" ELSE state[c]]
    /\ selectors' = [c \in Candidates |-> IF c \in found THEN "off" ELSE selectors[c]]
    /\ request' = Answered(q, "applied")
    /\ UNCHANGED <<granted, ingest, moves, losses>>

---------------------------------------------------------------------------
\* The rest of the system.

\* transition_lifecycle, whose own plan commits or goes stale.
Govern(c, new) ==
    /\ moves < MaxMoves
    /\ state[c] \in MovableTo(new)
    /\ state' = [state EXCEPT ![c] = new]
    /\ moves' = moves + 1
    /\ UNCHANGED <<selectors, applied, granted, ingest, request, losses>>

\* commit_deletion: the tombstone takes the selectors along.
Delete(c) ==
    /\ moves < MaxMoves
    /\ state[c] \in Stored \ {"DELETION_PENDING"}
    /\ state' = [state EXCEPT ![c] = "DELETION_PENDING"]
    /\ selectors' = [selectors EXCEPT ![c] = "none"]
    /\ moves' = moves + 1
    /\ UNCHANGED <<applied, granted, ingest, request, losses>>

Regrant ==
    /\ moves < MaxMoves
    /\ granted' \in (SUBSET Namespaces) \ {{}, granted}
    /\ moves' = moves + 1
    /\ UNCHANGED <<state, selectors, applied, ingest, request, losses>>

\* The server dies while serving, or the answer does not reach the sender.
Lose(q) ==
    /\ losses < MaxLosses
    /\ request[q].answer # "none" \/ request[q].pc # "idle"
    /\ request' = Answered(q, "none")
    /\ losses' = losses + 1
    /\ UNCHANGED <<state, selectors, applied, granted, ingest, moves>>

\* GeneratedDataService.record_reuse writes a META record about a record it reads,
\* and search_context only reads: neither changes anything modelled here.

\* Bookkeeping for the properties: what names a source of q's body and has been
\* ACTIVE ever since q arrived.
Current(q, now) == {c \in Candidates : now[c] = "ACTIVE" /\ Watches[c] \cap SourcesOf(q) # {}}
Keep(q) ==
    IF request'[q].pc = "idle" THEN {}
    ELSE IF request[q].pc = "idle" THEN Current(q, state')
    ELSE standing[q] \cap Current(q, state')

Serve(q) == Match(q) \/ Authorize(q) \/ PlanRecord(q) \/ CommitTaken(q) \/ CommitStale(q) \/ CommitWhole(q)

Step ==
    \/ \E c \in Candidates : \E v \in {"ACTIVE", "QUARANTINED"} : PlanIngest(c, v)
    \/ \E c \in Candidates : CommitIngest(c)
    \/ \E q \in Requests : Arrive(q) \/ Serve(q) \/ Lose(q)
    \/ \E c \in Candidates, new \in {"SUPERSEDED", "ARCHIVED", "ACTIVE"} : Govern(c, new)
    \/ \E c \in Candidates : Delete(c)
    \/ Regrant

Served == standing' = [q \in Requests |-> Keep(q)] /\ UNCHANGED world

Next == Step /\ Served

\* A sender asks again until it is told "applied" or that its identity is taken,
\* and a request that is being served goes on.
Unanswered(q) == request[q].answer \notin {"applied", "conflict"}
Resend(q) == Unanswered(q) /\ Arrive(q) /\ Served
Proceed(q) == Serve(q) /\ Served

Fairness == \A q \in Requests : WF_vars(Resend(q)) /\ WF_vars(Proceed(q))
Spec == Init /\ [][Next]_vars /\ Fairness

---------------------------------------------------------------------------

\* An operation happens once and as a whole (memory_service.py, "commits in one
\* store transaction or not at all"): the step that stores its event archives
\* exactly the event's records, among them everything that matched the body ever
\* since the request arrived (a live selector of such a record was live before),
\* in whatever order ingestion, governance, deletion and other requests came in
\* between; and no later step, a replay included, changes the event.
InvalidationIsExact ==
    [][\A e \in Events : applied'[e] # applied[e] =>
        /\ ~IsApplied(e)
        /\ {c \in Candidates : state'[c] # state[c]} \subseteq applied'[e].records
        /\ \A c \in applied'[e].records : state'[c] = "ARCHIVED" /\ selectors'[c] = "off"
        /\ \E q \in Requests :
            /\ EventOf(q) = e /\ request[q].pc = "planning"
            /\ {c \in standing[q] : selectors[c] = "live"} \subseteq applied'[e].records
            /\ applied'[e].digest = SourcesOf(q)]_vars

\* A source change that its sender keeps sending is applied in the end, once the
\* sender holds the grants, unless its identity was used for another body: stale
\* plans, lost answers and concurrent requests only delay it.
ChangeTakesEffect ==
    <>[](granted = Namespaces) =>
        \A q \in Requests : <>[](request[q].answer \in {"applied", "conflict"})

\* ADR-095, Consequences: "Generated-data memory leaves ordinary retrieval when
\* its source changes".  Every record whose source changed and that was ACTIVE all
\* the while the request was served is archived when the change is applied.
ChangedSourceLeavesRetrieval ==
    [][\A e \in Events : applied'[e] # applied[e] =>
        \E q \in Requests :
            EventOf(q) = e /\ request[q].pc = "planning" /\ standing[q] \subseteq applied'[e].records]_vars
=============================================================================
