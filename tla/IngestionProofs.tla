--------------------------- MODULE IngestionProofs --------------------------
(***************************************************************************)
(* Proofs about the two ways memory is fed from sources: SourceInvalidation*)
(* (candidates and the changes that invalidate them), then ReplayedWrites  *)
(* (planned publications and the write queue).                             *)
(***************************************************************************)
EXTENDS SourceInvalidation, ReplayedWrites, TLAPS, FiniteSetTheorems, WellFoundedInduction

---------------------------------------------------------------------------
(***************************************************************************)
(* Proofs about SourceInvalidation, for any candidates, requests, bodies,  *)
(* operation identities, grants and losses.                                *)
(*                                                                         *)
(* InvalidationIsExact speaks of the step that commits, and of what stood  *)
(* since the request arrived.  IInv keeps account of the queries: whatever *)
(* the change concerns, has been ACTIVE all the while and still has a live *)
(* selector was found, or the query that will find it is still to come     *)
(* (Tracked).  A candidate whose write is planned is not stored (Unborn),  *)
(* so no selector of a standing record turns live.                         *)
(***************************************************************************)
AllStates == Stored \cup {"NONE"}
PlansOf(S)  == UNION {[R -> S] : R \in SUBSET Candidates}
Sources   == UNION {w.sources[q] : w \in Worlds, q \in Requests}

RequestTypes ==
    [pc : {"idle", "matching", "planning"}, grants : SUBSET Namespaces,
     todo : SUBSET Sources, found : SUBSET Candidates,
     previous : PlansOf(MovableTo("ARCHIVED")),
     answer : {"none", "applied", "conflict", "denied", "stale"}]
IngestTypes == {NoPlan} \cup [verdict : {"ACTIVE", "QUARANTINED"}, previous : PlansOf(Supersedable)]

TypeButStanding ==
    /\ world \in Worlds
    /\ state \in [Candidates -> AllStates]
    /\ selectors \in [Candidates -> {"none", "live", "off"}]
    /\ DOMAIN applied = Events
    /\ granted \in SUBSET Namespaces
    /\ ingest \in [Candidates -> IngestTypes]
    /\ request \in [Requests -> RequestTypes]
    /\ moves \in Nat
    /\ losses \in Nat

\* Every variable holds a value of the kind the code keeps there: a plan, be it of
\* a supersession or of an invalidation, holds only states it may start from.
TypeOK == TypeButStanding /\ standing \in [Requests -> SUBSET Candidates]

Unborn == \A c \in Candidates : ingest[c] # NoPlan => state[c] = "NONE"

Tracked(q) ==
    /\ request[q].pc = "planning" => request[q].todo = {}
    /\ request[q].pc # "idle" =>
          \A c \in standing[q] :
             /\ state[c] = "ACTIVE"
             /\ selectors[c] = "live" =>
                   c \in request[q].found \/ Watches[c] \cap request[q].todo # {}

IInv == TypeOK /\ Unborn /\ \A q \in Requests : Tracked(q)

---------------------------------------------------------------------------
\* How a step may treat request q: end it, take it in, or go on with it and lose
\* nothing it has to find.
GoesOn(q) ==
    \/ request'[q].pc = "idle"
    \/ request[q].pc = "idle" /\ request'[q].pc = "matching" /\ request'[q].todo = SourcesOf(q)
    \/ /\ request[q].pc # "idle"
       /\ request'[q].pc = "planning" => request'[q].todo = {}
       /\ \A c \in Candidates :
             /\ state[c] = "ACTIVE" /\ selectors[c] = "live"
             /\ c \in request[q].found \/ Watches[c] \cap request[q].todo # {}
             => c \in request'[q].found \/ Watches[c] \cap request'[q].todo # {}

\* The account is kept by every step that does so.
LEMMA ServedInv ==
    ASSUME IInv, Served, TypeButStanding', Unborn',
           \A c \in Candidates : state[c] = "ACTIVE" /\ selectors'[c] = "live" => selectors[c] = "live",
           \A q \in Requests : GoesOn(q)
    PROVE  IInv'
<1>1. \A q \in Requests : standing'[q] = Keep(q)
  BY DEF Served
<1>2. \A q \in Requests : Keep(q) \in SUBSET Candidates
  BY DEF Keep, Current
<1>3. standing' \in [Requests -> SUBSET Candidates]
  BY <1>1, <1>2 DEF Served
<1>4. TypeOK'
  BY <1>3 DEF TypeOK
<1>5. ASSUME NEW q \in Requests PROVE Tracked(q)'
  <2>1. CASE request'[q].pc = "idle"
    BY <2>1 DEF Tracked
  <2>2. CASE /\ request[q].pc = "idle" /\ request'[q].pc = "matching"
             /\ request'[q].todo = SourcesOf(q)
    <3>1. standing'[q] = Current(q, state')
      BY <1>1, <2>2 DEF Keep
    <3> QED
      BY <2>2, <3>1 DEF Tracked, Current
  <2>3. CASE /\ request[q].pc # "idle" /\ request'[q].pc # "idle"
             /\ request'[q].pc = "planning" => request'[q].todo = {}
             /\ \A c \in Candidates :
                   /\ state[c] = "ACTIVE" /\ selectors[c] = "live"
                   /\ c \in request[q].found \/ Watches[c] \cap request[q].todo # {}
                   => c \in request'[q].found \/ Watches[c] \cap request'[q].todo # {}
    <3>1. standing'[q] = standing[q] \cap Current(q, state')
      BY <1>1, <2>3 DEF Keep
    <3>2. \A c \in standing'[q] : c \in Candidates /\ c \in standing[q] /\ state'[c] = "ACTIVE"
      BY <3>1 DEF Current
    <3>3. \A c \in standing[q] :
             /\ state[c] = "ACTIVE"
             /\ selectors[c] = "live" =>
                   c \in request[q].found \/ Watches[c] \cap request[q].todo # {}
      BY <2>3 DEF IInv, Tracked
    <3> QED
      BY <2>3, <3>2, <3>3 DEF Tracked
  <2> QED
    BY <2>1, <2>2, <2>3 DEF GoesOn
<1> QED
  BY <1>4, <1>5 DEF IInv

\* A request that is left alone goes on.
LEMMA LeftAlone ==
    ASSUME IInv, NEW q \in Requests, request'[q] = request[q]
    PROVE  GoesOn(q)
BY DEF IInv, Tracked, GoesOn, TypeOK, TypeButStanding, RequestTypes

LEMMA NothingPlanned == \A S : <<>> \in PlansOf(S)
<1> SUFFICES ASSUME NEW S PROVE <<>> \in PlansOf(S)
  OBVIOUS
<1>1. <<>> \in [{} -> S]
  OBVIOUS
<1> QED
  BY <1>1 DEF PlansOf

LEMMA WaitingType ==
    \A answer \in {"none", "applied", "conflict", "denied", "stale"} :
        /\ [Waiting EXCEPT !.answer = answer] \in RequestTypes
        /\ [Waiting EXCEPT !.answer = answer].pc = "idle"
BY NothingPlanned DEF Waiting, RequestTypes

\* An answered request is idle.
LEMMA AnsweredInv ==
    ASSUME IInv, Served, NEW q \in Requests,
           NEW answer \in {"none", "applied", "conflict", "denied", "stale"},
           request' = Answered(q, answer), Unborn',
           \A c \in Candidates : state[c] = "ACTIVE" /\ selectors'[c] = "live" => selectors[c] = "live",
           state' \in [Candidates -> AllStates],
           selectors' \in [Candidates -> {"none", "live", "off"}],
           DOMAIN applied' = Events, losses' \in Nat,
           UNCHANGED <<granted, ingest, moves>>
    PROVE  IInv'
<1>1. request' = [request EXCEPT ![q] = [Waiting EXCEPT !.answer = answer]]
  BY DEF Answered
<1>2. request' \in [Requests -> RequestTypes] /\ request'[q].pc = "idle"
  BY <1>1, WaitingType DEF IInv, TypeOK, TypeButStanding
<1>3. Events' = Events
  BY DEF Served, Events, EventOf
<1>4. TypeButStanding'
  BY <1>2, <1>3 DEF IInv, TypeOK, TypeButStanding, Served
<1>5. \A p \in Requests : GoesOn(p)
  <2>1. \A p \in Requests \ {q} : request'[p] = request[p]
    BY <1>1 DEF IInv, TypeOK, TypeButStanding
  <2> QED
    BY <1>2, <2>1, LeftAlone DEF GoesOn
<1> QED
  BY <1>4, <1>5, ServedInv

\* A step that leaves every request alone.
LEMMA BystanderInv ==
    ASSUME IInv, Served, request' = request, Unborn',
           \A c \in Candidates : state[c] = "ACTIVE" /\ selectors'[c] = "live" => selectors[c] = "live",
           state' \in [Candidates -> AllStates],
           selectors' \in [Candidates -> {"none", "live", "off"}],
           ingest' \in [Candidates -> IngestTypes],
           applied' = applied, granted' \in SUBSET Namespaces, moves' \in Nat, losses' = losses
    PROVE  IInv'
<1>1. TypeButStanding'
  BY DEF IInv, TypeOK, TypeButStanding, Served, Events, EventOf
<1>2. \A q \in Requests : GoesOn(q)
  BY LeftAlone
<1> QED
  BY <1>1, <1>2, ServedInv

\* A step that changes nothing but how far request q has come.
LEMMA ServingInv ==
    ASSUME IInv, Served, NEW q \in Requests, GoesOn(q), request'[q] \in RequestTypes,
           request' = [request EXCEPT ![q] = request'[q]],
           UNCHANGED <<state, selectors, applied, granted, ingest, moves, losses>>
    PROVE  IInv'
<1>1. TypeButStanding' /\ Unborn'
  BY DEF IInv, TypeOK, TypeButStanding, Unborn, Served, Events, EventOf
<1>2. \A p \in Requests \ {q} : request'[p] = request[p]
  BY DEF IInv, TypeOK, TypeButStanding
<1>3. \A p \in Requests : GoesOn(p)
  BY <1>2, LeftAlone
<1> QED
  BY <1>1, <1>3, ServedInv

\* An answer that changes nothing else.
LEMMA RefusedInv ==
    ASSUME IInv, Served, NEW q \in Requests,
           NEW answer \in {"none", "applied", "conflict", "denied", "stale"},
           request' = Answered(q, answer),
           UNCHANGED <<state, selectors, applied, granted, ingest, moves, losses>>
    PROVE  IInv'
<1>1. Unborn'
  BY DEF IInv, Unborn
<1>2. Events' = Events
  BY DEF Served, Events, EventOf
<1>3. /\ state' \in [Candidates -> AllStates]
      /\ selectors' \in [Candidates -> {"none", "live", "off"}]
      /\ DOMAIN applied' = Events /\ losses' \in Nat
  BY DEF IInv, TypeOK, TypeButStanding
<1> QED
  BY <1>1, <1>2, <1>3, AnsweredInv

---------------------------------------------------------------------------
LEMMA InitInv == Init => IInv
<1> SUFFICES ASSUME Init PROVE IInv
  OBVIOUS
<1>1. TypeOK
  BY WaitingType, NothingPlanned
     DEF Init, TypeOK, TypeButStanding, AllStates, Stored, BackfilledSelectors, IngestTypes, Waiting, RequestTypes
<1>2. Unborn
  BY DEF Init, Unborn
<1>3. \A q \in Requests : Tracked(q)
  BY DEF Init, Tracked, Waiting
<1> QED
  BY <1>1, <1>2, <1>3 DEF IInv

LEMMA PlanIngestInv ==
    ASSUME IInv, Served, NEW c \in Candidates, NEW v \in {"ACTIVE", "QUARANTINED"}, PlanIngest(c, v)
    PROVE  IInv'
<1> DEFINE R == IF v = "ACTIVE" THEN Replaces[c] ELSE {}
<1>1. R \subseteq Candidates /\ \A r \in R : state[r] \in Supersedable
  BY ReplacesAssumption DEF PlanIngest
<1>2. States(R) \in PlansOf(Supersedable)
  <2>1. States(R) \in [R -> Supersedable]
    BY <1>1 DEF States
  <2> QED
    BY <1>1, <2>1 DEF PlansOf
<1>3. ingest' = [ingest EXCEPT ![c] = [verdict |-> v, previous |-> States(R)]]
  BY DEF PlanIngest
<1>4. ingest' \in [Candidates -> IngestTypes]
  BY <1>2, <1>3 DEF IInv, TypeOK, TypeButStanding, IngestTypes
<1>5. Unborn'
  BY <1>3 DEF IInv, TypeOK, TypeButStanding, Unborn, PlanIngest
<1> QED
  BY <1>4, <1>5, BystanderInv DEF IInv, TypeOK, TypeButStanding, PlanIngest

LEMMA CommitIngestInv ==
    ASSUME IInv, Served, NEW c \in Candidates, CommitIngest(c)
    PROVE  IInv'
<1> DEFINE previous == ingest[c].previous
<1>1. /\ ingest[c] \in [verdict : {"ACTIVE", "QUARANTINED"}, previous : PlansOf(Supersedable)]
      /\ state[c] = "NONE"
  BY DEF IInv, TypeOK, TypeButStanding, Unborn, CommitIngest, IngestTypes
<1>2. ingest' = [ingest EXCEPT ![c] = NoPlan] /\ ingest' \in [Candidates -> IngestTypes]
  BY DEF IInv, TypeOK, TypeButStanding, CommitIngest, IngestTypes
<1>3. CASE previous = States(DOMAIN previous)
  <2>1. /\ state' = [r \in Candidates |->
                IF r = c THEN ingest[c].verdict
                ELSE IF r \in DOMAIN previous THEN "SUPERSEDED" ELSE state[r]]
        /\ selectors' = [selectors EXCEPT ![c] = IF Watches[c] = {} THEN "none" ELSE "live"]
    BY <1>3 DEF CommitIngest
  <2>2. \A r \in DOMAIN previous : state[r] # "NONE"
    <3>1. \A r \in DOMAIN previous : previous[r] \in Supersedable
      BY <1>1 DEF PlansOf
    <3>2. \A r \in DOMAIN previous : previous[r] = state[r]
      BY <1>3 DEF States
    <3> QED
      BY <3>1, <3>2 DEF Supersedable
  <2>3. Unborn'
    BY <1>2, <2>1, <2>2 DEF IInv, TypeOK, TypeButStanding, Unborn
  <2>4. state' \in [Candidates -> AllStates]
    BY <1>1, <2>1 DEF IInv, TypeOK, TypeButStanding, AllStates, Stored
  <2>5. selectors' \in [Candidates -> {"none", "live", "off"}]
    BY <2>1 DEF IInv, TypeOK, TypeButStanding
  <2>6. \A r \in Candidates : state[r] = "ACTIVE" /\ selectors'[r] = "live" => selectors[r] = "live"
    BY <1>1, <2>1 DEF IInv, TypeOK, TypeButStanding
  <2> QED
    BY <1>2, <2>3, <2>4, <2>5, <2>6, BystanderInv DEF IInv, TypeOK, TypeButStanding, CommitIngest
<1>4. CASE previous # States(DOMAIN previous)
  <2>1. UNCHANGED <<state, selectors>>
    BY <1>4 DEF CommitIngest
  <2>2. Unborn'
    BY <1>2, <2>1 DEF IInv, TypeOK, TypeButStanding, Unborn
  <2> QED
    BY <1>2, <2>1, <2>2, BystanderInv DEF IInv, TypeOK, TypeButStanding, CommitIngest
<1> QED
  BY <1>3, <1>4

LEMMA ArriveInv ==
    ASSUME IInv, Served, NEW q \in Requests, Arrive(q)
    PROVE  IInv'
<1>1. CASE IsApplied(EventOf(q))
  <2>1. request' = Answered(q, Replayed(q, granted))
    BY <1>1 DEF Arrive
  <2>2. Replayed(q, granted) \in {"none", "applied", "conflict", "denied", "stale"}
    BY DEF Replayed
  <2> QED
    BY <2>1, <2>2, RefusedInv DEF Arrive
<1>2. CASE ~IsApplied(EventOf(q))
  <2> DEFINE taken == [Waiting EXCEPT !.pc = "matching", !.grants = granted, !.todo = SourcesOf(q)]
  <2>1. request' = [request EXCEPT ![q] = taken]
    BY <1>2 DEF Arrive
  <2>2. taken \in RequestTypes /\ taken.pc = "matching" /\ taken.todo = SourcesOf(q)
    <3>1. SourcesOf(q) \in SUBSET Sources /\ granted \in SUBSET Namespaces
      BY DEF IInv, TypeOK, TypeButStanding, Sources, SourcesOf
    <3> QED
      BY <3>1, NothingPlanned DEF RequestTypes, Waiting
  <2>3. request'[q] = taken
    BY <2>1 DEF IInv, TypeOK, TypeButStanding
  <2>4. GoesOn(q)
    BY <2>2, <2>3 DEF GoesOn, Arrive
  <2> HIDE DEF taken
  <2> QED
    BY <2>1, <2>2, <2>3, <2>4, ServingInv DEF Arrive
<1> QED
  BY <1>1, <1>2

LEMMA MatchInv ==
    ASSUME IInv, Served, NEW q \in Requests, Match(q)
    PROVE  IInv'
<1> DEFINE s == CHOOSE x \in request[q].todo : TRUE
           next == [request[q] EXCEPT !.todo = @ \ {s}, !.found = @ \cup Matches(s)]
<1>1. request' = [request EXCEPT ![q] = next] /\ s \in request[q].todo
  BY DEF IInv, TypeOK, TypeButStanding, Match
<1>2. request'[q] = next
  BY <1>1 DEF IInv, TypeOK, TypeButStanding
<1>3. next \in RequestTypes
  BY ZenonT(40) DEF IInv, TypeOK, TypeButStanding, RequestTypes, Matches
<1>4. /\ request'[q].todo = request[q].todo \ {s}
      /\ request'[q].found = request[q].found \cup Matches(s)
      /\ request'[q].pc = request[q].pc
  BY <1>2 DEF IInv, TypeOK, TypeButStanding, RequestTypes
<1>5. ASSUME NEW c \in Candidates, state[c] = "ACTIVE", selectors[c] = "live",
             c \in request[q].found \/ Watches[c] \cap request[q].todo # {}
      PROVE  c \in request'[q].found \/ Watches[c] \cap request'[q].todo # {}
  <2>1. s \in Watches[c] => c \in Matches(s)
    BY <1>5 DEF Matches
  <2> HIDE DEF s
  <2> QED
    BY <1>4, <1>5, <2>1
<1>6. request[q].pc = "planning" => request'[q].todo = {}
  BY <1>1, <1>4 DEF IInv, Tracked
<1>7. GoesOn(q)
  BY <1>4, <1>5, <1>6 DEF GoesOn
<1> HIDE DEF next
<1> QED
  BY <1>1, <1>2, <1>3, <1>7, ServingInv DEF Match

LEMMA AuthorizeInv ==
    ASSUME IInv, Served, NEW q \in Requests, Authorize(q)
    PROVE  IInv'
<1>1. CASE {Home[c] : c \in request[q].found} \subseteq request[q].grants
  <2> DEFINE next == [request[q] EXCEPT !.pc = "planning"]
  <2>1. request' = [request EXCEPT ![q] = next]
    BY <1>1 DEF IInv, TypeOK, TypeButStanding, Authorize
  <2>2. request'[q] = next /\ next \in RequestTypes
    BY <2>1 DEF IInv, TypeOK, TypeButStanding, RequestTypes
  <2>3. GoesOn(q)
    BY <2>2 DEF IInv, TypeOK, TypeButStanding, RequestTypes, Authorize, GoesOn
  <2> HIDE DEF next
  <2> QED
    BY <2>1, <2>2, <2>3, ServingInv DEF Authorize
<1>2. CASE ~({Home[c] : c \in request[q].found} \subseteq request[q].grants)
  BY <1>2, RefusedInv DEF Authorize
<1> QED
  BY <1>1, <1>2

LEMMA PlanRecordInv ==
    ASSUME IInv, Served, NEW q \in Requests, PlanRecord(q)
    PROVE  IInv'
<1> DEFINE previous == request[q].previous
           x == CHOOSE r \in request[q].found \ DOMAIN previous : TRUE
           more == [r \in DOMAIN previous \cup {x} |-> IF r = x THEN state[x] ELSE previous[r]]
<1>1. CASE state[x] \in MovableTo("ARCHIVED")
  <2> DEFINE next == [request[q] EXCEPT !.previous = more]
  <2>1. request' = [request EXCEPT ![q] = next]
    BY <1>1 DEF IInv, TypeOK, TypeButStanding, PlanRecord
  <2>2. more \in PlansOf(MovableTo("ARCHIVED"))
    <3>1. PICK R \in SUBSET Candidates : previous \in [R -> MovableTo("ARCHIVED")]
      <4>1. previous \in PlansOf(MovableTo("ARCHIVED"))
        BY DEF IInv, TypeOK, TypeButStanding, RequestTypes
      <4> HIDE DEF previous
      <4> QED
        BY <4>1 DEF PlansOf
    <3>2. x \in Candidates
      <4>1. request[q].found \subseteq Candidates
        BY DEF IInv, TypeOK, TypeButStanding, RequestTypes
      <4>2. request[q].found \ DOMAIN previous # {}
        BY DEF PlanRecord
      <4> QED
        BY <4>1, <4>2
    <3> HIDE DEF previous, x
    <3>3. more \in [R \cup {x} -> MovableTo("ARCHIVED")]
      BY <1>1, <3>1
    <3>4. R \cup {x} \in SUBSET Candidates
      BY <3>2
    <3> HIDE DEF more
    <3> QED
      BY <3>3, <3>4 DEF PlansOf
  <2> HIDE DEF more
  <2>3. request'[q] = next /\ next \in RequestTypes
    BY <2>1, <2>2 DEF IInv, TypeOK, TypeButStanding, RequestTypes
  <2>4. GoesOn(q)
    BY <2>3 DEF IInv, TypeOK, TypeButStanding, RequestTypes, Tracked, GoesOn, PlanRecord
  <2> HIDE DEF next
  <2> QED
    BY <2>1, <2>3, <2>4, ServingInv DEF PlanRecord
<1>2. CASE state[x] \notin MovableTo("ARCHIVED")
  BY <1>2, RefusedInv DEF PlanRecord
<1> QED
  BY <1>1, <1>2

LEMMA CommitWholeInv ==
    ASSUME IInv, Served, NEW q \in Requests, CommitWhole(q)
    PROVE  IInv'
<1> DEFINE found == request[q].found
<1>1. found \subseteq Candidates
  BY DEF IInv, TypeOK, TypeButStanding, RequestTypes
<1>2. \A c \in found : state[c] # "NONE"
  <2>1. \A c \in found : request[q].previous[c] \in MovableTo("ARCHIVED")
    BY DEF IInv, TypeOK, TypeButStanding, RequestTypes, PlansOf, CommitWhole, Planned
  <2>2. \A c \in found : request[q].previous[c] = state[c]
    BY DEF CommitWhole, Planned, Moved, States
  <2> QED
    BY <2>1, <2>2 DEF MovableTo
<1>3. Unborn'
  BY <1>1, <1>2 DEF IInv, TypeOK, TypeButStanding, Unborn, CommitWhole
<1>4. /\ state' \in [Candidates -> AllStates]
      /\ selectors' \in [Candidates -> {"none", "live", "off"}]
      /\ \A c \in Candidates : selectors'[c] = "live" => selectors[c] = "live"
  BY DEF IInv, TypeOK, TypeButStanding, AllStates, Stored, CommitWhole
<1>5. DOMAIN applied' = Events /\ losses' \in Nat
  BY DEF IInv, TypeOK, TypeButStanding, Served, Events, EventOf, CommitWhole
<1>6. request' = Answered(q, "applied") /\ UNCHANGED <<granted, ingest, moves>>
  BY DEF CommitWhole
<1> QED
  BY <1>3, <1>4, <1>5, <1>6, AnsweredInv

LEMMA ServeInv ==
    ASSUME IInv, Served, NEW q \in Requests, Serve(q)
    PROVE  IInv'
<1>1. CASE Match(q)
  BY <1>1, MatchInv
<1>2. CASE Authorize(q)
  BY <1>2, AuthorizeInv
<1>3. CASE PlanRecord(q)
  BY <1>3, PlanRecordInv
<1>4. CASE CommitTaken(q)
  BY <1>4, RefusedInv DEF CommitTaken, Replayed
<1>5. CASE CommitStale(q)
  BY <1>5, RefusedInv DEF CommitStale
<1>6. CASE CommitWhole(q)
  BY <1>6, CommitWholeInv
<1> QED
  BY <1>1, <1>2, <1>3, <1>4, <1>5, <1>6 DEF Serve

LEMMA LoseInv ==
    ASSUME IInv, Served, NEW q \in Requests, Lose(q)
    PROVE  IInv'
<1>1. Unborn' /\ losses' \in Nat
  BY DEF IInv, TypeOK, TypeButStanding, Unborn, Lose
<1>2. DOMAIN applied' = Events
  BY DEF IInv, TypeOK, TypeButStanding, Served, Events, EventOf, Lose
<1>3. /\ state' \in [Candidates -> AllStates]
      /\ selectors' \in [Candidates -> {"none", "live", "off"}]
  BY DEF IInv, TypeOK, TypeButStanding, Lose
<1>4. /\ \A c \in Candidates : selectors'[c] = "live" => selectors[c] = "live"
      /\ request' = Answered(q, "none") /\ UNCHANGED <<granted, ingest, moves>>
  BY DEF Lose
<1> QED
  BY <1>1, <1>2, <1>3, <1>4, AnsweredInv

LEMMA GovernInv ==
    ASSUME IInv, Served, NEW c \in Candidates, NEW new \in {"SUPERSEDED", "ARCHIVED", "ACTIVE"},
           Govern(c, new)
    PROVE  IInv'
<1>1. state[c] # "NONE"
  BY DEF Govern, MovableTo
<1>2. Unborn' /\ state' \in [Candidates -> AllStates]
  BY <1>1 DEF IInv, TypeOK, TypeButStanding, Unborn, AllStates, Stored, Govern
<1> QED
  BY <1>2, BystanderInv DEF IInv, TypeOK, TypeButStanding, Govern

LEMMA DeleteInv ==
    ASSUME IInv, Served, NEW c \in Candidates, Delete(c)
    PROVE  IInv'
<1>1. state[c] # "NONE"
  BY DEF Delete, Stored
<1>2. Unborn' /\ state' \in [Candidates -> AllStates]
  BY <1>1 DEF IInv, TypeOK, TypeButStanding, Unborn, AllStates, Stored, Delete
<1>3. selectors' \in [Candidates -> {"none", "live", "off"}]
  BY DEF IInv, TypeOK, TypeButStanding, Delete
<1>4. \A r \in Candidates : selectors'[r] = "live" => selectors[r] = "live"
  BY DEF IInv, TypeOK, TypeButStanding, Delete
<1> QED
  BY <1>2, <1>3, <1>4, BystanderInv DEF IInv, TypeOK, TypeButStanding, Delete

LEMMA RegrantInv ==
    ASSUME IInv, Served, Regrant
    PROVE  IInv'
BY BystanderInv DEF IInv, TypeOK, TypeButStanding, Unborn, Regrant

LEMMA StutterInv ==
    ASSUME IInv, UNCHANGED vars
    PROVE  IInv'
BY DEF vars, IInv, TypeOK, TypeButStanding, Unborn, Tracked, Events, EventOf

LEMMA NextInv ==
    ASSUME IInv, [Next]_vars
    PROVE  IInv'
<1>1. CASE UNCHANGED vars
  BY <1>1, StutterInv
<1>2. CASE Served /\ \E c \in Candidates : \E v \in {"ACTIVE", "QUARANTINED"} : PlanIngest(c, v)
  BY <1>2, PlanIngestInv
<1>3. CASE Served /\ \E c \in Candidates : CommitIngest(c)
  BY <1>3, CommitIngestInv
<1>4. CASE Served /\ \E q \in Requests : Arrive(q) \/ Serve(q) \/ Lose(q)
  BY <1>4, ArriveInv, ServeInv, LoseInv
<1>5. CASE Served /\ \E c \in Candidates, new \in {"SUPERSEDED", "ARCHIVED", "ACTIVE"} : Govern(c, new)
  BY <1>5, GovernInv
<1>6. CASE Served /\ \E c \in Candidates : Delete(c)
  BY <1>6, DeleteInv
<1>7. CASE Served /\ Regrant
  BY <1>7, RegrantInv
<1> QED
  BY <1>1, <1>2, <1>3, <1>4, <1>5, <1>6, <1>7 DEF Next, Step

---------------------------------------------------------------------------
\* The variables keep their types: Arrive and the reads of a request only take in
\* sources, records and states that exist, and _plan_lifecycle_transition no
\* state that may not be archived.
THEOREM TypeCorrect == Spec => []TypeOK
<1>1. Init => IInv
  BY InitInv
<1>2. IInv /\ [Next]_vars => IInv'
  BY NextInv
<1>3. IInv => TypeOK
  BY DEF IInv
<1> QED
  BY <1>1, <1>2, <1>3, PTL DEF Spec

ExactStep ==
    \A e \in Events : applied'[e] # applied[e] =>
        /\ ~IsApplied(e)
        /\ {c \in Candidates : state'[c] # state[c]} \subseteq applied'[e].records
        /\ \A c \in applied'[e].records : state'[c] = "ARCHIVED" /\ selectors'[c] = "off"
        /\ \E q \in Requests :
            /\ EventOf(q) = e /\ request[q].pc = "planning"
            /\ {c \in standing[q] : selectors[c] = "live"} \subseteq applied'[e].records
            /\ applied'[e].digest = SourcesOf(q)

\* Only commit_source_invalidation changes an event, and its step is exact.
LEMMA CommitIsExact ==
    ASSUME IInv, NEW q \in Requests, CommitWhole(q)
    PROVE  ExactStep
<1> DEFINE found == request[q].found
<1>1. /\ applied' = [applied EXCEPT ![EventOf(q)] = EventFor(q)]
      /\ ~IsApplied(EventOf(q)) /\ request[q].pc = "planning"
      /\ state' = [c \in Candidates |-> IF c \in found THEN "ARCHIVED" ELSE state[c]]
      /\ selectors' = [c \in Candidates |-> IF c \in found THEN "off" ELSE selectors[c]]
  BY DEF CommitWhole, Planned
<1>2. EventOf(q) \in Events /\ DOMAIN applied = Events
  BY DEF Events, IInv, TypeOK, TypeButStanding
<1>3. applied'[EventOf(q)] = EventFor(q)
  BY <1>1, <1>2
<1>4. EventFor(q).records = found /\ EventFor(q).digest = SourcesOf(q)
  BY DEF EventFor
<1>5. found \subseteq Candidates
  BY DEF IInv, TypeOK, TypeButStanding, RequestTypes
<1>6. \A c \in standing[q] : selectors[c] = "live" => c \in found
  BY <1>1 DEF IInv, Tracked
<1>7. \A e \in Events : applied'[e] # applied[e] => e = EventOf(q)
  BY <1>1, <1>2
<1>8. {c \in Candidates : state'[c] # state[c]} \subseteq found
  BY <1>1
<1>9. \A c \in found : state'[c] = "ARCHIVED" /\ selectors'[c] = "off"
  BY <1>1, <1>5
<1>10. {c \in standing[q] : selectors[c] = "live"} \subseteq found
  BY <1>6
<1> HIDE DEF found
<1> QED
  BY <1>1, <1>3, <1>4, <1>7, <1>8, <1>9, <1>10 DEF ExactStep

LEMMA EveryStepIsExact ==
    ASSUME IInv, [Next]_vars
    PROVE  ExactStep
<1>1. CASE applied' = applied
  BY <1>1 DEF ExactStep
<1>2. CASE \E q \in Requests : CommitWhole(q)
  BY <1>2, CommitIsExact
<1>3. applied' = applied \/ \E q \in Requests : CommitWhole(q)
  BY DEF vars, Next, Step, PlanIngest, CommitIngest, Arrive, Serve, Match, Authorize, PlanRecord,
         CommitTaken, CommitStale, Lose, Govern, Delete, Regrant
<1> QED
  BY <1>1, <1>2, <1>3

\* An invalidation happens once and as a whole: commit_source_invalidation stores
\* an event only where none is stored, archives exactly its records with their
\* selectors, and leaves out nothing that matched ever since the request arrived.
THEOREM OperationIsExact == Spec => InvalidationIsExact
<1>1. Init => IInv
  BY InitInv
<1>2. IInv /\ [Next]_vars => IInv'
  BY NextInv
<1>3. IInv /\ [Next]_vars => [ExactStep]_vars
  BY EveryStepIsExact
<1>4. InvalidationIsExact <=> [][ExactStep]_vars
  BY DEF InvalidationIsExact, ExactStep
<1> QED
  BY <1>1, <1>2, <1>3, <1>4, PTL DEF Spec

---------------------------------------------------------------------------
(***************************************************************************)
(* Proofs about ReplayedWrites, for any editions, damage, evidence,        *)
(* verdicts, queue files and processes.                                    *)
(*                                                                         *)
(* Publication: a run that has come past its verification holds a valid    *)
(* plan, so what it writes under a key is what the key describes (RunIsTrue*)
(* and Described); what it lists was stored, and rows only grow.           *)
(* Drain: the receipt a drain has in hand between the write and the        *)
(* unlinking is about the file it is at, and true of what is stored        *)
(* (ReceiptIsTrue); so a file leaves pending only after it is accounted    *)
(* for, by whichever of the drains comes first.                            *)
(***************************************************************************)
Verdicts == {"admitted", "quarantined", "memory_rejected"}
Outcomes == Verdicts \cup {"not_attempted", "duplicate", "failed"}
Receipts == Verdicts \cup {"duplicate"}
Listed   == {"admitted", "quarantined", "duplicate"}

RunTypes ==
    [pc : {"idle", "loading", "executing"}, mode : {"none", "preflight", "apply", "refused"},
     manifest : Plans \cup {<<>>}, plan : Plans \cup {<<>>}, results : Seq(Outcomes)]
DrainTypes ==
    [pc : {"idle", "draining", "exited"}, apply : BOOLEAN, todo : SUBSET DOMAIN Files,
     receipt : Receipts \cup {"none", "recorded"}, clean : BOOLEAN]

PublicationTyped ==
    /\ bundle \in [manifest : Plans, plan : Plans]
    /\ emitted \in DOMAIN Editions
    /\ run \in [Publishers -> RunTypes]

QueueTyped ==
    /\ pending \subseteq FileNames
    /\ drained \in [FileNames -> Receipts \cup {"none"}]
    /\ copies \in [FileNames -> Nat]
    /\ drain \in [Drainers -> DrainTypes]

\* A stored write is the one its key describes, and the only one of that key.
Described == \A w \in rows : w.key = EffectKey(w.write) /\ Holders(w.key) = {w}

KeyIn(k, S) == \E w \in S : w.key = k

\* What a run has loaded is validated, it reports on a prefix of it, and what it
\* reports as stored is stored.
RunIsTrue(r) ==
    /\ run[r].pc = "loading" => run[r].results = <<>>
    /\ run[r].pc = "executing" => Valid(run[r].plan)
    /\ Len(run[r].results) <= Len(run[r].plan)
    /\ \A i \in DOMAIN run[r].results :
          run[r].mode = "apply" /\ run[r].results[i] \in Listed => KeyIn(run[r].plan[i].key, rows)

PublicationInv == PublicationTyped /\ Described /\ \A r \in Publishers : RunIsTrue(r)

\* A receipt in hand is about a file that parses, and is right about what is stored;
\* once recorded, the file has a receipt, its own or that of another drain.
ReceiptIsTrue(d) ==
    drain[d].receipt # "none" =>
        /\ drain[d].todo # {}
        /\ File(d) \notin Unreadable
        /\ drain[d].receipt \in Listed => copies[File(d)] >= 1
        /\ drain[d].receipt = "recorded" => drained[File(d)] # "none"

QueueInv == QueueTyped /\ QueueIsAccounted /\ \A d \in Drainers : ReceiptIsTrue(d)

---------------------------------------------------------------------------
\* Plan documents are sequences of candidates, and so are validated ones.
LEMMA DocumentFacts ==
    ASSUME NEW p \in Plans \cup {<<>>}
    PROVE  /\ Len(p) \in Nat
           /\ DOMAIN p = 1 .. Len(p)
<1>1. CASE p \in Plans
  BY <1>1, PlansAssumption
<1>2. CASE p = <<>>
  BY <1>2
<1> QED
  BY <1>1, <1>2

\* A step of one publisher that leaves its own account true keeps the invariant.
LEMMA PublisherMoves ==
    ASSUME PublicationInv, NEW r \in Publishers, NEW e \in RunTypes,
           run' = [run EXCEPT ![r] = e], rows \subseteq rows', Described', RunIsTrue(r)',
           UNCHANGED <<bundle, emitted>>
    PROVE  PublicationInv'
<1>1. PublicationTyped'
  BY DEF PublicationInv, PublicationTyped
<1>2. ASSUME NEW o \in Publishers PROVE RunIsTrue(o)'
  <2>1. CASE o = r
    BY <2>1
  <2>2. CASE o # r
    <3>1. run'[o] = run[o] /\ RunIsTrue(o)
      BY <2>2 DEF PublicationInv, PublicationTyped
    <3>2. \A i \in DOMAIN run'[o].results :
             run'[o].mode = "apply" /\ run'[o].results[i] \in Listed =>
                KeyIn(run'[o].plan[i].key, rows')
      BY <3>1 DEF RunIsTrue, KeyIn
    <3> QED
      BY <3>1, <3>2 DEF RunIsTrue
  <2> QED
    BY <2>1, <2>2
<1> QED
  BY <1>1, <1>2 DEF PublicationInv

\* Runs and rows are left alone while the bundle changes.
LEMMA BundleMoves ==
    ASSUME PublicationInv, bundle' \in [manifest : Plans, plan : Plans],
           emitted' \in DOMAIN Editions, UNCHANGED <<rows, run>>
    PROVE  PublicationInv'
<1>1. PublicationTyped'
  BY DEF PublicationInv, PublicationTyped
<1>2. Described'
  BY DEF PublicationInv, Described, Holders
<1>3. \A r \in Publishers : RunIsTrue(r)'
  BY DEF PublicationInv, RunIsTrue
<1> QED
  BY <1>1, <1>2, <1>3 DEF PublicationInv

LEMMA EditionIsPlan == \A n \in DOMAIN Editions : Editions[n] \in Plans
BY DEF Plans

LEMMA EmissionInv ==
    ASSUME PublicationInv, EmitPlan \/ EmitManifest \/ Edit
    PROVE  PublicationInv'
<1>1. CASE EmitPlan
  <2>1. emitted + 1 \in DOMAIN Editions
    BY <1>1, EditionsAssumption DEF EmitPlan, PublicationInv, PublicationTyped
  <2> QED
    BY <1>1, <2>1, EditionIsPlan, BundleMoves DEF EmitPlan, PublicationInv, PublicationTyped
<1>2. CASE EmitManifest
  BY <1>2, BundleMoves DEF EmitManifest, PublicationInv, PublicationTyped
<1>3. CASE Edit
  <2>1. PICK p \in Edits[emitted], repaired \in BOOLEAN :
           bundle' = [manifest |-> IF repaired THEN p ELSE bundle.manifest, plan |-> p]
    BY <1>3 DEF Edit
  <2>2. p \in Plans
    BY <2>1 DEF Plans, PublicationInv, PublicationTyped
  <2> QED
    BY <1>3, <2>1, <2>2, BundleMoves DEF Edit, PublicationInv, PublicationTyped
<1> QED
  BY <1>1, <1>2, <1>3

\* Setting out, loading, giving up and returning report nothing.
LEMMA IdleType ==
    /\ Idle \in RunTypes
    /\ Idle.results = <<>> /\ Idle.plan = <<>> /\ Idle.pc = "idle"
BY DEF Idle, RunTypes

\* A run that reports nothing yet reports nothing untrue.
LEMMA BlankRun ==
    ASSUME NEW r \in Publishers, run'[r].results = <<>>,
           run'[r].pc = "executing" => Valid(run'[r].plan), Len(run'[r].plan) \in Nat
    PROVE  RunIsTrue(r)'
BY DEF RunIsTrue

LEMMA ReadInv ==
    ASSUME PublicationInv, NEW r \in Publishers, NEW mode \in {"preflight", "apply"}, ReadManifest(r, mode)
    PROVE  PublicationInv'
<1> DEFINE e == [Idle EXCEPT !.pc = "loading", !.mode = mode, !.manifest = bundle.manifest]
<1>a. bundle.manifest \in Plans
  BY DEF PublicationInv, PublicationTyped
<1>b. Idle \in RunTypes /\ Idle.results = <<>> /\ Idle.plan = <<>>
  BY IdleType
<1>1. e \in RunTypes /\ e.results = <<>> /\ e.plan = <<>> /\ e.pc = "loading"
  BY <1>a, <1>b DEF RunTypes
<1>2. run' = [run EXCEPT ![r] = e]
  BY DEF ReadManifest
<1> HIDE DEF e
<1>3. run'[r] = e
  BY <1>2 DEF PublicationInv, PublicationTyped
<1>4. RunIsTrue(r)'
  BY <1>1, <1>3, BlankRun
<1>5. Described'
  BY DEF ReadManifest, PublicationInv, Described, Holders
<1> QED
  BY <1>1, <1>2, <1>4, <1>5, PublisherMoves DEF ReadManifest

LEMMA LoadInv ==
    ASSUME PublicationInv, NEW r \in Publishers, LoadPlan(r)
    PROVE  PublicationInv'
<1> DEFINE old == run[r]
           e == IF bundle.plan = run[r].manifest /\ Valid(bundle.plan)
                THEN [old EXCEPT !.pc = "executing", !.plan = bundle.plan]
                ELSE [Idle EXCEPT !.mode = "refused"]
<1>1. old \in RunTypes /\ bundle.plan \in Plans
  BY DEF PublicationInv, PublicationTyped
<1>2. run' = [run EXCEPT ![r] = e]
  BY DEF LoadPlan, PublicationInv, PublicationTyped
<1>3. old.results = <<>>
  BY DEF LoadPlan, PublicationInv, RunIsTrue
<1>4. /\ e \in RunTypes /\ e.results = <<>>
      /\ e.pc = "executing" => Valid(e.plan)
  BY <1>1, <1>3 DEF RunTypes, Idle
<1> HIDE DEF e
<1>5. run'[r] = e
  BY <1>2 DEF PublicationInv, PublicationTyped
<1>6. Len(e.plan) \in Nat
  BY <1>4, DocumentFacts DEF RunTypes
<1>7. RunIsTrue(r)'
  BY <1>4, <1>5, <1>6, BlankRun
<1>8. Described'
  BY DEF LoadPlan, PublicationInv, Described, Holders
<1> QED
  BY <1>2, <1>4, <1>7, <1>8, PublisherMoves DEF LoadPlan

LEMMA KillPublisherInv ==
    ASSUME PublicationInv, NEW r \in Publishers, KillPublisher(r)
    PROVE  PublicationInv'
<1>1. run' = [run EXCEPT ![r] = Idle] /\ run'[r] = Idle
  BY DEF KillPublisher, PublicationInv, PublicationTyped
<1>2. RunIsTrue(r)'
  BY <1>1, IdleType, BlankRun
<1>3. Described'
  BY DEF KillPublisher, PublicationInv, Described, Holders
<1> QED
  BY <1>1, <1>2, <1>3, IdleType, PublisherMoves DEF KillPublisher

LEMMA ReturnInv ==
    ASSUME PublicationInv, NEW r \in Publishers, Return(r)
    PROVE  PublicationInv'
<1> DEFINE old == run[r]
           e == [old EXCEPT !.pc = "idle"]
<1>1. old \in RunTypes
  BY DEF PublicationInv, PublicationTyped
<1>2. run' = [run EXCEPT ![r] = e]
  BY DEF Return, PublicationInv, PublicationTyped
<1>3. /\ e \in RunTypes /\ e.pc = "idle"
      /\ e.results = run[r].results /\ e.plan = run[r].plan /\ e.mode = run[r].mode
  BY <1>1 DEF RunTypes
<1> HIDE DEF e
<1>4. run'[r] = e
  BY <1>2 DEF PublicationInv, PublicationTyped
<1>5. Described' /\ UNCHANGED rows
  BY DEF Return, PublicationInv, Described, Holders
<1>6. RunIsTrue(r)'
  BY <1>3, <1>4, <1>5 DEF PublicationInv, RunIsTrue
<1> QED
  BY <1>2, <1>3, <1>5, <1>6, PublisherMoves DEF Return

---------------------------------------------------------------------------
\* One more outcome, about the candidate that comes next.
LEMMA ReportInv ==
    ASSUME PublicationInv, NEW r \in Publishers, NEW status \in Outcomes, HasUpcoming(r),
           run' = Result(r, status), rows \subseteq rows', Described',
           run[r].mode = "apply" /\ status \in Listed => KeyIn(Upcoming(r).key, rows'),
           UNCHANGED <<bundle, emitted>>
    PROVE  PublicationInv'
<1> DEFINE old == run[r]
           e == [old EXCEPT !.results = Append(old.results, status)]
<1>1. old \in RunTypes /\ old.pc = "executing" /\ Len(old.results) < Len(old.plan) /\ Valid(old.plan)
  BY DEF PublicationInv, PublicationTyped, HasUpcoming, RunIsTrue
<1>2. run' = [run EXCEPT ![r] = e]
  BY DEF Result, PublicationInv, PublicationTyped
<1>a. Append(old.results, status) \in Seq(Outcomes)
  BY <1>1 DEF RunTypes
<1>3. /\ e \in RunTypes /\ e.results = Append(old.results, status)
      /\ e.plan = old.plan /\ e.mode = old.mode /\ e.pc = "executing"
  BY <1>1, <1>a DEF RunTypes
<1> HIDE DEF e
<1>4. run'[r] = e
  BY <1>2 DEF PublicationInv, PublicationTyped
<1>5. Len(old.plan) \in Nat /\ old.results \in Seq(Outcomes)
  BY <1>1, DocumentFacts DEF RunTypes
<1>6. ASSUME NEW i \in DOMAIN e.results, e.mode = "apply", e.results[i] \in Listed
      PROVE  KeyIn(e.plan[i].key, rows')
  <2>1. CASE i \in DOMAIN old.results
    <3>1. e.results[i] = old.results[i]
      BY <1>3, <1>5, <2>1
    <3>2. KeyIn(old.plan[i].key, rows)
      BY <1>3, <1>6, <2>1, <3>1 DEF PublicationInv, RunIsTrue
    <3> QED
      BY <1>3, <3>2 DEF KeyIn
  <2>2. CASE i \notin DOMAIN old.results
    <3>1. i = Len(old.results) + 1 /\ e.results[i] = status
      BY <1>3, <1>5, <2>2
    <3>2. status \in Listed /\ run[r].mode = "apply" /\ e.plan[i] = Upcoming(r)
      BY <1>3, <1>6, <3>1 DEF Upcoming
    <3> QED
      BY <3>2
  <2> QED
    BY <2>1, <2>2
<1>7. Len(e.results) <= Len(e.plan)
  BY <1>1, <1>3, <1>5
<1>8. RunIsTrue(r)'
  BY <1>1, <1>3, <1>4, <1>6, <1>7 DEF RunIsTrue
<1> QED
  BY <1>2, <1>3, <1>8, PublisherMoves

\* The candidate that comes next is one of the validated plan.
LEMMA UpcomingFacts ==
    ASSUME PublicationInv, NEW r \in Publishers, HasUpcoming(r)
    PROVE  /\ Upcoming(r).key = EffectKey(Upcoming(r))
           /\ Verdict[Upcoming(r).fact] \in Verdicts
<1> DEFINE p == run[r].plan
           i == Len(run[r].results) + 1
<1>1. p \in Plans \cup {<<>>} /\ run[r].results \in Seq(Outcomes) /\ Valid(p)
  BY DEF PublicationInv, PublicationTyped, RunTypes, RunIsTrue, HasUpcoming
<1>2. i \in DOMAIN p
  BY <1>1, DocumentFacts DEF HasUpcoming
<1>3. p \in Plans
  BY <1>1, <1>2
<1>4. p[i].fact \in DOMAIN Verdict
  BY <1>2, <1>3, PlansAssumption
<1>5. p[i].key = EffectKey(p[i])
  BY <1>1, <1>2 DEF Valid
<1>6. Verdict[p[i].fact] \in Verdicts
  BY <1>4, VerdictAssumption DEF Verdicts
<1> QED
  BY <1>5, <1>6 DEF Upcoming

LEMMA SkipInv ==
    ASSUME PublicationInv, NEW r \in Publishers, Skip(r)
    PROVE  PublicationInv'
<1>1. Described'
  BY DEF Skip, PublicationInv, Described, Holders
<1> QED
  BY <1>1, ReportInv DEF Skip, Outcomes, Listed

LEMMA FailInv ==
    ASSUME PublicationInv, NEW r \in Publishers, Fail(r)
    PROVE  PublicationInv'
<1>1. Described'
  BY DEF Fail, PublicationInv, Described, Holders
<1> QED
  BY <1>1, ReportInv DEF Fail, Outcomes, Listed

LEMMA SubmitInv ==
    ASSUME PublicationInv, NEW r \in Publishers, Submit(r)
    PROVE  PublicationInv'
<1> DEFINE c == Upcoming(r)
           new == [key |-> c.key, write |-> c]
<1>1. HasUpcoming(r) /\ UNCHANGED <<bundle, emitted>>
  BY DEF Submit
<1>2. c.key = EffectKey(c) /\ Verdict[c.fact] \in Verdicts
  BY <1>1, UpcomingFacts
<1> HIDE DEF c
<1>3. CASE Holders(c.key) # {} /\ run' = Result(r, "duplicate") /\ UNCHANGED rows
  <2>1. Described' /\ KeyIn(c.key, rows')
    BY <1>3 DEF PublicationInv, Described, Holders, KeyIn
  <2> QED
    BY <1>1, <1>3, <2>1, ReportInv DEF Outcomes, c
<1>4. CASE /\ Holders(c.key) = {}
           /\ run' = Result(r, Verdict[c.fact])
           /\ rows' = rows \cup (IF run[r].mode = "apply" /\ Verdict[c.fact] # "memory_rejected"
                                 THEN {new} ELSE {})
  <2>1. Described'
    <3>1. SUFFICES ASSUME NEW w \in rows' PROVE w.key = EffectKey(w.write) /\ Holders(w.key)' = {w}
      BY DEF Described, Holders
    <3>2. new.key = c.key /\ new.write = c
      OBVIOUS
    <3>3. rows' = rows \/ rows' = rows \cup {new}
      BY <1>4
    <3>4. \A v \in rows : v.key # c.key
      BY <1>4 DEF Holders
    <3> HIDE DEF new
    <3>5. CASE w \in rows
      <4>1. w.key = EffectKey(w.write) /\ {v \in rows : v.key = w.key} = {w}
        BY <3>5 DEF PublicationInv, Described, Holders
      <4>2. {v \in rows' : v.key = w.key} = {w}
        BY <3>2, <3>3, <3>4, <3>5, <4>1
      <4> QED
        BY <4>1, <4>2 DEF Holders
    <3>6. CASE w \notin rows
      <4>1. w = new /\ rows' = rows \cup {new}
        BY <3>1, <3>3, <3>6
      <4>2. {v \in rows' : v.key = w.key} = {w}
        BY <3>2, <3>4, <4>1
      <4> QED
        BY <1>2, <3>2, <4>1, <4>2 DEF Holders
    <3> QED
      BY <3>5, <3>6
  <2>2. run[r].mode = "apply" /\ Verdict[c.fact] \in Listed => KeyIn(c.key, rows')
    <3>1. SUFFICES ASSUME run[r].mode = "apply", Verdict[c.fact] \in Listed PROVE new \in rows'
      BY DEF KeyIn
    <3>2. Verdict[c.fact] # "memory_rejected"
      BY <3>1 DEF Listed
    <3> QED
      BY <1>4, <3>1, <3>2
  <2>3. Verdict[c.fact] \in Outcomes /\ rows \subseteq rows'
    BY <1>2, <1>4 DEF Outcomes
  <2> QED
    BY <1>1, <1>4, <2>1, <2>2, <2>3, ReportInv DEF c
<1> QED
  BY <1>3, <1>4 DEF Submit, c

LEMMA PublicationInit == ReplayInit => PublicationInv
<1> SUFFICES ASSUME ReplayInit PROVE PublicationInv
  OBVIOUS
<1>1. 1 \in DOMAIN Editions
  BY EditionsAssumption
<1>2. PublicationTyped
  BY <1>1, EditionIsPlan, IdleType DEF ReplayInit, PublicationTyped
<1>3. Described
  BY DEF ReplayInit, Described
<1>4. ASSUME NEW r \in Publishers PROVE RunIsTrue(r)
  BY IdleType DEF ReplayInit, RunIsTrue
<1> QED
  BY <1>2, <1>3, <1>4 DEF PublicationInv

LEMMA PublicationStep ==
    ASSUME PublicationInv, PublicationNext
    PROVE  PublicationInv'
<1>1. CASE EmitPlan \/ EmitManifest \/ Edit
  BY <1>1, EmissionInv
<1>2. ASSUME NEW r \in Publishers,
             (\E mode \in {"preflight", "apply"} : ReadManifest(r, mode)) \/ Publish(r) \/ Fail(r) \/ KillPublisher(r)
      PROVE  PublicationInv'
  BY <1>2, ReadInv, LoadInv, SkipInv, SubmitInv, ReturnInv, FailInv, KillPublisherInv DEF Publish
<1> QED
  BY <1>1, <1>2 DEF PublicationNext

LEMMA PublicationRests ==
    ASSUME PublicationInv, UNCHANGED publication
    PROVE  PublicationInv'
<1>1. PublicationTyped'
  BY DEF PublicationInv, PublicationTyped, publication
<1>2. Described'
  BY DEF PublicationInv, Described, Holders, publication
<1>3. \A r \in Publishers : RunIsTrue(r)'
  BY DEF PublicationInv, RunIsTrue, publication
<1> QED
  BY <1>1, <1>2, <1>3 DEF PublicationInv

LEMMA PublicationMeans == PublicationInv => PublishedAsDescribed
BY DEF PublicationInv, Described, RunIsTrue, PublishedAsDescribed, Holders, KeyIn, Listed

---------------------------------------------------------------------------
\* The file in hand is one of the queue: a set of places has a first one.
LEMMA ForemostIn ==
    ASSUME QueueTyped, NEW d \in Drainers, drain[d].todo # {}
    PROVE  Foremost(d) \in drain[d].todo /\ File(d) \in FileNames
<1> DEFINE T == drain[d].todo
           R == OpToRel(<, Nat)
<1>1. T \subseteq DOMAIN Files /\ T \subseteq Nat
  BY FilesAssumption DEF QueueTyped, DrainTypes
<1>2. IsWellFoundedOn(R, Nat)
  BY NatLessThanWellFounded
<1>3. \A x, y \in Nat : y < x => <<y, x>> \in R
  BY DEF OpToRel
<1>4. T # {}
  OBVIOUS
<1> HIDE DEF R, T
<1>5. PICK x \in T : \A y \in T : ~ (<<y, x>> \in R)
  BY <1>1, <1>2, <1>4, WFMin
<1>6. \A y \in T : x <= y
  <2>1. SUFFICES ASSUME NEW y \in T PROVE x <= y
    OBVIOUS
  <2>2. x \in Nat /\ y \in Nat /\ ~ (y < x)
    BY <1>1, <1>3, <1>5
  <2> QED
    BY <2>2
<1>7. Foremost(d) \in T
  BY <1>6 DEF Foremost, T
<1> QED
  BY <1>1, <1>7 DEF File, FileNames, T

\* A step of one drainer that leaves its own receipt true, and the account of the
\* files, keeps the invariant: what is stored stays stored.
LEMMA DrainerMoves ==
    ASSUME QueueInv, NEW d \in Drainers, NEW e \in DrainTypes, drain' = [drain EXCEPT ![d] = e],
           pending' \subseteq FileNames, drained' \in [FileNames -> Receipts \cup {"none"}],
           copies' \in [FileNames -> Nat], \A f \in FileNames : copies[f] <= copies'[f],
           \A f \in FileNames : drained[f] # "none" => drained'[f] # "none",
           QueueIsAccounted', ReceiptIsTrue(d)'
    PROVE  QueueInv'
<1>1. QueueTyped'
  BY DEF QueueInv, QueueTyped
<1>2. ASSUME NEW o \in Drainers PROVE ReceiptIsTrue(o)'
  <2>1. CASE o = d
    BY <2>1
  <2>2. CASE o # d
    <3>1. drain'[o] = drain[o] /\ ReceiptIsTrue(o)
      BY <2>2 DEF QueueInv, QueueTyped
    <3>2. File(o)' = File(o)
      BY <3>1 DEF File, Foremost
    <3>3. SUFFICES ASSUME drain[o].receipt # "none"
                   PROVE  /\ drain[o].todo # {} /\ File(o) \notin Unreadable
                          /\ drain[o].receipt \in Listed => copies'[File(o)] >= 1
                          /\ drain[o].receipt = "recorded" => drained'[File(o)] # "none"
      BY <3>1, <3>2 DEF ReceiptIsTrue
    <3>4. /\ drain[o].todo # {} /\ File(o) \notin Unreadable
          /\ drain[o].receipt \in Listed => copies[File(o)] >= 1
          /\ drain[o].receipt = "recorded" => drained[File(o)] # "none"
      BY <3>1, <3>3 DEF ReceiptIsTrue
    <3>5. File(o) \in FileNames
      BY <3>4, ForemostIn DEF QueueInv
    <3>6. copies[File(o)] <= copies'[File(o)] /\ copies[File(o)] \in Nat /\ copies'[File(o)] \in Nat
      BY <3>5 DEF QueueInv, QueueTyped
    <3> QED
      BY <3>4, <3>5, <3>6
  <2> QED
    BY <2>1, <2>2
<1> QED
  BY <1>1, <1>2 DEF QueueInv

\* A drainer with no receipt in hand, while the files stay what they were.
LEMMA EmptyHanded ==
    ASSUME QueueInv, NEW d \in Drainers, NEW e \in DrainTypes, drain' = [drain EXCEPT ![d] = e],
           e.receipt = "none", UNCHANGED <<pending, drained, copies>>
    PROVE  QueueInv'
<1>1. drain'[d] = e
  BY DEF QueueInv, QueueTyped
<1>2. ReceiptIsTrue(d)'
  BY <1>1 DEF ReceiptIsTrue
<1>3. QueueIsAccounted'
  BY DEF QueueInv, QueueIsAccounted
<1>4. \A f \in FileNames : copies[f] <= copies'[f]
  BY DEF QueueInv, QueueTyped
<1>5. /\ pending' \subseteq FileNames
      /\ drained' \in [FileNames -> Receipts \cup {"none"}]
      /\ copies' \in [FileNames -> Nat]
  BY DEF QueueInv, QueueTyped
<1> QED
  BY <1>2, <1>3, <1>4, <1>5, DrainerMoves

\* The record a drainer is left with when it moves on to the next file.
LEMMA LeaveType ==
    ASSUME QueueInv, NEW d \in Drainers, NEW clean \in BOOLEAN
    PROVE  \E e \in DrainTypes : Leave(d, clean) = [drain EXCEPT ![d] = e] /\ e.receipt = "none"
<1> DEFINE old == drain[d]
           e == [old EXCEPT !.todo = old.todo \ {Foremost(d)}, !.receipt = "none", !.clean = old.clean /\ clean]
<1>1. old \in DrainTypes
  BY DEF QueueInv, QueueTyped
<1>2. (old.clean /\ clean) \in BOOLEAN /\ old.todo \ {Foremost(d)} \in SUBSET DOMAIN Files
  BY <1>1 DEF DrainTypes
<1>3. e \in DrainTypes /\ e.receipt = "none"
  BY <1>1, <1>2 DEF DrainTypes
<1>4. Leave(d, clean) = [drain EXCEPT ![d] = e]
  BY DEF Leave
<1> QED
  BY <1>3, <1>4

LEMMA InventoryType == Inventory \subseteq DOMAIN Files
BY DEF Inventory

LEMMA AsleepType == Asleep \in DrainTypes /\ Asleep.receipt = "none"
BY DEF Asleep, DrainTypes

LEMMA StartDrainInv ==
    ASSUME QueueInv, NEW d \in Drainers, NEW apply \in BOOLEAN, StartDrain(d, apply)
    PROVE  QueueInv'
<1> DEFINE e == [pc |-> "draining", apply |-> apply, todo |-> Inventory, receipt |-> "none", clean |-> TRUE]
<1>1. e \in DrainTypes /\ e.receipt = "none"
  BY InventoryType DEF DrainTypes
<1>2. drain' = [drain EXCEPT ![d] = e] /\ UNCHANGED <<pending, drained, copies>>
  BY DEF StartDrain
<1> HIDE DEF e
<1> QED
  BY <1>1, <1>2, EmptyHanded

LEMMA PassOverInv ==
    ASSUME QueueInv, NEW d \in Drainers, PassOver(d)
    PROVE  QueueInv'
<1>1. PICK e \in DrainTypes :
         drain' = [drain EXCEPT ![d] = e] /\ e.receipt = "none"
  BY LeaveType DEF PassOver
<1> QED
  BY <1>1, EmptyHanded DEF PassOver

LEMMA RetainInv ==
    ASSUME QueueInv, NEW d \in Drainers, Retain(d)
    PROVE  QueueInv'
<1>1. PICK e \in DrainTypes :
         drain' = [drain EXCEPT ![d] = e] /\ e.receipt = "none"
  BY LeaveType DEF Retain
<1> QED
  BY <1>1, EmptyHanded DEF Retain

LEMMA KillDrainerInv ==
    ASSUME QueueInv, NEW d \in Drainers, KillDrainer(d)
    PROVE  QueueInv'
BY AsleepType, EmptyHanded DEF KillDrainer

LEMMA ExitInv ==
    ASSUME QueueInv, NEW d \in Drainers, Exit(d)
    PROVE  QueueInv'
<1> DEFINE old == drain[d]
           e == [old EXCEPT !.pc = "exited"]
<1>1. old \in DrainTypes /\ old.receipt = "none"
  BY DEF QueueInv, QueueTyped, ReceiptIsTrue, Exit
<1>2. e \in DrainTypes /\ e.receipt = "none"
  BY <1>1 DEF DrainTypes
<1>3. drain' = [drain EXCEPT ![d] = e] /\ UNCHANGED <<pending, drained, copies>>
  BY DEF Exit, QueueInv, QueueTyped
<1> HIDE DEF e
<1> QED
  BY <1>2, <1>3, EmptyHanded

\* The write: the receipt says what is stored, and a key is stored once.
LEMMA DeliverInv ==
    ASSUME QueueInv, NEW d \in Drainers, Deliver(d)
    PROVE  QueueInv'
<1> DEFINE f == File(d)
           old == drain[d]
           e(receipt) == [old EXCEPT !.receipt = receipt]
<1>1. f \in FileNames /\ f \notin Unreadable /\ old \in DrainTypes /\ old.todo # {}
  BY ForemostIn DEF Deliver, Draining, QueueInv, QueueTyped
<1>2. Verdict[f] \in Verdicts
  BY <1>1, VerdictAssumption DEF Verdicts
<1>3. /\ pending' \subseteq FileNames
      /\ drained' \in [FileNames -> Receipts \cup {"none"}]
      /\ pending' = pending /\ drained' = drained
  BY DEF Deliver, QueueInv, QueueTyped
<1>4. ASSUME NEW receipt \in Receipts, drain' = [drain EXCEPT ![d].receipt = receipt],
             copies' \in [FileNames -> Nat], \A g \in FileNames : copies[g] <= copies'[g],
             receipt \in Listed => copies'[f] >= 1, QueueIsAccounted'
      PROVE  QueueInv'
  <2>1. /\ e(receipt) \in DrainTypes /\ e(receipt).todo = old.todo
        /\ e(receipt).receipt = receipt
    BY <1>1 DEF DrainTypes
  <2>2. drain' = [drain EXCEPT ![d] = e(receipt)] /\ drain'[d] = e(receipt)
    BY <1>4 DEF QueueInv, QueueTyped
  <2> HIDE DEF e
  <2>3. File(d)' = File(d)
    BY <2>1, <2>2 DEF File, Foremost
  <2>4. ReceiptIsTrue(d)'
    BY <1>1, <1>4, <2>1, <2>2, <2>3 DEF ReceiptIsTrue, Receipts, Verdicts
  <2> QED
    BY <1>3, <1>4, <2>1, <2>2, <2>4, DrainerMoves
<1> HIDE DEF f
<1>5. CASE f \in Keyed /\ copies[f] > 0 /\ drain' = [drain EXCEPT ![d].receipt = "duplicate"] /\ UNCHANGED copies
  <2>1. QueueIsAccounted'
    BY <1>3, <1>5 DEF QueueInv, QueueIsAccounted
  <2>2. copies' \in [FileNames -> Nat] /\ copies'[f] >= 1 /\ \A g \in FileNames : copies[g] <= copies'[g]
    BY <1>1, <1>5 DEF QueueInv, QueueTyped
  <2> QED
    BY <1>4, <1>5, <2>1, <2>2 DEF Receipts
<1>6. CASE /\ f \notin Keyed \/ copies[f] = 0
           /\ drain' = [drain EXCEPT ![d].receipt = Verdict[f]]
           /\ copies' = IF Verdict[f] = "memory_rejected" THEN copies ELSE [copies EXCEPT ![f] = @ + 1]
  <2>1. copies' \in [FileNames -> Nat] /\ \A g \in FileNames : copies[g] <= copies'[g]
    BY <1>1, <1>6 DEF QueueInv, QueueTyped
  <2>2. Verdict[f] \in Listed => copies'[f] >= 1
    BY <1>1, <1>6 DEF QueueInv, QueueTyped, Listed
  <2>3. \A g \in FileNames : g \in Keyed => copies'[g] <= 1
    BY <1>1, <1>6 DEF QueueInv, QueueTyped, QueueIsAccounted
  <2>4. \A g \in FileNames : copies[g] >= 1 => copies'[g] >= 1
    BY <2>1 DEF QueueInv, QueueTyped
  <2>5. QueueIsAccounted'
    BY <1>3, <2>3, <2>4 DEF QueueInv, QueueIsAccounted
  <2> QED
    BY <1>2, <1>4, <1>6, <2>1, <2>2, <2>5 DEF Receipts
<1> QED
  BY <1>5, <1>6 DEF Deliver, f

LEMMA RecordReceiptInv ==
    ASSUME QueueInv, NEW d \in Drainers, RecordReceipt(d)
    PROVE  QueueInv'
<1> DEFINE f == File(d)
           old == drain[d]
           e == [old EXCEPT !.receipt = "recorded"]
<1>1. /\ f \in FileNames /\ old \in DrainTypes /\ old.receipt \in Receipts
      /\ f \notin Unreadable /\ old.todo # {} /\ (old.receipt \in Listed => copies[f] >= 1)
  BY ForemostIn DEF RecordReceipt, Draining, QueueInv, QueueTyped, DrainTypes, ReceiptIsTrue
<1>2. /\ drain' = [drain EXCEPT ![d] = e] /\ drain'[d] = e
      /\ drained' = [drained EXCEPT ![f] = old.receipt] /\ UNCHANGED <<pending, copies>>
  BY DEF RecordReceipt, QueueInv, QueueTyped
<1>3. e \in DrainTypes /\ e.todo = old.todo /\ e.receipt = "recorded"
  BY <1>1 DEF DrainTypes
<1>4. /\ drained' \in [FileNames -> Receipts \cup {"none"}] /\ drained'[f] = old.receipt
      /\ \A g \in FileNames : drained[g] # "none" => drained'[g] # "none"
  BY <1>1, <1>2 DEF QueueInv, QueueTyped, Receipts, Verdicts
<1>5. File(d)' = File(d)
  BY <1>2, <1>3 DEF File, Foremost
<1> HIDE DEF e
<1>6. ReceiptIsTrue(d)'
  BY <1>1, <1>2, <1>3, <1>4, <1>5 DEF ReceiptIsTrue, Listed, Receipts, Verdicts
<1>7. QueueIsAccounted'
  BY <1>1, <1>2, <1>4 DEF QueueInv, QueueTyped, QueueIsAccounted, Listed
<1>8. pending' \subseteq FileNames /\ copies' \in [FileNames -> Nat] /\ \A g \in FileNames : copies[g] <= copies'[g]
  BY <1>2 DEF QueueInv, QueueTyped
<1> QED
  BY <1>2, <1>3, <1>4, <1>6, <1>7, <1>8, DrainerMoves

LEMMA UnlinkInv ==
    ASSUME QueueInv, NEW d \in Drainers, Unlink(d)
    PROVE  QueueInv'
<1>1. PICK e \in DrainTypes : drain' = [drain EXCEPT ![d] = e] /\ e.receipt = "none"
  BY LeaveType DEF Unlink
<1>2. drain'[d] = e
  BY <1>1 DEF QueueInv, QueueTyped
<1>3. ReceiptIsTrue(d)'
  BY <1>1, <1>2 DEF ReceiptIsTrue
<1>4. drained[File(d)] # "none" /\ File(d) \notin Unreadable
  BY DEF Unlink, QueueInv, ReceiptIsTrue
<1>5. pending' = pending \ {File(d)} /\ UNCHANGED <<drained, copies>>
  BY DEF Unlink
<1>6. QueueIsAccounted'
  BY <1>4, <1>5 DEF QueueInv, QueueIsAccounted
<1>7. /\ pending' \subseteq FileNames /\ drained' \in [FileNames -> Receipts \cup {"none"}]
      /\ copies' \in [FileNames -> Nat] /\ \A g \in FileNames : copies[g] <= copies'[g]
  BY <1>5 DEF QueueInv, QueueTyped
<1> QED
  BY <1>1, <1>3, <1>5, <1>6, <1>7, DrainerMoves

LEMMA QueueInit == ReplayInit => QueueInv
<1> SUFFICES ASSUME ReplayInit PROVE QueueInv
  OBVIOUS
<1>1. QueueTyped
  BY AsleepType DEF ReplayInit, QueueTyped
<1>2. \A d \in Drainers : ReceiptIsTrue(d)
  BY AsleepType DEF ReplayInit, ReceiptIsTrue
<1>3. QueueIsAccounted
  BY DEF ReplayInit, QueueIsAccounted
<1> QED
  BY <1>1, <1>2, <1>3 DEF QueueInv

LEMMA QueueStep ==
    ASSUME QueueInv, QueueNext
    PROVE  QueueInv'
BY StartDrainInv, PassOverInv, DeliverInv, RecordReceiptInv, UnlinkInv, ExitInv, RetainInv, KillDrainerInv
   DEF QueueNext, Handle

LEMMA QueueRests ==
    ASSUME QueueInv, UNCHANGED queue
    PROVE  QueueInv'
<1>1. QueueTyped'
  BY DEF QueueInv, QueueTyped, queue
<1>2. QueueIsAccounted'
  BY DEF QueueInv, QueueIsAccounted, queue
<1>3. \A d \in Drainers : ReceiptIsTrue(d)'
  BY DEF QueueInv, ReceiptIsTrue, File, Foremost, queue
<1> QED
  BY <1>1, <1>2, <1>3 DEF QueueInv

---------------------------------------------------------------------------
LEMMA ReplayStep ==
    ASSUME PublicationInv, QueueInv, [ReplayNext]_replayVars
    PROVE  PublicationInv' /\ QueueInv'
<1>1. CASE PublicationNext /\ UNCHANGED queue
  BY <1>1, PublicationStep, QueueRests
<1>2. CASE QueueNext /\ UNCHANGED publication
  BY <1>2, QueueStep, PublicationRests
<1>3. CASE UNCHANGED replayVars
  BY <1>3, PublicationRests, QueueRests DEF replayVars
<1> QED
  BY <1>1, <1>2, <1>3 DEF ReplayNext

\* Whatever editions, damage, concurrent and killed runs led to it, a stored
\* candidate is the one effect its key describes, and a run reports as stored only
\* what is (publication_identity.py).
THEOREM Published == ReplaySpec => []PublishedAsDescribed
<1>1. ReplayInit => PublicationInv /\ QueueInv
  BY PublicationInit, QueueInit
<1>2. PublicationInv /\ QueueInv /\ [ReplayNext]_replayVars => (PublicationInv /\ QueueInv)'
  BY ReplayStep
<1> QED
  BY <1>1, <1>2, PublicationMeans, PTL DEF ReplaySpec

\* No queued write disappears in a drain, and a keyed one is stored once, wherever
\* drains are killed and however many run (legacy_write_queue.py, ADR-070).
THEOREM Drained == ReplaySpec => []QueueIsAccounted
<1>1. ReplayInit => PublicationInv /\ QueueInv
  BY PublicationInit, QueueInit
<1>2. PublicationInv /\ QueueInv /\ [ReplayNext]_replayVars => (PublicationInv /\ QueueInv)'
  BY ReplayStep
<1>3. QueueInv => QueueIsAccounted
  BY DEF QueueInv
<1> QED
  BY <1>1, <1>2, <1>3, PTL DEF ReplaySpec
=============================================================================
