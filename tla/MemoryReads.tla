----------------------------- MODULE MemoryReads -----------------------------
(***************************************************************************)
(* The two ways to read memory beside the writers: memory.search, which    *)
(* fuses the canonical window with the hits of a projection, and the graph *)
(* operations, which run on a bounded pool while their caller waits for at *)
(* most the request budget.  Both re-read every record a provider names    *)
(* before they serve it, one at a time, while records are retired and      *)
(* restored.                                                               *)
(*                                                                         *)
(* Time is not counted: a budget may turn out to be spent wherever the     *)
(* code looks at what is left of it, and a caller may give up any time.    *)
(* What the providers hold, the query and its rank limits are fixed.       *)
(***************************************************************************)
EXTENDS Naturals, FiniteSets, Sequences

CONSTANTS
    Calls,         \* callers, each with one request at a time
    Requests,      \* Requests[c]: the kinds of request c makes, and if required
    Records,       \* records some provider or the store may name
    Scoped,        \* those of the caller's tenant, namespaces and time
    Retired,       \* what may be retired to begin with
    Recent,        \* the window search_records reads
    Namespaces,    \* the namespaces of a graph search
    Indexed,       \* Indexed[n]: records a search of n hits
    EntityHits,    \* entities a graph search hits that name no record
    Anchor,        \* the record a structural request starts from
    Observations,  \* what a structural operation may be answered
    Support,       \* Support[x]: the episodes behind a node or an edge
    Ends,          \* Ends[e]: the nodes an edge leads from and to
    InScope,       \* nodes and edges of the groups the caller may read
    Direction,     \* "out", "in" or "both": how the hops of a path must point
    Workers, Backlog,              \* _REQUEST_POOL
    SearchWorkers, SearchBacklog,  \* _SEARCH_POOL
    MaxMoves,      \* bound: lifecycle changes
    MaxFaults      \* bound: failures of store and providers

Kinds == {"memory", "search", "structure", "analytic"}

\* A backend that does not call its answer truncated, and names nothing of other
\* groups, names every node there is.
ASSUME ObservationsAssumption ==
    /\ \A o \in Observations :
        /\ o \in [nodes : {o.nodes}, edges : {o.edges}, paths : {o.paths}, truncated : BOOLEAN]
        /\ \A p \in o.paths : p.edges \in Seq({p.edges[i] : i \in DOMAIN p.edges})
    /\ \A o, more \in Observations :
        ~o.truncated /\ o.nodes \subseteq InScope => more.nodes \cap InScope \subseteq o.nodes

ASSUME ReadsAssumption ==
    /\ Requests \in [Calls -> SUBSET (Kinds \X BOOLEAN)]
    /\ Scoped \cup Recent \cup {Anchor} \subseteq Records
    /\ Indexed \in [Namespaces -> SUBSET Records]
    /\ Direction \in {"out", "in", "both"}
    /\ Workers \in Nat \ {0} /\ SearchWorkers \in Nat \ {0}
    /\ Backlog \in Nat /\ SearchBacklog \in Nat
    /\ MaxMoves \in Nat /\ MaxFaults \in Nat

VARIABLES
    active,   \* records that are ACTIVE
    moves,    \* lifecycle changes so far
    backend,  \* whether the graph backend is up
    cached,   \* the health report in use: "up", "down" or "unknown"
    catalog,  \* calls whose projected graph is in the GDS catalog
    call,     \* call[c]: the request of c and where its work is
    slots,    \* calls whose work holds a slot of the request pool
    fetch,    \* fetch[c]: the search call of c on the search pool
    answer,   \* answer[c]: what c was told, or Waiting
    seen,     \* seen[c]: records admissible at some time since c asked
    steady,   \* steady[c]: records admissible all the time since c asked
    faults    \* failures so far

vars == <<active, moves, backend, cached, catalog, call, slots, fetch, answer, seen, steady, faults>>

NoGraph == [nodes |-> {}, edges |-> {}, paths |-> {}, truncated |-> FALSE]
Nothing == [kind |-> "none", required |-> FALSE, at |-> "idle", todo |-> {}, kept |-> {},
            reads |-> {}, ok |-> {}, graph |-> NoGraph, flawed |-> FALSE, served |-> FALSE]
Waiting == [status |-> "WAITING", kind |-> "none", records |-> {}, graph |-> NoGraph]
Failed == [Waiting EXCEPT !.status = "FAILED"]
Raised == [Waiting EXCEPT !.status = "RAISED"]

Init ==
    /\ \E retired \in Retired : active = Records \ retired
    /\ moves = 0
    /\ backend = "up"
    /\ cached = "unknown"
    /\ catalog = {}
    /\ call = [c \in Calls |-> Nothing]
    /\ slots = {}
    /\ fetch = [c \in Calls |-> "none"]
    /\ answer = [c \in Calls |-> Failed]
    /\ seen = [c \in Calls |-> {}]
    /\ steady = [c \in Calls |-> {}]
    /\ faults = 0

---------------------------------------------------------------------------
\* The world beside the readers.
Admissible(records) == records \cap Scoped

\* search_records: the recent records that are current and in scope.
Window == Admissible(active) \cap Recent

Fault == faults < MaxFaults /\ faults' = faults + 1

Move(records) ==
    /\ moves < MaxMoves
    /\ moves' = moves + 1
    /\ active' = records
    /\ seen' = [c \in Calls |->
          IF answer[c] = Waiting THEN seen[c] \cup Admissible(records) ELSE seen[c]]
    /\ steady' = [c \in Calls |->
          IF answer[c] = Waiting THEN steady[c] \cap records ELSE steady[c]]
    /\ UNCHANGED <<backend, cached, catalog, call, slots, fetch, answer, faults>>

Retire(r) == r \in active /\ Move(active \ {r})
Restore(r) == r \notin active /\ Move(active \cup {r})

BackendMoves ==
    /\ \/ backend = "up" /\ backend' = "down" /\ Fault
       \/ backend = "down" /\ backend' = "up" /\ UNCHANGED faults
    /\ UNCHANGED <<active, moves, cached, catalog, call, slots, fetch, answer, seen, steady>>

\* The cached report is older than health_ttl_seconds.
HealthExpires ==
    /\ cached # "unknown"
    /\ cached' = "unknown"
    /\ UNCHANGED <<active, moves, backend, catalog, call, slots, fetch, answer, seen, steady, faults>>

World == <<active, moves, backend, seen, steady>>
Elsewhere == <<World, cached, catalog, slots, fetch, answer, faults>>

---------------------------------------------------------------------------
\* A call: memory.search runs on its caller's thread, a graph operation on the
\* request pool, which refuses what it has no slot for.
Ask(c) ==
    \E request \in Requests[c] :
        LET kind == request[1]
            admitted == kind = "memory" \/ Cardinality(slots) < Workers + Backlog IN
        /\ call[c] = Nothing /\ fetch[c] = "none" /\ answer[c] # Waiting
        /\ call' = IF admitted
                   THEN [call EXCEPT ![c] = [Nothing EXCEPT
                            !.kind = kind, !.required = request[2], !.todo = Namespaces,
                            !.at = IF kind = "memory" THEN "window" ELSE "queued"]]
                   ELSE call
        /\ slots' = IF admitted /\ kind # "memory" THEN slots \cup {c} ELSE slots
        /\ answer' = [answer EXCEPT ![c] = IF admitted THEN Waiting ELSE Failed]
        /\ seen' = [seen EXCEPT ![c] = Admissible(active)]
        /\ steady' = [steady EXCEPT ![c] = Admissible(active)]
        /\ UNCHANGED <<active, moves, backend, cached, catalog, fetch, faults>>

\* Mutation: a request that is cancelled in the queue keeps its slot.
GiveUpKeepsSlot(c) ==
    /\ answer[c] = Waiting /\ c \in slots
    /\ answer' = [answer EXCEPT ![c] = Failed]
    /\ call' = IF call[c].at = "queued" THEN [call EXCEPT ![c] = Nothing] ELSE call
    /\ UNCHANGED <<World, cached, catalog, slots, fetch, faults>>

\* The budget ends the wait.  Queued work is cancelled and its slot released;
\* work under way goes on and holds its slot until it ends.
GiveUp(c) ==
    /\ answer[c] = Waiting /\ c \in slots
    /\ answer' = [answer EXCEPT ![c] = Failed]
    /\ IF call[c].at = "queued"
       THEN call' = [call EXCEPT ![c] = Nothing] /\ slots' = slots \ {c}
       ELSE UNCHANGED <<call, slots>>
    /\ UNCHANGED <<World, cached, catalog, fetch, faults>>

Running == {c \in slots : call[c].at # "queued"}

\* health() asks the backend when its report has expired.
Health == IF cached = "unknown" THEN backend ELSE cached

Start(c) ==
    /\ call[c].at = "queued" /\ Cardinality(Running) < Workers
    /\ cached' = Health
    /\ call' = [call EXCEPT ![c].served = (Health = "up"),
                            ![c].at = IF call[c].kind = "search" THEN "fan" ELSE "anchor"]
    /\ UNCHANGED <<World, catalog, slots, fetch, answer, faults>>

\* The work ends: its receipt reaches the caller, unless he has given up.
Tell(c, receipt) ==
    /\ answer' = IF answer[c] = Waiting THEN [answer EXCEPT ![c] = receipt] ELSE answer
    /\ call' = [call EXCEPT ![c] = Nothing]
    /\ slots' = slots \ {c}
    /\ UNCHANGED <<World, cached, catalog>>

Refuse(c) == Tell(c, Failed) /\ UNCHANGED faults

---------------------------------------------------------------------------
\* memory.search: the canonical window first...
ReadWindow(c) ==
    /\ call[c].at = "window"
    /\ \/ /\ call' = [call EXCEPT ![c].at = "strategy",
                                  ![c].kept = Window]
          /\ UNCHANGED <<World, cached, catalog, slots, fetch, answer, faults>>
       \/ Fault /\ Tell(c, Failed) /\ UNCHANGED fetch

\* ...then the projection; one that fails is a failed strategy.
AskProjection(c) ==
    LET hits == UNION {Indexed[n] : n \in Namespaces} IN
    /\ call[c].at = "strategy"
    /\ \/ /\ call' = [call EXCEPT ![c].at = "read", ![c].reads = hits \ call[c].kept]
          /\ UNCHANGED faults
       \/ /\ call' = [call EXCEPT ![c].at = "finish", ![c].flawed = TRUE]
          /\ Fault
    /\ UNCHANGED <<World, cached, catalog, slots, fetch, answer>>

---------------------------------------------------------------------------
\* graph.search: one search call per namespace, on the search pool.
OnSearchPool == {c \in Calls : fetch[c] \in {"queued", "running"}}

\* A namespace that was searched has its entity hits, too.
GatheredNothing(c) ==
    call[c].kept = {} /\ (call[c].todo = Namespaces \/ EntityHits = {})

\* Mutation: hits gathered until the budget ends pass for all of them.
StopUnnoticed(c) ==
    IF GatheredNothing(c) THEN Refuse(c)
    ELSE /\ call' = [call EXCEPT ![c].at = "hits", ![c].todo = {},
                                 ![c].reads = call[c].kept, ![c].kept = {}]
         /\ UNCHANGED <<World, cached, catalog, slots, answer, faults>>

\* Deadline or capacity: the hits there are are used, if there are any.
Stop(c) ==
    IF GatheredNothing(c) THEN Refuse(c)
    ELSE /\ call' = [call EXCEPT ![c].at = "hits", ![c].todo = {}, ![c].flawed = TRUE,
                                 ![c].reads = call[c].kept, ![c].kept = {}]
         /\ UNCHANGED <<World, cached, catalog, slots, answer, faults>>

Fan(c) ==
    /\ call[c].at = "fan"
    /\ \/ /\ call[c].todo = {}
          /\ call' = [call EXCEPT ![c].at = "hits", ![c].reads = call[c].kept, ![c].kept = {}]
          /\ UNCHANGED Elsewhere
       \/ /\ call[c].todo # {} /\ fetch[c] = "none"
          /\ Cardinality(OnSearchPool) < SearchWorkers + SearchBacklog
          /\ fetch' = [fetch EXCEPT ![c] = "queued"]
          /\ call' = [call EXCEPT ![c].at = "await"]
          /\ UNCHANGED <<World, cached, catalog, slots, answer, faults>>
       \/ /\ call[c].todo # {}
          /\ Cardinality(OnSearchPool) >= SearchWorkers + SearchBacklog
          /\ Stop(c) /\ UNCHANGED fetch
       \/ /\ call[c].todo # {}
          /\ Stop(c) /\ UNCHANGED fetch

FetchRuns(c) ==
    /\ fetch[c] = "queued"
    /\ Cardinality({d \in Calls : fetch[d] = "running"}) < SearchWorkers
    /\ fetch' = [fetch EXCEPT ![c] = "running"]
    /\ UNCHANGED <<World, cached, catalog, call, slots, answer, faults>>

\* The provider answers or fails, in its transport's time limit at the latest.
\* Nobody collects the answer of an abandoned call.
FetchEnds(c) ==
    /\ fetch[c] = "running"
    /\ \/ /\ fetch' = [fetch EXCEPT ![c] = IF call[c].at = "await" THEN "done" ELSE "none"]
          /\ UNCHANGED faults
       \/ /\ fetch' = [fetch EXCEPT ![c] = IF call[c].at = "await" THEN "failed" ELSE "none"]
          /\ Fault
    /\ UNCHANGED <<World, cached, catalog, call, slots, answer>>

\* A wait that ends first cancels a queued call and abandons a running one.
Collect(c) ==
    /\ call[c].at = "await"
    /\ \/ /\ fetch[c] = "done"
          /\ fetch' = [fetch EXCEPT ![c] = "none"]
          /\ \E n \in call[c].todo :
                call' = [call EXCEPT ![c].at = "fan", ![c].todo = @ \ {n},
                                     ![c].kept = @ \cup Indexed[n]]
          /\ UNCHANGED <<World, cached, catalog, slots, answer, faults>>
       \/ /\ fetch[c] = "failed"
          /\ fetch' = [fetch EXCEPT ![c] = "none"]
          /\ Refuse(c)
       \/ /\ fetch' = [fetch EXCEPT ![c] = IF @ = "running" THEN @ ELSE "none"]
          /\ Stop(c)

\* Entity hits are bound to their support by the graph backend, if it serves;
\* without it they are reported as unsupported, which is no failure.  The backend
\* may be down, and the budget may be spent any time.
Bind(c) ==
    /\ call[c].at = "hits" /\ call[c].reads = {}
    /\ \/ /\ ~call[c].served \/ EntityHits = {}
          /\ call' = [call EXCEPT ![c].at = "finish"]
          /\ UNCHANGED faults
       \/ /\ call[c].served /\ EntityHits # {} /\ backend = "up"
          /\ call' = [call EXCEPT ![c].at = "read", ![c].ok = {},
                                  ![c].graph = [NoGraph EXCEPT !.nodes = EntityHits],
                                  ![c].reads = UNION {Support[x] : x \in EntityHits}]
          /\ UNCHANGED faults
       \/ /\ call[c].served /\ EntityHits # {}
          /\ call' = [call EXCEPT ![c].at = "finish", ![c].flawed = TRUE]
          /\ UNCHANGED faults
    /\ UNCHANGED <<World, cached, catalog, slots, fetch, answer>>

---------------------------------------------------------------------------
\* Structural operations: the anchor must be a current record in scope.
ReadAnchor(c) ==
    /\ call[c].at = "anchor"
    /\ \/ /\ call[c].served /\ Anchor \in Admissible(active)
          /\ call' = [call EXCEPT ![c].at = IF call[c].kind = "analytic" THEN "project" ELSE "provider"]
          /\ UNCHANGED Elsewhere
       \/ /\ ~call[c].served \/ Anchor \notin Admissible(active)
          /\ Refuse(c) /\ UNCHANGED fetch
       \/ call[c].served /\ Fault /\ Tell(c, Raised) /\ UNCHANGED fetch

\* An analytic projects the scope, which has relationships here (one that has none
\* yields no scores), into the catalog, streams and drops it.  It
\* may end before there is anything to drop; the statement that makes the graph
\* may fail with the graph made.
Project(c) ==
    /\ call[c].at = "project"
    /\ \/ /\ backend = "up"
          /\ catalog' = catalog \cup {c}
          /\ \/ call' = [call EXCEPT ![c].at = "stream"] /\ UNCHANGED faults
             \/ call' = [call EXCEPT ![c].at = "discard"] /\ Fault
          /\ UNCHANGED <<World, cached, slots, answer>>
       \/ /\ backend = "down"
          /\ call' = [call EXCEPT ![c].at = "discard"]
          /\ UNCHANGED <<World, cached, catalog, slots, answer, faults>>
       \/ Refuse(c)
    /\ UNCHANGED fetch

\* Mutation: an operation that fails leaves its graph behind.
StreamMayLeave(c) ==
    /\ call[c].at = "stream"
    /\ \/ /\ backend = "up"
          /\ call' = [call EXCEPT ![c].at = "drop"]
          /\ UNCHANGED Elsewhere
       \/ Refuse(c) /\ UNCHANGED fetch

Stream(c) ==
    /\ call[c].at = "stream"
    /\ \/ /\ backend = "up"
          /\ call' = [call EXCEPT ![c].at = "drop"]
       \/ call' = [call EXCEPT ![c].at = "discard"]
    /\ UNCHANGED Elsewhere

\* The drop runs though the budget is spent.  One that fails is counted, and
\* reported if the operation goes on; the graph is nobody's from then on.
Drop(c) ==
    LET next == IF call[c].at = "drop" THEN "provider" ELSE "refuse" IN
    /\ call[c].at \in {"drop", "discard"}
    /\ catalog' = catalog \ {c}
    /\ \/ /\ backend = "up"
          /\ call' = [call EXCEPT ![c].at = next]
          /\ UNCHANGED faults
       \/ /\ call' = [call EXCEPT ![c].at = next, ![c].flawed = TRUE]
          /\ IF backend = "up" THEN Fault ELSE UNCHANGED faults
    /\ UNCHANGED <<World, cached, slots, fetch, answer>>

\* What the backend answers: nodes, edges and paths with the episodes behind
\* them.  A cap reached and items of other groups make the answer a partial one.
OutOfScope(graph) == (graph.nodes \cup graph.edges) \ InScope

Answered(c, o) ==
    call' = [call EXCEPT ![c].at = "read", ![c].graph = o,
                ![c].flawed = @ \/ o.truncated \/ OutOfScope(o) # {},
                ![c].reads = UNION {Support[x] : x \in (o.nodes \cup o.edges) \cap InScope}]

Traverse(c) ==
    /\ call[c].kind = "structure" /\ call[c].at = "provider" /\ backend = "up"
    /\ \E o \in Observations : Answered(c, o)
    /\ UNCHANGED Elsewhere

\* The scores streamed before name nodes, which are looked up now.
Score(c) ==
    /\ call[c].kind = "analytic" /\ call[c].at = "provider" /\ backend = "up"
    /\ \E o \in Observations : Answered(c, [NoGraph EXCEPT !.nodes = o.nodes, !.truncated = o.truncated])
    /\ UNCHANGED Elsewhere

\* An error, or an answer after the budget was spent.
PortFails(c) ==
    /\ call[c].at \in {"provider", "refuse"}
    /\ Refuse(c)
    /\ UNCHANGED fetch

---------------------------------------------------------------------------
\* Mutation: a record that is there is served, current or not.
RereadExisting(c, r) ==
    LET found == {r} \cap Scoped IN
    IF call[c].kind = "memory" \/ call[c].at = "hits"
    THEN call' = [call EXCEPT ![c].reads = @ \ {r}, ![c].kept = @ \cup found]
    ELSE call' = [call EXCEPT ![c].reads = @ \ {r}, ![c].ok = @ \cup found]

\* A record a provider named is read from the store and admitted if it is
\* current and in scope.
Reread(c, r) ==
    LET found == {r} \cap Admissible(active) IN
    IF call[c].kind = "memory" \/ call[c].at = "hits"
    THEN call' = [call EXCEPT ![c].reads = @ \ {r}, ![c].kept = @ \cup found]
    ELSE call' = [call EXCEPT ![c].reads = @ \ {r}, ![c].ok = @ \cup found]

Read(c) ==
    /\ call[c].at \in {"hits", "read"}
    /\ \E r \in call[c].reads : Reread(c, r)
    /\ UNCHANGED Elsewhere

\* The store fails: the search of memory raises, hits cannot be served, and
\* what the graph backend answered is left out.
ReadFails(c) ==
    /\ call[c].at \in {"hits", "read"} /\ call[c].reads # {}
    /\ Fault
    /\ \/ call[c].kind = "memory" /\ Tell(c, Raised) /\ UNCHANGED fetch
       \/ call[c].at = "hits" /\ Tell(c, Failed) /\ UNCHANGED fetch
       \/ /\ call[c].kind # "memory" /\ call[c].at = "read"
          /\ call' = [call EXCEPT ![c].at = "finish", ![c].flawed = TRUE,
                                  ![c].graph = NoGraph, ![c].reads = {}]
          /\ UNCHANGED <<World, cached, catalog, slots, fetch, answer>>

\* Every hop is carried by a supported edge that joins its two nodes.
Joins(e, from, to) ==
    \/ Direction \in {"out", "both"} /\ Ends[e] = <<from, to>>
    \/ Direction \in {"in", "both"} /\ Ends[e] = <<to, from>>

Repeats(q) == \E i, j \in DOMAIN q : i # j /\ q[i] = q[j]

Carried(path, edges) ==
    /\ ~Repeats(path.nodes) /\ ~Repeats(path.edges)
    /\ Len(path.nodes) = Len(path.edges) + 1
    /\ \A i \in DOMAIN path.edges :
        /\ path.edges[i] \in edges
        /\ Joins(path.edges[i], path.nodes[i], path.nodes[i + 1])

\* What of an answer has canonical support.
Supported(items, ok) == {x \in items \cap InScope : Support[x] \cap ok # {}}

Linked(graph, ok) ==
    LET nodes == Supported(graph.nodes, ok)
        edges == Supported(graph.edges, ok)
    IN [graph EXCEPT
          !.nodes = nodes,
          !.edges = edges,
          !.paths = {p \in @ : (\A i \in DOMAIN p.nodes : p.nodes[i] \in nodes) /\ Carried(p, edges)}]

Status(c) ==
    CASE ~call[c].flawed -> "COMPLETE"
      [] call[c].flawed /\ call[c].required -> "FAILED"
      [] OTHER -> "PARTIAL"

Finish(c) ==
    LET graph == Linked(call[c].graph, call[c].ok)
        cited == UNION {Support[x] \cap call[c].ok : x \in graph.nodes \cup graph.edges} IN
    /\ \/ call[c].at = "finish"
       \/ call[c].at = "read" /\ call[c].reads = {}
    /\ Tell(c, IF Status(c) = "FAILED" THEN Failed
               ELSE [status |-> Status(c), kind |-> call[c].kind,
                     records |-> call[c].kept \cup cited, graph |-> graph])
    /\ UNCHANGED <<fetch, faults>>

---------------------------------------------------------------------------
Work(c) ==
    \/ Start(c) \/ ReadWindow(c) \/ AskProjection(c)
    \/ Fan(c) \/ Collect(c) \/ Bind(c)
    \/ ReadAnchor(c) \/ Project(c) \/ Stream(c) \/ Drop(c)
    \/ Traverse(c) \/ Score(c) \/ PortFails(c)
    \/ Read(c) \/ ReadFails(c) \/ Finish(c)

Next ==
    \/ \E r \in Scoped : Retire(r) \/ Restore(r)
    \/ BackendMoves \/ HealthExpires
    \/ \E c \in Calls : Ask(c) \/ GiveUp(c) \/ Work(c) \/ FetchRuns(c) \/ FetchEnds(c)

\* Budgets end, work that can go on goes on, and every provider call ends, at
\* the latest in the time limit of its transport or statement.
Spec ==
    /\ Init /\ [][Next]_vars
    /\ \A c \in Calls :
        WF_vars(Work(c)) /\ WF_vars(GiveUp(c)) /\ WF_vars(FetchRuns(c)) /\ WF_vars(FetchEnds(c))

---------------------------------------------------------------------------
\* An answer rests on canonical memory alone: every record it cites was ACTIVE
\* and in the caller's scope at some moment since he asked, whatever the
\* providers named and however the record moved meanwhile; every node and edge
\* has such a record behind it; and every hop of a path is joined by an edge
\* that has one ("rather than borrowing support from elsewhere", evidence.py).
ServedIsSupported ==
    \A c \in Calls :
        LET graph == answer[c].graph IN
        /\ answer[c].records \subseteq seen[c]
        /\ \A x \in graph.nodes \cup graph.edges : Support[x] \cap seen[c] # {}
        /\ \A p \in graph.paths : \A i \in 1..(Len(p.nodes) - 1) :
              \E e \in graph.edges : Joins(e, p.nodes[i], p.nodes[i + 1])

\* COMPLETE means nothing was lost on the way ("never an empty COMPLETE",
\* GI-029): whatever store or provider names, and was current and in scope all
\* the time since the caller asked, is in the answer, although namespaces are
\* searched one by one against a deadline and every part can fail.
CompleteMeansAll ==
    \A c \in Calls :
        LET hits == UNION {Indexed[n] : n \in Namespaces}
            nodes == (UNION {o.nodes : o \in Observations}) \cap InScope IN
        answer[c].status = "COMPLETE" =>
            CASE answer[c].kind = "memory" -> (hits \cup Recent) \cap steady[c] \subseteq answer[c].records
              [] answer[c].kind = "search" -> hits \cap steady[c] \subseteq answer[c].records
              [] OTHER -> \A x \in nodes :
                             Support[x] \cap steady[c] # {} => x \in answer[c].graph.nodes

\* A graph projected into the catalog outlives its operation only if its drop
\* failed, which is counted: a spent budget, a failed statement or a caller who
\* gave up leave none ("Project the authorized scope, ..., always drop").
CatalogIsSwept ==
    \A c \in catalog : call[c].at \in {"stream", "drop", "discard"}

\* A stalled provider does not take the pools with it: once its calls end, the
\* slots of requests whose callers are long gone are free again, and so are
\* those of search calls nobody waits for.
SlotsComeBack ==
    \A c \in Calls : []<>(c \notin slots /\ fetch[c] = "none")
=============================================================================
