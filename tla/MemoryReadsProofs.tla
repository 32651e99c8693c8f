------------------------- MODULE MemoryReadsProofs -------------------------
(***************************************************************************)
(* Proofs about MemoryReads, for any callers, records, namespaces, pools   *)
(* and answers of the providers: what an answer says is true of canonical  *)
(* memory, a complete one says all of it, and no catalog graph is left.    *)
(*                                                                         *)
(* The invariant follows each request while it is worked on.  What it has  *)
(* kept or admitted was admissible at some time since it was asked (Sound),*)
(* and unless it is flawed, whatever was admissible all the time is kept   *)
(* or still to be read, at every place the work can be at (Account).  Only *)
(* a re-read moves a record from the one set to the other, and it loses    *)
(* none that is current at that moment, so none that always was.           *)
(***************************************************************************)
EXTENDS MemoryReads, TLAPS

\* What providers may name: items and paths, and the records they cite.
Items == EntityHits \cup UNION {o.nodes \cup o.edges : o \in Observations}
Paths == UNION {o.paths : o \in Observations}
Hits  == UNION {Indexed[n] : n \in Namespaces}
Nodes == (UNION {o.nodes : o \in Observations}) \cap InScope
Cites == Records \cup UNION {Support[x] : x \in Items}

Graphs == [nodes : SUBSET Items, edges : SUBSET Items, paths : SUBSET Paths, truncated : BOOLEAN]

\* Where the work for a request of each kind can be.
Places(kind) ==
    CASE kind = "memory"    -> {"window", "strategy", "read", "finish"}
      [] kind = "search"    -> {"queued", "fan", "await", "hits", "read", "finish"}
      [] kind = "structure" -> {"queued", "anchor", "provider", "read", "finish"}
      [] kind = "analytic"  -> {"queued", "anchor", "project", "stream", "drop", "discard",
                                "provider", "refuse", "read", "finish"}
      [] OTHER              -> {"idle"}

CallTypes ==
    [kind : Kinds \cup {"none"}, required : BOOLEAN, at : UNION {Places(k) : k \in Kinds \cup {"none"}},
     todo : SUBSET Namespaces, kept : SUBSET Cites, reads : SUBSET Cites, ok : SUBSET Cites,
     graph : Graphs, flawed : BOOLEAN, served : BOOLEAN]

AnswerTypes ==
    [status : {"WAITING", "FAILED", "RAISED", "COMPLETE", "PARTIAL"}, kind : Kinds \cup {"none"},
     records : SUBSET Cites, graph : Graphs]

TypeOK ==
    /\ active \subseteq Records
    /\ backend \in {"up", "down"}
    /\ cached \in {"up", "down", "unknown"}
    /\ catalog \subseteq Calls
    /\ call \in [Calls -> CallTypes]
    /\ answer \in [Calls -> AnswerTypes]
    /\ seen \in [Calls -> SUBSET Scoped]
    /\ steady \in [Calls -> SUBSET Scoped]

\* Nothing that was current all the time is lost on the way to an answer that is not
\* flawed: what w, the work for a request, has to bring is kept or still to be read.
Account(w, T) ==
    /\ w.kind = "memory" =>
          /\ w.at = "strategy" => Recent \cap T \subseteq w.kept
          /\ w.at = "read" => (Hits \cup Recent) \cap T \subseteq w.kept \cup w.reads
          /\ w.at # "finish"
    /\ w.kind = "search" =>
          /\ w.at = "queued" => w.todo = Namespaces
          /\ w.at \in {"fan", "await"} => \A n \in Namespaces \ w.todo : Indexed[n] \subseteq w.kept
          /\ w.at = "hits" => Hits \cap T \subseteq w.kept \cup w.reads
          /\ w.at \in {"read", "finish"} => Hits \cap T \subseteq w.kept
    /\ w.kind \in {"structure", "analytic"} =>
          /\ w.at = "read" =>
                \A x \in Nodes : x \in w.graph.nodes /\ Support[x] \cap T \subseteq w.ok \cup w.reads
          /\ w.at # "finish"

\* The work w for a caller who still waits: hits of a fan out are candidates, everything
\* else kept was admitted.
Sound(w, S, T) ==
    /\ w.at \notin {"fan", "await"} => w.kept \subseteq S
    /\ w.ok \subseteq S
    /\ ~w.flawed => Account(w, T)

Works(c) ==
    answer[c] = Waiting =>
        /\ steady[c] \subseteq active
        /\ active \cap Scoped \subseteq seen[c]
        /\ Sound(call[c], seen[c], steady[c])

\* What an answer a may say, given what was admissible at some time, S, and all the
\* time, T.
Supports(a, S) ==
    /\ a.records \subseteq S
    /\ \A x \in a.graph.nodes \cup a.graph.edges : Support[x] \cap S # {}
    /\ \A p \in a.graph.paths : \A i \in 1..(Len(p.nodes) - 1) :
          \E e \in a.graph.edges : Joins(e, p.nodes[i], p.nodes[i + 1])

Brings(a, T) ==
    a.status = "COMPLETE" =>
        /\ a.kind = "memory" => (Hits \cup Recent) \cap T \subseteq a.records
        /\ a.kind = "search" => Hits \cap T \subseteq a.records
        /\ a.kind \notin {"memory", "search"} =>
              \A x \in Nodes : Support[x] \cap T # {} => x \in a.graph.nodes

IInv ==
    /\ TypeOK
    /\ \A c \in Calls :
        /\ call[c].at \in Places(call[c].kind)
        /\ Works(c)
        /\ Supports(answer[c], seen[c])
        /\ Brings(answer[c], steady[c])
    /\ CatalogIsSwept

---------------------------------------------------------------------------
LEMMA NoGraphType == NoGraph \in Graphs /\ NoGraph.nodes = {} /\ NoGraph.edges = {} /\ NoGraph.paths = {}
BY DEF NoGraph, Graphs

LEMMA NothingType ==
    /\ Nothing \in CallTypes /\ Nothing.kind = "none" /\ Nothing.at = "idle"
    /\ Nothing.kept = {} /\ Nothing.reads = {} /\ Nothing.ok = {} /\ Nothing.graph = NoGraph
    /\ Nothing.flawed = FALSE
BY NoGraphType DEF Nothing, CallTypes, Places

LEMMA ReceiptTypes ==
    \A a \in {Waiting, Failed, Raised} :
        /\ a \in AnswerTypes /\ a.status # "COMPLETE"
        /\ a.records = {} /\ a.graph = NoGraph
BY NoGraphType DEF Waiting, Failed, Raised, AnswerTypes

LEMMA NotWaiting == Failed # Waiting /\ Raised # Waiting
BY DEF Failed, Raised, Waiting

\* An answer that says nothing says nothing untrue.
LEMMA Silent ==
    ASSUME NEW a \in {Waiting, Failed, Raised}, NEW S, NEW T
    PROVE  Supports(a, S) /\ Brings(a, T)
BY ReceiptTypes, NoGraphType DEF Supports, Brings

\* Work that has just been taken in, or has ended, holds nothing.
LEMMA NothingSound ==
    ASSUME NEW S, NEW T
    PROVE  Sound(Nothing, S, T)
BY NothingType DEF Sound, Account

\* What was admissible only grows, what always was only shrinks.
LEMMA SoundLater ==
    ASSUME NEW w, NEW S, NEW T, NEW later, NEW less, S \subseteq later, less \subseteq T, Sound(w, S, T)
    PROVE  Sound(w, later, less)
BY DEF Sound, Account

LEMMA AnswerLater ==
    ASSUME NEW a, NEW S, NEW T, NEW later, NEW less, S \subseteq later, less \subseteq T,
           Supports(a, S), Brings(a, T)
    PROVE  Supports(a, later) /\ Brings(a, less)
<1>1. Supports(a, later)
  BY DEF Supports
<1>2. Brings(a, less)
  BY DEF Brings
<1> QED
  BY <1>1, <1>2

---------------------------------------------------------------------------
\* A step of the work of one call that goes on.
LEMMA WorkMoves ==
    ASSUME IInv, NEW c \in Calls, NEW e \in CallTypes, call' = [call EXCEPT ![c] = e],
           UNCHANGED <<active, backend, seen, steady, answer>>, cached' \in {"up", "down", "unknown"},
           catalog' \subseteq catalog \cup {c}, c \in catalog' => e.at \in {"stream", "drop", "discard"},
           e.at \in Places(e.kind),
           answer[c] = Waiting => Sound(e, seen[c], steady[c])
    PROVE  IInv'
<1>1. call'[c] = e /\ \A d \in Calls : d # c => call'[d] = call[d]
  BY DEF IInv, TypeOK
<1>2. TypeOK'
  BY DEF IInv, TypeOK
<1>3. CatalogIsSwept'
  BY <1>1 DEF IInv, TypeOK, CatalogIsSwept
<1>4. ASSUME NEW d \in Calls
      PROVE  /\ call'[d].at \in Places(call'[d].kind)
             /\ Works(d)' /\ Supports(answer'[d], seen'[d]) /\ Brings(answer'[d], steady'[d])
  <2>1. CASE d = c
    BY <1>1, <2>1 DEF IInv, Works
  <2>2. CASE d # c
    BY <1>1, <2>2 DEF IInv, Works
  <2> QED
    BY <2>1, <2>2
<1> QED
  BY <1>2, <1>3, <1>4 DEF IInv

\* The work ends, and its caller, if he still waits, is told so.
LEMMA Tells ==
    ASSUME IInv, NEW c \in Calls, c \notin catalog, NEW receipt \in AnswerTypes, receipt # Waiting,
           Tell(c, receipt),
           answer[c] = Waiting => Supports(receipt, seen[c]) /\ Brings(receipt, steady[c])
    PROVE  IInv'
<1>1. /\ call' = [call EXCEPT ![c] = Nothing]
      /\ answer' = IF answer[c] = Waiting THEN [answer EXCEPT ![c] = receipt] ELSE answer
      /\ UNCHANGED <<active, backend, seen, steady, cached, catalog>>
  BY DEF Tell, World
<1>2. call'[c] = Nothing /\ \A d \in Calls : d # c => call'[d] = call[d] /\ answer'[d] = answer[d]
  BY <1>1 DEF IInv, TypeOK
<1>3. TypeOK'
  BY <1>1, NothingType DEF IInv, TypeOK
<1>4. CatalogIsSwept'
  BY <1>1, <1>2 DEF IInv, TypeOK, CatalogIsSwept
<1>5. answer'[c] = IF answer[c] = Waiting THEN receipt ELSE answer[c]
  BY <1>1 DEF IInv, TypeOK
<1>6. ASSUME NEW d \in Calls
      PROVE  /\ call'[d].at \in Places(call'[d].kind)
             /\ Works(d)' /\ Supports(answer'[d], seen'[d]) /\ Brings(answer'[d], steady'[d])
  <2>1. CASE d = c
    <3>1. answer'[c] # Waiting
      BY <1>5
    <3>2. Nothing.at \in Places(Nothing.kind)
      BY NothingType DEF Places
    <3> QED
      BY <1>1, <1>2, <1>5, <2>1, <3>1, <3>2 DEF IInv, Works
  <2>2. CASE d # c
    BY <1>1, <1>2, <2>2 DEF IInv, Works
  <2> QED
    BY <2>1, <2>2
<1> QED
  BY <1>3, <1>4, <1>6 DEF IInv

LEMMA Excuses ==
    ASSUME IInv, NEW c \in Calls, c \notin catalog, NEW receipt \in {Failed, Raised}, Tell(c, receipt)
    PROVE  IInv'
BY ReceiptTypes, NotWaiting, Silent, Tells

\* A step that leaves calls, answers and records alone.
LEMMA BesidesMoves ==
    ASSUME IInv, UNCHANGED <<active, call, answer, seen, steady, catalog>>,
           cached' \in {"up", "down", "unknown"}, backend' \in {"up", "down"}
    PROVE  IInv'
<1>1. TypeOK' /\ CatalogIsSwept'
  BY DEF IInv, TypeOK, CatalogIsSwept
<1> QED
  BY <1>1 DEF IInv, Works

LEMMA MoveInv ==
    ASSUME IInv, NEW records \in SUBSET Records, Move(records)
    PROVE  IInv'
<1>1. /\ active' = records
      /\ seen' = [c \in Calls |-> IF answer[c] = Waiting THEN seen[c] \cup Admissible(records) ELSE seen[c]]
      /\ steady' = [c \in Calls |-> IF answer[c] = Waiting THEN steady[c] \cap records ELSE steady[c]]
      /\ UNCHANGED <<backend, cached, catalog, call, answer>>
  BY DEF Move
<1>2. TypeOK'
  BY <1>1 DEF IInv, TypeOK, Admissible
<1>3. CatalogIsSwept'
  BY <1>1 DEF IInv, CatalogIsSwept
<1>4. ASSUME NEW c \in Calls
      PROVE  Works(c)' /\ Supports(answer'[c], seen'[c]) /\ Brings(answer'[c], steady'[c])
  <2>1. seen[c] \subseteq seen'[c] /\ steady'[c] \subseteq steady[c]
    BY <1>1
  <2>2. Supports(answer'[c], seen'[c]) /\ Brings(answer'[c], steady'[c])
    BY <1>1, <2>1, AnswerLater DEF IInv
  <2>3. ASSUME answer[c] = Waiting
        PROVE  /\ steady'[c] \subseteq active' /\ active' \cap Scoped \subseteq seen'[c]
               /\ Sound(call'[c], seen'[c], steady'[c])
    <3>1. Sound(call[c], seen[c], steady[c])
      BY <2>3 DEF IInv, Works
    <3>2. Sound(call'[c], seen'[c], steady'[c])
      BY <1>1, <2>1, <3>1, SoundLater
    <3> QED
      BY <1>1, <2>3, <3>2 DEF Admissible
  <2> QED
    BY <1>1, <2>2, <2>3 DEF Works
<1> QED
  BY <1>1, <1>2, <1>3, <1>4 DEF IInv

---------------------------------------------------------------------------
\* What the invariant says of one call.
LEMMA CallFacts ==
    ASSUME IInv, NEW c \in Calls
    PROVE  /\ call[c] \in CallTypes /\ call[c].at \in Places(call[c].kind)
           /\ call[c].kind \in Kinds \cup {"none"} /\ call[c].at \in UNION {Places(k) : k \in Kinds \cup {"none"}}
           /\ call[c].todo \subseteq Namespaces /\ call[c].kept \subseteq Cites
           /\ call[c].reads \subseteq Cites /\ call[c].ok \subseteq Cites /\ call[c].graph \in Graphs
           /\ call[c].flawed \in BOOLEAN /\ call[c].served \in BOOLEAN
           /\ answer[c] = Waiting =>
                 /\ steady[c] \subseteq active \cap Scoped /\ active \cap Scoped \subseteq seen[c]
                 /\ Sound(call[c], seen[c], steady[c])
           /\ c \in catalog => call[c].at \in {"stream", "drop", "discard"}
           /\ cached \in {"up", "down", "unknown"} /\ catalog \subseteq Calls
BY DEF IInv, TypeOK, Works, CatalogIsSwept, CallTypes

\* The kinds of request whose work can be at a place.
LEMMA PlaceKinds ==
    ASSUME NEW kind \in Kinds \cup {"none"}, NEW at \in Places(kind)
    PROVE  /\ at \in {"window", "strategy"} => kind = "memory"
           /\ at \in {"fan", "await", "hits"} => kind = "search"
           /\ at \in {"project", "stream", "drop", "discard", "refuse"} => kind = "analytic"
           /\ at \in {"anchor", "provider"} => kind \in {"structure", "analytic"}
           /\ at = "queued" => kind \in {"search", "structure", "analytic"}
           /\ at = "read" => kind \in {"memory", "search", "structure", "analytic"}
           /\ at = "finish" => kind \in {"memory", "search", "structure", "analytic"}
BY DEF Places, Kinds

LEMMA AtType ==
    ASSUME NEW kind \in Kinds \cup {"none"}, NEW at \in Places(kind)
    PROVE  at \in UNION {Places(k) : k \in Kinds \cup {"none"}}
OBVIOUS

LEMMA InitInv == Init => IInv
<1> SUFFICES ASSUME Init PROVE IInv
  OBVIOUS
<1>1. \A c \in Calls : call[c] = Nothing /\ answer[c] = Failed /\ seen[c] = {} /\ steady[c] = {}
  BY DEF Init
<1>2. TypeOK
  BY NothingType, ReceiptTypes DEF Init, TypeOK
<1>3. CatalogIsSwept
  BY DEF Init, CatalogIsSwept
<1>4. ASSUME NEW c \in Calls
      PROVE  /\ call[c].at \in Places(call[c].kind) /\ Works(c)
             /\ Supports(answer[c], seen[c]) /\ Brings(answer[c], steady[c])
  BY <1>1, NothingType, NotWaiting, Silent DEF Works, Places
<1> QED
  BY <1>2, <1>3, <1>4 DEF IInv

LEMMA AskInv ==
    ASSUME IInv, NEW c \in Calls, Ask(c)
    PROVE  IInv'
<1>1. PICK request \in Requests[c] :
        LET kind == request[1]
            admitted == kind = "memory" \/ Cardinality(slots) < Workers + Backlog IN
        /\ call[c] = Nothing /\ answer[c] # Waiting
        /\ call' = IF admitted
                   THEN [call EXCEPT ![c] = [Nothing EXCEPT
                            !.kind = kind, !.required = request[2], !.todo = Namespaces,
                            !.at = IF kind = "memory" THEN "window" ELSE "queued"]]
                   ELSE call
        /\ answer' = [answer EXCEPT ![c] = IF admitted THEN Waiting ELSE Failed]
        /\ seen' = [seen EXCEPT ![c] = Admissible(active)]
        /\ steady' = [steady EXCEPT ![c] = Admissible(active)]
        /\ UNCHANGED <<active, backend, cached, catalog>>
  BY DEF Ask
<1> DEFINE kind == request[1]
           e == [Nothing EXCEPT !.kind = kind, !.required = request[2], !.todo = Namespaces,
                                !.at = IF kind = "memory" THEN "window" ELSE "queued"]
<1>2. kind \in Kinds /\ request[2] \in BOOLEAN
  BY <1>1, ReadsAssumption
<1>3. e \in CallTypes /\ e.at \in Places(e.kind)
  <2>1. /\ e.kind = kind /\ e.required = request[2] /\ e.todo = Namespaces
        /\ e.at = IF kind = "memory" THEN "window" ELSE "queued"
    BY DEF Nothing
  <2>2. e.at \in Places(e.kind)
    BY <1>2, <2>1 DEF Places, Kinds
  <2>3. e.at \in UNION {Places(k) : k \in Kinds \cup {"none"}}
    BY <1>2, <2>1, <2>2, AtType
  <2>4. e \in CallTypes
    BY <1>2, <2>1, <2>3, NothingType DEF CallTypes
  <2> QED
    BY <2>2, <2>4
<1>4. Sound(e, Admissible(active), Admissible(active))
  <2>1. e.kept = {} /\ e.ok = {} /\ e.at \in {"window", "queued"} /\ e.todo = Namespaces
    BY NothingType DEF Nothing
  <2> QED
    BY <2>1 DEF Sound, Account
<1> HIDE DEF e
<1>5. /\ call'[c] \in {call[c], e} /\ answer'[c] \in {Waiting, Failed}
      /\ answer'[c] = Waiting => call'[c] = e
      /\ seen'[c] = Admissible(active) /\ steady'[c] = Admissible(active)
      /\ \A d \in Calls \ {c} : /\ call'[d] = call[d] /\ answer'[d] = answer[d]
                                /\ seen'[d] = seen[d] /\ steady'[d] = steady[d]
  BY <1>1, NotWaiting DEF IInv, TypeOK, e, kind
<1>6. TypeOK'
  BY <1>1, <1>3, ReceiptTypes DEF IInv, TypeOK, Admissible, e, kind
<1>7. CatalogIsSwept'
  BY <1>1, <1>5, NothingType DEF IInv, TypeOK, CatalogIsSwept
<1>8. ASSUME NEW d \in Calls
      PROVE  /\ call'[d].at \in Places(call'[d].kind)
             /\ Works(d)' /\ Supports(answer'[d], seen'[d]) /\ Brings(answer'[d], steady'[d])
  <2>1. CASE d = c
    <3>1. Supports(answer'[c], seen'[c]) /\ Brings(answer'[c], steady'[c])
      BY <1>5, Silent
    <3>2. Works(c)'
      BY <1>1, <1>4, <1>5 DEF Works, Admissible
    <3> QED
      BY <1>3, <1>5, <2>1, <3>1, <3>2, CallFacts
  <2>2. CASE d # c
    BY <1>1, <1>5, <2>2 DEF IInv, Works
  <2> QED
    BY <2>1, <2>2
<1> QED
  BY <1>6, <1>7, <1>8 DEF IInv

LEMMA GiveUpInv ==
    ASSUME IInv, NEW c \in Calls, GiveUp(c)
    PROVE  IInv'
<1> DEFINE e == IF call[c].at = "queued" THEN Nothing ELSE call[c]
<1>1. /\ answer' = [answer EXCEPT ![c] = Failed]
      /\ call[c].at = "queued" => call' = [call EXCEPT ![c] = Nothing]
      /\ call[c].at # "queued" => call' = call
      /\ UNCHANGED <<active, backend, seen, steady, cached, catalog>>
  BY DEF GiveUp, World
<1>2. /\ call' = [call EXCEPT ![c] = e] /\ e \in CallTypes
      /\ c \in catalog => e = call[c]
  BY <1>1, NothingType, CallFacts DEF IInv, TypeOK
<1>3. e.at \in Places(e.kind)
  BY NothingType, CallFacts DEF Places
<1> HIDE DEF e
<1>4. /\ call'[c] = e /\ answer'[c] = Failed
      /\ \A d \in Calls : d # c => call'[d] = call[d] /\ answer'[d] = answer[d]
  BY <1>1, <1>2 DEF IInv, TypeOK
<1>5. TypeOK'
  BY <1>1, <1>2, ReceiptTypes DEF IInv, TypeOK
<1>6. CatalogIsSwept'
  BY <1>1, <1>2, <1>4 DEF IInv, TypeOK, CatalogIsSwept
<1>7. ASSUME NEW d \in Calls
      PROVE  /\ call'[d].at \in Places(call'[d].kind)
             /\ Works(d)' /\ Supports(answer'[d], seen'[d]) /\ Brings(answer'[d], steady'[d])
  <2>1. CASE d = c
    BY <1>3, <1>4, <2>1, NotWaiting, Silent DEF Works
  <2>2. CASE d # c
    BY <1>1, <1>4, <2>2 DEF IInv, Works
  <2> QED
    BY <2>1, <2>2
<1> QED
  BY <1>5, <1>6, <1>7 DEF IInv

---------------------------------------------------------------------------
\* Work that moves to another place, with what it has to bring at hand.
LEMMA Proceeds ==
    ASSUME IInv, NEW c \in Calls, NEW e, call' = [call EXCEPT ![c] = e],
           UNCHANGED <<active, backend, seen, steady, answer>>, cached' \in {"up", "down", "unknown"},
           catalog' \subseteq catalog \cup {c}, c \in catalog' => e.at \in {"stream", "drop", "discard"},
           e = [call[c] EXCEPT !.at = e.at, !.todo = e.todo, !.kept = e.kept, !.reads = e.reads,
                               !.ok = e.ok, !.graph = e.graph, !.flawed = e.flawed, !.served = e.served],
           e.at \in Places(call[c].kind), e.todo \subseteq Namespaces, e.kept \subseteq Cites,
           e.reads \subseteq Cites, e.ok \subseteq Cites, e.graph \in Graphs,
           e.flawed \in BOOLEAN, e.served \in BOOLEAN,
           answer[c] = Waiting => Sound(e, seen[c], steady[c])
    PROVE  IInv'
<1>1. call[c] \in CallTypes /\ call[c].kind \in Kinds \cup {"none"}
  BY CallFacts
<1>2. e.at \in UNION {Places(k) : k \in Kinds \cup {"none"}}
  BY <1>1, AtType
<1>3. e.kind = call[c].kind
  BY <1>1 DEF CallTypes
<1>4. e \in CallTypes
  BY <1>1, <1>2 DEF CallTypes
<1> QED
  BY <1>3, <1>4, WorkMoves

LEMMA StartInv ==
    ASSUME IInv, NEW c \in Calls, Start(c)
    PROVE  IInv'
<1> DEFINE e == [call[c] EXCEPT !.served = (Health = "up"),
                                !.at = IF call[c].kind = "search" THEN "fan" ELSE "anchor"]
<1>1. /\ call[c].at = "queued" /\ call' = [call EXCEPT ![c] = e]
      /\ UNCHANGED <<active, backend, seen, steady, answer, catalog>> /\ cached' = Health
  BY DEF Start, World
<1>2. call[c].kind \in {"search", "structure", "analytic"} /\ c \notin catalog
  BY <1>1, CallFacts, PlaceKinds
<1>3. /\ e.kind = call[c].kind /\ e.at = IF call[c].kind = "search" THEN "fan" ELSE "anchor"
      /\ e.todo = call[c].todo /\ e.kept = call[c].kept /\ e.reads = call[c].reads /\ e.ok = call[c].ok
      /\ e.graph = call[c].graph /\ e.flawed = call[c].flawed /\ e.served = (Health = "up")
  BY CallFacts DEF CallTypes
<1>4. e = [call[c] EXCEPT !.at = e.at, !.todo = e.todo, !.kept = e.kept, !.reads = e.reads,
                          !.ok = e.ok, !.graph = e.graph, !.flawed = e.flawed, !.served = e.served]
  BY ZenonT(40), CallFacts DEF CallTypes
<1> HIDE DEF e
<1>5. answer[c] = Waiting => Sound(e, seen[c], steady[c])
  BY <1>1, <1>2, <1>3, CallFacts DEF Sound, Account
<1>6. e.at \in Places(call[c].kind)
  BY <1>2, <1>3 DEF Places
<1>7. cached' \in {"up", "down", "unknown"}
  BY <1>1 DEF IInv, TypeOK, Health
<1> QED
  BY ZenonT(40), <1>1, <1>2, <1>3, <1>4, <1>5, <1>6, <1>7, CallFacts, Proceeds

LEMMA ReadWindowInv ==
    ASSUME IInv, NEW c \in Calls, ReadWindow(c)
    PROVE  IInv'
<1>1. call[c].at = "window" /\ call[c].kind = "memory" /\ c \notin catalog
  BY CallFacts, PlaceKinds DEF ReadWindow
<1>2. CASE Tell(c, Failed)
  BY <1>1, <1>2, Excuses
<1>3. CASE ~Tell(c, Failed)
  <2> DEFINE e == [call[c] EXCEPT !.at = "strategy", !.kept = Window]
  <2>1. call' = [call EXCEPT ![c] = e] /\ UNCHANGED <<active, backend, seen, steady, answer, catalog, cached>>
    BY <1>3 DEF ReadWindow, World
  <2>2. /\ e.kind = call[c].kind /\ e.at = "strategy"
        /\ e.todo = call[c].todo /\ e.kept = Window /\ e.reads = call[c].reads /\ e.ok = call[c].ok
        /\ e.graph = call[c].graph /\ e.flawed = call[c].flawed /\ e.served = call[c].served
    BY CallFacts DEF CallTypes
  <2>3. e = [call[c] EXCEPT !.at = e.at, !.todo = e.todo, !.kept = e.kept, !.reads = e.reads,
                            !.ok = e.ok, !.graph = e.graph, !.flawed = e.flawed, !.served = e.served]
    BY CallFacts DEF CallTypes
  <2> HIDE DEF e
  <2>4. answer[c] = Waiting => Sound(e, seen[c], steady[c])
    BY <1>1, <2>2, CallFacts DEF Sound, Account, Window, Admissible
  <2>5. Window \subseteq Cites /\ e.at \in Places(call[c].kind)
    BY <1>1, <2>2, ReadsAssumption DEF Window, Admissible, Cites, Places
  <2> QED
    BY ZenonT(40), <1>1, <2>1, <2>2, <2>3, <2>4, <2>5, CallFacts, Proceeds
<1> QED
  BY <1>2, <1>3

LEMMA AskProjectionInv ==
    ASSUME IInv, NEW c \in Calls, AskProjection(c)
    PROVE  IInv'
<1>1. /\ call[c].at = "strategy" /\ call[c].kind = "memory" /\ c \notin catalog
      /\ UNCHANGED <<active, backend, seen, steady, answer, catalog, cached>>
  BY CallFacts, PlaceKinds DEF AskProjection, World
<1> DEFINE e == [call[c] EXCEPT !.at = "read", !.reads = Hits \ call[c].kept]
           f == [call[c] EXCEPT !.at = "finish", !.flawed = TRUE]
<1>2. call' = [call EXCEPT ![c] = e] \/ call' = [call EXCEPT ![c] = f]
  BY DEF AskProjection, Hits
<1>3. CASE call' = [call EXCEPT ![c] = e]
  <2>1. /\ e.kind = call[c].kind /\ e.at = "read"
        /\ e.todo = call[c].todo /\ e.kept = call[c].kept /\ e.reads = Hits \ call[c].kept
        /\ e.ok = call[c].ok
        /\ e.graph = call[c].graph /\ e.flawed = call[c].flawed /\ e.served = call[c].served
    BY CallFacts DEF CallTypes
  <2>2. e = [call[c] EXCEPT !.at = e.at, !.todo = e.todo, !.kept = e.kept, !.reads = e.reads,
                            !.ok = e.ok, !.graph = e.graph, !.flawed = e.flawed, !.served = e.served]
    BY CallFacts DEF CallTypes
  <2>3. Hits \subseteq Cites
    BY ReadsAssumption DEF Hits, Cites
  <2> HIDE DEF e
  <2>4. answer[c] = Waiting => Sound(e, seen[c], steady[c])
    BY <1>1, <2>1, CallFacts DEF Sound, Account
  <2>5. e.at \in Places(call[c].kind)
    BY <1>1, <2>1 DEF Places
  <2> QED
    BY ZenonT(40), <1>1, <1>3, <2>1, <2>2, <2>3, <2>4, <2>5, CallFacts, Proceeds
<1>4. CASE call' = [call EXCEPT ![c] = f]
  <2>1. /\ f.kind = call[c].kind /\ f.at = "finish"
        /\ f.todo = call[c].todo /\ f.kept = call[c].kept /\ f.reads = call[c].reads /\ f.ok = call[c].ok
        /\ f.graph = call[c].graph /\ f.flawed = TRUE /\ f.served = call[c].served
    BY CallFacts DEF CallTypes
  <2>2. f = [call[c] EXCEPT !.at = f.at, !.todo = f.todo, !.kept = f.kept, !.reads = f.reads,
                            !.ok = f.ok, !.graph = f.graph, !.flawed = f.flawed, !.served = f.served]
    BY CallFacts DEF CallTypes
  <2> HIDE DEF e, f
  <2>3. answer[c] = Waiting => Sound(f, seen[c], steady[c])
    BY <1>1, <2>1, CallFacts DEF Sound
  <2>4. f.at \in Places(call[c].kind)
    BY <1>1, <2>1 DEF Places
  <2>5. /\ f.todo \subseteq Namespaces /\ f.kept \subseteq Cites /\ f.reads \subseteq Cites
        /\ f.ok \subseteq Cites /\ f.graph \in Graphs /\ f.flawed \in BOOLEAN /\ f.served \in BOOLEAN
    BY <2>1, CallFacts
  <2>6. cached' \in {"up", "down", "unknown"} /\ catalog' \subseteq catalog \cup {c} /\ c \notin catalog'
    BY <1>1, CallFacts
  <2> QED
    BY <1>1, <1>4, <2>2, <2>3, <2>4, <2>5, <2>6, Proceeds
<1> QED
  BY <1>2, <1>3, <1>4

---------------------------------------------------------------------------
\* graph.search: a fan out that ends early ends flawed.
LEMMA StopInv ==
    ASSUME IInv, NEW c \in Calls, call[c].at \in {"fan", "await"}, Stop(c)
    PROVE  IInv'
<1>1. call[c].kind = "search" /\ c \notin catalog
  BY CallFacts, PlaceKinds
<1>2. CASE GatheredNothing(c)
  BY <1>1, <1>2, Excuses DEF Stop, Refuse
<1>3. CASE ~GatheredNothing(c)
  <2> DEFINE e == [call[c] EXCEPT !.at = "hits", !.todo = {}, !.flawed = TRUE,
                                  !.reads = call[c].kept, !.kept = {}]
  <2>1. call' = [call EXCEPT ![c] = e] /\ UNCHANGED <<active, backend, seen, steady, answer, catalog, cached>>
    BY <1>3 DEF Stop, World
  <2>2. /\ e.kind = call[c].kind /\ e.at = "hits"
        /\ e.todo = {} /\ e.kept = {} /\ e.reads = call[c].kept /\ e.ok = call[c].ok
        /\ e.graph = call[c].graph /\ e.flawed = TRUE /\ e.served = call[c].served
    BY CallFacts DEF CallTypes
  <2>3. e = [call[c] EXCEPT !.at = e.at, !.todo = e.todo, !.kept = e.kept, !.reads = e.reads,
                            !.ok = e.ok, !.graph = e.graph, !.flawed = e.flawed, !.served = e.served]
    BY ZenonT(40), CallFacts DEF CallTypes
  <2> HIDE DEF e
  <2>4. answer[c] = Waiting => Sound(e, seen[c], steady[c])
    BY <2>2, CallFacts DEF Sound
  <2>5. e.at \in Places(call[c].kind)
    BY <1>1, <2>2 DEF Places
  <2>6. /\ e.todo \subseteq Namespaces /\ e.kept \subseteq Cites /\ e.reads \subseteq Cites
        /\ e.ok \subseteq Cites /\ e.graph \in Graphs /\ e.flawed \in BOOLEAN /\ e.served \in BOOLEAN
    BY <2>2, CallFacts
  <2>7. cached' \in {"up", "down", "unknown"} /\ catalog' \subseteq catalog \cup {c} /\ c \notin catalog'
    BY <1>1, <2>1, CallFacts
  <2> QED
    BY <2>1, <2>3, <2>4, <2>5, <2>6, <2>7, Proceeds
<1> QED
  BY <1>2, <1>3

LEMMA FanInv ==
    ASSUME IInv, NEW c \in Calls, Fan(c)
    PROVE  IInv'
<1>1. call[c].at = "fan" /\ call[c].kind = "search" /\ c \notin catalog
  BY CallFacts, PlaceKinds DEF Fan
<1> DEFINE e == [call[c] EXCEPT !.at = "hits", !.reads = call[c].kept, !.kept = {}]
           f == [call[c] EXCEPT !.at = "await"]
<1>2. \/ call[c].todo = {} /\ call' = [call EXCEPT ![c] = e]
         /\ UNCHANGED <<active, backend, seen, steady, answer, catalog, cached>>
      \/ call' = [call EXCEPT ![c] = f]
         /\ UNCHANGED <<active, backend, seen, steady, answer, catalog, cached>>
      \/ Stop(c)
  BY DEF Fan, World, Elsewhere
<1>3. CASE call[c].todo = {} /\ call' = [call EXCEPT ![c] = e]
           /\ UNCHANGED <<active, backend, seen, steady, answer, catalog, cached>>
  <2>1. /\ e.kind = call[c].kind /\ e.at = "hits"
        /\ e.todo = call[c].todo /\ e.kept = {} /\ e.reads = call[c].kept /\ e.ok = call[c].ok
        /\ e.graph = call[c].graph /\ e.flawed = call[c].flawed /\ e.served = call[c].served
    BY CallFacts DEF CallTypes
  <2>2. e = [call[c] EXCEPT !.at = e.at, !.todo = e.todo, !.kept = e.kept, !.reads = e.reads,
                            !.ok = e.ok, !.graph = e.graph, !.flawed = e.flawed, !.served = e.served]
    BY CallFacts DEF CallTypes
  <2> HIDE DEF e, f
  <2>3. answer[c] = Waiting => Sound(e, seen[c], steady[c])
    BY <1>1, <1>3, <2>1, CallFacts DEF Sound, Account, Hits
  <2>4. e.at \in Places(call[c].kind)
    BY <1>1, <2>1 DEF Places
  <2>5. /\ e.todo \subseteq Namespaces /\ e.kept \subseteq Cites /\ e.reads \subseteq Cites
        /\ e.ok \subseteq Cites /\ e.graph \in Graphs /\ e.flawed \in BOOLEAN /\ e.served \in BOOLEAN
    BY <2>1, CallFacts
  <2>6. cached' \in {"up", "down", "unknown"} /\ catalog' \subseteq catalog \cup {c} /\ c \notin catalog'
    BY <1>1, <1>3, CallFacts
  <2> QED
    BY <1>3, <2>2, <2>3, <2>4, <2>5, <2>6, Proceeds
<1>4. CASE call' = [call EXCEPT ![c] = f]
           /\ UNCHANGED <<active, backend, seen, steady, answer, catalog, cached>>
  <2>1. /\ f.kind = call[c].kind /\ f.at = "await"
        /\ f.todo = call[c].todo /\ f.kept = call[c].kept /\ f.reads = call[c].reads /\ f.ok = call[c].ok
        /\ f.graph = call[c].graph /\ f.flawed = call[c].flawed /\ f.served = call[c].served
    BY CallFacts DEF CallTypes
  <2>2. f = [call[c] EXCEPT !.at = f.at, !.todo = f.todo, !.kept = f.kept, !.reads = f.reads,
                            !.ok = f.ok, !.graph = f.graph, !.flawed = f.flawed, !.served = f.served]
    BY CallFacts DEF CallTypes
  <2> HIDE DEF e, f
  <2>3. answer[c] = Waiting => Sound(f, seen[c], steady[c])
    BY <1>1, <2>1, CallFacts DEF Sound, Account
  <2>4. f.at \in Places(call[c].kind)
    BY <1>1, <2>1 DEF Places
  <2>5. /\ f.todo \subseteq Namespaces /\ f.kept \subseteq Cites /\ f.reads \subseteq Cites
        /\ f.ok \subseteq Cites /\ f.graph \in Graphs /\ f.flawed \in BOOLEAN /\ f.served \in BOOLEAN
    BY <2>1, CallFacts
  <2>6. cached' \in {"up", "down", "unknown"} /\ catalog' \subseteq catalog \cup {c} /\ c \notin catalog'
    BY <1>1, <1>4, CallFacts
  <2> QED
    BY <1>4, <2>2, <2>3, <2>4, <2>5, <2>6, Proceeds
<1> QED
  BY <1>1, <1>2, <1>3, <1>4, StopInv

LEMMA CollectInv ==
    ASSUME IInv, NEW c \in Calls, Collect(c)
    PROVE  IInv'
<1>0. call[c].at = "await"
  BY Zenon DEF Collect
<1>1. call[c].at = "await" /\ call[c].kind = "search" /\ c \notin catalog
  BY <1>0, CallFacts, PlaceKinds
<1>2. CASE Refuse(c) \/ Stop(c)
  BY <1>1, <1>2, Excuses, StopInv DEF Refuse
<1>3. CASE ~Refuse(c) /\ ~Stop(c)
  <2>1. PICK n \in call[c].todo :
          /\ call' = [call EXCEPT ![c].at = "fan", ![c].todo = @ \ {n}, ![c].kept = @ \cup Indexed[n]]
          /\ UNCHANGED <<active, backend, seen, steady, answer, catalog, cached>>
    BY <1>3 DEF Collect, World
  <2> DEFINE e == [call[c] EXCEPT !.at = "fan", !.todo = call[c].todo \ {n},
                                  !.kept = call[c].kept \cup Indexed[n]]
  <2>2. call' = [call EXCEPT ![c] = e]
    BY <2>1, CallFacts DEF CallTypes, IInv, TypeOK
  <2>3. /\ e.kind = call[c].kind /\ e.at = "fan"
        /\ e.todo = call[c].todo \ {n} /\ e.kept = call[c].kept \cup Indexed[n]
        /\ e.reads = call[c].reads /\ e.ok = call[c].ok
        /\ e.graph = call[c].graph /\ e.flawed = call[c].flawed /\ e.served = call[c].served
    BY CallFacts DEF CallTypes
  <2>4. e = [call[c] EXCEPT !.at = e.at, !.todo = e.todo, !.kept = e.kept, !.reads = e.reads,
                            !.ok = e.ok, !.graph = e.graph, !.flawed = e.flawed, !.served = e.served]
    BY CallFacts DEF CallTypes
  <2> HIDE DEF e
  <2>5. answer[c] = Waiting => Sound(e, seen[c], steady[c])
    BY <1>1, <2>3, CallFacts DEF Sound, Account
  <2>6. e.at \in Places(call[c].kind)
    BY <1>1, <2>3 DEF Places
  <2>7. Indexed[n] \subseteq Cites
    BY CallFacts, ReadsAssumption DEF Cites
  <2>8. /\ e.todo \subseteq Namespaces /\ e.kept \subseteq Cites /\ e.reads \subseteq Cites
        /\ e.ok \subseteq Cites /\ e.graph \in Graphs /\ e.flawed \in BOOLEAN /\ e.served \in BOOLEAN
    BY <2>3, <2>7, CallFacts
  <2>9. cached' \in {"up", "down", "unknown"} /\ catalog' \subseteq catalog \cup {c} /\ c \notin catalog'
    BY <1>1, <2>1, CallFacts
  <2> QED
    BY <2>1, <2>2, <2>4, <2>5, <2>6, <2>8, <2>9, Proceeds
<1> QED
  BY <1>2, <1>3

LEMMA BindInv ==
    ASSUME IInv, NEW c \in Calls, Bind(c)
    PROVE  IInv'
<1>1. /\ call[c].at = "hits" /\ call[c].kind = "search" /\ c \notin catalog /\ call[c].reads = {}
      /\ UNCHANGED <<active, backend, seen, steady, answer, catalog, cached>>
  BY CallFacts, PlaceKinds DEF Bind, World
<1> DEFINE e == [call[c] EXCEPT !.at = "finish"]
           f == [call[c] EXCEPT !.at = "finish", !.flawed = TRUE]
           g == [call[c] EXCEPT !.at = "read", !.ok = {}, !.graph = [NoGraph EXCEPT !.nodes = EntityHits],
                                !.reads = UNION {Support[x] : x \in EntityHits}]
<1>2. \/ call' = [call EXCEPT ![c] = e]
      \/ call' = [call EXCEPT ![c] = f]
      \/ call' = [call EXCEPT ![c] = g]
  BY DEF Bind
<1>3. cached' \in {"up", "down", "unknown"} /\ catalog' \subseteq catalog \cup {c} /\ c \notin catalog'
  BY <1>1, CallFacts
<1>4. CASE call' = [call EXCEPT ![c] = e]
  <2>1. /\ e.kind = call[c].kind /\ e.at = "finish"
        /\ e.todo = call[c].todo /\ e.kept = call[c].kept /\ e.reads = call[c].reads /\ e.ok = call[c].ok
        /\ e.graph = call[c].graph /\ e.flawed = call[c].flawed /\ e.served = call[c].served
    BY CallFacts DEF CallTypes
  <2>2. e = [call[c] EXCEPT !.at = e.at, !.todo = e.todo, !.kept = e.kept, !.reads = e.reads,
                            !.ok = e.ok, !.graph = e.graph, !.flawed = e.flawed, !.served = e.served]
    BY CallFacts DEF CallTypes
  <2> HIDE DEF e, f, g
  <2>3. answer[c] = Waiting => Sound(e, seen[c], steady[c])
    BY <1>1, <2>1, CallFacts DEF Sound, Account
  <2>4. e.at \in Places(call[c].kind)
    BY <1>1, <2>1 DEF Places
  <2>5. /\ e.todo \subseteq Namespaces /\ e.kept \subseteq Cites /\ e.reads \subseteq Cites
        /\ e.ok \subseteq Cites /\ e.graph \in Graphs /\ e.flawed \in BOOLEAN /\ e.served \in BOOLEAN
    BY <2>1, CallFacts
  <2> QED
    BY <1>1, <1>3, <1>4, <2>2, <2>3, <2>4, <2>5, Proceeds
<1>5. CASE call' = [call EXCEPT ![c] = f]
  <2>1. /\ f.kind = call[c].kind /\ f.at = "finish"
        /\ f.todo = call[c].todo /\ f.kept = call[c].kept /\ f.reads = call[c].reads /\ f.ok = call[c].ok
        /\ f.graph = call[c].graph /\ f.flawed = TRUE /\ f.served = call[c].served
    BY CallFacts DEF CallTypes
  <2>2. f = [call[c] EXCEPT !.at = f.at, !.todo = f.todo, !.kept = f.kept, !.reads = f.reads,
                            !.ok = f.ok, !.graph = f.graph, !.flawed = f.flawed, !.served = f.served]
    BY CallFacts DEF CallTypes
  <2> HIDE DEF e, f, g
  <2>3. answer[c] = Waiting => Sound(f, seen[c], steady[c])
    BY <1>1, <2>1, CallFacts DEF Sound
  <2>4. f.at \in Places(call[c].kind)
    BY <1>1, <2>1 DEF Places
  <2>5. /\ f.todo \subseteq Namespaces /\ f.kept \subseteq Cites /\ f.reads \subseteq Cites
        /\ f.ok \subseteq Cites /\ f.graph \in Graphs /\ f.flawed \in BOOLEAN /\ f.served \in BOOLEAN
    BY <2>1, CallFacts
  <2> QED
    BY <1>1, <1>3, <1>5, <2>2, <2>3, <2>4, <2>5, Proceeds
<1>6. CASE call' = [call EXCEPT ![c] = g]
  <2> DEFINE named == [NoGraph EXCEPT !.nodes = EntityHits]
             cited == UNION {Support[x] : x \in EntityHits}
  <2>1. /\ g.kind = call[c].kind /\ g.at = "read"
        /\ g.todo = call[c].todo /\ g.kept = call[c].kept /\ g.reads = cited /\ g.ok = {}
        /\ g.graph = named /\ g.flawed = call[c].flawed /\ g.served = call[c].served
    BY CallFacts DEF CallTypes
  <2>2. g = [call[c] EXCEPT !.at = g.at, !.todo = g.todo, !.kept = g.kept, !.reads = g.reads,
                            !.ok = g.ok, !.graph = g.graph, !.flawed = g.flawed, !.served = g.served]
    BY ZenonT(40), CallFacts DEF CallTypes
  <2>3. named \in Graphs
    BY DEF NoGraph, Graphs, Items
  <2>4. cited \subseteq Cites
    BY DEF Cites, Items
  <2> HIDE DEF e, f, g, named, cited
  <2>5. answer[c] = Waiting => Sound(g, seen[c], steady[c])
    BY <1>1, <2>1, CallFacts DEF Sound, Account
  <2>6. g.at \in Places(call[c].kind)
    BY <1>1, <2>1 DEF Places
  <2>7. /\ g.todo \subseteq Namespaces /\ g.kept \subseteq Cites /\ g.reads \subseteq Cites
        /\ g.ok \subseteq Cites /\ g.graph \in Graphs /\ g.flawed \in BOOLEAN /\ g.served \in BOOLEAN
    BY <2>1, <2>3, <2>4, CallFacts
  <2> QED
    BY <1>1, <1>3, <1>6, <2>2, <2>5, <2>6, <2>7, Proceeds
<1> QED
  BY <1>2, <1>4, <1>5, <1>6

---------------------------------------------------------------------------
\* Structural work before its answer is there has nothing to bring yet.
LEMMA Passes ==
    ASSUME IInv, NEW c \in Calls, call[c].kind \in {"structure", "analytic"}, NEW at, NEW flawed \in BOOLEAN,
           call' = [call EXCEPT ![c] = [call[c] EXCEPT !.at = at, !.flawed = flawed]],
           call[c].at \notin {"fan", "await"}, at \notin {"read", "finish"}, at \in Places(call[c].kind),
           UNCHANGED <<active, backend, seen, steady, answer, cached>>,
           catalog' \subseteq catalog \cup {c}, c \in catalog' => at \in {"stream", "drop", "discard"}
    PROVE  IInv'
<1> DEFINE e == [call[c] EXCEPT !.at = at, !.flawed = flawed]
<1>1. /\ e.kind = call[c].kind /\ e.at = at
      /\ e.todo = call[c].todo /\ e.kept = call[c].kept /\ e.reads = call[c].reads /\ e.ok = call[c].ok
      /\ e.graph = call[c].graph /\ e.flawed = flawed /\ e.served = call[c].served
  BY CallFacts DEF CallTypes
<1>2. e = [call[c] EXCEPT !.at = e.at, !.todo = e.todo, !.kept = e.kept, !.reads = e.reads,
                          !.ok = e.ok, !.graph = e.graph, !.flawed = e.flawed, !.served = e.served]
  BY ZenonT(40), CallFacts DEF CallTypes
<1>3. call' = [call EXCEPT ![c] = e]
  OBVIOUS
<1> HIDE DEF e
<1>4. answer[c] = Waiting => Sound(e, seen[c], steady[c])
  BY <1>1, CallFacts DEF Sound, Account
<1>5. /\ e.todo \subseteq Namespaces /\ e.kept \subseteq Cites /\ e.reads \subseteq Cites
      /\ e.ok \subseteq Cites /\ e.graph \in Graphs /\ e.flawed \in BOOLEAN /\ e.served \in BOOLEAN
  BY <1>1, CallFacts
<1>6. cached' \in {"up", "down", "unknown"} /\ e.at \in Places(call[c].kind)
      /\ (c \in catalog' => e.at \in {"stream", "drop", "discard"})
  BY <1>1, CallFacts
<1> QED
  BY <1>2, <1>3, <1>4, <1>5, <1>6, Proceeds

\* The same for work that is as flawed as before.
LEMMA PassesOn ==
    ASSUME IInv, NEW c \in Calls, call[c].kind \in {"structure", "analytic"}, NEW at,
           call' = [call EXCEPT ![c].at = at],
           call[c].at \notin {"fan", "await"}, at \notin {"read", "finish"}, at \in Places(call[c].kind),
           UNCHANGED <<active, backend, seen, steady, answer, cached>>,
           catalog' \subseteq catalog \cup {c}, c \in catalog' => at \in {"stream", "drop", "discard"}
    PROVE  IInv'
<1>1. [call[c] EXCEPT !.at = at] = [call[c] EXCEPT !.at = at, !.flawed = call[c].flawed]
  BY CallFacts DEF CallTypes
<1>2. call' = [call EXCEPT ![c] = [call[c] EXCEPT !.at = at]]
  OBVIOUS
<1>3. call' = [call EXCEPT ![c] = [call[c] EXCEPT !.at = at, !.flawed = call[c].flawed]]
  BY <1>1, <1>2
<1> QED
  BY <1>3, Passes, CallFacts

LEMMA ReadAnchorInv ==
    ASSUME IInv, NEW c \in Calls, ReadAnchor(c)
    PROVE  IInv'
<1>1. call[c].at = "anchor"
  BY DEF ReadAnchor
<1>2. call[c].kind \in {"structure", "analytic"} /\ c \notin catalog
  BY <1>1, CallFacts, PlaceKinds
<1> DEFINE at == IF call[c].kind = "analytic" THEN "project" ELSE "provider"
<1>3. \/ call' = [call EXCEPT ![c].at = at] /\ UNCHANGED Elsewhere
      \/ Tell(c, Failed)
      \/ Tell(c, Raised)
  BY DEF ReadAnchor, Refuse
<1>4. CASE call' = [call EXCEPT ![c].at = at] /\ UNCHANGED Elsewhere
  <2>1. UNCHANGED <<active, backend, seen, steady, answer, cached, catalog>>
    BY <1>4 DEF Elsewhere, World
  <2>2. at \in Places(call[c].kind) /\ at \notin {"read", "finish"}
    BY <1>2 DEF Places
  <2> HIDE DEF at
  <2> QED
    BY <1>1, <1>2, <1>4, <2>1, <2>2, PassesOn
<1> QED
  BY <1>2, <1>3, <1>4, Excuses

LEMMA ProjectInv ==
    ASSUME IInv, NEW c \in Calls, Project(c)
    PROVE  IInv'
<1>1. call[c].at = "project"
  BY DEF Project
<1>2. call[c].kind \in {"structure", "analytic"} /\ call[c].kind = "analytic" /\ c \notin catalog
  BY <1>1, CallFacts, PlaceKinds
<1>3. CASE Tell(c, Failed)
  BY <1>2, <1>3, Excuses
<1>4. CASE ~Tell(c, Failed)
  <2>1. /\ \/ call' = [call EXCEPT ![c].at = "stream"]
           \/ call' = [call EXCEPT ![c].at = "discard"]
        /\ catalog' \in {catalog, catalog \cup {c}}
        /\ UNCHANGED <<active, backend, seen, steady, answer, cached>>
    BY <1>4 DEF Project, Refuse, World
  <2>2. "stream" \in Places(call[c].kind) /\ "discard" \in Places(call[c].kind)
    BY <1>2 DEF Places
  <2>3. catalog' \subseteq catalog \cup {c}
    BY <2>1
  <2>4. PICK at \in {"stream", "discard"} : call' = [call EXCEPT ![c].at = at]
    BY <2>1
  <2> QED
    BY <1>1, <1>2, <2>1, <2>2, <2>3, <2>4, PassesOn
<1> QED
  BY <1>3, <1>4

LEMMA StreamInv ==
    ASSUME IInv, NEW c \in Calls, Stream(c)
    PROVE  IInv'
<1>1. /\ call[c].at = "stream"
      /\ \/ call' = [call EXCEPT ![c].at = "drop"]
         \/ call' = [call EXCEPT ![c].at = "discard"]
      /\ UNCHANGED <<active, backend, seen, steady, answer, cached, catalog>>
  BY DEF Stream, Elsewhere, World
<1>2. call[c].kind = "analytic" /\ call[c].kind \in {"structure", "analytic"}
  BY <1>1, CallFacts, PlaceKinds
<1>3. "drop" \in Places(call[c].kind) /\ "discard" \in Places(call[c].kind)
  BY <1>2 DEF Places
<1>4. PICK at \in {"drop", "discard"} : call' = [call EXCEPT ![c].at = at]
  BY <1>1
<1> QED
  BY <1>1, <1>2, <1>3, <1>4, PassesOn

LEMMA DropInv ==
    ASSUME IInv, NEW c \in Calls, Drop(c)
    PROVE  IInv'
<1> DEFINE next == IF call[c].at = "drop" THEN "provider" ELSE "refuse"
<1>1. /\ call[c].at \in {"drop", "discard"}
      /\ catalog' = catalog \ {c}
      /\ \/ call' = [call EXCEPT ![c].at = next]
         \/ call' = [call EXCEPT ![c].at = next, ![c].flawed = TRUE]
      /\ UNCHANGED <<active, backend, seen, steady, answer, cached>>
  BY DEF Drop, World
<1>2. call[c].kind = "analytic" /\ call[c].kind \in {"structure", "analytic"}
  BY <1>1, CallFacts, PlaceKinds
<1>3. next \in Places(call[c].kind) /\ next \notin {"read", "finish"}
  BY <1>2 DEF Places
<1> HIDE DEF next
<1>4. CASE call' = [call EXCEPT ![c].at = next]
  BY <1>1, <1>2, <1>3, <1>4, PassesOn
<1>5. CASE call' = [call EXCEPT ![c].at = next, ![c].flawed = TRUE]
  <2>1. call' = [call EXCEPT ![c] = [call[c] EXCEPT !.at = next, !.flawed = TRUE]]
    BY <1>5 DEF IInv, TypeOK, CallTypes
  <2> QED
    BY <1>1, <1>2, <1>3, <2>1, Passes
<1> QED
  BY <1>1, <1>4, <1>5

LEMMA Observed ==
    ASSUME NEW o \in Observations
    PROVE  /\ o \in Graphs /\ o.truncated \in BOOLEAN /\ o.nodes \subseteq Items
           /\ ~o.truncated /\ o.nodes \subseteq InScope => Nodes \subseteq o.nodes
<1>1. o \in [nodes : {o.nodes}, edges : {o.edges}, paths : {o.paths}, truncated : BOOLEAN]
  BY ObservationsAssumption
<1>2. o.nodes \subseteq Items /\ o.edges \subseteq Items /\ o.paths \subseteq Paths
  BY DEF Items, Paths
<1>3. o \in Graphs
  BY <1>1, <1>2 DEF Graphs
<1>4. ASSUME ~o.truncated, o.nodes \subseteq InScope, NEW x \in Nodes
      PROVE  x \in o.nodes
  <2>1. x \in UNION {p.nodes : p \in Observations} /\ x \in InScope
    BY DEF Nodes
  <2>2. PICK p \in Observations : x \in p.nodes
    BY <2>1
  <2> QED
    BY <1>4, <2>1, <2>2, ObservationsAssumption
<1> QED
  BY <1>1, <1>2, <1>3, <1>4

\* An answer of the backend that is no partial one names every node in scope.
LEMMA AnsweredInv ==
    ASSUME IInv, NEW c \in Calls, call[c].at = "provider", NEW o \in Graphs, Answered(c, o), UNCHANGED Elsewhere,
           ~o.truncated /\ OutOfScope(o) = {} => Nodes \subseteq o.nodes
    PROVE  IInv'
<1> DEFINE cited == UNION {Support[x] : x \in (o.nodes \cup o.edges) \cap InScope}
           flawed == call[c].flawed \/ o.truncated \/ OutOfScope(o) # {}
           e == [call[c] EXCEPT !.at = "read", !.graph = o, !.flawed = flawed, !.reads = cited]
<1>1. call[c].kind \in {"structure", "analytic"} /\ c \notin catalog
  BY CallFacts, PlaceKinds
<1>2. call' = [call EXCEPT ![c] = e] /\ UNCHANGED <<active, backend, seen, steady, answer, cached, catalog>>
  BY CallFacts DEF Answered, Elsewhere, World, CallTypes, IInv, TypeOK
<1>3. cited \subseteq Cites
  BY DEF Cites, Graphs
<1>4. flawed \in BOOLEAN
  BY CallFacts DEF Graphs
<1>5. /\ e.kind = call[c].kind /\ e.at = "read"
      /\ e.todo = call[c].todo /\ e.kept = call[c].kept /\ e.reads = cited /\ e.ok = call[c].ok
      /\ e.graph = o /\ e.flawed = flawed /\ e.served = call[c].served
  BY CallFacts DEF CallTypes
<1>6. e = [call[c] EXCEPT !.at = e.at, !.todo = e.todo, !.kept = e.kept, !.reads = e.reads,
                          !.ok = e.ok, !.graph = e.graph, !.flawed = e.flawed, !.served = e.served]
  BY ZenonT(40), CallFacts DEF CallTypes
<1>7. ASSUME ~flawed, NEW x \in Nodes
      PROVE  x \in o.nodes /\ Support[x] \subseteq cited
  <2>1. x \in o.nodes /\ x \in InScope
    BY <1>7 DEF Nodes
  <2>2. x \in (o.nodes \cup o.edges) \cap InScope
    BY <2>1
  <2> QED
    BY <2>1, <2>2
<1>8. flawed \/ ~flawed
  BY <1>4
<1> HIDE DEF e, cited, flawed
<1>9. answer[c] = Waiting => Sound(e, seen[c], steady[c])
  BY <1>1, <1>5, <1>7, CallFacts DEF Sound, Account
<1>10. /\ e.todo \subseteq Namespaces /\ e.kept \subseteq Cites /\ e.reads \subseteq Cites
       /\ e.ok \subseteq Cites /\ e.graph \in Graphs /\ e.flawed \in BOOLEAN /\ e.served \in BOOLEAN
  BY <1>3, <1>4, <1>5, CallFacts
<1>11. cached' \in {"up", "down", "unknown"} /\ e.at \in Places(call[c].kind)
       /\ catalog' \subseteq catalog \cup {c} /\ c \notin catalog'
  BY <1>1, <1>2, <1>5, CallFacts DEF Places
<1> QED
  BY <1>2, <1>6, <1>9, <1>10, <1>11, Proceeds

LEMMA TraverseInv ==
    ASSUME IInv, NEW c \in Calls, Traverse(c)
    PROVE  IInv'
<1>1. PICK o \in Observations : Answered(c, o)
  BY DEF Traverse
<1>2. o \in Graphs /\ (~o.truncated /\ OutOfScope(o) = {} => Nodes \subseteq o.nodes)
  BY Observed DEF OutOfScope
<1> QED
  BY <1>1, <1>2, AnsweredInv DEF Traverse

LEMMA ScoreInv ==
    ASSUME IInv, NEW c \in Calls, Score(c)
    PROVE  IInv'
<1>1. PICK o \in Observations : Answered(c, [NoGraph EXCEPT !.nodes = o.nodes, !.truncated = o.truncated])
  BY DEF Score
<1> DEFINE g == [NoGraph EXCEPT !.nodes = o.nodes, !.truncated = o.truncated]
<1>2. g.nodes = o.nodes /\ g.edges = {} /\ g.paths = {} /\ g.truncated = o.truncated /\ g \in Graphs
  BY Observed DEF NoGraph, Graphs
<1>3. Answered(c, g)
  BY <1>1
<1> HIDE DEF g
<1>4. ~g.truncated /\ OutOfScope(g) = {} => Nodes \subseteq g.nodes
  BY <1>2, Observed DEF OutOfScope
<1> QED
  BY <1>2, <1>3, <1>4, AnsweredInv DEF Score

LEMMA PortFailsInv ==
    ASSUME IInv, NEW c \in Calls, PortFails(c)
    PROVE  IInv'
<1>1. call[c].at \in {"provider", "refuse"} /\ Tell(c, Failed)
  BY DEF PortFails, Refuse
<1>2. c \notin catalog
  BY <1>1, CallFacts
<1> QED
  BY <1>1, <1>2, Excuses

---------------------------------------------------------------------------
\* A record that is re-read is admitted exactly if it is admissible now: what was
\* admissible all the time is not lost, and nothing else gets in.
LEMMA RereadInv ==
    ASSUME IInv, NEW c \in Calls, call[c].at \in {"hits", "read"}, NEW r \in call[c].reads,
           Reread(c, r), UNCHANGED Elsewhere
    PROVE  IInv'
<1> DEFINE found == {r} \cap Admissible(active)
           e == [call[c] EXCEPT !.reads = call[c].reads \ {r}, !.kept = call[c].kept \cup found]
           f == [call[c] EXCEPT !.reads = call[c].reads \ {r}, !.ok = call[c].ok \cup found]
<1>1. /\ call[c].kind \in {"memory", "search", "structure", "analytic"} /\ c \notin catalog
      /\ call[c].at = "hits" => call[c].kind = "search"
  BY CallFacts, PlaceKinds
<1>2. UNCHANGED <<active, backend, seen, steady, answer, cached, catalog>>
  BY DEF Elsewhere, World
<1>3. cached' \in {"up", "down", "unknown"} /\ catalog' \subseteq catalog \cup {c} /\ c \notin catalog'
  BY <1>1, <1>2, CallFacts
<1>4. /\ found \subseteq Cites
      /\ answer[c] = Waiting => found \subseteq seen[c] /\ {r} \cap steady[c] \subseteq found
  BY CallFacts, ReadsAssumption DEF Admissible, Cites
<1>5. CASE call[c].kind = "memory" \/ call[c].at = "hits"
  <2>1. call' = [call EXCEPT ![c] = e]
    BY <1>5, CallFacts DEF Reread, CallTypes, IInv, TypeOK
  <2>2. /\ e.kind = call[c].kind /\ e.at = call[c].at
        /\ e.todo = call[c].todo /\ e.kept = call[c].kept \cup found /\ e.reads = call[c].reads \ {r}
        /\ e.ok = call[c].ok
        /\ e.graph = call[c].graph /\ e.flawed = call[c].flawed /\ e.served = call[c].served
    BY CallFacts DEF CallTypes
  <2>3. e = [call[c] EXCEPT !.at = e.at, !.todo = e.todo, !.kept = e.kept, !.reads = e.reads,
                            !.ok = e.ok, !.graph = e.graph, !.flawed = e.flawed, !.served = e.served]
    BY CallFacts DEF CallTypes
  <2> HIDE DEF e, f, found
  <2>4. answer[c] = Waiting => Sound(e, seen[c], steady[c])
    BY <1>1, <1>4, <1>5, <2>2, CallFacts DEF Sound, Account
  <2>5. /\ e.todo \subseteq Namespaces /\ e.kept \subseteq Cites /\ e.reads \subseteq Cites
        /\ e.ok \subseteq Cites /\ e.graph \in Graphs /\ e.flawed \in BOOLEAN /\ e.served \in BOOLEAN
        /\ e.at \in Places(call[c].kind)
    BY <1>4, <2>2, CallFacts
  <2> QED
    BY <1>2, <1>3, <2>1, <2>3, <2>4, <2>5, Proceeds
<1>6. CASE ~(call[c].kind = "memory" \/ call[c].at = "hits")
  <2>1. call' = [call EXCEPT ![c] = f]
    BY <1>6, CallFacts DEF Reread, CallTypes, IInv, TypeOK
  <2>2. /\ f.kind = call[c].kind /\ f.at = call[c].at
        /\ f.todo = call[c].todo /\ f.kept = call[c].kept /\ f.reads = call[c].reads \ {r}
        /\ f.ok = call[c].ok \cup found
        /\ f.graph = call[c].graph /\ f.flawed = call[c].flawed /\ f.served = call[c].served
    BY CallFacts DEF CallTypes
  <2>3. f = [call[c] EXCEPT !.at = f.at, !.todo = f.todo, !.kept = f.kept, !.reads = f.reads,
                            !.ok = f.ok, !.graph = f.graph, !.flawed = f.flawed, !.served = f.served]
    BY CallFacts DEF CallTypes
  <2> HIDE DEF e, f, found
  <2>4. answer[c] = Waiting => Sound(f, seen[c], steady[c])
    BY <1>1, <1>4, <1>6, <2>2, CallFacts DEF Sound, Account
  <2>5. /\ f.todo \subseteq Namespaces /\ f.kept \subseteq Cites /\ f.reads \subseteq Cites
        /\ f.ok \subseteq Cites /\ f.graph \in Graphs /\ f.flawed \in BOOLEAN /\ f.served \in BOOLEAN
        /\ f.at \in Places(call[c].kind)
    BY <1>4, <2>2, CallFacts
  <2> QED
    BY <1>2, <1>3, <2>1, <2>3, <2>4, <2>5, Proceeds
<1> QED
  BY <1>5, <1>6

LEMMA ReadFailsInv ==
    ASSUME IInv, NEW c \in Calls, ReadFails(c)
    PROVE  IInv'
<1> DEFINE e == [call[c] EXCEPT !.at = "finish", !.flawed = TRUE, !.graph = NoGraph, !.reads = {}]
<1>1. /\ call[c].at \in {"hits", "read"}
      /\ \/ Tell(c, Raised)
         \/ Tell(c, Failed)
         \/ /\ call[c].kind # "memory" /\ call[c].at = "read" /\ call' = [call EXCEPT ![c] = e]
            /\ UNCHANGED <<active, backend, seen, steady, answer, cached, catalog>>
  BY DEF ReadFails, World
<1>2. c \notin catalog /\ call[c].kind \in {"memory", "search", "structure", "analytic"}
  BY <1>1, CallFacts, PlaceKinds
<1>3. CASE Tell(c, Raised) \/ Tell(c, Failed)
  BY <1>2, <1>3, Excuses
<1>4. CASE /\ call[c].kind # "memory" /\ call[c].at = "read" /\ call' = [call EXCEPT ![c] = e]
           /\ UNCHANGED <<active, backend, seen, steady, answer, cached, catalog>>
  <2>1. /\ e.kind = call[c].kind /\ e.at = "finish"
        /\ e.todo = call[c].todo /\ e.kept = call[c].kept /\ e.reads = {} /\ e.ok = call[c].ok
        /\ e.graph = NoGraph /\ e.flawed = TRUE /\ e.served = call[c].served
    BY CallFacts DEF CallTypes
  <2>2. e = [call[c] EXCEPT !.at = e.at, !.todo = e.todo, !.kept = e.kept, !.reads = e.reads,
                            !.ok = e.ok, !.graph = e.graph, !.flawed = e.flawed, !.served = e.served]
    BY CallFacts DEF CallTypes
  <2> HIDE DEF e
  <2>3. answer[c] = Waiting => Sound(e, seen[c], steady[c])
    BY <1>4, <2>1, CallFacts DEF Sound
  <2>4. e.at \in Places(call[c].kind)
    BY <1>2, <1>4, <2>1 DEF Places
  <2>5. /\ e.todo \subseteq Namespaces /\ e.kept \subseteq Cites /\ e.reads \subseteq Cites
        /\ e.ok \subseteq Cites /\ e.graph \in Graphs /\ e.flawed \in BOOLEAN /\ e.served \in BOOLEAN
    BY <2>1, CallFacts, NoGraphType
  <2>6. cached' \in {"up", "down", "unknown"} /\ catalog' \subseteq catalog \cup {c} /\ c \notin catalog'
    BY <1>2, <1>4, CallFacts
  <2> QED
    BY <1>4, <2>2, <2>3, <2>4, <2>5, <2>6, Proceeds
<1> QED
  BY <1>1, <1>3, <1>4

---------------------------------------------------------------------------
\* What is left of an answer: supported items, and paths each of whose hops is carried
\* by a supported edge.
LEMMA LinkedFacts ==
    ASSUME NEW graph \in Graphs, NEW ok
    PROVE  /\ Linked(graph, ok) \in Graphs
           /\ Linked(graph, ok).nodes = Supported(graph.nodes, ok)
           /\ Linked(graph, ok).edges = Supported(graph.edges, ok)
           /\ \A p \in Linked(graph, ok).paths : p \in graph.paths /\ Carried(p, Linked(graph, ok).edges)
BY DEF Linked, Supported, Graphs

LEMMA HopsAreJoined ==
    ASSUME NEW p \in Paths, NEW edges, Carried(p, edges), NEW i \in 1..(Len(p.nodes) - 1)
    PROVE  \E e \in edges : Joins(e, p.nodes[i], p.nodes[i + 1])
<1>1. PICK o \in Observations : p \in o.paths
  BY DEF Paths
<1> DEFINE range == {p.edges[j] : j \in DOMAIN p.edges}
<1>2. p.edges \in Seq(range)
  BY <1>1, ObservationsAssumption
<1> HIDE DEF range
<1>3. Len(p.edges) \in Nat /\ DOMAIN p.edges = 1..Len(p.edges)
  BY <1>2
<1>4. i \in DOMAIN p.edges
  BY <1>3 DEF Carried
<1> QED
  BY <1>4 DEF Carried

LEMMA FinishInv ==
    ASSUME IInv, NEW c \in Calls, Finish(c)
    PROVE  IInv'
<1> DEFINE graph == Linked(call[c].graph, call[c].ok)
           cited == UNION {Support[x] \cap call[c].ok : x \in graph.nodes \cup graph.edges}
           said == [status |-> Status(c), kind |-> call[c].kind,
                    records |-> call[c].kept \cup cited, graph |-> graph]
<1>1. /\ call[c].at = "finish" \/ (call[c].at = "read" /\ call[c].reads = {})
      /\ Tell(c, IF Status(c) = "FAILED" THEN Failed ELSE said)
  BY DEF Finish
<1>2. call[c].kind \in {"memory", "search", "structure", "analytic"} /\ c \notin catalog
  BY <1>1, CallFacts, PlaceKinds
<1>3. /\ Status(c) \in {"COMPLETE", "FAILED", "PARTIAL"}
      /\ Status(c) = "COMPLETE" => ~call[c].flawed
  BY CallFacts DEF Status
<1>4. CASE Status(c) = "FAILED"
  BY <1>1, <1>2, <1>4, Excuses
<1>5. CASE Status(c) # "FAILED"
  <2>1. /\ graph \in Graphs
        /\ graph.nodes = Supported(call[c].graph.nodes, call[c].ok)
        /\ graph.edges = Supported(call[c].graph.edges, call[c].ok)
        /\ \A p \in graph.paths : p \in Paths /\ Carried(p, graph.edges)
    BY CallFacts, LinkedFacts DEF Graphs
  <2>2. \A x \in graph.nodes \cup graph.edges : Support[x] \cap call[c].ok # {}
    BY <2>1 DEF Supported
  <2> HIDE DEF graph
  <2>3. cited \subseteq call[c].ok
    OBVIOUS
  <2> HIDE DEF cited
  <2>4. /\ said.status = Status(c) /\ said.kind = call[c].kind
        /\ said.records = call[c].kept \cup cited /\ said.graph = graph
    OBVIOUS
  <2>5. said \in AnswerTypes
    BY <1>2, <1>3, <1>5, <2>1, <2>3, CallFacts DEF AnswerTypes, Kinds
  <2> HIDE DEF said
  <2>6. said # Waiting
    <3>1. Waiting.status = "WAITING"
      BY DEF Waiting
    <3> QED
      BY <1>3, <2>4, <3>1
  <2>7. ASSUME answer[c] = Waiting
        PROVE  Supports(said, seen[c]) /\ Brings(said, steady[c])
    <3>1. /\ call[c].kept \subseteq seen[c] /\ call[c].ok \subseteq seen[c]
          /\ ~call[c].flawed => Account(call[c], steady[c])
      BY <1>1, <2>7, CallFacts DEF Sound
    <3>2. Supports(said, seen[c])
      <4>1. said.records \subseteq seen[c]
        BY <2>3, <2>4, <3>1
      <4>2. \A x \in said.graph.nodes \cup said.graph.edges : Support[x] \cap seen[c] # {}
        BY <2>2, <2>4, <3>1
      <4>3. \A p \in said.graph.paths : \A i \in 1..(Len(p.nodes) - 1) :
              \E e \in said.graph.edges : Joins(e, p.nodes[i], p.nodes[i + 1])
        BY <2>1, <2>4, HopsAreJoined
      <4> QED
        BY <4>1, <4>2, <4>3 DEF Supports
    <3>3. ASSUME Status(c) = "COMPLETE"
          PROVE  Brings(said, steady[c])
      <4>1. Account(call[c], steady[c])
        BY <1>3, <3>1, <3>3
      <4>2. CASE call[c].kind \in {"memory", "search"}
        BY <1>1, <2>4, <4>1, <4>2 DEF Account, Brings
      <4>3. CASE call[c].kind \in {"structure", "analytic"}
        <5>1. \A x \in Nodes : x \in call[c].graph.nodes /\ Support[x] \cap steady[c] \subseteq call[c].ok
          BY <1>1, <4>1, <4>3 DEF Account
        <5>2. \A x \in Nodes : Support[x] \cap steady[c] # {} => x \in graph.nodes
          BY <2>1, <5>1 DEF Supported, Nodes
        <5> QED
          BY <2>4, <4>3, <5>2 DEF Brings
      <4> QED
        BY <1>2, <4>2, <4>3
    <3>4. Status(c) # "COMPLETE" => Brings(said, steady[c])
      BY <2>4 DEF Brings
    <3> QED
      BY <3>2, <3>3, <3>4
  <2>8. Tell(c, said)
    BY <1>1, <1>5
  <2> QED
    BY <1>2, <2>5, <2>6, <2>7, <2>8, Tells
<1> QED
  BY <1>4, <1>5

---------------------------------------------------------------------------
LEMMA WorkInv ==
    ASSUME IInv, NEW c \in Calls, Work(c)
    PROVE  IInv'
<1>1. CASE Read(c)
  <2>1. PICK r \in call[c].reads : Reread(c, r)
    BY <1>1 DEF Read
  <2> QED
    BY <1>1, <2>1, RereadInv DEF Read
<1> QED
  BY <1>1, StartInv, ReadWindowInv, AskProjectionInv, FanInv, CollectInv, BindInv, ReadAnchorInv, ProjectInv,
     StreamInv, DropInv, TraverseInv, ScoreInv, PortFailsInv, ReadFailsInv, FinishInv DEF Work

LEMMA NextInv ==
    ASSUME IInv, Next
    PROVE  IInv'
<1>1. ASSUME NEW r \in Scoped, Retire(r) \/ Restore(r)
      PROVE  IInv'
  <2>1. active \ {r} \in SUBSET Records /\ active \cup {r} \in SUBSET Records
    BY <1>1, ReadsAssumption DEF IInv, TypeOK
  <2> QED
    BY <1>1, <2>1, MoveInv DEF Retire, Restore
<1>2. CASE BackendMoves
  <2>1. backend' \in {"up", "down"} /\ UNCHANGED <<active, call, answer, seen, steady, catalog, cached>>
    BY <1>2 DEF BackendMoves
  <2> QED
    BY <2>1, BesidesMoves DEF IInv, TypeOK
<1>3. CASE HealthExpires
  <2>1. cached' = "unknown" /\ UNCHANGED <<active, call, answer, seen, steady, catalog, backend>>
    BY <1>3 DEF HealthExpires
  <2> QED
    BY <2>1, BesidesMoves DEF IInv, TypeOK
<1>4. ASSUME NEW c \in Calls, FetchRuns(c) \/ FetchEnds(c)
      PROVE  IInv'
  <2>1. UNCHANGED <<active, call, answer, seen, steady, catalog, cached, backend>>
    BY <1>4 DEF FetchRuns, FetchEnds, World
  <2> QED
    BY <2>1, BesidesMoves DEF IInv, TypeOK
<1> QED
  BY <1>1, <1>2, <1>3, <1>4, AskInv, GiveUpInv, WorkInv DEF Next

\* The invariant holds in every state of every behaviour.
THEOREM Reads == Spec => []IInv
<1>1. ASSUME IInv, UNCHANGED vars
      PROVE  IInv'
  <2>1. UNCHANGED <<active, call, answer, seen, steady, catalog, cached, backend>>
    BY <1>1 DEF vars
  <2> QED
    BY <1>1, <2>1, BesidesMoves DEF IInv, TypeOK
<1>2. IInv /\ [Next]_vars => IInv'
  BY <1>1, NextInv
<1> QED
  BY <1>2, InitInv, PTL DEF Spec

\* However records are retired and restored between the reads of one request, and whatever the
\* providers name, an answer cites only records that were ACTIVE and in scope since it was asked
\* for, every node and edge has one behind it, and every hop of a path is carried by such an edge
\* (memory_service.py search, graph/evidence.py link).
THEOREM Served == Spec => []ServedIsSupported
<1>1. IInv => ServedIsSupported
  BY DEF IInv, Supports, ServedIsSupported
<1> QED
  BY <1>1, Reads, PTL

\* An answer called COMPLETE has everything that store and providers name and that was admissible
\* all the time, though namespaces are searched one by one and every part of the work may fail or
\* run out of time (memory_service.py search, graph/service.py _search).
THEOREM Complete == Spec => []CompleteMeansAll
<1>1. ASSUME IInv, NEW c \in Calls, answer[c].status = "COMPLETE"
      PROVE  CASE answer[c].kind = "memory" -> (Hits \cup Recent) \cap steady[c] \subseteq answer[c].records
               [] answer[c].kind = "search" -> Hits \cap steady[c] \subseteq answer[c].records
               [] OTHER -> \A x \in Nodes : Support[x] \cap steady[c] # {} => x \in answer[c].graph.nodes
  <2>1. Brings(answer[c], steady[c])
    BY <1>1 DEF IInv
  <2>2. CASE answer[c].kind = "memory"
    BY <1>1, <2>1, <2>2 DEF Brings
  <2>3. CASE answer[c].kind = "search"
    BY <1>1, <2>1, <2>3 DEF Brings
  <2>4. CASE answer[c].kind \notin {"memory", "search"}
    BY <1>1, <2>1, <2>4 DEF Brings
  <2> QED
    BY <2>2, <2>3, <2>4
<1>2. IInv => CompleteMeansAll
  BY <1>1 DEF CompleteMeansAll, Hits, Nodes
<1> QED
  BY <1>2, Reads, PTL

\* A projected graph stays in the catalog only while the operation that made it is still to drop
\* it (neo4j_graph_intelligence.py _projected).
THEOREM Swept == Spec => []CatalogIsSwept
<1>1. IInv => CatalogIsSwept
  BY DEF IInv
<1> QED
  BY <1>1, Reads, PTL
=============================================================================
