---------------------------- MODULE MCMemoryReads ----------------------------
(***************************************************************************)
(* A small instance of MemoryReads for TLC: r1 is recent, r2 only the      *)
(* projection finds, other is out of the caller's scope.  The graph is an  *)
(* edge ab from a to b; a second path the backend answers is not one.      *)
(***************************************************************************)
EXTENDS MemoryReads

CONSTANTS c1, c2, r1, r2, other, n1, n2, a, b, far, ab, ba

MCRequests == [c \in {c1, c2} |->
    IF c = c1 THEN {<<"search", FALSE>>, <<"analytic", FALSE>>}
    ELSE {<<"search", TRUE>>, <<"memory", FALSE>>, <<"structure", FALSE>>}]
MCRecords == {r1, r2, other}
MCScoped == {r1, r2}
MCRetired == {{}, {r2}}
MCRecent == {r1}
MCNamespaces == {n1, n2}
MCIndexed == [n \in {n1, n2} |-> IF n = n1 THEN {r1} ELSE {r2, other}]
MCEntityHits == {b}
MCSupport == [x \in {a, b, far, ab, ba} |->
    CASE x = a -> {r1} [] x = b -> {r2, other} [] x = ab -> {r2} [] x = ba -> {other} [] OTHER -> {r1}]
MCEnds == [e \in {ab, ba} |-> IF e = ab THEN <<a, b>> ELSE <<b, a>>]
MCInScope == {a, b, ab, ba}

Path(nodes, edges) == [nodes |-> nodes, edges |-> edges]
Whole == [nodes |-> {a, b}, edges |-> {ab, ba}, truncated |-> FALSE,
          paths |-> {Path(<<a, b>>, <<ab>>), Path(<<b, a>>, <<ab>>), Path(<<b, a>>, <<ba>>)}]
MCObservations == {Whole,
    [Whole EXCEPT !.nodes = {a, far}],
    [Whole EXCEPT !.nodes = {b}, !.edges = {}, !.truncated = TRUE]}
=============================================================================
