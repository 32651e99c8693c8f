------------------------- MODULE MCProjectionTargets -------------------------
(***************************************************************************)
(* Small instances of ProjectionTargets for TLC.                           *)
(***************************************************************************)
EXTENDS ProjectionTargets, TLC

CONSTANTS graph, vector

\* The graph moves to a new store with every runtime.  The vector target is
\* disabled by the second, which lacks its provider, and has it back in the third.
TwoMigrations ==
    [i \in 1..3 |->
        [scheme |-> i,
         adapters |-> IF i = 2 THEN {graph} ELSE {graph, vector},
         mode |-> [t \in {graph, vector} |->
             IF t = graph \/ i = 1 THEN "ACTIVE" ELSE "DISABLED"]]]

\* One target, one migration.
OneMigration ==
    [i \in 1..2 |->
        [scheme |-> i, adapters |-> {graph}, mode |-> [t \in {graph} |-> "ACTIVE"]]]
=============================================================================
