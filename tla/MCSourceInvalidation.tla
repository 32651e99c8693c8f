------------------------ MODULE MCSourceInvalidation ------------------------
(* Two requests of one repository, over two candidates of different        *)
(* namespaces or over one that would supersede another.                    *)
EXTENDS SourceInvalidation

CONSTANTS a, b, c, code, docs, main, branch, sent, second

MCHome     == [x \in {a, b, c} |-> IF x = b THEN branch ELSE main]
MCWatches  == [x \in {a, b, c} |-> CASE x = a -> {code} [] x = b -> {code, docs} [] x = c -> {docs}]
MCReplaces == [x \in {a, b, c} |-> IF x = c THEN {a} ELSE {}]

World(proposed, event, sources) ==
    [proposed |-> proposed,
     event    |-> [q \in {sent, second} |-> IF q = sent THEN "both changed" ELSE event],
     sources  |-> [q \in {sent, second} |-> IF q = sent THEN {code, docs} ELSE sources]]

\* The same delivery twice, one identity with two bodies, and two operations
MCWorlds ==
    {World({a, b}, "both changed", {code, docs}), World({a, c}, "both changed", {code, docs}),
     World({a, b}, "both changed", {docs}), World({a, b}, "docs changed", {docs})}

\* Operations of different identities over one candidate
OneCandidate == {World({b}, "docs changed", {docs})}
=============================================================================
