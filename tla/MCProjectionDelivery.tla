------------------------ MODULE MCProjectionDelivery ------------------------
(***************************************************************************)
(* Small instances of ProjectionDelivery for TLC: two workers before a     *)
(* provider like Zep, and one before a provider like Graphiti's server.    *)
(***************************************************************************)
EXTENDS ProjectionDelivery

CONSTANTS w1, w2

TwoByEpisode == [workers |-> {w1, w2}, byName |-> FALSE, missingRaises |-> FALSE]
OneByName == [workers |-> {w1}, byName |-> TRUE, missingRaises |-> TRUE]

MCDeployments == {TwoByEpisode, OneByName}
=============================================================================
