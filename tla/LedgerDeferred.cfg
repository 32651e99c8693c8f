\* A quarantined candidate that supersedes, released.
CONSTANTS
    Records = {r1, r2}
    NoRecord = NoRecord
    Keys = {k1}
    NoKey = NoKey
    Callers = {c1, c2}
    Rolling = FALSE
    MaxMoves = 3
SPECIFICATION Spec
SYMMETRY Symmetry

PROPERTIES DeferredSupersessionHappens
CHECK_DEADLOCK FALSE
