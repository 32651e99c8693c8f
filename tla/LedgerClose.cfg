\* A close whose first attempt was quarantined, retried under its key.
CONSTANTS
    Records = {r1, r2}
    NoRecord = NoRecord
    Keys = {k1}
    NoKey = NoKey
    Callers = {c1, c2}
    Rolling = FALSE
    MaxMoves = 3
SPECIFICATION Spec
SYMMETRY Symmetry
INVARIANTS CloseVerdictIsStable

CHECK_DEADLOCK FALSE
