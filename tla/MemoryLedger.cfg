\* Two callers over two records, one explicit key.
CONSTANTS
    Records = {r1, r2}
    NoRecord = NoRecord
    Keys = {k1}
    NoKey = NoKey
    Callers = {c1, c2}
    Rolling = FALSE
    MaxMoves = 3
SPECIFICATION Spec
SYMMETRY Symmetry
INVARIANTS OneRecordPerKey DeletionReceiptIsTrue StaleCopyIsOwed
PROPERTIES OnlyGovernedMoves
CHECK_DEADLOCK FALSE
