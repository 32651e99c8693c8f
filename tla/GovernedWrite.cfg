\* Two callers, one of them an administrator, over two records, one task.
CONSTANTS
    Records = {r1, r2}
    Callers = {c1, c2}
    Admins = {c2}
    Tasks = {t1}
    NoCaller = NoCaller
    OneWriter = FALSE
    MaxMoves = 2
SPECIFICATION Spec
INVARIANTS OnlyOthersIntrude AuthorityIsGranted
CHECK_DEADLOCK FALSE
