CONSTANTS
    Workers = {w}
    Topics <- Everything
    Forever = 3
    NeverArchived = {"constraint"}
    MaxMoved = 1
    MaxNow = 1
    MaxReviews = 1
SPECIFICATION MaintenanceSpec
INVARIANT ConsolidationIsExact
PROPERTY ComesToRest
CHECK_DEADLOCK FALSE
