CONSTANTS
    Workers = {w}
    Topics <- OnlyHeld
    Forever = 3
    NeverArchived = {"constraint"}
    MaxMoved = 1
    MaxNow = 1
    MaxReviews = 1
SPECIFICATION MaintenanceSpec
INVARIANT ClaimedMeansDone
CHECK_DEADLOCK FALSE
