\* One target; calls fail, workers die, leases are outrun.
CONSTANTS
    w1 = w1
    w2 = w2
    Targets = {t1}
    Workers = {w1, w2}
    NoWorker = NoWorker
    Faults = {"refused", "unanswered", "crash", "overrun"}
    Reactivates = TRUE
    Deployments <- MCDeployments
    MaxAttempts = 2
    LinkInstallAttempts = 2
    MaxOps = 3
    MaxFaults = 1
    MaxCopies = 3
SPECIFICATION FairSpec
INVARIANTS DeletedHoldsNoLink StaleLinkIsOwed ReactivationSticks
PROPERTIES DeletionCompletes
CHECK_DEADLOCK FALSE
