\* Two workers, two events claimed together; a lease of two ticks may be
\* outrun once and workers may die twice.
CONSTANTS
    Events = {1, 2}
    Workers = {w1, w2}
    Leases = {l1, l2, l3, l4}
    NoLease = NoLease
    MaxAttempts = 3
    LeaseTicks = 2
    BaseDelay = 1
    BatchSize = 2
    MaxCrashes = 2
    MaxOverruns = 1
SPECIFICATION FairSpec
INVARIANTS HolderIsCurrent PunctualWorkersKeepLeases
PROPERTIES KeepsPromise EverySettled
CHECK_DEADLOCK FALSE
