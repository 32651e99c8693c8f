\* Batches of two share one lease expiry.
CONSTANTS
    Events = {1, 2}
    Workers = {w1, w2}
    Leases = {l1, l2, l3, l4}
    NoLease = NoLease
    MaxAttempts = 2
    LeaseTicks = 2
    BaseDelay = 1
    BatchSize = 2
    MaxCrashes = 1
    MaxOverruns = 2
SPECIFICATION TimedSpec
INVARIANTS CallsWithinLeaseKeepIt
CHECK_DEADLOCK FALSE
