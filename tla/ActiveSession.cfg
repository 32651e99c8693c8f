\* Four failing calls, two lapses.
CONSTANTS
    Threshold = 2
    MaxFaults = 4
    MaxLapses = 2
SPECIFICATION FairSpec
INVARIANTS HeartbeatSurvives SpeaksForItself OneInstanceListed ClosedLeavesNothing
PROPERTIES Recovers
CHECK_DEADLOCK FALSE
