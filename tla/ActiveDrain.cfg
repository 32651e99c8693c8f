\* One failing call, one lapse: enough for a re-registration under way.
CONSTANTS
    Threshold = 2
    MaxFaults = 1
    MaxLapses = 1
SPECIFICATION FairSpec
PROPERTIES DrainStopsWrites
CHECK_DEADLOCK FALSE
