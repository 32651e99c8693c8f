CONSTANTS
    Editions <- EditionsMC  Edits <- EditsMC  Meaning <- MeaningMC  Verdict <- VerdictMC
    Ceiling = 2  Publishers = {p1, p2}
    Files <- FilesMC  Unreadable = {"broken"}  Keyed = {"keyed"}
    Drainers = {d1, d2}  Limit = 2  MaxFaults = 2
SPECIFICATION ReplaySpec
INVARIANTS PublishedAsDescribed QueueIsAccounted
PROPERTY RerunPublishes
