CONSTANTS
    Editions <- EditionsMC  Edits <- EditsMC  Meaning <- MeaningMC  Verdict <- VerdictMC
    Ceiling = 2  Publishers = {p1}
    Files <- FilesMC  Unreadable = {"broken"}  Keyed = {"keyed"}
    Drainers = {d1}  Limit = 2  MaxFaults = 0
SPECIFICATION ReplaySpec
INVARIANT CleanExitMeansNoneLeft
