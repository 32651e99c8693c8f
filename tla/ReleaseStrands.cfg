\* One record, one target, one migration, no fault.
CONSTANTS
    graph = graph
    vector = vector
    Records = {1}
    Graph = graph
    Plain = {}
    Runtimes <- OneMigration
    Limit = 1
    MaxQueued = 0
    OutboxMaxAttempts = 1
    Touched = {1}
    MaxMoves = 1
    MaxFaults = 0
SPECIFICATION ReleaseSpec
PROPERTIES DeletionCompletes
CHECK_DEADLOCK FALSE
