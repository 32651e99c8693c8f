\* Two records, two migrations of the graph store, a target that is retained.
CONSTANTS
    graph = graph
    vector = vector
    Records = {1, 2}
    Graph = graph
    Plain = {vector}
    Runtimes <- TwoMigrations
    Limit = 1
    MaxQueued = 0
    OutboxMaxAttempts = 1
    Touched = {1}
    MaxMoves = 2
    MaxFaults = 1
SPECIFICATION MigrationSpec
PROPERTIES NamedCopiesAreKept CutoverLeavesNothing MigrationCompletes
CHECK_DEADLOCK FALSE
