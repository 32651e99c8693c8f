\* Two callers, one request worker and one search worker, no backlog.
CONSTANTS
    c1 = c1
    c2 = c2
    r1 = r1
    r2 = r2
    other = other
    n1 = n1
    n2 = n2
    a = a
    b = b
    far = far
    ab = ab
    ba = ba
    Calls = {c1, c2}
    Requests <- MCRequests
    Records <- MCRecords
    Scoped <- MCScoped
    Retired <- MCRetired
    Recent <- MCRecent
    Namespaces <- MCNamespaces
    Indexed <- MCIndexed
    EntityHits <- MCEntityHits
    Anchor = r1
    Observations <- MCObservations
    Support <- MCSupport
    Ends <- MCEnds
    InScope <- MCInScope
    Direction = "out"
    Workers = 1
    Backlog = 0
    SearchWorkers = 1
    SearchBacklog = 0
    MaxMoves = 1
    MaxFaults = 1
SPECIFICATION Spec
INVARIANTS ServedIsSupported CompleteMeansAll CatalogIsSwept
PROPERTIES SlotsComeBack
