SPECIFICATION CommandSpec
CONSTANTS
    a1 = a1  a2 = a2  human = human
    k1 = k1  k2 = k2  kx = kx  n1 = n1
    Agents = {a1, a2, human}
    Human = human
    Local = local
    Signatures = {k1, k2, kx}
    NoKey = nokey
    Namespaces = {n1}
    MaxTtl = 4
    Margin = 0
    Calls = {1, 2}
    Owner <- MCOwner
    Deployments <- MCDeployments
    Wallets <- MCWallets
    Operations <- MCOperations
    MaxTime = 2
    MaxMints = 1
    MaxRestarts = 1
INVARIANTS RefusedMeansNothingDone ZeroMeansStored RetriesConverge AttributedToSigner
PROPERTY CommandsEnd
CHECK_DEADLOCK FALSE
