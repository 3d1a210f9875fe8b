SPECIFICATION Spec
CONSTANTS
    r1 = r1
    r2 = r2
    h1 = h1
    h2 = h2
    Hashes = {h1, h2}
    Requests = {r1, r2}
    Modes = {"postgres", "degraded"}
    Keys = {"caller", "agent", "owner", "write"}
    Faults = {"rpc", "db", "crash"}
    Limits = {1, 2}
    Cap = 1
    MaxVersion = 2
    MaxCalls = 3
    MaxLists = 1
    MaxFaults = 2
SYMMETRY Symmetric
CHECK_DEADLOCK FALSE
INVARIANTS
    AnswersAreTheChains
    CacheTrailsChain
    QueueHoldsEscalations
    ListedWasWaiting
    ListIsComplete
PROPERTIES
    SnapshotIsKept
