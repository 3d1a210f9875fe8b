SPECIFICATION Spec
CONSTANTS
    r1 = r1
    r2 = r2
    h1 = h1
    h2 = h2
    Hashes = {h1}
    Requests = {r1, r2}
    Modes = {"postgres"}
    Keys = {"caller", "agent", "owner", "write"}
    Faults = {}
    Limits = {2}
    Cap = 1
    MaxVersion = 2
    MaxCalls = 3
    MaxLists = 0
    MaxFaults = 0
SYMMETRY Symmetric
CHECK_DEADLOCK FALSE
PROPERTIES
    CacheMovesForward
