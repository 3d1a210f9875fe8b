SPECIFICATION Spec
CONSTANTS
    own = own
    oper = oper
    a1 = a1
    str = str
    s1 = s1
    s2 = s2
    usdc = usdc
    eurc = eurc
    h1 = h1
    h2 = h2
    h3 = h3
    None = None
    Accounts <- MCAccounts
    Agents = {a1}
    Services = {s1, s2}
    Assets = {usdc, eurc}
    Hashes = {h1, h2}
    MaxU32 = 2
    MaxU64 = 3
    MaxI128 = 6
    MaxTime = 2
    Deployer = own
    OperatorArgs = {oper}
    PolicyArgs <- MCPolicyArgs
    Requests <- RuleRequests
    SignerSets <- MCSignerSets
CHECK_DEADLOCK FALSE
INVARIANTS
    TypeOK
    DecisionIndexed
    DecisionTrail
    EveryRequestIsAnswered
PROPERTIES
    DecisionsAreFinal
    RevocationIsImmediate
    ImplementsLifecycle
    EvidenceIsTrue
