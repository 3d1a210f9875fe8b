SPECIFICATION AuditSpec
CONSTANTS
    own = own
    oper = oper
    a1 = a1
    str = str
    s1 = s1
    s2 = s2
    usdc = usdc
    eurc = eurc
    h1 = h1
    h2 = h2
    h3 = h3
    None = None
    Accounts <- MCAccounts
    Agents = {a1}
    Services = {s1}
    Assets = {usdc}
    Hashes = {h1, h2, h3}
    MaxU32 = 3
    MaxU64 = 7
    MaxI128 = 8
    MaxTime = 5
    Deployer = own
    OperatorArgs = {}
    PolicyArgs <- BudgetPolicyArgs
    Requests <- BudgetRequests
    SignerSets = {{own, a1}}
SYMMETRY MCSymmetry
CHECK_DEADLOCK FALSE
INVARIANTS
    WindowAccounts
    TumblingBound
    ChargeNeverVetoes
PROPERTY
    BudgetHoldsAtGrant
