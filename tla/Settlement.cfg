SPECIFICATION Spec
CONSTANTS
    DecisionRecords <- TheDecisions
    Files <- TheFiles
    Edits <- TheEdits
    Funds = 8
    Config <- TheConfig
    G <- TheAccounts
    C <- TheContracts
    MAX_INT64 <- MaxInt64
    MAX_U32 <- MaxU32
    Missing = Missing
    Refused = Refused
    None = None
    NotFound = NotFound
    Unread = Unread
    Timeout = 2
    SearchedSets <- TheSearchedSets
    SearchLimit = 2
    MaxTime = 4
    MaxTrouble = 2
CHECK_DEADLOCK FALSE
INVARIANTS
    ReceiptVerifiesIffPaid
    SettledIsPayable
    ReceiptIsAccepted
    ShownIsPaid
    CardIsTrue
