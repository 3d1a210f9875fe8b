SPECIFICATION FairSpec
CONSTANTS
    Starts <- TheStarts
    MaxLies = 3
    Modes = {TRUE, FALSE}
    PAGE = 2
    MAX_PAGES = 2
    TxArg = "tx"
    NotFound = NotFound
    Down = Down
    Unread = Unread
    None = None
CHECK_DEADLOCK FALSE
INVARIANTS
    VerifiedIsAuthorized
    FailedIsReal
    ReplayIsCaught
    HonestIsVerified
PROPERTIES
    EveryRunReports
