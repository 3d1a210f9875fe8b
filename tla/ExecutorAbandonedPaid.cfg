SPECIFICATION Spec
CONSTANTS
    p1 = p1
    p2 = p2
    d1 = d1
    d2 = d2
    None = None
    Decisions = {d1}
    Processes = {p1}
    JournalOf <- OneJournal
    Timeout = 1
    MaxTime = 4
    MaxStops = 1
CHECK_DEADLOCK FALSE
INVARIANT
    AbandonedIsUnpaid
