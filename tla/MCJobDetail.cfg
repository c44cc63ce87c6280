SPECIFICATION FairDetailSpec
CONSTANTS
    k1 = k1
    k2 = k2
    j1 = j1
    c1 = c1
    Calls = {k1, k2}
    JobIds = {j1}
    LongIds = {}
    Clients = {c1}
    Amounts = {1}
    BigIntMax = 2
    Sigs = {}
    NoRow = NoRow
    Unset = Unset
    Inbox <- MCInbox
    Unreachable = Unreachable
    NoCall = NoCall
    jobId = j1
INVARIANTS
    ShownTermsHold
    FetchContract
PROPERTIES
    SettledStaysSettled
    NothingPendsForever
CHECK_DEADLOCK FALSE
