SPECIFICATION MCSpec
CONSTANTS
    k1 = k1
    j1 = j1
    j2 = j2
    c1 = c1
    s1 = s1
    Calls = {k1}
    JobIds = {j1, j2}
    LongIds = {}
    Clients = {c1}
    Amounts = {1}
    BigIntMax = 2
    Sigs = {s1}
    NoRow = NoRow
    Unset = Unset
    Inbox <- MCInbox
    Unreachable = Unreachable
    NoCall = NoCall
    pageCall = k1
    Tabs <- MCTabs
    Recent = 1
INVARIANTS
    TabShowsItsJobs
PROPERTIES
    ShownStaysShown
    DeadOracleNoticed
    LoadingEnds
