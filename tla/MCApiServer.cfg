SPECIFICATION FairApiSpec
CONSTANTS
    a1 = a1
    a2 = a2
    a3 = a3
    j1 = j1
    j2 = j2
    long = long
    c1 = c1
    Calls = {a1, a2, a3}
    JobIds = {j1, j2, long}
    LongIds = {long}
    Clients = {c1}
    Amounts = {1, 2}
    BigIntMax = 1
    Sigs = {s1}
    s1 = s1
    NoRow = NoRow
    Unset = Unset
    Inbox <- MCInbox
    Unreachable = Unreachable
INVARIANTS
    CreatedIsRow
PROPERTIES
    RefusedChangesNothing
    StatsTruthful
    ImplementsJobsTable
    EveryCallAnswered
CHECK_DEADLOCK FALSE
