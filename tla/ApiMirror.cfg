SPECIFICATION ProxySpec
CONSTANTS
    a1 = a1
    a2 = a2
    j1 = j1
    c1 = c1
    f1 = f1
    o1 = o1
    s1 = s1
    Calls = {a1, a2}
    JobIds = {j1}
    LongIds = {}
    Clients = {c1}
    Amounts = {2}
    BigIntMax = 2
    Sigs = {s1}
    NoRow = NoRow
    Unset = Unset
    Inbox <- MCInbox
    Unreachable = Unreachable
    Wallets = {c1, f1, o1}
    Freelancers = {f1}
    Oracles = {o1}
    OversizedIds = {}
    Prefix <- MCPrefix
    Durations = {1}
    Dust = {}
    InitialBalance <- MCInitialBalance
    RentMin = 2
    RentEscrow = 2
    MinDuration = 1
    MaxDuration = 1
    I64Max = 1
    NoEscrow = NoEscrow
    NeverSettled = NeverSettled
    MaxStream = 1
    MaxGen = 1
    Absent = Absent
    ThisOracle = o1
    NoJob = NoJob
PROPERTIES
    VerdictMirrored
CHECK_DEADLOCK FALSE
