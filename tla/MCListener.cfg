SPECIFICATION FairListenerSpec
CONSTANTS
    c1 = c1
    c2 = c2
    f1 = f1
    f2 = f2
    o1 = o1
    j1 = j1
    Wallets = {c1, c2, f1, o1}
    Clients = {c1, c2}
    Freelancers = {f1}
    Oracles = {o1}
    JobIds = {j1}
    OversizedIds = {}
    Prefix <- MCPrefix
    Amounts = {2}
    Durations = {1}
    Dust = {}
    InitialBalance <- MCInitialBalance
    RentMin = 2
    RentEscrow = 2
    MinDuration = 1
    MaxDuration = 1
    I64Max = 2
    NoEscrow = NoEscrow
    NeverSettled = NeverSettled
    Absent = Absent
    MaxStream = 2
    MaxGen = 2
INVARIANTS
    FreshWhenDrained
PROPERTIES
    EveryJobDetected
    OnlyPartiesPaid
    ImplementsRegistry
CHECK_DEADLOCK FALSE
