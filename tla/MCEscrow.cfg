SPECIFICATION FairSpec
CONSTANTS
    c1 = c1
    f1 = f1
    o1 = o1
    keeper = keeper
    j1 = j1
    long1 = long1
    Wallets = {c1, f1, o1, keeper}
    Clients = {c1}
    Freelancers = {f1, c1}
    Oracles = {o1}
    JobIds = {j1, long1}
    OversizedIds = {long1}
    Prefix <- MCPrefix
    Amounts = {1, 2, 3}
    Durations = {1, 2, 3, 4}
    Dust = {1, 2}
    InitialBalance <- MCInitialBalance
    RentMin = 2
    RentEscrow = 3
    MinDuration = 2
    MaxDuration = 3
    I64Max = 5
    NoEscrow = NoEscrow
    NeverSettled = NeverSettled
INVARIANTS
    VaultCoversAmount
    SettlementUnblocked
    NoEarlyRefund
    Conservation
PROPERTIES
    ImplementsCustody
    EveryJobSettles
CHECK_DEADLOCK FALSE
