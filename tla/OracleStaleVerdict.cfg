SPECIFICATION OracleSpec
CONSTANTS
    c1 = c1
    f1 = f1
    f2 = f2
    o1 = o1
    j1 = j1
    r1 = r1
    r2 = r2
    Wallets = {c1, f1, f2, o1}
    Clients = {c1}
    Freelancers = {f1}
    Oracles = {o1}
    JobIds = {j1}
    OversizedIds = {}
    Prefix <- MCPrefix
    Amounts = {2}
    Durations = {1}
    Dust = {}
    InitialBalance <- MCInitialBalance
    RentMin = 2
    RentEscrow = 2
    MinDuration = 1
    MaxDuration = 1
    I64Max = 1
    NoEscrow = NoEscrow
    NeverSettled = NeverSettled
    Absent = Absent
    MaxStream = 1
    MaxGen = 2
    Requests = {r1, r2}
    ThisOracle = o1
    NoJob = NoJob
INVARIANTS
    VerdictSettlesItsJob
CHECK_DEADLOCK FALSE
