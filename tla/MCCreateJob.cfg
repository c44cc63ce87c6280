SPECIFICATION CreateSpec
CONSTANTS
    k1 = k1
    k2 = k2
    j1 = j1
    wide = wide
    c1 = c1
    s1 = s1
    Calls = {k1, k2}
    JobIds = {j1, wide}
    LongIds = {}
    Clients = {c1}
    Amounts = {1}
    BigIntMax = 2
    Sigs = {s1}
    NoRow = NoRow
    Unset = Unset
    Inbox <- MCInbox
    Unreachable = Unreachable
    NoCall = NoCall
    WideIds = {wide}
    ProgramArgs <- IdlArgs
    Blank = Blank
    wallet = c1
    NoForm = NoForm
    NoEscrow = NoEscrow
INVARIANTS
    HalfMadeShown
    InitializedIsOpen
PROPERTIES
    RegisteredAsSigned
CHECK_DEADLOCK FALSE
