SPECIFICATION Spec
CONSTANTS
    Drafts = {d1, d2}
    d1 = d1
    d2 = d2
    d3 = d3
    Accounts = {1}
    AccountOf <- OneAccount
    Files = {}
    MaxAttempts = 2
    MaxActive = 2
    MaxClock = 0
    Budget <- Dying
SYMMETRY SameAccount
INVARIANTS
    TypeOK
    SendersAreExclusive
    DuplicatesNeedFaults
    FirstAttemptsInOrder
    ArchivedOnce
PROPERTIES
    ImplementsOutbox
CHECK_DEADLOCK FALSE
