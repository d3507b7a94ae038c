SPECIFICATION FairSpec
CONSTANTS
    Drafts = {d1, d3}
    d1 = d1
    d2 = d2
    d3 = d3
    Accounts = {1, 2}
    AccountOf <- TwoAccounts
    Files = {f1}
    f1 = f1
    MaxAttempts = 2
    MaxActive = 1
    MaxClock = 0
    Budget <- Deferring
PROPERTIES
    EverySendSettles
CHECK_DEADLOCK FALSE
