SPECIFICATION FairSpec
CONSTANTS
    Messages = {m1}
    Mailboxes = {inbox, trash}
    Trash = trash
    OpIds = {1, 2}
    Kinds = {"move", "set_read"}
    MaxAttempts = 2
    MaxGeneration = 1
    HasMove = FALSE
    HasUidPlus = FALSE
    Budget <- Troubled
INVARIANTS
    CleanupIsReported
    FirstAttemptsAgree

    
CHECK_DEADLOCK FALSE
