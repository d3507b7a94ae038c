SPECIFICATION Spec
CONSTANTS
    Messages = {m1}
    Mailboxes = {inbox, trash}
    Trash = trash
    OpIds = {1, 2}
    Kinds = {"move", "delete", "copy"}
    MaxAttempts = 2
    MaxGeneration = 1
    HasMove = FALSE
    HasUidPlus = TRUE
    Budget <- Dying
INVARIANTS
    TypeOK
    HiddenHasOperation
    NothingLost
CHECK_DEADLOCK FALSE
