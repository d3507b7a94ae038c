SPECIFICATION Spec
CONSTANTS
    Messages = {m1}
    Mailboxes = {inbox, trash}
    Trash = trash
    OpIds = {1, 2}
    Kinds = {"move", "delete"}
    MaxAttempts = 2
    MaxGeneration = 2
    HasMove = TRUE
    HasUidPlus = TRUE
    Budget <- Restarted
INVARIANTS
    ExclusiveClaim
    MoveNeverDuplicates
PROPERTIES
    ImplementsDurableQueue
CHECK_DEADLOCK FALSE
