SPECIFICATION Spec
CONSTANTS
    Last = 2
    Validities = {1, 2}
    Workers = {1, 2}
    BatchSize = 1
    DownloadFullMessages = TRUE
    OpIds = {1}
    Budget <- Busy
INVARIANTS
    TypeOK
    BodiesFit
    NewMailIsNew
    ArrivalsAreAnnounced

    
CHECK_DEADLOCK FALSE
