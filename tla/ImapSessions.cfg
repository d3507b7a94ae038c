SPECIFICATION FairSpec
CONSTANTS
    Tasks = {t1, t2, t3}
    AccountSessionLimit = 3
    SyncSessionCount = 2
    MaxCalls = 3
    MaxCredentials = 1
CHECK_DEADLOCK FALSE
INVARIANTS
    TypeOK
    InteractiveSlotRemains
    FolderChangesAreAlone
    SessionsFitAccount
PROPERTIES
    ReapersSpareYoungPools
    
