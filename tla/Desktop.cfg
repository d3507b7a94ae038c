SPECIFICATION Spec
SYMMETRY Symmetry
CONSTANTS
    MaxAccounts = 2
    MaxReferences = 3
    MaxRevision = 3
    MaxFailures = 3
    Address = {"a"}
    ContactName = {x, y}
    GroupName = {"g"}
    Editor = {p, q}
    OldMessages = 1
    BatchSize = 1
    MaxMessages = 2
    MaxContacts = 2
    MaxGroups = 1
    MaxSaves = 2
    Source = {"s"}
    MaxDrafts = 1
    MaxVersions = 3
    MaxImports = 2
    MaxCopies = 3
    Slot = {"a"}
    Dialog = {p, q}
    MaxDefinitions = 2
    MaxWrites = 2
    Owner = {p, q}
    MaxVisible = 2
    TargetLimit = 1
    MaxPresented = 3
    MaxChanges = 1
    Latest = 3
    PageSize = 1
    QueueLimit = 1
    MaxRounds = 1
    MaxActions = 1
    Leaf = {x, y}
    MaxRows = 4
    MaxCommands = 2
    MaxEvents = 3
    Part = {x, y}
    Content = {"c", "d"}
    MaxRequests = 2
    MaxEnds = 1
    File = {x, y}
    MaxEdits = 1
    MaxSaved = 2
    MaxOpens = 2
    MaxReports = 1
INVARIANTS
    TypesOK
    ReferencesHold
    BackfillMissesNothing
    ListIsExact
    
PROPERTIES
    EditsAreCurrent
    
    NotificationsEnd
CHECK_DEADLOCK FALSE
