SPECIFICATION Spec
CONSTANTS
    Source = {"s"}
    MaxDrafts = 1
    MaxSaves = 3
    MaxImports = 1
    MaxCopies = 3
INVARIANTS
    LatestVersionRemains
CHECK_DEADLOCK FALSE
