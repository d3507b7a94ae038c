SPECIFICATION Spec
CONSTANTS
    Account = {"a", "b"}
    MaxVisible = 2
    TargetLimit = 1
    MaxPresented = 3
    MaxChanges = 1
INVARIANTS
    NoWindowIsLeft
CHECK_DEADLOCK FALSE
