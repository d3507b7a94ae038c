SPECIFICATION Spec
CONSTANTS
    MaxGeneration = 2
    MaxVersion = 2
    MaxCommands = 1
    MaxEvents = 1
    NetworkLimit = 2
    LateReports = FALSE
CHECK_DEADLOCK FALSE
PROPERTIES
    LateStateIsDropped
