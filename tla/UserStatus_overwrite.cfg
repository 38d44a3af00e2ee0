SPECIFICATION StatusSpec
CONSTANTS
    Limits = {0, 1}
    MaxUsed = 1
    MaxOpen = 2
    MaxEdits = 1
PROPERTIES
    EnforcesExceeded
CHECK_DEADLOCK FALSE
