SPECIFICATION Spec
CONSTANTS
    Users = {u1, u2}
    Configs = {a, b}
    Writers = {w1}
    Tick = tick
    BatchLimit = 2
    MaxAttempts = 2
    Faults = {"lost", "transient", "permanent", "inactive", "nourl", "setup", "crash"}
    Requests = {"event", "removeUser", "removePanel"}
    MaxJobs = 3
    MaxExt = 1
    MaxRev = 2
    MaxFaults = 1
    MaxEvents = 3
SYMMETRY ConfigSymmetry
INVARIANTS
    ActiveMappingApplied
    DeletedMappingGone
    PendingPerWriter
    TypeOK
    AttemptsBounded
CHECK_DEADLOCK FALSE
