SPECIFICATION Spec
CONSTANTS
    Users = {u1}
    Configs = {a, b}
    Writers = {w1}
    Tick = tick
    BatchLimit = 1
    MaxAttempts = 2
    Faults = {}
    Requests = {"event", "removePanel"}
    MaxJobs = 2
    MaxExt = 1
    MaxRev = 3
    MaxFaults = 0
    MaxEvents = 3
INVARIANT RemovalLeavesNoOrphan
CHECK_DEADLOCK FALSE
