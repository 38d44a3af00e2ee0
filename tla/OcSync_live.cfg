SPECIFICATION FairSpec
CONSTANTS
    Users = {u1}
    Configs = {a, b}
    Writers = {w1}
    Tick = tick
    BatchLimit = 1
    MaxAttempts = 2
    Faults = {"lost", "permanent", "blocked", "nourl"}
    Requests = {"event", "edit", "disconnect", "panelSync"}
    MaxJobs = 4
    MaxExt = 2
    MaxRev = 3
    MaxFaults = 1
    MaxEvents = 2
PROPERTIES Converges LossPropagates
CHECK_DEADLOCK FALSE
