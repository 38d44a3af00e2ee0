SPECIFICATION UsageSpec
CONSTANTS
    Mappings = {m1}
    Processes = {p1, p2}
    MaxTraffic = 3
    MaxResets = 0
    MaxChanges = 1
    MaxFailures = 0
INVARIANT AccountedOnce
