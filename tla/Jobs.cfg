SPECIFICATION JobsSpec
CONSTANTS
    Procs = {p1, p2}
    Tokens = {t1, t2, t3}
    None = none
    Lease = 30
    Interval = 10
    RetryDelay = 2
    MaxRetries = 3
    CallTime = 1
    MaxFaults = 3
    Mappings = {m1}
    Processes = {q1, q2}
    MaxTraffic = 3
    MaxResets = 1
    MaxChanges = 2
    MaxFailures = 1
    Limits = {0, 1}
    MaxUsed = 1
    MaxOpen = 2
    MaxEdits = 1
    Tasks = {k1, k2}
    MaxGrants = 3
    MaxClears = 1
    MaxLost = 1
    MaxBuffer = 3
    BatchSize = 2
    MaxRecords = 7
    MaxFailed = 2
INVARIANTS
    JobsTypeOK
    OneScheduler
    NothingLost
    NothingDoubled
    RecordsKept
PROPERTIES
    TakenOnlyExpired
    LeaseKept
    SchedulerRecovers
    CatchesUp
    ExcessStops
    OvertakenSilent
CHECK_DEADLOCK FALSE
