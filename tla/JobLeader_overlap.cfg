SPECIFICATION Spec
CONSTANTS
    Procs = {p1, p2}
    Tokens = {t1, t2, t3}
    None = none
    Lease = 15
    Interval = 5
    RetryDelay = 1
    MaxRetries = 3
    CallTime = 1
    MaxFaults = 3
INVARIANT
    OneScheduler
