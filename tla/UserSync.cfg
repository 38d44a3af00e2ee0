SPECIFICATION FairSpec
CONSTANTS
    Emails = {e1}
    Workers = {w1, w2}
    Tokens = {t1, t2, t3, t4}
    None = none
    MaxVersion = 2
    MaxFaults = 2
INVARIANTS
    TypeOK
    KeptUntilSent
PROPERTIES
    HandedOutOnce
    QueueDrains
