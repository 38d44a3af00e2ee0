SPECIFICATION Spec
CONSTANTS
    Emails = {e1}
    Workers = {w1, w2}
    Tokens = {t1, t2, t3, t4}
    None = none
    MaxVersion = 2
    MaxFaults = 1
PROPERTIES
    LatestWins
CHECK_DEADLOCK FALSE
