SPECIFICATION DashboardSpec
CONSTANTS
    Cores = {c1}
    Edits = {e1, e2}
    None = none
    UserWaits = TRUE
    Words = {w, owner}
    Links = {l1, l2}
    Owner = owner
    Empty = empty
    Off = off
    Nodes = {n1, n2}
    NoNode = nonode
    BufferMax = 2
    MaxLines = 4
    RendersFirst = TRUE
    Targets = {t1, t2, t3}
    Pool = 2
    MaxScans = 2
    NoScan = noscan
    Panels = {p1, p2}
    NoPanel = nopanel
    MaxEarly = 1
INVARIANTS
    DashboardTypeOK
    UnsavedKept
    UnsavedWarned
    SearchApplied
    LogsComplete
    RowsMatchScan
    PhaseFits
    OwnGroups
    AllSynced
PROPERTIES
    TextMerges
    ScanSettles
CHECK_DEADLOCK FALSE
