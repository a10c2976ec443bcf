SPECIFICATION FairSpec
CONSTANTS
    c1 = c1
    c2 = c2
    c3 = c3
    Procs = {p1, p2}
    Cards = {c1, c3}
    Trusted = {c1}
    NoCard = NoCard
    NoProc = NoProc
    Generation <- MCGeneration
    ReportsChange = {c3}
    BlockedStatus = "NoInfo"
    StartTries = {3}
    MaxRuns = 2
    MaxSwaps = 1
    MaxForeign = 0
PROPERTY
    WaitersProceed
CHECK_DEADLOCK FALSE
