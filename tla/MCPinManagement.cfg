SPECIFICATION Spec
CONSTANTS
    c1 = c1
    c2 = c2
    c3 = c3
    Procs = {p1, p2}
    Cards = {c1, c2}
    Trusted = {c1, c2}
    NoCard = NoCard
    NoProc = NoProc
    Generation <- MCGeneration
    ReportsChange = {c1, c2}
    BlockedStatus = "NoInfo"
    StartTries = {3}
    MaxRuns = 2
    MaxSwaps = 1
    MaxForeign = 1
INVARIANTS
    TypeOK
    CodesReachMeantCard
    ChangeKeepsFloor
    OneTryPerCommand
    ActivatesFactoryCards
SYMMETRY ProcSymmetry
CHECK_DEADLOCK FALSE
