SPECIFICATION Spec
CONSTANTS
    p1 = p1
    p2 = p2
    f1 = f1
    f2 = f2
    Procs = {p1, p2}
    Files = {f1, f2}
    Size <- MCSize
    MaxBytes = 3
    Dispositions = {"reset", "leave"}
    NoProc = NoProc
    NoFile = NoFile
INVARIANTS
    CardExclusive
PROPERTIES
    VerifiedOnlyToOwner
    ExchangeEnds
