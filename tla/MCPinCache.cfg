SPECIFICATION Spec
CONSTANTS
    Callers = {c1, c2}
    Serials = {s1, s2}
    Pins = {p1}
    Pin1Lifetime = 3
    OneShotLifetime = 1
    Pin2Lifetime = 2
    MaxTime = 3
    MaxGeneration = 2
SYMMETRY MCSymmetry
INVARIANTS
    NoRejectedPinCached
    AtMostOneLiveCopy
    OneShotSpent
    MismatchForgets
PROPERTIES
    ConsentWindow
