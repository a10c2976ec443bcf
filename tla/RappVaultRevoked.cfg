SPECIFICATION Spec
CONSTANTS
    Procs = {p1, p2}
    Endpoints = {e1, e2}
    MaxOps = 2
INVARIANT RevokedStaysRevoked
