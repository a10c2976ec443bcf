SPECIFICATION Spec
CONSTANTS
    Procs = {p1}
    Endpoints = {e1, e2}
    MaxOps = 4
PROPERTY
    StoreSpec
