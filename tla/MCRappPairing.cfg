SPECIFICATION PairingSpec
CONSTANTS
    Stored = 1
    MaxResolved = 1
    MaxChatter = 1
    Timeout = 1
    MaxAttempts = 2
    Devices = {"mine", "observer", "neighbour"}
    GrantLists <- GrantListsDef
INVARIANTS
    FramesInOrder
    PairsAgree
    ExecutedAsAgreed
PROPERTY
    CallsEnd
