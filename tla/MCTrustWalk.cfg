CONSTANTS
    Der <- MCDer
    Starts <- MCStarts
    Url <- MCUrl
    OcspDer <- MCOcspDer
    CrlDer <- MCCrlDer
    DnsAnswers <- MCDnsAnswers
    Streams <- MCStreams
    Now = 7
    MAX_CLOCK_SKEW = 1
    MAX_OCSP_AGE_WITHOUT_NEXT_UPDATE = 4
    MAX_DEPTH = 8
    DISPLAY_DEPTH = 16
    AddressBound = 2
    BodyLimit = 4
SPECIFICATION FairSpec
INVARIANTS
    AcceptedIsProved
    CertificateReadOneWay
    RequestsContained
PROPERTIES
    RevokedStopsTheWalk
    WalkEnds
CHECK_DEADLOCK FALSE
