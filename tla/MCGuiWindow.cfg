SPECIFICATION Spec
CONSTANTS
    Upper <- MCUpper
    Lower <- MCLower
    Expansion <- MCExpansion
    FREE_TEXT_MAX = 20
    MRZ_NAME_MAX = 39
    Cards <- MCCards
    NoCard = "none"
    Unplugged = "unplugged"
    MAX_CERT_BYTES = 16384
    Blob <- MCBlob
    AttributeName <- MCAttributeName
    IcaoRoots <- MCIcaoRoots
    PinnedRootDer <- MCPinnedRootDer
    SecondsPerDay = 4
    Readers <- MCReaders
    Processes = {"inspection", "ui", "cli"}
    Worlds <- MCWorlds
    Deck = {"aino", "eeva"}
    Genuine <- MCGenuine
    Revoked <- MCRevoked
    HonestLists <- MCHonestLists
    MaxSwaps = 2
    DateOf <- MCDateOf
    NewPins <- MCNewPins
    DENIED_PINS <- MCDENIED_PINS
    Phones <- MCPhones
    InspectOptions <- MCInspectOptions
    GuiStarts <- MCGuiStarts
    CliStarts <- MCCliStarts
    MaxDocuments = 1
    MaxClicks = 4
INVARIANTS
    ReportFaithful
    VerdictsGenuine
    WindowFollowsCard
    BusyWhileWorking
PROPERTIES
    BusyEnds
CHECK_DEADLOCK FALSE
