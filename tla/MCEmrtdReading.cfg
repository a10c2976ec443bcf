SPECIFICATION Spec
CONSTANTS
    Upper <- MCUpper
    Lower <- MCLower
    Expansion <- MCExpansion
    FREE_TEXT_MAX = 20
    MRZ_NAME_MAX = 39
    Meaning <- MCMeaning
    LONG_FORM = 128
    SSC_MODULUS = 64
    AES_BLOCK = 4
    BODY_MAX = 255
    Chips <- MCChips
    Holders <- MCHolders
    Bearer <- MCBearer
    Issued <- MCIssued
    Cans = {1}
    CscaDirs <- MCCscaDirs
    MAX_CHUNK = 3
    OFFSETS = 16
    MaxFaults = 1
INVARIANTS
    ReadingFaithful
    VerdictsTrue
PROPERTIES
    ReadingEnds
