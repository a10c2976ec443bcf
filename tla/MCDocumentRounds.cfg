SPECIFICATION Spec
CONSTANTS
    MAX_XREF_DEPTH = 5
    MAX_FORM_FIELD_OBJECTS = 4
    MAX_FORM_FIELD_DEPTH = 3
    MAX_DEPTH = 3
    Capacity = 2
    MAX_ZIP_ENTRIES = 6
    Forms <- MCForms
    Flaws <- MCFlaws
    Algorithms = {"RsaPkcs1Sha384", "EcdsaSha256"}
    RawSignatures <- MCRaw
    TokenCounts = {1, 2}
    MaxRounds = 3
CHECK_DEADLOCK FALSE
INVARIANTS
    RevisionsKept
    SignaturesFound
    FilesAgree
