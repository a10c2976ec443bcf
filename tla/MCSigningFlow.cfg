CONSTANTS
    Cards = {"rsa", "ec"}
    Info <- MCInfo
    Displayed = "ec"
    Formats = {"Pades", "AsicEXades", "AsicECades"}
    Authorities <- MCAuthorities
    TlsAuthorities = {"second"}
    Origins = {"cli", "bare", "gui"}
    Nonces <- MCNonces
    Flaws = {"none", "digest", "replay", "stale", "expired", "twin", "other signer", "field twice", "refused", "no token"}
    Tries = 5
    MaxDocs = 2
    MaxForeign = 1
    Skew = 1
    MaxClock = 1
SPECIFICATION FairSpec
INVARIANTS
    WrittenResultIsTheRightOne
    PinSpentAsMeant
    ReportIsTrue
PROPERTIES
    NoPinForARefusedRequest
    SigningEnds
