SPECIFICATION FairSpec
CONSTANTS
    Providers = 2
    Inputs = {"credential", "unreadable"}
    FaultyDisk = TRUE
INVARIANTS
    TypeOK
    ConsentedOnly
    LedgerIsTrue
    LeftBehind
PROPERTIES
    CallProtocol
    AskEnds
