SPECIFICATION FairSpec
CONSTANTS
    NoRecord = NoRecord
    FaultyDisk = TRUE
    Cancellers = {c1}
    Clients <- MCClients
INVARIANTS
    TypeOK
    VerdictIsEarned
    NoOrphanOncePidKnown
PROPERTIES
    SeenCancelIsKept
    CallProtocol
    RunEnds
    CancelEndsProvider
