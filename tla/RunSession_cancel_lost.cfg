SPECIFICATION Spec
CONSTANTS
    NoRecord = NoRecord
    FaultyDisk = FALSE
    Cancellers = {c1}
    Clients <- MCClients
INVARIANT
    CancelPrevails
