SPECIFICATION Spec
CONSTANTS
    Providers = 2
    Inputs = {"plain"}
    FaultyDisk = FALSE
INVARIANT
    NoOrphanAfterCapture
