SPECIFICATION FairSessionSpec
CONSTANTS
    StdinFile = TRUE
    HasTimeout = TRUE
    MaxChunks = 3
    Output <- MCOutput
    Limits = {0, 1, 3, 6}
    MarkerSize = 2
    Bad = Bad
    Mark = Mark
INVARIANTS
    SessionTypeOK
    NothingLeftBehind
    ConsumerIsTold
    ResultIsFaithful
PROPERTIES
    SessionProtocol
    SessionEnds
