SPECIFICATION SetupSpec
CONSTANTS
    f = f
    g = g
    v1 = v1
    v2 = v2
    Files = {f, g}
    Versions = {v1, v2}
    Pack <- MCPack
    Bases = {here, there}
    NoFile = NoFile
    Torn = Torn
    Own = Own
    Faults = TRUE
    MaxEdits = 3
INVARIANTS
    SetupTypeOK
    StaysRecorded
    SetupKeepsItsWord
PROPERTY
    OnlyOwnFiles
