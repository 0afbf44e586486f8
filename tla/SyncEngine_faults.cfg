SPECIFICATION Spec
CONSTANTS
    x = x
    y = y
    Agents = {a}
    Skills = {s}
    Gemini = {g}
    Hooks = {h}
    Texts = {x, y}
    Render <- MCRender
    None = None
    Torn = Torn
    NoManifest = NoManifest
    Faults = TRUE
    MaxEdits = 2
INVARIANTS
    TypeOK
    SettledStaysSettled
    TargetsFollowSources
PROPERTIES
    OwnWorkOnly
    CheckedMeansDone
SYMMETRY
    MCSymmetry
