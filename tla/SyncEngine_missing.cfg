SPECIFICATION Spec
CONSTANTS
    x = x
    y = y
    Agents = {a}
    Skills = {s}
    Gemini = {}
    Hooks = {}
    Texts = {x, y}
    Render <- MCRender
    None = None
    Torn = Torn
    NoManifest = NoManifest
    Faults = FALSE
    MaxEdits = 1
INVARIANT
    MissingIsRecreated
