SPECIFICATION Spec
CONSTANTS
    apply = apply
    change = change
    kanban = kanban
    Names = {apply, change, kanban}
    Builtin = {kanban}
    Canonical <- MCCanonical
    Other = Other
    Foreign <- MCForeign
    Policies <- MCPolicies
    NoManifest = NoManifest
    None = None
    Own = Own
    Faults = TRUE
    MaxEdits = 2
INVARIANTS
    TypeOK
    PolicyDecides
    NoneIsSeenTwice
PROPERTY
    ForeignIsKept
