SPECIFICATION SpecSyncedFirst
CONSTANTS
    apply = apply
    change = change
    kanban = kanban
    Names = {apply, change, kanban}
    Builtin = {kanban}
    Canonical <- MCCanonical
    Other = Other
    Foreign = {{}}
    Policies <- MCSteady
    NoManifest = NoManifest
    None = None
    Own = Own
    Faults = FALSE
    MaxEdits = 1
PROPERTY
    ModifiedIsKept
