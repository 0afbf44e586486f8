SPECIFICATION FairCommandSpec
CONSTANTS
    MaxSignals = 2
    codex = codex
    agy = agy
    ghost = ghost
    gpt = gpt
    other = other
    sonnet = sonnet
    opus = opus
    research = research
    review = review
    No = No
    Providers = {codex, agy, ghost}
    Models = {gpt, other}
    Aliases = {sonnet, opus}
    Hints = {research, review}
    Registered = {codex, agy}
    Fallback <- MCFallback
    Formatters <- MCFormatters
INVARIANTS
    CommandTypeOK
    ReportIsHonest
    OrphanOnlyInWindow
    CallerIsTold
    RouteFits
PROPERTIES
    NoForceKillAfterReturn
    CallProtocol
    CommandEnds
