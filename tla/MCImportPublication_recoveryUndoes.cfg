SPECIFICATION Spec
CONSTANTS
    c1 = c1
    c2 = c2
    rec = rec
    Recoverer = rec
    NFiles = 1
    Upgrades = {}
    Moves = {}
    Artworks = {}
    Callers = {c1}
    PeriodicRecovery = TRUE
    MaxCrashes = 0
    MaxFaults = 2
    MaxForeign = 0
    MaxCalls = 4
INVARIANT SourceKept
CHECK_DEADLOCK FALSE
