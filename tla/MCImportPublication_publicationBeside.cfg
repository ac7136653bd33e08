SPECIFICATION FairSpec
CONSTANTS
    c1 = c1
    c2 = c2
    rec = rec
    Recoverer = rec
    NFiles = 2
    Upgrades = {1}
    Moves = {2}
    Artworks = {}
    Callers = {c1, c2}
    PeriodicRecovery = TRUE
    MaxCrashes = 1
    MaxFaults = 2
    MaxForeign = 0
    MaxCalls = 2
INVARIANT OriginalKept
PROPERTY CommittedFinal
PROPERTY Settles
CHECK_DEADLOCK FALSE
