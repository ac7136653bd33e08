SPECIFICATION Spec
CONSTANTS
    c1 = c1
    c2 = c2
    rec = rec
    Recoverer = rec
    NFiles = 2
    Upgrades = {1}
    Moves = {2}
    Artworks = {1}
    Callers = {c1}
    PeriodicRecovery = FALSE
    MaxCrashes = 2
    MaxFaults = 2
    MaxForeign = 1
    MaxCalls = 3
INVARIANT TypeOK
INVARIANT SourceKept
PROPERTY FailureMeansUncommitted
PROPERTY AtomicallyPublished
CHECK_DEADLOCK FALSE
