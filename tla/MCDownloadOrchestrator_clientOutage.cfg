SPECIFICATION Spec
CONSTANTS
    Worker = {}
    Bundle = {1, 2}
    NoOwner = noOwner
    UnresolvedJobRetries = 1
    Source = "soulseek"
    Candidates = 2
    MaxFailover = 2
    Loop = {l1, l2}
    NoLoop = noLoop
    Handlers = {"reimport"}
    MaxCancels = 1
    MaxSwitches = 0
    MaxCrashes = 0
    MaxOutages = 1
    MaxRebuilds = 0
SYMMETRY Symmetry
INVARIANT ImportsHeldBytes
INVARIANT DiscardAwaitsPublication
CHECK_DEADLOCK FALSE
