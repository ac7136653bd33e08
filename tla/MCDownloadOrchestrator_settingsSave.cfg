SPECIFICATION Spec
CONSTANTS
    Worker = {}
    Bundle = {1, 2}
    NoOwner = noOwner
    UnresolvedJobRetries = 1
    Source = "usenet"
    Candidates = 2
    MaxFailover = 2
    Loop = {l1, l2}
    NoLoop = noLoop
    Handlers = {"reimport", "reap"}
    MaxCancels = 1
    MaxSwitches = 0
    MaxCrashes = 0
    MaxOutages = 0
    MaxRebuilds = 1
SYMMETRY Symmetry
INVARIANT OneDriver
INVARIANT OneLiveAttempt
CHECK_DEADLOCK FALSE
