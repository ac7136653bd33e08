SPECIFICATION Spec
CONSTANTS
    Worker = {}
    Bundle = {1, 2, 3}
    NoOwner = noOwner
    UnresolvedJobRetries = 1
    Source = "soulseek"
    Candidates = 3
    MaxFailover = 2
    Loop = {l1, l2}
    NoLoop = noLoop
    Handlers = {}
    MaxCancels = 0
    MaxSwitches = 1
    MaxCrashes = 0
    MaxOutages = 0
    MaxRebuilds = 1
SYMMETRY Symmetry
INVARIANT OneDriver
PROPERTY NextSkipsNobody
CHECK_DEADLOCK FALSE
