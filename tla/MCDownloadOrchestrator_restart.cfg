SPECIFICATION FairSpec
CONSTANTS
    Worker = {}
    Bundle = {1, 2}
    NoOwner = noOwner
    UnresolvedJobRetries = 1
    Source = "usenet"
    Candidates = 2
    MaxFailover = 2
    Loop = {l1, l2}
    NoLoop = noLoop
    Handlers = {"reimport"}
    MaxCancels = 1
    MaxSwitches = 0
    MaxCrashes = 1
    MaxOutages = 0
    MaxRebuilds = 0
INVARIANT TypeOK
INVARIANT SomebodyDrives
INVARIANT PollsOwnCandidate
PROPERTY CancelledIsFinal
PROPERTY TaskSettles
CHECK_DEADLOCK FALSE
