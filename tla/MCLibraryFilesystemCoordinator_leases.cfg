SPECIFICATION FairSpec
CONSTANTS
    p1 = p1
    p2 = p2
    scan = scan
    thread = thread
    NRoots = 2
    Readers = {scan}
    SyncReaders = {thread}
    Writers = {p1, p2}
    MaxRequests = 4
INVARIANT TypeOK
INVARIANT Exclusive
INVARIANT Accounted
INVARIANT NoLostWakeup
PROPERTY NoOvertaking
PROPERTY AtomicLeases
PROPERTY Served
CHECK_DEADLOCK FALSE
