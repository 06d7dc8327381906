SPECIFICATION FairSpec
CONSTANTS
    r1 = r1
    r2 = r2
    k1 = k1
    k2 = k2
    l1 = l1
    Idle = Idle
    Requests <- MCRequests
    RequestConnections <- MCRequestConnections
    LifecycleConnections <- MCLifecycleConnections
CHECK_DEADLOCK FALSE
INVARIANTS
    IdleIsClean
    HoldersGoOn
PROPERTIES
    ImplementsCall
    EveryRequestEnds
