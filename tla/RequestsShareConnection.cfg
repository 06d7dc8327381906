SPECIFICATION FairSpec
CONSTANTS
    agent = agent
    staff = staff
    k1 = k1
    acme = acme
    globex = globex
    NoScope = NoScope
    Pool = Pool
    Tenants <- MCTenants
    Staff <- MCStaff
    Requests <- MCRequests
    TenantOf <- MCTenantOf
    Connections <- MCConnections
    MaxWork = 2
CHECK_DEADLOCK FALSE
INVARIANTS
    OnlyTheHolderSpeaks
    PooledIsClean
    WorkIsScoped
    AccessBeforeRoute
    SuccessIsCommitted
PROPERTIES
    ImplementsAtomic
    AccessRecordSurvives
    EveryRequestEnds
