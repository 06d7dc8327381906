SPECIFICATION Spec
CONSTANTS
    Malformed = Malformed
    NoTenant = NoTenant
    NoDueTime = NoDueTime
    r1 = r1
    r2 = r2
    acme = acme
    globex = globex
    t1 = t1
    t2 = t2
    e1 = e1
    e2 = e2
    e3 = e3
    e4 = e4
    e5 = e5
    e6 = e6
    e7 = e7
    EventIds <- MCEventIds
    Slugs <- MCSlugs
    Tenants <- MCTenants
    TenantOfSlug <- MCTenantOfSlug
    TicketIds <- MCTicketIds
    TicketTenant <- MCTicketTenant
    CreatedAt <- MCCreatedAt
    NewPriority <- MCNewPriority
    Runs <- MCRuns2
    Feeds <- DisorderedFeeds
    Times <- MCTimes1
CHECK_DEADLOCK FALSE
INVARIANTS
    HighestSequenceWins
