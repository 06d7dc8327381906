SPECIFICATION WritersSpec
CONSTANTS
    Malformed = Malformed
    NoTenant = NoTenant
    NoDueTime = NoDueTime
    Unchanged = Unchanged
    r1 = r1
    p1 = p1
    p2 = p2
    s1 = s1
    acme = acme
    globex = globex
    t1 = t1
    e1 = e1
    e2 = e2
    e3 = e3
    EventIds <- MCEventIds
    Slugs <- MCSlugs
    Tenants <- MCTenants
    TenantOfSlug <- MCTenantOfSlug
    TicketIds <- MCTicketIds
    TicketTenant <- MCTicketTenant
    CreatedAt <- MCCreatedAt
    NewPriority <- MCNewPriority
    Times <- MCTimes
    Runs <- MCNone
    Feeds <- MCNone
    Patches <- MCOnePatch
    PatchInputs <- MCPatchInputs
    Sweepers <- MCOneSweeper
CHECK_DEADLOCK FALSE
INVARIANTS
    TerminalStatusStopsSla
