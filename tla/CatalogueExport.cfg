SPECIFICATION Spec
CONSTANTS
    p1 = p1
    p2 = p2
    p3 = p3
    q1 = q1
    acme = acme
    globex = globex
    Posts <- MCPosts
    Tenants <- MCTenants
    TenantOf <- MCTenantOf
    Fields <- MCFields
    Values <- MCValues
    NewFields <- MCNewFields
    PageSize = 2
    Times <- MCTimes
    Exporting = acme
    Saved <- MCSaved
SYMMETRY PostSymmetry
CHECK_DEADLOCK FALSE
INVARIANTS
    NumbersAreDense
    PlainExportIsComplete
    MissesOnlyAfterLeaving
    RepeatsOnlyAfterEntering
