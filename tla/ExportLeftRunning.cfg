SPECIFICATION Spec
CONSTANTS
    w1 = w1
    w2 = w2
    acme = acme
    globex = globex
    NoWorker = NoWorker
    NoJob = NoJob
    Workers <- OneWorker
    Tenants <- OneTenant
    TenantOrder <- OneTenantOrder
    Jobs <- OneJob
    JobTenant <- OneJobTenant
    CreatedAt <- OneCreatedAt
    MaxJobs = 2
    MaxStalls = 3
INVARIANTS
    ClaimedIsSettled
