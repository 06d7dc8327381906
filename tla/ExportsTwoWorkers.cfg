SPECIFICATION Spec
CONSTANTS
    w1 = w1
    w2 = w2
    acme = acme
    globex = globex
    NoWorker = NoWorker
    NoJob = NoJob
    Workers <- MCWorkers
    Tenants <- MCTenants
    TenantOrder <- MCTenantOrder
    Jobs <- TwoJobs
    JobTenant <- TwoJobTenant
    CreatedAt <- TwoCreatedAt
    MaxJobs = 2
    MaxStalls = 2
SYMMETRY WorkerSymmetry
INVARIANTS
    OneWorkerPerJob
    SettledIsAudited
PROPERTIES
    ImplementsBoard
    OldestFirst
    StepsRunOut
