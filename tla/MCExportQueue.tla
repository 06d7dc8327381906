--------------------------- MODULE MCExportQueue ---------------------------
(***************************************************************************)
(* Instances of ExportQueue for TLC: two workers, and jobs of two tenants  *)
(* asked for within one millisecond: the older one has the higher id, so   *)
(* that database and worker put them in different orders.                  *)
(***************************************************************************)
EXTENDS ExportQueue, TLC

CONSTANTS w1, w2, acme, globex

MCWorkers     == {w1, w2}
MCTenants     == {acme, globex}
MCTenantOrder == <<acme, globex>>
TwoJobs       == {1, 2}
TwoJobTenant  == <<globex, acme>>
TwoCreatedAt  == <<1002, 1001>>

OneWorker      == {w1}
OneTenant      == {acme}
OneTenantOrder == <<acme>>
OneJob         == {1}
OneJobTenant   == <<acme>>
OneCreatedAt   == <<1>>

WorkerSymmetry == Permutations(Workers)
=============================================================================
