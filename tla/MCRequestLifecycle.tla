------------------------- MODULE MCRequestLifecycle -------------------------
(***************************************************************************)
(* Instances of RequestLifecycle for TLC: a tenant's request and a staff   *)
(* request of another workspace that follow each other on one connection.  *)
(***************************************************************************)
EXTENDS RequestLifecycle, TLC

CONSTANTS agent, staff, k1, acme, globex

MCRequests      == {agent, staff}
MCConnections   == {k1}
MCTenants       == {acme, globex}
MCTenantOf      == agent :> acme @@ staff :> globex
MCStaff         == {staff}
=============================================================================
