------------------------ MODULE MCLifecycleAdmission ------------------------
(***************************************************************************)
(* Instances of LifecycleAdmission for TLC: two requests that may both     *)
(* hold a connection of the request pool, and one lifecycle connection.    *)
(***************************************************************************)
EXTENDS LifecycleAdmission

CONSTANTS r1, r2, k1, k2, l1

MCRequests             == {r1, r2}
MCRequestConnections   == {k1, k2}
MCLifecycleConnections == {l1}
=============================================================================
