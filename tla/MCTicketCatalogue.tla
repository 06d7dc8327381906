------------------------- MODULE MCTicketCatalogue -------------------------
(***************************************************************************)
(* Instances of TicketCatalogue for TLC: three requests of one tenant and  *)
(* one of another, pages of two rows, and a filter on one column.          *)
(***************************************************************************)
EXTENDS TicketCatalogue, TLC

CONSTANTS p1, p2, p3, q1, acme, globex

MCPosts    == {p1, p2, p3, q1}
MCTenants  == {acme, globex}
MCTenantOf == [p \in MCPosts |-> IF p = q1 THEN globex ELSE acme]
MCFields   == {"status"}
MCValues   == {"open", "solved"}
MCTimes    == {0, 1}
MCNewFields == {[status |-> "open"]}
MCSaved    == [status |-> "open"]

PostSymmetry == Permutations({p1, p2, p3})
=============================================================================
