--------------------------- MODULE MCTicketWriters ---------------------------
(***************************************************************************)
(* Instances of TicketWriters for TLC: one urgent ticket, due at hour 4,   *)
(* and a clock that may be before or after that; which of the writers are  *)
(* there differs from one configuration to the other.                      *)
(***************************************************************************)
EXTENDS TicketWriters, TLC

CONSTANTS r1, p1, p2, s1, acme, globex, t1, e1, e2, e3

MCNone       == {}
MCOneRun     == {r1}
MCOnePatch   == {p1}
MCOneSweeper  == {s1}

MCSlugs        == {"acme", "globex"}
MCTenants      == {acme, globex}
MCTenantOfSlug == "acme" :> acme @@ "globex" :> globex
MCTicketIds    == {t1}
MCTicketTenant == t1 :> acme
MCCreatedAt    == [t \in TicketIds |-> 0]
MCNewPriority  == [t \in TicketIds |-> "urgent"]
MCEventIds     == {e1, e2, e3}
MCTimes        == {0, 5}

Event(id, sequence, change) ==
    [event_id |-> id, ticket_sequence |-> sequence, workspace_slug |-> "acme",
     ticket_id |-> t1, occurred_at |-> 0, event |-> change]

Status(s)   == [kind |-> "status_changed", target_status |-> s]
Priority(p) == [kind |-> "priority_changed", target_priority |-> p]

MCFeeds == {<<Event(e1, 1, Status("solved"))>>,
            <<Event(e2, 2, Status("open"))>>,
            <<Event(e3, 3, Priority("low"))>>}

Body(status, priority) == [status |-> status, priority |-> priority]

MCPatchInputs == {Body("pending", Unchanged), Body("solved", Unchanged),
                  Body("closed", Unchanged), Body("solved", "low"),
                  Body(Unchanged, "high"), Body(Unchanged, Unchanged)}

FewPatchInputs == {Body("pending", Unchanged), Body("solved", Unchanged),
                   Body(Unchanged, "low")}
=============================================================================
