---------------------------- MODULE TicketRules ----------------------------
(***************************************************************************)
(* The pure domain rules of a ticket: which status may follow which, when  *)
(* its first-response target (SLA) is due, and what a status change does   *)
(* to the SLA columns.  Translated from packages/core/src/domain.          *)
(*                                                                         *)
(* Time is counted in whole hours; the code counts milliseconds, and only  *)
(* compares and adds them.                                                 *)
(***************************************************************************)
EXTENDS Integers

CONSTANT NoDueTime      \* the null of tickets.sla_due_at

ASSUME NoDueTimeAssumption == NoDueTime \notin Int

TicketStatuses   == {"open", "pending", "solved", "closed"}
TicketPriorities == {"low", "normal", "high", "urgent"}

\* Statuses in which the SLA clock is still running.
ActiveStatuses   == {"open", "pending"}

SlaDueTimes == Nat \cup {NoDueTime}

-----------------------------------------------------------------------------

LegalMoves ==
    [open    |-> {"open", "pending", "solved"},
     pending |-> {"open", "pending", "solved"},
     solved  |-> {"solved", "closed"},
     closed  |-> {"closed"}]

CanTransition(current, next) == next \in LegalMoves[current]

SlaHours == [urgent |-> 4, high |-> 8, normal |-> 24, low |-> 72]

SlaDueAt(priority, createdAt) == createdAt + SlaHours[priority]

IsSlaRunning(status) == status \in ActiveStatuses

IsBreached(status, slaDueAt, now) ==
    /\ slaDueAt # NoDueTime
    /\ IsSlaRunning(status)
    /\ slaDueAt < now

\* The SLA columns after a change of status.  "current" is a ticket row.
DeriveStatusChange(current, createdAt, nextStatus, nextPriority, now) ==
    LET nextDueAt == SlaDueAt(nextPriority, createdAt)
    IN  IF nextStatus = current.status
        THEN [sla_due_at   |-> current.sla_due_at,
              sla_breached |-> current.sla_breached]
        ELSE IF ~IsSlaRunning(nextStatus)
        THEN [sla_due_at |-> NoDueTime, sla_breached |-> FALSE]
        ELSE [sla_due_at   |-> nextDueAt,
              sla_breached |-> IsBreached(nextStatus, nextDueAt, now)]

-----------------------------------------------------------------------------

\* The columns of a ticket row that the state-changing code reads or derives.
TicketRows ==
    [status       : TicketStatuses,
     priority     : TicketPriorities,
     sla_due_at   : SlaDueTimes,
     sla_breached : BOOLEAN]

\* What createTicket inserts: the column defaults of the schema (open, not
\* breached) and the due time of the priority asked for.
NewTicket(priority, createdAt) ==
    [status       |-> "open",
     priority     |-> priority,
     sla_due_at   |-> SlaDueAt(priority, createdAt),
     sla_breached |-> FALSE]

\* The SLA columns of a row agree with its status and priority: an active
\* ticket is due at its priority's target, a stopped one keeps no other due
\* time, and only an active ticket is flagged as breached.
DueMatchesPriority(t, createdAt) ==
    IF IsSlaRunning(t.status)
    THEN t.sla_due_at = SlaDueAt(t.priority, createdAt)
    ELSE t.sla_due_at \in {NoDueTime, SlaDueAt(t.priority, createdAt)}

FlaggedOnlyWhileRunning(t) == t.sla_breached => IsSlaRunning(t.status)
=============================================================================
