--------------------------- MODULE TicketWriters ---------------------------
(***************************************************************************)
(* Everyone who writes an existing ticket: the ingestion of lifecycle      *)
(* events, PATCH /tickets/:id (updateTicket of                             *)
(* packages/core/src/repositories/tickets.ts) and the worker's SLA sweep   *)
(* (apps/worker/src/jobs/sla-sweep.ts).                                    *)
(*                                                                         *)
(* A PATCH reads the row without a lock, checks the move and derives the   *)
(* SLA columns from what it read, and writes later.  The sweep is a single *)
(* UPDATE whose WHERE clause is evaluated on the row it then writes, so    *)
(* reading and writing a ticket is one step of it.                         *)
(***************************************************************************)
EXTENDS LifecycleIngestion

CONSTANTS
    Patches,        \* PATCH requests
    PatchInputs,    \* their bodies: [status, priority], each maybe Unchanged
    Unchanged,      \* a key the body does not have
    Sweepers        \* worker processes running the sweep

ASSUME PatchAssumption ==
    /\ Unchanged \notin TicketStatuses \cup TicketPriorities
    /\ PatchInputs \subseteq [status   : TicketStatuses \cup {Unchanged},
                              priority : TicketPriorities \cup {Unchanged}]

VARIABLES
    patch,      \* where each PATCH stands, what it asks for, what it read
    sweep,      \* each sweeper's "now", and the tenants it has yet to visit
    audited     \* how many audit rows of an action a ticket has

writerVars == <<patch, sweep, audited>>
allVars    == <<vars, writerVars>>

AuditActions == {"ticket.updated", "ticket.sla_breached"}

WritersInit ==
    /\ Init
    /\ patch = [p \in Patches |-> [pc |-> "idle"]]
    /\ sweep = [s \in Sweepers |-> [now |-> 0, left |-> {}]]
    /\ audited = [x \in AuditActions \X TicketIds |-> 0]

-----------------------------------------------------------------------------
\* PATCH /tickets/:id

NextStatus(input, current) ==
    IF input.status = Unchanged THEN current.status ELSE input.status

NextPriority(input, current) ==
    IF input.priority = Unchanged THEN current.priority ELSE input.priority

\* Fault: any move is allowed.
PatchReadUnchecked(p) ==
    /\ patch[p].pc = "idle"
    /\ \E t \in TicketIds, input \in PatchInputs :
          patch' = [patch EXCEPT ![p] =
              [pc     |-> "write", ticket |-> t, input |-> input,
               now    |-> clock, read   |-> tickets[t]]]
    /\ UNCHANGED <<vars, sweep, audited>>

\* getTicket, and the move it allows or not.
PatchRead(p) ==
    /\ patch[p].pc = "idle"
    /\ \E t \in TicketIds, input \in PatchInputs :
          patch' = [patch EXCEPT ![p] =
              [pc     |-> IF CanTransition(tickets[t].status,
                                           NextStatus(input, tickets[t]))
                          THEN "write" ELSE "rejected",
               ticket |-> t, input |-> input, now |-> clock,
               read   |-> tickets[t]]]
    /\ UNCHANGED <<vars, sweep, audited>>

\* Fault: the flag that was read is written back with the rest.
PatchedWithFlag(p) ==
    LET current  == patch[p].read
        status   == NextStatus(patch[p].input, current)
        priority == NextPriority(patch[p].input, current)
        created  == CreatedAt[patch[p].ticket]
    IN  [status       |-> status,
         priority     |-> priority,
         sla_due_at   |->
            IF status # current.status
            THEN DeriveStatusChange(current, created, status, priority,
                                    patch[p].now).sla_due_at
            ELSE IF priority = current.priority
            THEN current.sla_due_at
            ELSE SlaDueAt(priority, created),
         sla_breached |-> current.sla_breached]

\* Fault: an unchanged priority is left out of the UPDATE.
PatchedButPriority(p) ==
    LET current  == patch[p].read
        status   == NextStatus(patch[p].input, current)
        priority == NextPriority(patch[p].input, current)
        created  == CreatedAt[patch[p].ticket]
    IN  [status       |-> status,
         priority     |-> NextPriority(patch[p].input,
                                       tickets[patch[p].ticket]),
         sla_due_at   |-> IF priority = current.priority
                          THEN current.sla_due_at
                          ELSE SlaDueAt(priority, created),
         sla_breached |-> tickets[patch[p].ticket].sla_breached]

\* The row as the UPDATE leaves it: status, priority and due time come from
\* what was read, the breach flag is not among the columns written.
PatchedTicket(p) ==
    LET current  == patch[p].read
        status   == NextStatus(patch[p].input, current)
        priority == NextPriority(patch[p].input, current)
        created  == CreatedAt[patch[p].ticket]
    IN  [status       |-> status,
         priority     |-> priority,
         sla_due_at   |->
            IF status # current.status
            THEN DeriveStatusChange(current, created, status, priority,
                                    patch[p].now).sla_due_at
            ELSE IF priority = current.priority
            THEN current.sla_due_at
            ELSE SlaDueAt(priority, created),
         sla_breached |-> tickets[patch[p].ticket].sla_breached]

\* UPDATE, audit row and COMMIT.
PatchWrite(p) ==
    /\ patch[p].pc = "write"
    /\ tickets' = [tickets EXCEPT ![patch[p].ticket] = PatchedTicket(p)]
    /\ audited' =
          [audited EXCEPT ![<<"ticket.updated", patch[p].ticket>>] = @ + 1]
    /\ patch' = [patch EXCEPT ![p].pc = "done"]
    /\ UNCHANGED <<lifecycleEvents, lifecycleAudit, clock, pc, feed, pos,
                   now, snapshot, processed, failures, history, sweep>>

\* An error or a lost client rolls the request's transaction back.
PatchFails(p) ==
    /\ patch[p].pc = "write"
    /\ patch' = [patch EXCEPT ![p].pc = "failed"]
    /\ UNCHANGED <<vars, sweep, audited>>

-----------------------------------------------------------------------------
\* The SLA sweep

SweepStart(s) ==
    /\ sweep[s].left = {}
    /\ sweep' = [sweep EXCEPT ![s] = [now |-> clock, left |-> Tenants]]
    /\ UNCHANGED <<vars, patch, audited>>

\* Fault: only open tickets are looked at.
OverdueWhenOpen(t, at) ==
    /\ tickets[t].sla_due_at # NoDueTime
    /\ tickets[t].sla_due_at < at
    /\ tickets[t].status = "open"
    /\ ~tickets[t].sla_breached

\* The WHERE clause of the sweep's UPDATE.
Overdue(t, at) ==
    /\ tickets[t].sla_due_at # NoDueTime
    /\ tickets[t].sla_due_at < at
    /\ tickets[t].status \in {"open", "pending"}
    /\ ~tickets[t].sla_breached

\* One tenant's transaction: flag what is overdue, one audit row for each.
SweepTenant(s, tenant) ==
    LET flagged == {t \in TicketIds : /\ TicketTenant[t] = tenant
                                      /\ Overdue(t, sweep[s].now)}
    IN  /\ tenant \in sweep[s].left
        /\ tickets' = [t \in TicketIds |->
              IF t \in flagged THEN [tickets[t] EXCEPT !.sla_breached = TRUE]
                               ELSE tickets[t]]
        /\ audited' = [x \in AuditActions \X TicketIds |->
              IF x[1] = "ticket.sla_breached" /\ x[2] \in flagged
              THEN audited[x] + 1 ELSE audited[x]]
        /\ sweep' = [sweep EXCEPT ![s].left = @ \ {tenant}]
        /\ UNCHANGED <<lifecycleEvents, lifecycleAudit, clock, pc, feed, pos,
                       now, snapshot, processed, failures, history, patch>>

\* A tenant's transaction fails: it is rolled back, the others follow.
SweepTenantFails(s, tenant) ==
    /\ tenant \in sweep[s].left
    /\ sweep' = [sweep EXCEPT ![s].left = @ \ {tenant}]
    /\ UNCHANGED <<vars, patch, audited>>

SweepCrash(s) ==
    /\ sweep[s].left # {}
    /\ sweep' = [sweep EXCEPT ![s].left = {}]
    /\ UNCHANGED <<vars, patch, audited>>

-----------------------------------------------------------------------------

PatchNext(p) == PatchRead(p) \/ PatchWrite(p) \/ PatchFails(p)

SweepNext(s) ==
    \/ SweepStart(s)
    \/ \E tenant \in Tenants : SweepTenant(s, tenant)
                               \/ SweepTenantFails(s, tenant)
    \/ SweepCrash(s)

WritersNext ==
    \/ Next /\ UNCHANGED writerVars
    \/ \E p \in Patches : PatchNext(p)
    \/ \E s \in Sweepers : SweepNext(s)

WritersSpec == WritersInit /\ [][WritersNext]_allVars

\* The worker's loop starts a sweep again and again, and a tenant whose
\* transaction is tried for ever succeeds at last.
SweepFairness ==
    \A s \in Sweepers :
        /\ WF_allVars(SweepStart(s))
        /\ \A tenant \in Tenants : SF_allVars(SweepTenant(s, tenant))

FairWritersSpec == WritersSpec /\ Fairness /\ SweepFairness

-----------------------------------------------------------------------------

PatchStates ==
    [pc : {"idle"}] \cup
    [pc     : {"write", "rejected", "done", "failed"},
     ticket : TicketIds, input : PatchInputs, now : Nat, read : TicketRows]

WritersTypeOK ==
    /\ tickets \in [TicketIds -> TicketRows]
    /\ patch \in [Patches -> PatchStates]
    /\ sweep \in [Sweepers -> [now : Nat, left : SUBSET Tenants]]
    /\ audited \in [AuditActions \X TicketIds -> Nat]

\* The due time of an active ticket is its priority's target, whoever
\* overwrites whose change: each writer writes both columns from one read.
SlaDueAgrees ==
    \A t \in TicketIds : DueMatchesPriority(tickets[t], CreatedAt[t])

\* As long as no event is applied to it, and so only PATCH and the sweep write
\* it, a flagged ticket has one audit row for the breach, and a ticket that is
\* not flagged has none.
FlagMatchesAudit ==
    \A t \in TicketIds :
        (\A w \in applied : feed[w[1]][w[2]].ticket_id # t) =>
            audited[<<"ticket.sla_breached", t>>] =
                IF tickets[t].sla_breached THEN 1 ELSE 0

\* PATCH commits what it derived from a row that has another status by now.
PatchIsStale(t) ==
    \E p \in Patches : /\ patch[p].pc = "write" /\ patch'[p].pc = "done"
                       /\ patch[p].ticket = t
                       /\ patch[p].read.status # tickets[t].status

EventIsApplied(t) ==
    \E w \in applied' \ applied : feed[w[1]][w[2]].ticket_id = t

\* A status moves against the transition table in two ways only: an event,
\* which is not checked against it, or a PATCH whose check was made on a row
\* that someone has written since.
IllegalMovesAreExplained ==
    [][\A t \in TicketIds :
          ~CanTransition(tickets[t].status, tickets'[t].status) =>
              EventIsApplied(t) \/ PatchIsStale(t)]_allVars

\* An overdue ticket does not stay unflagged: the sweep gets to it, or it
\* stops being overdue, although sweeps fail and crash on the way.
OverdueIsFlagged ==
    \A t \in TicketIds :
        (/\ tickets[t].status \in ActiveStatuses
         /\ tickets[t].sla_due_at # NoDueTime
         /\ tickets[t].sla_due_at < clock
         /\ ~tickets[t].sla_breached)
        ~> \/ tickets[t].sla_breached
           \/ tickets[t].status \notin ActiveStatuses
           \/ tickets[t].sla_due_at = NoDueTime
           \/ tickets[t].sla_due_at >= clock

-----------------------------------------------------------------------------
\* What a test promises and the code does not keep.

\* A terminal status stops the SLA: a ticket that is solved or closed has no
\* due time and is not flagged as breached.
TerminalStatusStopsSla ==
    \A t \in TicketIds : ~IsSlaRunning(tickets[t].status) =>
        /\ tickets[t].sla_due_at = NoDueTime
        /\ ~tickets[t].sla_breached
=============================================================================
