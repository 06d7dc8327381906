------------------------- MODULE LifecycleIngestion -------------------------
(***************************************************************************)
(* Ingestion of the provider's lifecycle events                            *)
(* (packages/core/src/services/lifecycle-ingestion.ts).                    *)
(*                                                                         *)
(* A run is one call of runLifecycleIngestion: the worker's, or the one    *)
(* POST /lifecycle-events makes with a feed of one event.  Runs overlap,   *)
(* in one process or in several.  For each event a run makes two separate  *)
(* transactions: the first records the event and its audit row unless a    *)
(* row with the same content is there, the second reads the ticket and     *)
(* writes it back changed, duplicate or not.                               *)
(*                                                                         *)
(* The database is PostgreSQL at READ COMMITTED.  A SELECT is a step that  *)
(* reads the committed rows.  The writes of a transaction and its COMMIT   *)
(* are one step: nobody reads an uncommitted row, and a row lock held in   *)
(* between only delays another writer, who then overwrites.                *)
(***************************************************************************)
EXTENDS TicketRules, Sequences, FiniteSets

CONSTANTS
    Runs,           \* calls of runLifecycleIngestion
    Feeds,          \* the feeds a run may be given: sequences of feed items
    Malformed,      \* a feed item that providerEventSchema rejects
    EventIds,       \* provider event ids
    Slugs,          \* workspace slugs an event may carry
    Tenants,        \* the workspaces there are
    NoTenant,       \* what resolveStaffTenant answers for an unknown slug
    TenantOfSlug,   \* [Slugs -> Tenants \cup {NoTenant}]
    TicketIds,
    TicketTenant,   \* [TicketIds -> Tenants]
    CreatedAt,      \* [TicketIds -> Nat], tickets.created_at
    NewPriority,    \* [TicketIds -> TicketPriorities], as created
    Times           \* the instants a run may take as its "now"

StatusChanges   == [kind : {"status_changed"}, target_status : TicketStatuses]
PriorityChanges == [kind : {"priority_changed"},
                    target_priority : TicketPriorities]

ProviderEvents ==
    [event_id        : EventIds,
     ticket_sequence : Nat \ {0},
     workspace_slug  : Slugs,
     ticket_id       : TicketIds,
     occurred_at     : Times,
     event           : StatusChanges \cup PriorityChanges]

FeedItems == ProviderEvents \cup {Malformed}

ASSUME TenantAssumption ==
    /\ NoTenant \notin Tenants
    /\ TenantOfSlug \in [Slugs -> Tenants \cup {NoTenant}]

ASSUME TicketAssumption ==
    /\ TicketTenant \in [TicketIds -> Tenants]
    /\ CreatedAt \in [TicketIds -> Nat]
    /\ NewPriority \in [TicketIds -> TicketPriorities]

ASSUME FeedAssumption ==
    /\ Times \subseteq Nat
    /\ Malformed \notin ProviderEvents
    /\ Feeds \subseteq Seq(FeedItems)

\* The provider's side of the contract: an event_id establishes identity.
ASSUME EventIdAssumption ==
    \A f, g \in Feeds : \A i \in DOMAIN f, k \in DOMAIN g :
        /\ f[i] # Malformed
        /\ g[k] # Malformed
        /\ f[i].event_id = g[k].event_id
        => f[i] = g[k]

VARIABLES
    tickets,            \* table tickets
    lifecycleEvents,    \* table lifecycle_events, in order of commit
    lifecycleAudit,     \* audit rows "ticket.lifecycle_applied", likewise
    clock,              \* wall time, in hours
    pc,                 \* where each run stands
    feed,               \* the feed the run was given
    pos,                \* the feed item it is at
    now,                \* the "now" the run fixed when it was called
    snapshot,           \* the ticket row its second transaction has read
    processed,          \* event ids it will answer as processed
    failures,           \* how many items have failed so far
    \* History variables, read by no action's guard:
    seen,               \* rows of lifecycle_events when the run last looked
    horizon,            \* for each row, "seen" of the run that inserted it
    applied             \* <<run, position>> of every ticket write committed

database == <<tickets, lifecycleEvents, lifecycleAudit>>
history  == <<seen, horizon, applied>>
vars     == <<database, clock, pc, feed, pos, now, snapshot, processed,
              failures, history>>

InFlight == {"next", "check", "record", "read", "write"}

\* "ok" returned its result, "failed" threw the AggregateError at the end,
\* "aborted" threw on the way, "crashed" is a process that died.
Finished == {"ok", "failed", "aborted", "crashed"}

-----------------------------------------------------------------------------

Current(r) == feed[r][pos[r]]

\* The tenant a run works for.  No code changes the slug of a workspace, so the
\* answer is the same whenever it is asked for.
TenantOf(event) == TenantOfSlug[event.workspace_slug]

EventRow(event) ==
    [tenant_id       |-> TenantOf(event),
     ticket_id       |-> event.ticket_id,
     event_id        |-> event.event_id,
     ticket_sequence |-> event.ticket_sequence,
     event           |-> event.event,
     occurred_at     |-> event.occurred_at]

AuditRow(event) ==
    [tenant_id       |-> TenantOf(event),
     target_id       |-> event.ticket_id,
     event_id        |-> event.event_id,
     ticket_sequence |-> event.ticket_sequence]

\* Fault: the kind of change is compared, what it changes to is not.
SameContentIgnoringPayload(row, event) ==
    /\ row.tenant_id = TenantOf(event)
    /\ row.ticket_id = event.ticket_id
    /\ row.event.kind = event.event.kind
    /\ row.occurred_at = event.occurred_at

\* The WHERE clause of the duplicate check: content, not event_id.
SameContent(row, event) ==
    /\ row.tenant_id = TenantOf(event)
    /\ row.ticket_id = event.ticket_id
    /\ row.event = event.event
    /\ row.occurred_at = event.occurred_at

\* Fault: only the newest row is looked at.
IsLastRecorded(event) ==
    /\ lifecycleEvents # << >>
    /\ SameContent(lifecycleEvents[Len(lifecycleEvents)], event)

IsRecorded(event) ==
    \E i \in DOMAIN lifecycleEvents : SameContent(lifecycleEvents[i], event)

\* Fault: the ticket is looked up by its id alone.
TicketExists(event) == event.ticket_id \in TicketIds

\* The ticket the first SELECT finds: one of the event's own tenant.
TicketFound(event) == TicketTenant[event.ticket_id] = TenantOf(event)

\* The columns the second transaction writes for a ticket row it has read.
ChangedTicket(t, event, at) ==
    LET createdAt == CreatedAt[event.ticket_id]
        change    == event.event
    IN  IF change.kind = "status_changed"
        THEN LET derived == DeriveStatusChange(t, createdAt,
                                change.target_status, t.priority, at)
             IN  [status       |-> change.target_status,
                  priority     |-> t.priority,
                  sla_due_at   |-> derived.sla_due_at,
                  sla_breached |-> derived.sla_breached]
        ELSE [t EXCEPT !.priority   = change.target_priority,
                       !.sla_due_at = SlaDueAt(change.target_priority,
                                               createdAt)]

Init ==
    /\ tickets = [t \in TicketIds |-> NewTicket(NewPriority[t], CreatedAt[t])]
    /\ lifecycleEvents = << >>
    /\ lifecycleAudit = << >>
    /\ clock = 0
    /\ pc = [r \in Runs |-> "idle"]
    /\ feed = [r \in Runs |-> << >>]
    /\ pos = [r \in Runs |-> 1]
    /\ now = [r \in Runs |-> 0]
    /\ snapshot = [r \in Runs |-> NewTicket("normal", 0)]
    /\ processed = [r \in Runs |-> << >>]
    /\ failures = [r \in Runs |-> 0]
    /\ seen = [r \in Runs |-> 0]
    /\ horizon = << >>
    /\ applied = {}

-----------------------------------------------------------------------------

\* The provider delivers a feed: the same one to several runs when it sends
\* it again.  The set of tenants the run lists first is all of Tenants.
Start(r) ==
    /\ pc[r] = "idle"
    /\ \E f \in Feeds : feed' = [feed EXCEPT ![r] = f]
    /\ now' = [now EXCEPT ![r] = clock]
    /\ pc' = [pc EXCEPT ![r] = "next"]
    /\ UNCHANGED <<database, clock, pos, snapshot, processed, failures,
                   history>>

\* The item at hand is done with, and the loop goes on to the next one.
Processed(r) ==
    /\ processed' = [processed EXCEPT ![r] = Append(@, Current(r).event_id)]
    /\ pos' = [pos EXCEPT ![r] = @ + 1]
    /\ pc' = [pc EXCEPT ![r] = "next"]
    /\ UNCHANGED failures

\* Fault: a failed item is tried again in place, for ever.
FailedAndRetried(r) ==
    /\ failures' = [failures EXCEPT ![r] = 1]
    /\ pc' = [pc EXCEPT ![r] = "next"]
    /\ UNCHANGED <<processed, pos>>

\* Fault: the first failure ends the run.
FailedAndThrown(r) ==
    /\ failures' = [failures EXCEPT ![r] = @ + 1]
    /\ pc' = [pc EXCEPT ![r] = "failed"]
    /\ UNCHANGED <<processed, pos>>

Failed(r) ==
    /\ failures' = [failures EXCEPT ![r] = @ + 1]
    /\ pos' = [pos EXCEPT ![r] = @ + 1]
    /\ pc' = [pc EXCEPT ![r] = "next"]
    /\ UNCHANGED processed

GoTo(r, label) ==
    /\ pc' = [pc EXCEPT ![r] = label]
    /\ UNCHANGED <<pos, processed, failures>>

\* Take the next item, parse it and route it to its tenant.
Route(r) ==
    /\ pc[r] = "next"
    /\ pos[r] <= Len(feed[r])
    /\ IF Current(r) # Malformed /\ TenantOf(Current(r)) \in Tenants
       THEN GoTo(r, "check")
       ELSE Failed(r)
    /\ UNCHANGED <<database, clock, feed, now, snapshot, history>>

\* Fault: the early return on a duplicate leaves applyEvent.
DuplicateReturns(r) == Processed(r)

\* The early return on a duplicate leaves only the transaction's callback.
DuplicateFound(r) == GoTo(r, "read")

\* First transaction, reads: the ticket, then a row with this content.
CheckDuplicate(r) ==
    /\ pc[r] = "check"
    /\ seen' = [seen EXCEPT ![r] = Len(lifecycleEvents)]
    /\ IF ~TicketFound(Current(r)) THEN Failed(r)
       ELSE IF IsRecorded(Current(r)) THEN DuplicateFound(r)
       ELSE GoTo(r, "record")
    /\ UNCHANGED <<database, clock, feed, now, snapshot, horizon, applied>>

\* Fault: a new event is answered as soon as it is on record.
RecordAnswered(r) ==
    /\ pc[r] = "record"
    /\ lifecycleEvents' = Append(lifecycleEvents, EventRow(Current(r)))
    /\ lifecycleAudit' = Append(lifecycleAudit, AuditRow(Current(r)))
    /\ horizon' = Append(horizon, seen[r])
    /\ Processed(r) \/ Failed(r)
    /\ UNCHANGED <<tickets, clock, feed, now, snapshot, seen, applied>>

\* Fault: the audit row is inserted outside of the transaction.
RecordAuditedApart(r) ==
    /\ pc[r] = "record"
    /\ lifecycleEvents' = Append(lifecycleEvents, EventRow(Current(r)))
    /\ lifecycleAudit' \in {lifecycleAudit,
                            Append(lifecycleAudit, AuditRow(Current(r)))}
    /\ horizon' = Append(horizon, seen[r])
    /\ GoTo(r, "read") \/ Failed(r)
    /\ UNCHANGED <<tickets, clock, feed, now, snapshot, seen, applied>>

\* First transaction, INSERTs and COMMIT.  The COMMIT may take effect and its
\* answer be lost: the caller then counts a failure.
Record(r) ==
    /\ pc[r] = "record"
    /\ lifecycleEvents' = Append(lifecycleEvents, EventRow(Current(r)))
    /\ lifecycleAudit' = Append(lifecycleAudit, AuditRow(Current(r)))
    /\ horizon' = Append(horizon, seen[r])
    /\ GoTo(r, "read") \/ Failed(r)
    /\ UNCHANGED <<tickets, clock, feed, now, snapshot, seen, applied>>

\* Second transaction: read the ticket, with no lock.
ReadTicket(r) ==
    /\ pc[r] = "read"
    /\ snapshot' = [snapshot EXCEPT ![r] = tickets[Current(r).ticket_id]]
    /\ GoTo(r, "write")
    /\ UNCHANGED <<database, clock, feed, now, history>>

\* Fault: the UPDATE leaves out the priority, which the run did not change.
UpdatedButPriority(r) ==
    [ChangedTicket(snapshot[r], Current(r), now[r]) EXCEPT
        !.priority = IF Current(r).event.kind = "status_changed"
                     THEN tickets[Current(r).ticket_id].priority ELSE @]

\* The row as the UPDATE leaves it: all four columns, from what was read.
UpdatedTicket(r) == ChangedTicket(snapshot[r], Current(r), now[r])

\* Second transaction: UPDATE and COMMIT, whose answer may be lost too.
WriteTicket(r) ==
    /\ pc[r] = "write"
    /\ tickets' = [tickets EXCEPT ![Current(r).ticket_id] = UpdatedTicket(r)]
    /\ applied' = applied \cup {<<r, pos[r]>>}
    /\ Processed(r) \/ Failed(r)
    /\ UNCHANGED <<lifecycleEvents, lifecycleAudit, clock, feed, now,
                   snapshot, seen, horizon>>

\* A statement, a connection or a COMMIT of applyEvent fails: the transaction
\* is rolled back and the item is counted as failed.
TransactionFails(r) ==
    /\ pc[r] \in {"check", "record", "read", "write"}
    /\ Failed(r)
    /\ UNCHANGED <<database, clock, feed, now, snapshot, history>>

Return(r) ==
    /\ pc[r] = "next"
    /\ pos[r] > Len(feed[r])
    /\ GoTo(r, IF failures[r] > 0 THEN "failed" ELSE "ok")
    /\ UNCHANGED <<database, clock, feed, now, snapshot, history>>

\* The feed or resolveStaffTenant throws: neither is inside the try, so the
\* run rejects and the rest of the feed is not looked at.
Abort(r) ==
    /\ pc[r] = "next"
    /\ GoTo(r, "aborted")
    /\ UNCHANGED <<database, clock, feed, now, snapshot, history>>

\* The process dies; its open transaction, if any, is rolled back.
Crash(r) ==
    /\ pc[r] \in InFlight
    /\ GoTo(r, "crashed")
    /\ UNCHANGED <<database, clock, feed, now, snapshot, history>>

Tick ==
    /\ clock' \in {t \in Times : t > clock}
    /\ UNCHANGED <<database, pc, feed, pos, now, snapshot, processed,
                   failures, history>>

Step(r) ==
    \/ Route(r)
    \/ CheckDuplicate(r)
    \/ Record(r)
    \/ ReadTicket(r)
    \/ WriteTicket(r)
    \/ Return(r)

Next ==
    \/ \E r \in Runs : \/ Start(r)
                       \/ Step(r)
                       \/ TransactionFails(r)
                       \/ Abort(r)
                       \/ Crash(r)
    \/ Tick

Spec == Init /\ [][Next]_vars

\* A run that was called goes on: every await in it settles, as long as the
\* database answers and the pool hands it a connection.
Fairness == \A r \in Runs : WF_vars(Step(r))

FairSpec == Spec /\ Fairness

-----------------------------------------------------------------------------

TypeOK ==
    /\ tickets \in [TicketIds -> TicketRows]
    /\ lifecycleEvents \in
          Seq([tenant_id       : Tenants,
               ticket_id       : TicketIds,
               event_id        : EventIds,
               ticket_sequence : Nat \ {0},
               event           : StatusChanges \cup PriorityChanges,
               occurred_at     : Times])
    /\ lifecycleAudit \in Seq([tenant_id       : Tenants,
                               target_id       : TicketIds,
                               event_id        : EventIds,
                               ticket_sequence : Nat \ {0}])
    /\ clock \in Nat
    /\ pc \in [Runs -> {"idle"} \cup InFlight \cup Finished]
    /\ feed \in [Runs -> Seq(FeedItems)]
    /\ pos \in [Runs -> Nat \ {0}]
    /\ now \in [Runs -> Nat]
    /\ snapshot \in [Runs -> TicketRows]
    /\ processed \in [Runs -> Seq(EventIds)]
    /\ failures \in [Runs -> Nat]
    /\ seen \in [Runs -> Nat]
    /\ horizon \in Seq(Nat)
    /\ applied \subseteq Runs \X (Nat \ {0})

\* What makes two provider events the same change to the system.
Content(row) ==
    <<row.tenant_id, row.ticket_id, row.event, row.occurred_at>>

OnRecord(event) ==
    \E i \in DOMAIN lifecycleEvents :
        Content(lifecycleEvents[i]) = Content(EventRow(event))

WasApplied(event) ==
    \E w \in applied :
        Content(EventRow(feed[w[1]][w[2]])) = Content(EventRow(event))

\* A ticket is written only for an event whose content is on record already,
\* whichever runs interleave, fail or crash between the two transactions.
AppliedWasRecorded ==
    \A w \in applied : OnRecord(feed[w[1]][w[2]])

\* An event is recorded a second time only by runs that overlap: the one that
\* inserted the later row looked before the earlier one was committed.  A
\* delivery that comes after the commit finds the row, whatever came between.
RecordedAgainOnlyInOverlap ==
    \A i, j \in DOMAIN lifecycleEvents :
        /\ i < j
        /\ lifecycleEvents[i].event_id = lifecycleEvents[j].event_id
        => horizon[j] < i

\* A run that returns answers for events that are all on record and have all
\* been written to their ticket, also when an earlier run died in between.
AcknowledgedIsDurable ==
    \A r \in Runs : pc[r] = "ok" =>
        \A k \in DOMAIN feed[r] : /\ feed[r][k] # Malformed
                                  /\ OnRecord(feed[r][k])
                                  /\ WasApplied(feed[r][k])

\* No event is lost in silence.  An event on record that no write carried out
\* has a run that is on its way to do so, that died at it, or that has counted
\* a failure and so will not answer that all went well.
UnappliedHasARun ==
    \A i \in DOMAIN lifecycleEvents :
        \/ \E w \in applied :
              Content(EventRow(feed[w[1]][w[2]])) = Content(lifecycleEvents[i])
        \/ \E r \in Runs : \E k \in DOMAIN feed[r] :
              /\ feed[r][k] # Malformed
              /\ Content(EventRow(feed[r][k])) = Content(lifecycleEvents[i])
              /\ \/ k = pos[r] /\ pc[r] \in {"read", "write", "crashed"}
                 \/ k < pos[r] /\ failures[r] > 0

\* One bad event does not keep the others of its feed from being handled: a
\* run that gets to its end has answered for every item, one way or the other.
FailuresAreIsolated ==
    \A r \in Runs : pc[r] \in {"ok", "failed"} =>
        Len(processed[r]) + failures[r] = Len(feed[r])

\* An event touches only the tenant its slug names: neither its row nor its
\* write reaches a ticket of another workspace.
TenantIsolation ==
    /\ \A i \in DOMAIN lifecycleEvents :
          TicketTenant[lifecycleEvents[i].ticket_id] =
              lifecycleEvents[i].tenant_id
    /\ \A w \in applied :
          TicketTenant[feed[w[1]][w[2]].ticket_id] =
              TenantOf(feed[w[1]][w[2]])

\* The SLA columns agree with status and priority in every ticket, although
\* runs overwrite each other's changes from stale reads.
SlaColumnsAgree ==
    \A t \in TicketIds : /\ DueMatchesPriority(tickets[t], CreatedAt[t])
                         /\ FlaggedOnlyWhileRunning(tickets[t])

\* To its callers all of this is one journal, that of EventJournal: whatever
\* overlaps, fails or dies on the way, an event is entered with its audit row
\* before its ticket shows it, no ticket changes otherwise, each run carries out
\* its events in the order of its feed, and one that answers "ok" all of them.
Answer == [r \in Runs |-> IF pc[r] = "ok" THEN "ok"
                          ELSE IF pc[r] \in Finished THEN "error" ELSE "none"]

Journal == INSTANCE EventJournal
    WITH Calls <- Runs, Orders <- Feeds, Junk <- Malformed,
         RowOf <- EventRow, Owner <- TicketTenant,
         journal <- lifecycleEvents, audit <- lifecycleAudit,
         asked <- feed, carriedOut <- applied, answer <- Answer

ImplementsJournal == Journal!JournalSpec

\* A run that was called comes to an end, whatever its items do.
RunsTerminate == \A r \in Runs : (pc[r] = "next") ~> (pc[r] \in Finished)

-----------------------------------------------------------------------------
\* What the documents promise and the code does not keep.

\* ticket_sequence is the ordering authority: when every run so far has been
\* acknowledged, the ticket has the status of the recorded status change of
\* highest sequence.
HighestSequenceWins ==
    (\A r \in Runs : pc[r] \in {"idle", "ok"}) =>
      \A i \in DOMAIN lifecycleEvents :
        LET row == lifecycleEvents[i]
        IN  /\ row.event.kind = "status_changed"
            /\ \A j \in DOMAIN lifecycleEvents :
                  /\ lifecycleEvents[j].ticket_id = row.ticket_id
                  /\ lifecycleEvents[j].event.kind = "status_changed"
                  => lifecycleEvents[j].ticket_sequence <= row.ticket_sequence
            => tickets[row.ticket_id].status = row.event.target_status

\* event_id establishes identity: an event whose delivery was acknowledged has
\* one row, its own and not that of another event with the same content, and no
\* second one from a delivery that overlapped.
OneRowPerEvent ==
    \A r \in Runs : pc[r] = "ok" =>
        \A k \in DOMAIN feed[r] :
            Cardinality({i \in DOMAIN lifecycleEvents :
                lifecycleEvents[i].event_id = feed[r][k].event_id}) = 1
=============================================================================
