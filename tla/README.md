# Ticketry: TLA+ models, model checking and proofs

Ticketry is a multi-tenant support-ticket service: an HTTP API (`apps/api`), a
worker (`apps/worker`), the rules and repositories both use (`packages/core`),
and a PostgreSQL schema with its migrations runner (`packages/db`). Almost all
of its state is in the database, and almost all of its difficulty in what
happens between two statements: transactions at READ COMMITTED that read
without a lock and write later, API requests and worker jobs on the same rows,
clients that leave while a statement is on its way, processes that die between
two transactions.

This directory models that part. Source paths below are relative to the root
of the repository.

## 1. Inventory

### Components, their state and their operations

| Component | Code | State | Operations | Hard part |
|---|---|---|---|---|
| Ticket rules | `packages/core/src/domain/{transitions,sla,types}.ts` | none, pure | `canTransition`, `slaDueAt`, `isBreached`, `deriveStatusChange` | they relate status, priority and the two SLA columns |
| Lifecycle ingestion | `packages/core/src/services/lifecycle-ingestion.ts`; callers `apps/worker/src/jobs/lifecycle-ingestion.ts`, `apps/api/src/routes/lifecycle-events.ts` | `lifecycle_events`, audit rows, `tickets` | `runLifecycleIngestion`, `applyEvent` | two transactions per event, unlocked read then write, redelivery, overlapping runs |
| Ticket updates | `packages/core/src/repositories/tickets.ts` | `tickets`, audit rows | `updateTicket` | move is checked on a row read earlier |
| SLA sweep | `apps/worker/src/jobs/sla-sweep.ts` | `tickets`, audit rows | `runSlaSweep` | races with the other writers of a ticket; one tenant's failure |
| Request database lifecycle | `apps/api/src/plugins/auth.ts`, `packages/db/src/pool.ts` | one connection per request: transaction, scope, phase | acquire, bootstrap, access record, route, finalize, release | a client that leaves at any await; late statements on a connection that was given back |
| Export queue | `packages/core/src/repositories/exports.ts`, `apps/worker/src/jobs/exports.ts`, `apps/api/src/routes/exports.ts` | `export_jobs`, audit rows | enqueue, peek, claim, build, finish, fail | several workers, row locks, oldest first over all tenants, failing transactions |
| Migrations runner | `packages/db/src/migrate.ts`, `cli.ts` | `schema_migrations`, advisory lock | `migrate` and its drift check | two migrators, death between files |
| Lifecycle pool admission | `apps/api/src/{main,app}.ts`, `routes/lifecycle-events.ts` | two pools | `POST /lifecycle-events` | holds a connection of one pool while it waits for one of the other |
| Ticket creation and lists | `createTicket`, `listTickets` in `repositories/tickets.ts` | `tickets`, a counter row per tenant | counter upsert, insert; filters, order, LIMIT and OFFSET | concurrent requests; a list that changes between two pages |
| Saved views | `repositories/views.ts`, migration `0005` | `saved_views`, `export_jobs.view_id` | create, list, delete | a view that is deleted while an export of it waits |
| Transaction helper | `packages/db/src/pool.ts` | one connection per transaction | `runTransaction` | a COMMIT or ROLLBACK that fails, a connection lost between statements |
| Digest and outbox | `apps/worker/src/jobs/digest.ts`, `repositories/outbox.ts` | `notification_outbox` | one INSERT ... SELECT | none that the models reach |
| Other routes | comments, tags, users, search, audit | their tables | single statements of the request's transaction | none beyond the transaction |
| Row level security | migrations `0004`, `0005`, `0007` | policies | evaluated by PostgreSQL | which scope a statement runs under |
| Parsing, formatting, configuration, seeds, test support | `lib/http.ts`, `domain/filters.ts`, `lib/csv.ts`, ... | none | pure functions | none |

### How they interact

The API's routes and the worker's jobs never call each other. They meet in the
rows of the database: a ticket is written by the ingestion, by PATCH and by the
sweep; an export job is inserted by a route and drained by the worker; audit
rows are inserted by everyone. A route runs inside the request's transaction,
on the connection the request holds; jobs and the ingestion open transactions
of their own with `runTransaction`. `POST /lifecycle-events` does both: it is a
request, and it calls `runLifecycleIngestion`, which takes connections itself.

### What makes each one correct

- *Ingestion.* A ticket changes only for an event on record; a redelivery is
  not recorded again; an acknowledged event is recorded and applied, even if an
  earlier run died between its two transactions; a bad item does not stop the
  others; no event reaches another workspace; SLA columns keep agreeing with
  status and priority whatever stale reads are written back.
- *Ticket writers.* The same agreement with PATCH and the sweep at work; a
  breach is flagged and audited once; an overdue ticket is flagged in the end.
- *Requests.* A connection carries only its holder's statements, and goes back
  clean; every effect is made under the request's own tenant; a staff route
  runs only after its access record is durable, and that record survives
  whatever ends the request; "ok" means committed; every request ends.
- *Exports.* One worker per job; a job's outcome is audited exactly once and
  never changes; oldest first, as far as milliseconds tell; a run ends. What an export reads is all there
  was, and of a view only what the view lets through.
- *Tickets of a tenant.* They are numbered without gaps or repetition.
- *Migrations.* Ledger and schema agree wherever a migrator fails or dies; a
  file goes on top of the lower ones of its directory; a migrator that returned
  has its directory in the database; nobody waits for the lock for ever.
- *Two pools.* A connection goes back clean or not at all; nobody waits with a
  lifecycle connection in hand; every request ends; "ok" means applied.

`PROJECT.json` lists the hazards at their lines with the properties that watch
them.

## 2. Modules

| Module | Models | Extends |
|---|---|---|
| `TicketRules` | the domain rules as operators | `Integers` |
| `EventJournal` | abstract: calls enter their events in a journal and then carry them out on tickets, in order | |
| `LifecycleIngestion` | ingestion runs, the ticket and event tables; implements `EventJournal` | `TicketRules` |
| `TicketWriters` | ingestion composed with PATCH requests and the SLA sweep on one ticket table | `LifecycleIngestion` |
| `TicketCatalogue` | creation and numbering of tickets, the list of a tenant, an export that reads it page by page, the deletion of its view | |
| `AtomicRequests` | abstract: a request takes effect in one step, behind its access record and before its answer | |
| `RequestLifecycle` | requests, connections and what the database executes; implements `AtomicRequests` | |
| `IngestionCall` | abstract: a call of `POST /lifecycle-events` records its event and then writes its ticket, each in one step | |
| `LifecycleAdmission` | requests between two pools, and the transaction helper statement by statement; implements `IngestionCall` | |
| `JobBoard` | abstract: a worker takes a job, and ends it with its audit row or lets go of it | |
| `ExportQueue` | the jobs table with its row locks, and the workers; implements `JobBoard` | |
| `SchemaHistory` | abstract: a schema that grows by one file at a time | |
| `Migrations` | the migrations runner; implements `SchemaHistory` | |
| `...Proofs` | theorems | the module and `TLAPS` |
| `MC...` | instances for TLC | the module |

Modules meet where the code's parts do. `TicketWriters` extends
`LifecycleIngestion`, so the three writers share one ticket table. `ExportQueue`
takes the reading of the tickets as one step, `Build`; `TicketCatalogue` is that
step, with everybody who changes the list meanwhile. `RequestLifecycle` is what
happens on a request's own connection; `LifecycleAdmission` abstracts that to a
connection that is held or not, and adds the second pool.

The abstract modules say what the components promise to those who cannot see
their inside:

- `EventJournal` has the tables and the feeds, and of a run only what it has
  carried out and answered (`applied`, `Answer`). The INSERTs of the first
  transaction are `Enter`, the UPDATE of the second is `CarryOut`; checks, reads,
  failures and the clock are not seen. It is implemented by the ingestion alone:
  in `TicketWriters` others change the tickets too.
- `SchemaHistory` has the variables of the database only, and `Migrations` keeps
  its own variables of the same names (`LedgerRow` is the row both write).
- `JobBoard` has the jobs' statuses, the audit log and who works on what. The
  mapping (`Working`) takes a worker to be at a job from the commit of its claim
  to its last transaction; candidates, locks and rounds are not seen. A claim
  whose answer is lost is `TakeUnheard`; a transaction that fails and a worker
  that dies are `LetGo`, after which nobody ever has the job again.
- `AtomicRequests` has no connections. What a request asked for, what is
  durable of it, and what its client was told are read off `req` and `durable`
  (`Asked`, `Recorded`, `Done`, `Told`). The execution of the COMMIT that ends
  the route is the one step in which its work takes effect.
- `IngestionCall` has neither pools nor transactions. `Stage` and `Told` read off
  a request what it is to do next and what its client got. A COMMIT that took
  effect though it failed for its caller has recorded the event, or written the
  ticket, and the call is over; nothing follows it. A client that leaves is
  "gone", and the ingestion it called runs on.

### Correspondence with the code

**LifecycleIngestion.** A run is one call of `runLifecycleIngestion`, with `now`
fixed at the call. `pc` is the await it is at: `Route` is the head of the loop
(parse and resolve the tenant); `CheckDuplicate` the two SELECTs of the first
transaction; `Record` its two INSERTs and the COMMIT; `ReadTicket` and
`WriteTicket` the second transaction; `Return` the end. `Failed` is the `catch`
in the loop, `Abort` an error outside of it. A COMMIT may be done and its
answer lost: `Record` and `WriteTicket` then count a failure although they took
effect. `DuplicateFound` deserves a look: the `return` of the duplicate check
leaves the callback of the first transaction only, so a redelivered event is
applied again. That is what makes an event that was recorded by a run that died
be applied at all (`AcknowledgedIsDurable`).

**TicketWriters.** `PatchRead` and `PatchWrite` are the SELECT and the UPDATE of
`updateTicket`; the UPDATE writes status, priority and due time from the row
read before, and not the flag. `SweepTenant` is one tenant's transaction of
`runSlaSweep`: a single UPDATE whose WHERE clause is evaluated on the rows it
writes. Its RETURNING rows are then audited in the same transaction.

**RequestLifecycle.** A pg client executes one statement at a time and queues
the others. `conn[c].queue` is that queue; `Serve` executes its head and runs
the JavaScript that waited for the result up to its next await. This is the
grain at which the event loop can interleave. `phase`, `fin`,
`accessRecordIssued` and `poisoned` are the fields of
`RequestDatabaseLifecycle`; `Finalize` is `finalizeRequest`, whichever of the
reply, an error and the disconnection comes first. The external part is what
PostgreSQL does with the statement (`Executed`, `CanSucceed`, `CanFail`):
a transaction goes from `"I"` to `"T"`, to `"E"` after an error, COMMIT of a
failed transaction rolls back, and a transaction-local scope ends with it.

**ExportQueue.** A worker goes round by round: `Peek`/`PeekCommits` for each
tenant, `Claim`/`ClaimCommits` for the candidates from the oldest on, then
`Build`, `MarkDone` or `MarkFailed`. Peeks and claims hold a row lock between
their two steps, and `FOR UPDATE SKIP LOCKED` makes others pass by. Each
transaction has its failing twin, and `ClaimUnanswered`, `MarkDone` and
`MarkFailed` also have the lost answer.

**TicketCatalogue.** `Ask`, `Count`, `Insert` and `CommitPost` are the awaits of
`createTicket` in its request. The upsert of the counter holds the row until the
transaction ends: `Numbering` is the set of requests that hold it, and `Count`
waits until there is none. `created` is taken before the wait, so a ticket with
a higher number may have the earlier time. `Matches`, `Newer` and `Page` are the
WHERE, ORDER BY and LIMIT/OFFSET of `listTickets`. `Change` is any writer of a
committed ticket. `ViewIdAfterDelete` is the foreign key of migration `0005`,
`ON DELETE SET NULL (view_id)`: a queued job loses its view; a claimed one is
known to its worker with the view it named, and fails. History variables
`steady`, `entered` and `left` record how the list changed since the export
began to read.

**LifecycleAdmission.** A request goes through `Plan`: the two queries and two
transactions of one event, each with a lifecycle connection of its own. `Begin`,
`Statements`, `Commit`, `CommitFails` and `Rollback` are the statements of
`runTransaction`; `ConnectionLost` is the error event its listener remembers;
`Released` is `client.release(unusable)`. `Refuse` is also a
`pool.connect()` that rejects, before any of the four. A client that
leaves ends the request, not the ingestion it has called.

**Migrations.** `pc` is the await `migrate` is at: `Lock` waits for
`pg_advisory_lock`, `ReadLedger` reads `schema_migrations`, `Compare` is the head
of the loop, `Execute` and `Commit` are the transaction of one file.
`StatementFails` is its `catch`; `Unlock` the `finally`. `SessionEnds` is the
death of the process or of its connection: PostgreSQL rolls back and drops the
session's lock, and a COMMIT on its way may still take effect. What a file does
to the schema is its contents, kept in the order of commit. Each migrator is
deployed with one of several directories, which may disagree about a file.

### Abstractions

- The writes and the COMMIT of a transaction are one step. At READ COMMITTED
  nobody reads an uncommitted row, and a writer that waits for a row lock
  overwrites the row when it gets it, which is the same order of steps.
  Reads before the writes are steps of their own. Only in the export queue,
  where locks are skipped instead of waited for, is a held lock visible, and
  there it is modelled.
- Time is in hours, SLA targets being 4, 8, 24 and 72.
- Event ids, slugs, tenants and tickets are model values. Of a ticket the four
  columns that the writers share are kept.
- A route's statements are issued one after the other. Routes that use
  `Promise.all` queue theirs on the same connection, in an order that does not
  matter to the properties.
- In `TicketCatalogue` what filters look at is one function from fields to
  values; tags are among them. Subject and body are no filters and left out.
- What the files of `Migrations` contain is an atom, and SHA-256 is assumed to
  tell contents apart (`ChecksumAssumption`).
- Server shutdown rolls requests back as a disconnect does; it has no action of
  its own.
- Tenants do not come or go while a run is on, and workspace slugs are never
  changed by the code.
- Ids of jobs are numbers, ordered in the worker as in the database: uuids have
  one order in both.
- An `event_id` names one event in all feeds (`EventIdAssumption`, after
  `domain/lifecycle-events.ts:20`). The code relies on it nowhere; the
  properties that speak of an event by its id do.
- `MaxStalls` is 3 in the code. `export_left_running` uses 3; `exports_two_workers`
  uses 2, which already has a round after a stall.

History variables (`seen`, `horizon`, `applied`; `known`, `contended`,
`orphaned`; `steady`, `entered`, `left`) are read by no action's guard.

## 3. Runs

Passing runs:

| Run | Instance | Question |
|---|---|---|
| `ingestion` | 2 runs; feeds with two events, a lookalike and a priority change of one ticket, a malformed item, an unknown slug, a ticket of another tenant; times 0 and 5 | Do overlapping runs, failures and crashes keep records before writes, record an event again only where deliveries overlap, lose nothing in silence, keep tenants and the SLA columns together, isolate failures? Are they the journal of `EventJournal`? |
| `writers_all` | one run, one PATCH, one sweeper, one urgent ticket, clock before and after its due time; fair | Do three kinds of writers keep the due time right, flag and audit a breach, end, and move a status against the table only from stale reads? |
| `requests_share_connection` | a tenant's and a staff request on one connection, up to 2 statements each; fair | Can anything leak from one request to the next, or get lost, with clients leaving at every point? Is a request, seen from outside, the one step of `AtomicRequests`? |
| `exports_two_workers` | 2 workers, 2 tenants, 2 jobs of one millisecond, the older one with the higher id | Do workers that peek and claim at once process each job once, oldest first as far as the worker can tell, and audit its end? Do they implement `JobBoard`? Does every step bring a run closer to its end, although two workers may keep each other from every candidate? |
| `catalogue_export` | 3 requests of one tenant, 1 of another, one filter, pages of 2 rows, 2 instants | Are tickets numbered densely, and what can an export miss or repeat while its list changes? |
| `requests_between_pools` | 2 requests, 2 request connections, 1 lifecycle connection; fair | Can the requests wait for each other, and is every connection given back fit for use? Is a call the two steps of `IngestionCall`, whatever fails underneath? |
| `migrators_disagree` | 2 migrators; complete, gapped, edited and malformed directories of up to 3 files; fair | Do schema and ledger stay in step, does each file get its place, does everybody get the lock? Does the runner implement `SchemaHistory`? |

Runs that show a disagreement between the code and what a comment, a document
or a test says of it (each ends in a violation; `PROJECT.json` quotes the line):

| Run | What happens |
|---|---|
| `older_event_wins` | An event with a lower `ticket_sequence` is applied last and decides the status. The number is stored and never compared. |
| `event_identity` | Two events of one ticket have the same content and ids of their own. The duplicate check does not look at `event_id`: the second is acknowledged and has no row. The same property fails, with a feed of one event for both runs, when the deliveries overlap: both find no row and both insert one. |
| `terminal_status` | A flagged ticket that is solved by PATCH keeps its flag, since the UPDATE leaves the flag out; and a PATCH of the priority of a solved ticket gives it a due time. |
| `export_left_running` | `processNextTenantExport` returns the last transaction's promise without awaiting it inside its `try`: if it fails, the job is not marked failed and stays running. |
| `view_deleted` | A view is deleted while an export of it is queued: the foreign key sets the job's `view_id` to NULL, and the worker exports all tickets of the tenant. |

`event_identity` is about what makes an event the same: its `event_id`, says
`domain/lifecycle-events.ts:20`; its content, says the duplicate check. What
holds nevertheless is checked by the run `ingestion`. An `event_id` has two rows
only if deliveries overlapped (`RecordedAgainOnlyInOverlap`). Where the row is
missing, the content is on record and has been carried out
(`AcknowledgedIsDurable`), and the run that brought the second event has carried
it out itself (`ImplementsJournal`).

More disagreements are visible in the models, without a run of their own:

- Two PATCH requests both read "open"; one solves the ticket, the other then
  sets it to pending, which the table does not allow from solved
  (`tickets.ts:148` against `apps/api/tests/tickets.test.ts:131`).
  `IllegalMovesAreExplained` says that this, and an event, are the only ways.
- The audit row `ticket.lifecycle_applied` is committed with the record of an
  event, the change of the ticket in a second transaction that may fail
  (`lifecycle-ingestion.ts:54` against `CONTRIBUTING.md:26`).
  `UnappliedHasARun` says what is left of the promise.
- The ingestion writes back the flag it read, so a flag the sweep sets in
  between is lost and the sweep flags and audits the ticket again.
  `FlagMatchesAudit` is therefore stated for tickets that no event is applied to.
- `README.md:95` and `CONTRIBUTING.md:33` say that the migrations runner refuses
  to run or to start when an applied file changed. It refuses when it gets to
  that file: pending files of a lower version have been applied by then.
  `SuccessIsComplete` and `AppliedOnTop` are what does hold.
- An export with filters can skip a ticket that matched them all along, when
  another one ceases to match while it reads; any export can repeat a ticket.
  `MissesOnlyAfterLeaving` and `RepeatsOnlyAfterEntering` say that nothing else
  brings it about.

### Why the bounds are enough

Two actors are enough for each race: every property relates at most two writers
of one row, or one actor and one that follows it. Feeds of up to three items
have an item before and after a failing one. The two instants lie on both sides
of the due time of an urgent ticket (4 hours), so that a `now` taken early is
used late. One connection makes the second request inherit what the first
leaves. Two jobs of one millisecond, the younger one with the lower id and in the
tenant that is listed last, tell three orders apart: that of the tenants, the
database's (`Older`: microseconds, then id) and the worker's (`SortsBefore`:
milliseconds, then id, since `getTime()` drops the rest).
Three tickets and pages of two rows give a full page and a last one that is
partly filled, a ticket that enters above the rows read, and one that leaves.
The two instants let a ticket with the higher number be the older one. One
lifecycle connection is the tightest pool there is, and with two request
connections both requests can hold theirs while they wait for it. Three files are
the least with one below and one above a missing or edited one.

`CHECK_DEADLOCK FALSE` stands where the instance comes to rest: all runs,
requests or jobs are finished. In the runs `exports_two_workers` and
`export_left_running` workers start again and again, and deadlock is checked.

Symmetry is used for the ingestion runs and the export workers, in safety runs
only.

### Fairness

- *Ingestion:* weak fairness of each run's own step. Every await settles as
  long as the database answers and the pool hands out a connection. Nothing
  forces failures, crashes or starts.
- *Sweep:* the worker's loop starts it again and again (weak), and a tenant's
  transaction that is tried for ever succeeds at last (strong: each failure
  disables it until the next sweep). This is an assumption about the database;
  no retry can help without it.
- *Requests:* the database answers (weak, per connection); a route and a reply
  come to an end (weak); the pool serves its waiters (strong, since another
  waiter may get the connection each time; the pool's queue is first in, first
  out). The pool has no acquisition timeout.
- *Two pools:* every statement is answered (weak, per request), and each pool
  serves its waiters in turn (strong), as pg's first-in-first-out queue does.
- *Migrations:* a migrator that has the lock goes on (weak), and PostgreSQL's
  lock manager serves those who wait in turn (strong). Nothing forces a failure
  or the end of a session.
- *Exports:* none is assumed. `StepsRunOut` says of each step of a run, a lost
  race and a failure included, that it takes something from what the run has
  left, and of everybody else's that it adds nothing. So a run that goes on
  ends, even if it loses every race.

## 4. Proofs

TLAPS proves the following for every value of the constants that satisfies the
modules' assumptions, so for any number of runs, tickets, tenants, feeds,
workers and jobs.

`LifecycleIngestionProofs` (assumptions `TenantAssumption`, `TicketAssumption`,
`FeedAssumption`):

- `TypeCorrect`: `Spec => []TypeOK`. `TypeOK` alone is not inductive: that the
  item at hand is an event with a tenant follows from where a run stands. The
  strengthening `Typed` adds that a run in flight is inside its feed and, past
  `Route`, at an item that was routed.
- `WriteAhead`: `Spec => []AppliedWasRecorded`. The inductive invariant
  `Recorded` says that a run that has passed the duplicate check or the record
  has its event's content on record. Nothing is ever deleted from
  `lifecycle_events`, so this survives the steps of others.
- `Isolation`: `Spec => []TenantIsolation`, with the same invariant: past the
  check, the ticket belongs to the tenant of the slug.

`LifecycleGuaranteesProofs`, on top of it:

- `EveryItemAnswered`: `Spec => []FailuresAreIsolated`, and `Acknowledged`:
  `Spec => []AcknowledgedIsDurable`. The invariant `Tallied` counts: what a run
  has answered and what has failed are the items behind it, and while nothing
  has failed the write of each is committed; `Recorded` adds that those events
  are on record. A COMMIT whose answer was lost leaves a write and a failure,
  which is why the write is only owed where nothing has failed.
- `RedeliveryIsDuplicate`: `Spec => []RecordedAgainOnlyInOverlap`. The invariant
  `Watched` says that a run about to insert saw no row of its event's content:
  one that is there by now has a higher number than the rows it saw. That is
  about contents, which is what the code compares. `FromFeeds` adds that every
  row is one of a delivered event, so with `EventIdAssumption` rows of one
  `event_id` have one content (`SameIdSameContent`).
- `SlaColumnsStay`: `Spec => []SlaColumnsAgree`. The tickets alone are not
  enough: a run writes from a row it read before others wrote. `Agreement` says
  the same of the row it has read, and `ChangeAgrees` that a change keeps it.

- `NoEventLostSilently`: `Spec => []UnappliedHasARun`, an invariant with the
  facts of `Typed` and `Recorded` at hand: whoever leaves an item behind without
  writing counts a failure.

- `JournalImplemented`: `Spec => ImplementsJournal`. The layers above say of a run
  that is about to insert or to write what the journal asks for: an event of its
  own tenant, on record before the write, and with "ok" the whole feed written.
  `InOrder` adds that what a run has written is behind it, so that it carries out
  each item once and none before an earlier one; that a written row shows its
  event is `ChangeShows`.

- `RunsAreBounded`: a run that is called with n items makes 5n + 5 steps at the
  most. `StepsLeft` counts the items ahead of it and where it stands in the one at
  hand; each of its own steps takes one away or more, a failure included, and no
  step of another run adds any.

With these, every safety property the runs check of `LifecycleIngestion` is a
theorem.

`TicketWritersProofs` (the assumptions above and `PatchAssumption`), on top of
them:

- `WritersTyped`, `DueTimesAgree`, `BreachAuditedOnce`, `IllegalMovesExplained`:
  all the safety properties of the composition. PATCH and the sweep change
  nothing of the ingestion but `tickets`, so the layers `Typed` and `Recorded`
  are taken over and only have to be shown to survive the new steps. `DueAgrees`
  adds that every row that is read (the runs' `snapshot`, the requests' `read`)
  agrees in priority and due time; `MoveIsChecked` that a PATCH is at its write
  only if the table allows the move from the status it read; and
  `WritesAreBehind` that a write of the ingestion is a new member of `applied`,
  so that such a step either leaves a ticket alone or puts it among those an
  event was applied to.

`TicketCatalogueProofs` (assumption `CatalogueAssumption`):

- `NumberingIsDense`. The invariant says of a request that holds the counter's
  row that it is alone (`Alone`) and that its number is the counter's
  (`NumberHeld`).
- `PlainExportsAreComplete`, `MissingNeedsLeaving`, `RepeatingNeedsEntering`.
  A first part is about `Rank`: on tickets with different numbers it counts them
  off from 0 (`RankBelow`, `RankInjective`, and `RankOnto`, as an injection
  between finite sets of one size is onto), so that a page has the tickets of its
  ranks. The invariant `ReadSoFar` relates rows read, offset and rank: while
  nothing has left, the tickets that have been in the list all along and rank
  below the offset are in the rows; while nothing has come in, the rows have only
  tickets below the offset.

`LifecycleAdmissionProofs` (assumption `AdmissionAssumption`):

- `BorrowedComesBackClean`, `NoWaitInHand`, `SuccessMeansApplied`. Beside the
  properties themselves the invariant says that a query runs outside of a
  transaction (`QueriesAreBare`) and that what a request has behind it in `Plan`
  is durable (`Progressed`).
- `CallImplemented`: `Spec => ImplementsCall`. `CallInv` adds what is not durable
  yet: nothing ahead of a request in `Plan`, nor the unit it is at before its
  COMMIT was sent (`Ahead`), nor that unit while the COMMIT is under way on a
  connection that is still there (`CommitOpen`). Without it a COMMIT that is
  executed could be one for work that had taken effect before, and would be no
  step of `IngestionCall`. `SuccessMeansApplied` remains a theorem of its own.

- `RequestsAreBounded`: a request makes 15 steps at the most, from `After` (what the
  units of `Plan` behind the present one take) and `Rank` (where it stands in that
  one). With `NoWaitInHand` nothing is missing for it to end but the fairness of the
  two pools.

`MigrationsProofs` (assumptions `MigratorAssumption`, `VersionAssumption`,
`ChecksumAssumption`, `DirectoryAssumption`):

- `LedgerIsTrue`, `FilesStack`, `SuccessHolds`, `MigratorsKeepApart` and
  `HistoryImplemented`, the refinement of `SchemaHistory`. The invariant says where
  a migrator's variables stand, and that only the holder of the lock is past it
  (`AtWork`); that the ledger has nothing but what the holder read and what it has
  applied since, and everything its loop has passed (`Knows`); and what stays when
  it has returned (`Kept`). The loop's order rests on `LeastNatural`: every
  nonempty set of versions has a least one.

- `LockIsGivenBack`: `HeldInSession` says that whoever has the lock is at work, and
  `StepsLeft` that it has three steps for each file it has yet to reach and three
  more, at the most. Directories are finite (`DirectoryAssumption`).

`RequestLifecycleProofs` (assumption `RequestAssumption`):

- `HolderSpeaks`, `PoolIsClean`, `EffectsAreScoped`, `AccessFirst`,
  `OkMeansCommitted` and `AccessIsNotRolledBack`. A request and the connection it
  holds are a pair (`Paired`), and a step touches one pair only (`PairStep`), so
  the rest of the proof is about one request `q` and one connection `k`. `Held`
  says of them which statements are in the queue for each outcome under way
  (`Queued`), that the transaction is open and under the request's scope where
  that matters (`Opened`), what is written and what is already durable
  (`Wrote`), and that a written access record is on its way to a COMMIT
  (`Keeps`). `Let` is what is left to say of a request that has given its
  connection back. None of the properties is inductive without the queue: a
  finalization may begin while a statement of the handler is on its way, and
  that the connection is clean afterwards depends on what stands behind it.
- `AtomicImplemented`: `Spec => ImplementsAtomic`, on top of these. It needs a
  second invariant, `AtomicInv`. `Accounted` says that what is durable of a
  request's work is there only once its route has returned, and that its
  connection is then lost or given back. `Whole` says what a COMMIT can make
  durable: that the writes of the transaction under way are numbered by the
  statements asked for, that a broken connection holds none, and that no
  statement of the bootstrap transaction stands behind one of the route, so that
  the only COMMIT that finds work is the last one. That the COMMIT has all of the
  work, and not a part, is `Wrote` of the first invariant. `StepAtomic` goes
  through the actions: a step of one request leaves the others as they are
  (`AtomicStep`), and is of the request itself one of the abstract actions or a
  stutter (`Seen`).
- `RequestsAreBounded`: a request and its connection make at most
  `27 + 4 * MaxWork` steps, the client's leaving and the connection's loss included,
  and no step of one request gives another one more to do. The measure (`LeftOf`)
  counts where the handler is (`Ahead`), whether the outcome is open
  (`Undecided`), and what is in the queue, with one more for a final COMMIT, whose
  failure sends a ROLLBACK (`Load`). A finalization sends a statement without
  the handler's coming nearer to its end, which is why the open outcome counts
  for two.
- `WaitersAreServed`: `NobodyWaitsInVain`. Each flow of a request has what it waits
  for on the connection: the handler the answer to its statement, also when the
  finalization has overtaken it, and the response the COMMIT or the rollback.
  And no connection is held by a request that is over. `Held` does not say it,
  since it speaks of the handler's statements only while the outcome is open;
  `Attended` is what has to be added.

`ExportQueueProofs` (assumptions of `ExportQueue`):

- `NoJobTwice`, `OutcomeAudited`, `OutcomeStays`. The invariant `Exclusive` ties a
  worker's job to the row's lock and status (`HasItsJob`, `LocksAreHeld`).
- `BoardImplemented`: `Spec => ImplementsBoard`, from the same invariant. Before
  its claim is committed nothing of a worker is seen on the board
  (`BeforeClaimStutters`); the claim's commit is `Take` (`ClaimTakes`) or, not
  answered, `TakeUnheard` (`UnansweredTakes`): that nobody else is at the job
  follows from its being locked and queued. The last transactions are `End`
  (`SettlesEnds`); that no audit row is there before comes from `SettledIsAudited`.
- `ClaimsOldest`. `Accounted` says why a round has not claimed a job it knew of: its
  tenant is to be visited or skipped, or it is behind a job that another worker
  had hold of, or behind a candidate. "Behind" is in the database's order, and
  the claimed candidate is first in the worker's (`NextIsThere`); so a candidate
  that hides a job which comes before the claimed one is of its own tenant and
  does not come before the claimed one itself, which can only be within one
  millisecond. `Hidden` lists the three cases.
- `RunsAreBounded`: `StepsRunOut`. Every step of a run, a failure included, ends it,
  or processes one more job, or counts one more round in vain, or leaves less of its round
  (`Closer`, `LeftInRound`), and nobody else's step throws it back. So a run makes at
  most `MaxJobs * MaxStalls` rounds of `6 * Len(TenantOrder) + 5` steps. The
  invariant `Counted` bounds the candidates by the tenants peeked at and keeps a
  claimed job among them, which is why giving it up leaves one candidate less.

Each of these modules also proves its type invariant (`TypeCorrect`,
`WritersTyped`) from the same argument, also where no run checks it separately.

Only model-checked: the liveness properties (`RunsTerminate`,
`OverdueIsFlagged`, `MigratorsEnd`, and `EveryRequestEnds` of both
modules), which are out of the prover's reach together with the fairness they
assume and the ENABLED in it. What can be proved of them is the measure:
`RunsAreBounded` of the ingestion, `LockIsGivenBack` and `RequestsAreBounded` of both
show for every value of the constants that a run, a migrator or a request cannot
step for ever, so that what TLC adds on its instances is that it is not stuck
before; of a request that has its connection, `WaitersAreServed` shows that too.
Of the exports the measure itself is what the run checks (`StepsRunOut`) and
`RunsAreBounded` proves. There is no such theorem for the sweeps, which go on for
ever.
Every safety property of a passing run is a theorem.

## 5. Not modelled

- The digest, the routes with single statements, search: what they do in a
  transaction is one statement, and the transaction is `RequestLifecycle`'s.
- Row level security is modelled by what the code relies on: a
  transaction-local scope, and that a row does not change tenant. The policies
  themselves are evaluated by PostgreSQL.
- Parsing, formatting, CSV, API keys: pure functions with unit tests.
- `processNextExport` is used by no job; it is the worker's round without the
  rounds. `GET /tickets` asks for a page and a total in two statements; nothing
  says that they agree.
- Server shutdown: `app.close()` and the end of the pools wait in Fastify and pg.
- Configuration, seeds, test support.

## 6. What could follow

1. Three jobs in `exports_two_workers`, which need more than five minutes; the
   theorems cover them meanwhile.
