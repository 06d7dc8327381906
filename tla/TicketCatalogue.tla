-------------------------- MODULE TicketCatalogue --------------------------
(***************************************************************************)
(* How tickets get into the list of their tenant, and how an export reads  *)
(* that list: createTicket and listTickets of                              *)
(* packages/core/src/repositories/tickets.ts, the building of a CSV in     *)
(* packages/core/src/repositories/exports.ts, and saved views.             *)
(*                                                                         *)
(* Several requests create tickets at once; the row of the tenant's        *)
(* counter is locked from the moment a number is taken until the request's *)
(* transaction ends.  An export reads page by page in one transaction at   *)
(* READ COMMITTED: every page sees what is committed when it is read.      *)
(* ExportQueue has the queue; this module is what its Build leaves out.    *)
(***************************************************************************)
EXTENDS Integers, Sequences, FiniteSets

CONSTANTS
    Posts,      \* POST /tickets requests; each is the id of its ticket, too
    Tenants,
    TenantOf,   \* [Posts -> Tenants]
    Fields,     \* the columns, and the tags, that a filter may name
    Values,     \* what they hold
    NewFields,  \* what a new ticket may have in them
    PageSize,   \* EXPORT_PAGE_SIZE
    Times,      \* what the clock may show
    Exporting,  \* the tenant whose list is exported
    Saved       \* the filters of its saved view

ASSUME CatalogueAssumption ==
    /\ IsFiniteSet(Posts)
    /\ TenantOf \in [Posts -> Tenants]
    /\ NewFields \subseteq [Fields -> Values]
    /\ PageSize \in Nat \ {0}
    /\ Times \subseteq Nat
    /\ Exporting \in Tenants
    /\ Saved \in UNION {[F -> Values] : F \in SUBSET Fields}

VARIABLES
    clock,      \* the API's Date
    counter,    \* ticket_counters.next_number; 1 where there is no row yet
    post,       \* where each request stands
    ticket,     \* its row: number, created_at and what filters look at
    view,       \* whether the saved view exists
    export,     \* an export job, and the worker that builds its CSV
    \* History variables, read by no action's guard:
    steady,     \* tickets in the export's list ever since it began to read
    entered,    \* whether a ticket has come into that list since
    left        \* whether one has gone from it

catalogue == <<counter, post, ticket>>
history   == <<steady, entered, left>>
vars      == <<clock, catalogue, view, export, history>>

NoFilters == [f \in {} |-> {}]

\* buildFilterClauses: one equality for each filter, and all must hold.
Matches(t, filters) ==
    \A f \in DOMAIN filters : ticket[t].fields[f] = filters[f]

Committed(tenant) == {p \in Posts : TenantOf[p] = tenant /\ post[p] = "done"}

\* The rows of listTickets without LIMIT and OFFSET.
Listed(filters) == {t \in Committed(Exporting) : Matches(t, filters)}

\* ORDER BY created_at DESC, number DESC
Newer(t, u) ==
    \/ ticket[t].created > ticket[u].created
    \/ ticket[t].created = ticket[u].created /\ ticket[t].number > ticket[u].number

\* How many rows of S come before t.
Rank(t, S) == Cardinality({u \in S : Newer(u, t)})

RowsOf(S, offset) ==
    LET n == Cardinality(S) - offset
    IN  IF n <= 0 THEN 0 ELSE IF n < PageSize THEN n ELSE PageSize

\* LIMIT PageSize OFFSET offset
Page(S, offset) ==
    [i \in 1..RowsOf(S, offset) |->
        CHOOSE t \in S : Rank(t, S) = offset + i - 1]

\* An export of which nothing is read.
Without(label) ==
    [pc |-> label, view_id |-> FALSE, asked |-> NoFilters,
     filters |-> NoFilters, offset |-> 0, rows |-> << >>]

Init ==
    /\ clock \in Times
    /\ counter = [tenant \in Tenants |-> 1]
    /\ post = [p \in Posts |-> "new"]
    /\ \E body \in [Posts -> NewFields] :
          ticket = [p \in Posts |->
                       [number |-> 0, created |-> 0, fields |-> body[p]]]
    /\ view = TRUE
    /\ export = Without("none")
    /\ steady = {}
    /\ entered = FALSE
    /\ left = FALSE

-----------------------------------------------------------------------------
\* POST /tickets

Tick ==
    /\ \E t \in Times : t > clock /\ clock' = t
    /\ UNCHANGED <<catalogue, view, export, history>>

GoesTo(p, label) == post' = [post EXCEPT ![p] = label]

\* The list the export reads changes with the tickets.
Watches ==
    IF export.pc # "reading" THEN UNCHANGED history
    ELSE LET S == Listed(export.filters)
             T == Listed(export.filters)'
         IN  /\ steady' = steady \cap T
             /\ entered' = (entered \/ T \ S # {})
             /\ left' = (left \/ S \ T # {})

\* createTicket takes the time before it waits for the counter.
Ask(p) ==
    /\ post[p] = "new"
    /\ ticket' = [ticket EXCEPT ![p].created = clock]
    /\ GoesTo(p, "asked")
    /\ UNCHANGED <<clock, counter, view, export, history>>

\* Requests whose transactions hold the row of a tenant's counter.
Numbering(tenant) ==
    {p \in Posts : TenantOf[p] = tenant /\ post[p] \in {"counted", "inserted"}}

\* The upsert returns once no other transaction holds the row.
Count(p) ==
    /\ post[p] = "asked"
    /\ Numbering(TenantOf[p]) = {}
    /\ ticket' = [ticket EXCEPT ![p].number = counter[TenantOf[p]]]
    /\ GoesTo(p, "counted")
    /\ UNCHANGED <<clock, counter, view, export, history>>

\* The row of the ticket and its audit row.
Insert(p) ==
    /\ post[p] = "counted"
    /\ GoesTo(p, "inserted")
    /\ UNCHANGED <<clock, counter, ticket, view, export, history>>

NextNumber(n) == n + 1

\* The request is committed: row and counter are there for others.
CommitPost(p) ==
    /\ post[p] = "inserted"
    /\ GoesTo(p, "done")
    /\ counter' = [counter EXCEPT ![TenantOf[p]] = NextNumber(ticket[p].number)]
    /\ UNCHANGED <<clock, ticket, view, export>>
    /\ Watches

\* Fault: the number is taken outside of the transaction.
PostFailsCounted(p) ==
    /\ post[p] \in {"asked", "counted", "inserted"}
    /\ GoesTo(p, "failed")
    /\ counter' = [counter EXCEPT ![TenantOf[p]] =
                       IF post[p] = "asked" THEN @ ELSE @ + 1]
    /\ ticket' = [ticket EXCEPT ![p].number = 0, ![p].created = 0]
    /\ UNCHANGED <<clock, view, export, history>>

\* It is rolled back, the counter with it.
PostFails(p) ==
    /\ post[p] \in {"asked", "counted", "inserted"}
    /\ GoesTo(p, "failed")
    /\ ticket' = [ticket EXCEPT ![p].number = 0, ![p].created = 0]
    /\ UNCHANGED <<clock, counter, view, export, history>>

\* A PATCH, a tag, an event or the sweep changes what filters look at.
Change(p) ==
    /\ post[p] = "done"
    /\ \E f \in Fields, v \in Values :
          ticket' = [ticket EXCEPT ![p].fields[f] = v]
    /\ UNCHANGED <<clock, counter, post, view, export>>
    /\ Watches

-----------------------------------------------------------------------------
\* Saved views and exports

\* POST /exports: the view is there, or the request is refused.
Enqueue ==
    /\ export.pc = "none"
    /\ \/ export' = [export EXCEPT !.pc = "queued"]
       \/ /\ view
          /\ export' = [export EXCEPT !.pc = "queued", !.view_id = TRUE,
                                      !.asked = Saved]
    /\ UNCHANGED <<clock, catalogue, view, history>>

\* ON DELETE SET NULL (view_id): a job no longer names the view, unless it
\* is claimed already and the worker has read it.
ViewIdAfterDelete == IF export.pc = "queued" THEN FALSE ELSE export.view_id

\* DELETE /views/:id
DeleteView ==
    /\ view
    /\ view' = FALSE
    /\ export' = [export EXCEPT !.view_id = ViewIdAfterDelete]
    /\ UNCHANGED <<clock, catalogue, history>>

\* The claim, which returns the job's row.
Claim ==
    /\ export.pc = "queued"
    /\ export' = [export EXCEPT !.pc = "claimed"]
    /\ UNCHANGED <<clock, catalogue, view, history>>

\* The transaction that builds the CSV looks for the view, if there is one.
Open ==
    /\ export.pc = "claimed"
    /\ export.view_id => view
    /\ LET filters == IF export.view_id THEN Saved ELSE NoFilters
       IN  /\ export' = [export EXCEPT !.pc = "reading", !.filters = filters]
           /\ steady' = Listed(filters)
    /\ UNCHANGED <<clock, catalogue, view, entered, left>>

\* Fault: pages overlap, or have a gap between them.
OffsetShort(offset) == offset + PageSize - 1
OffsetFar(offset)   == offset + PageSize + 1

NextOffset(offset) == offset + PageSize

\* Fault: a full page is taken for the last one.
LastWhenFull(batch) == Len(batch) <= PageSize

IsLast(batch) == Len(batch) < PageSize

ReadPage ==
    /\ export.pc = "reading"
    /\ LET batch == Page(Listed(export.filters), export.offset)
       IN  export' = [export EXCEPT
              !.pc     = IF IsLast(batch) THEN "built" ELSE "reading",
              !.rows   = @ \o batch,
              !.offset = NextOffset(@)]
    /\ UNCHANGED <<clock, catalogue, view, history>>

\* The view is gone, the database fails or the worker dies.
ExportFails ==
    /\ export.pc \in {"claimed", "reading"}
    /\ export' = Without("failed")
    /\ steady' = {}
    /\ entered' = FALSE
    /\ left' = FALSE
    /\ UNCHANGED <<clock, catalogue, view>>

-----------------------------------------------------------------------------

PostNext(p) ==
    Ask(p) \/ Count(p) \/ Insert(p) \/ CommitPost(p) \/ PostFails(p) \/ Change(p)

ExportNext == Enqueue \/ Claim \/ Open \/ ReadPage \/ ExportFails

Next ==
    \/ Tick
    \/ \E p \in Posts : PostNext(p)
    \/ DeleteView
    \/ ExportNext

Spec == Init /\ [][Next]_vars

-----------------------------------------------------------------------------

TypeOK ==
    /\ clock \in Times
    /\ counter \in [Tenants -> 1..(Cardinality(Posts) + 1)]
    /\ post \in [Posts -> {"new", "asked", "counted", "inserted", "done",
                           "failed"}]
    /\ ticket \in [Posts -> [number : Nat, created : Times \cup {0},
                              fields : [Fields -> Values]]]
    /\ view \in BOOLEAN
    /\ export \in [pc : {"none", "queued", "claimed", "reading", "built",
                         "failed"},
                    view_id : BOOLEAN, asked : {NoFilters, Saved},
                    filters : {NoFilters, Saved}, offset : Nat,
                    rows : Seq(Posts)]
    /\ steady \subseteq Posts
    /\ entered \in BOOLEAN
    /\ left \in BOOLEAN

\* The tickets of a tenant are numbered 1, 2, 3, ... without a gap and none
\* twice, also when requests fail after they took a number.
NumbersAreDense ==
    \A tenant \in Tenants :
        /\ {ticket[p].number : p \in Committed(tenant)}
              = 1..(counter[tenant] - 1)
        /\ \A p, q \in Committed(tenant) :
              ticket[p].number = ticket[q].number => p = q

InRows(t) == \E i \in DOMAIN export.rows : export.rows[i] = t

\* An export without filters has every ticket that was committed when it
\* began to read, whatever is created and changed while it reads.
PlainExportIsComplete ==
    export.pc = "built" /\ export.filters = NoFilters =>
        \A t \in steady : InRows(t)

\* An export with filters misses a ticket that matched them all along only
\* if another ticket ceased to match meanwhile: then the rest moves up, and
\* the next OFFSET skips one.
MissesOnlyAfterLeaving ==
    export.pc = "built" /\ ~left => \A t \in steady : InRows(t)

\* An export repeats a ticket only if another one came into its list while
\* it was read.
RepeatsOnlyAfterEntering ==
    ~entered =>
        \A i, k \in DOMAIN export.rows :
            export.rows[i] = export.rows[k] => i = k

-----------------------------------------------------------------------------
\* What the code and a test promise and the schema does not keep.

\* The export of a view has only tickets that its filters let through, or it
\* fails because the view is gone.
ViewExportsAreScoped ==
    export.pc \in {"reading", "built"} => export.filters = export.asked
=============================================================================
