-------------------------- MODULE RequestLifecycle --------------------------
(***************************************************************************)
(* The database life of an HTTP request (apps/api/src/plugins/auth.ts): it *)
(* takes a connection from the pool, authenticates in a bootstrap          *)
(* transaction, runs its route in a second transaction under its tenant's  *)
(* scope, and gives the connection back, once, after a commit or a         *)
(* rollback, whatever the client, the route and the database do meanwhile. *)
(*                                                                         *)
(* A pg client sends one statement at a time and queues the others behind  *)
(* it.  Serve executes the first one and runs the JavaScript that waits    *)
(* for its result, up to the next await, in the same step: what other code *)
(* issues on the connection in between is in the queue before that step.   *)
(* A request has two flows that wait for results: its handler, and its     *)
(* finalization, which any of the reply, an error and the client's         *)
(* disconnection may start while a statement of the handler is on its way. *)
(***************************************************************************)
EXTENDS Naturals, Sequences

CONSTANTS
    Requests,
    Connections,    \* what the pool holds at most
    Tenants,
    NoScope,        \* no ticketry.tenant_id is set
    Pool,           \* the holder of an idle connection
    TenantOf,       \* [Requests -> Tenants], of the key or the staff header
    Staff,          \* the requests made with a staff key
    MaxWork         \* how many statements a route issues at most

ASSUME RequestAssumption ==
    /\ TenantOf \in [Requests -> Tenants]
    /\ Staff \subseteq Requests
    /\ NoScope \notin Tenants
    /\ Pool \notin Requests
    /\ MaxWork \in Nat

VARIABLES
    conn,       \* the connections: holder, transaction, queue of statements
    req,        \* the requests: RequestDatabaseLifecycle and where they are
    durable     \* the committed effects

vars == <<conn, req, durable>>

Commits      == {"commit_bootstrap", "final_commit", "access_commit"}
Begins       == {"begin_bootstrap", "begin_route"}
TxControl    == Commits \cup Begins \cup {"rollback"}
ScopeSetters == {"scope_bootstrap", "scope_route"}

FreshConnection ==
    [holder |-> Pool, tx |-> "I", scope |-> NoScope, queue |-> << >>,
     pending |-> {}, broken |-> FALSE]

Init ==
    /\ conn = [c \in Connections |-> FreshConnection]
    /\ req = [r \in Requests |->
          [pc |-> "waiting", conn |-> Pool, phase |-> "none", fin |-> "none",
           accessRecordIssued |-> FALSE, poisoned |-> FALSE,
           released |-> FALSE, alive |-> TRUE, work |-> 0, reply |-> "none"]]
    /\ durable = {}

-----------------------------------------------------------------------------
\* What the code does with a request's state: each operator below yields the
\* next state of the request and the statements it issues.

Then(q, ops) == [q |-> q, issue |-> ops]

\* releaseClient: the connection goes back to the pool with this step.
Release(q) == Then([q EXCEPT !.released = TRUE], << >>)

\* Fault: the access record is rolled back with the rest.
RollbackOpAlways(q) == "rollback"

\* Fault: whatever was written is committed when a request is broken off.
RollbackOpCommits(q) == "access_commit"

\* How rollbackAndRelease ends the open transaction: a staff access record
\* that was issued outlives the request.
RollbackOp(q) ==
    IF q.phase = "bootstrap" /\ q.accessRecordIssued
    THEN "access_commit" ELSE "rollback"

\* finalizeRequest: whoever comes first decides the outcome.
Finalize(q, outcome) ==
    IF q.fin # "none" THEN Then(q, << >>)
    ELSE IF outcome = "commit" /\ q.phase = "route"
    THEN Then([q EXCEPT !.fin = "committing"], <<"final_commit">>)
    ELSE IF q.phase \in {"bootstrap", "route"}
    THEN Then([q EXCEPT !.fin = "rolling_back"], <<RollbackOp(q)>>)
    ELSE Release([q EXCEPT !.fin = "settled"])

\* The handler throws: onRequest's catch or the onError hook roll back.
Throw(q) == Finalize([q EXCEPT !.pc = "failing"], "rollback")

\* Fault: no fence between a request and a connection it gave back.
AlwaysLive(q) == TRUE

\* assertLive
Live(q) == q.fin = "none" /\ ~q.released

\* The handler issues statements through the fenced connection.
Issue(q, pc, ops) ==
    IF Live(q) THEN Then([q EXCEPT !.pc = pc], ops) ELSE Throw(q)

\* Fault: the phase is not set until the BEGIN has been answered.
PhaseAtBegin(q) == "none"

\* beginTenantTransaction: the phase is marked before BEGIN is sent.
PhaseOfRoute(q) == "route"

BeginTenantTransaction(q) ==
    IF Live(q)
    THEN Issue([q EXCEPT !.phase = PhaseOfRoute(q)],
               "begin_route", <<"begin_route">>)
    ELSE Throw(q)

\* Fault: the record and the route share one transaction.
SameTransaction(q) ==
    Issue([q EXCEPT !.phase = "route"], "begin_route", <<"begin_route">>)

AfterRecord(q) == Issue(q, "commit_bootstrap", <<"commit_bootstrap">>)

\* Fault: the scope of the bootstrap transaction is taken to last.
ScopeOnlyOnce(q, r) ==
    IF r \in Staff THEN Then([q EXCEPT !.pc = "handler"], << >>)
    ELSE Issue(q, "scope_route", <<"scope_route">>)

AfterBegin(q, r) == Issue(q, "scope_route", <<"scope_route">>)

\* A statement of the handler has been answered; "accepted" is what the code
\* makes of the rows it got.
Answered(q, r, op, accepted) ==
    CASE op = "begin_bootstrap" ->
            Issue(q, "authenticate", <<"authenticate">>)
      [] op = "authenticate" ->
            IF ~accepted THEN Throw(q)
            ELSE IF r \in Staff THEN Issue(q, "resolve", <<"resolve">>)
            ELSE Issue(q, "commit_bootstrap", <<"commit_bootstrap">>)
      [] op = "resolve" ->
            IF ~accepted THEN Throw(q)
            ELSE Issue([q EXCEPT !.accessRecordIssued = TRUE], "record",
                       <<"scope_bootstrap", "record">>)
      [] op = "record" -> AfterRecord(q)
      [] op = "commit_bootstrap" ->
            BeginTenantTransaction([q EXCEPT !.phase = "none",
                                             !.accessRecordIssued = FALSE])
      [] op = "begin_route" -> AfterBegin(q, r)
      [] op = "scope_route" ->
            IF r \in Staff THEN Then([q EXCEPT !.pc = "handler"], << >>)
            ELSE Issue(q, "membership", <<"membership">>)
      [] op = "membership" ->
            IF accepted THEN Then([q EXCEPT !.pc = "handler"], << >>)
            ELSE Throw(q)
      [] op = "work" -> Then([q EXCEPT !.pc = "handler"], << >>)
      [] OTHER -> Then(q, << >>)

\* Fault: a rollback that fails gives nothing back.
RollbackFailedAndKept(q) ==
    Then([q EXCEPT !.fin = "rejected", !.poisoned = TRUE], << >>)

RollbackFailed(q) ==
    Release([q EXCEPT !.fin = "rejected", !.poisoned = TRUE])

\* Fault: the rollback's success stands for the finalization's.
RollbackSettles(q) == "settled"

\* A rollback that a failed COMMIT led to still rejects.
AfterRollback(q) == IF q.fin = "committing" THEN "rejected" ELSE "settled"

\* A statement of the finalization has been answered.
Finalized(q, op, ok) ==
    CASE op = "final_commit" /\ ok ->
            Release([q EXCEPT !.phase = "committed", !.fin = "settled"])
      [] op = "final_commit" /\ ~ok ->
            Then([q EXCEPT !.poisoned = TRUE], <<"rollback">>)
      [] op # "final_commit" /\ ok ->
            Release([q EXCEPT
                !.phase = IF op = "rollback" THEN "rolled_back"
                                             ELSE "committed",
                !.fin = AfterRollback(q)])
      [] OTHER -> RollbackFailed(q)

\* The flow that waits for the statement goes on.  The handler's waits for
\* one at a time, and for two of them together when pc is "record"; it does
\* not hear of a statement it has stopped waiting for.
Continue(q, r, op, ok, accepted) ==
    IF op \in {"final_commit", "access_commit", "rollback"}
    THEN Finalized(q, op, ok)
    ELSE IF q.pc # (IF op = "scope_bootstrap" THEN "record" ELSE op)
    THEN Then(q, << >>)
    ELSE IF ~ok
    THEN Throw([q EXCEPT !.poisoned = @ \/ op \in TxControl])
    ELSE Answered(q, r, op, accepted)

\* The connection k after a request's step: what it issued is queued, or the
\* connection is given back, a poisoned one being replaced by the pool.
After(k, r, before, next) ==
    IF next.q.released /\ ~before.released
    THEN IF next.q.poisoned THEN FreshConnection ELSE [k EXCEPT !.holder = Pool]
    ELSE [k EXCEPT !.queue = @ \o
             [i \in DOMAIN next.issue |-> [op |-> next.issue[i], by |-> r]]]

Perform(r, next) ==
    /\ req' = [req EXCEPT ![r] = next.q]
    /\ conn' = [conn EXCEPT ![req[r].conn] = After(@, r, req[r], next)]

-----------------------------------------------------------------------------
\* The database

\* A connection after the server has executed a statement on it.
Executed(k, st, ok) ==
    LET rest == [k EXCEPT !.queue = Tail(@)]
    IN  CASE st.op \in Commits \cup {"rollback"} ->
                [rest EXCEPT !.tx = "I", !.scope = NoScope, !.pending = {}]
          [] ok /\ st.op \in Begins -> [rest EXCEPT !.tx = "T"]
          [] ~ok /\ st.op \notin TxControl ->
                [rest EXCEPT !.tx = IF @ = "T" THEN "E" ELSE @]
          [] ok /\ st.op \in ScopeSetters ->
                [rest EXCEPT !.scope = TenantOf[st.by]]
          [] ok /\ st.op = "record" ->
                [rest EXCEPT !.pending = @ \cup
                    {[kind |-> "access", by |-> st.by, n |-> 0,
                      scope |-> k.scope]}]
          [] ok /\ st.op = "work" ->
                [rest EXCEPT !.pending = @ \cup
                    {[kind |-> "work", by |-> st.by, n |-> req[st.by].work,
                      scope |-> k.scope]}]
          [] OTHER -> rest

\* COMMIT of a failed transaction is answered without an error, as a ROLLBACK;
\* COMMIT of a good one may fail, and then undoes it.
CanSucceed(k, op) == ~k.broken /\ (k.tx # "E" \/ op \in TxControl)
CanFail(k, op)    == k.broken \/ op \notin Begins \cup {"rollback"}

Serve(c) ==
    /\ conn[c].queue # << >>
    /\ \E ok, accepted \in BOOLEAN :
          LET st   == Head(conn[c].queue)
              k    == Executed(conn[c], st, ok)
              next == Continue(req[st.by], st.by, st.op, ok, accepted)
          IN  /\ IF ok THEN CanSucceed(conn[c], st.op)
                       ELSE CanFail(conn[c], st.op)
              /\ req' = [req EXCEPT ![st.by] = next.q]
              /\ conn' = [conn EXCEPT ![c] = After(k, st.by, req[st.by], next)]
              /\ durable' = IF ok /\ st.op \in Commits /\ conn[c].tx = "T"
                            THEN durable \cup conn[c].pending ELSE durable

\* The connection is lost: its transaction is undone, unless a COMMIT was on
\* its way and took effect.  The holder's listener notes the error.
ConnectionLost(c) ==
    /\ conn[c].holder # Pool
    /\ ~conn[c].broken
    /\ conn' = [conn EXCEPT ![c] = [@ EXCEPT !.broken = TRUE, !.tx = "I",
                                        !.scope = NoScope, !.pending = {}]]
    /\ req' = [req EXCEPT ![conn[c].holder].poisoned = TRUE]
    /\ \/ UNCHANGED durable
       \/ /\ conn[c].queue # << >>
          /\ Head(conn[c].queue).op \in Commits
          /\ conn[c].tx = "T"
          /\ durable' = durable \cup conn[c].pending

-----------------------------------------------------------------------------
\* The request

\* onRequest: the pool hands over a connection.  A client that has gone while
\* the request queued for it is noticed, and the connection handed back.
Connect(r, c) ==
    /\ req[r].pc = "waiting"
    /\ conn[c].holder = Pool
    /\ IF req[r].alive
       THEN /\ req' = [req EXCEPT ![r].pc = "begin_bootstrap",
                                  ![r].conn = c,
                                  ![r].phase = "bootstrap"]
            /\ conn' = [conn EXCEPT ![c].holder = r,
                   ![c].queue = Append(@, [op |-> "begin_bootstrap",
                                           by |-> r])]
       ELSE /\ req' = [req EXCEPT ![r].pc = "done", ![r].released = TRUE]
            /\ UNCHANGED conn
    /\ UNCHANGED durable

\* The route issues a statement through request.db.
RouteQuery(r) ==
    /\ req[r].pc = "handler"
    /\ req[r].work < MaxWork
    /\ Perform(r, Issue([req[r] EXCEPT !.work = @ + 1], "work", <<"work">>))
    /\ UNCHANGED durable

\* The route returns, and onSend finalizes with a commit.
RouteReturns(r) ==
    /\ req[r].pc = "handler"
    /\ Perform(r, Finalize([req[r] EXCEPT !.pc = "replying"], "commit"))
    /\ UNCHANGED durable

RouteThrows(r) ==
    /\ req[r].pc = "handler"
    /\ Perform(r, Throw(req[r]))
    /\ UNCHANGED durable

\* The finalization has settled and the response goes out: the payload, or an
\* error when the route threw or the finalization did.
Respond(r) ==
    /\ req[r].pc \in {"replying", "failing"}
    /\ req[r].fin \in {"settled", "rejected"}
    /\ req' = [req EXCEPT ![r].pc = "done", ![r].reply =
          IF ~req[r].alive THEN "none"
          ELSE IF req[r].pc = "replying" /\ req[r].fin = "settled"
          THEN "ok" ELSE "error"]
    /\ UNCHANGED <<conn, durable>>

\* The client goes away: the socket's close listener rolls back.
ClientGone(r) ==
    /\ req[r].alive
    /\ req[r].pc # "done"
    /\ IF req[r].pc = "waiting" \/ req[r].released
       THEN /\ req' = [req EXCEPT ![r].alive = FALSE]
            /\ UNCHANGED conn
       ELSE Perform(r, Finalize([req[r] EXCEPT !.alive = FALSE], "rollback"))
    /\ UNCHANGED durable

Next ==
    \/ \E c \in Connections : Serve(c) \/ ConnectionLost(c)
    \/ \E r \in Requests : \/ \E c \in Connections : Connect(r, c)
                           \/ RouteQuery(r)
                           \/ RouteReturns(r)
                           \/ RouteThrows(r)
                           \/ Respond(r)
                           \/ ClientGone(r)

Spec == Init /\ [][Next]_vars

\* Statements are answered, routes come to an end, and the pool serves its
\* waiters in turn.
Fairness ==
    /\ \A c \in Connections : WF_vars(Serve(c))
    /\ \A r \in Requests :
          /\ WF_vars(RouteReturns(r) \/ RouteThrows(r))
          /\ WF_vars(Respond(r))
          /\ SF_vars(\E c \in Connections : Connect(r, c))

FairSpec == Spec /\ Fairness

-----------------------------------------------------------------------------

Effects == [kind : {"access", "work"}, by : Requests, n : Nat,
            scope : Tenants \cup {NoScope}]

Statements ==
    [op : TxControl \cup ScopeSetters \cup
          {"authenticate", "resolve", "record", "membership", "work"},
     by : Requests]

TypeOK ==
    /\ conn \in [Connections ->
          [holder : Requests \cup {Pool}, tx : {"I", "T", "E"},
           scope : Tenants \cup {NoScope}, queue : Seq(Statements),
           pending : SUBSET Effects, broken : BOOLEAN]]
    /\ \A r \in Requests :
          /\ req[r].phase \in {"bootstrap", "route", "committed",
                               "rolled_back", "none"}
          /\ req[r].fin \in {"none", "committing", "rolling_back", "settled",
                             "rejected"}
          /\ req[r].conn \in Connections \cup {Pool}
    /\ durable \subseteq Effects

\* A connection carries statements of the request that holds it only: work a
\* handler resumes after its request was finalized never reaches the next
\* holder, and nothing is left behind on a connection that was given back.
OnlyTheHolderSpeaks ==
    \A c \in Connections : \A i \in DOMAIN conn[c].queue :
        conn[c].queue[i].by = conn[c].holder

\* A connection in the pool is clean: no open transaction and no tenant scope
\* for the next borrower to inherit.
PooledIsClean ==
    \A c \in Connections : conn[c].holder = Pool =>
        /\ conn[c].tx = "I"
        /\ conn[c].scope = NoScope
        /\ conn[c].pending = {}

\* Every effect, committed or not, was made under its own request's tenant.
WorkIsScoped ==
    \A e \in durable \cup UNION {conn[c].pending : c \in Connections} :
        e.scope = TenantOf[e.by]

\* A staff request runs its route only after its access record is durable.
AccessBeforeRoute ==
    \A e \in durable \cup UNION {conn[c].pending : c \in Connections} :
        e.kind = "work" /\ e.by \in Staff =>
            \E a \in durable : a.kind = "access" /\ a.by = e.by

\* A client that was told "ok" finds all the work of its request committed.
SuccessIsCommitted ==
    \A r \in Requests : req[r].reply = "ok" =>
        \A n \in 1..req[r].work :
            \E e \in durable : e.kind = "work" /\ e.by = r /\ e.n = n

\* An access record that was written is committed, whatever ends the request:
\* only a COMMIT or a connection that failed takes it away, and the request's
\* connection is then thrown away.
AccessRecordSurvives ==
    [][\A c \in Connections : \A e \in conn[c].pending :
          e.kind = "access" /\ e \notin conn'[c].pending =>
              e \in durable' \/ req'[e.by].poisoned]_vars

\* Seen from outside, a request is the single step of AtomicRequests: its work
\* is all there or not at all, once, behind the access record and before the
\* answer, whatever the client, the connection and the two flows do meanwhile.
Asked    == [r \in Requests |-> req[r].work]
Recorded == {r \in Requests :
                \E e \in durable : e.kind = "access" /\ e.by = r}
Done     == [r \in Requests |->
                {e.n : e \in {f \in durable : f.kind = "work" /\ f.by = r}}]
Told     == [r \in Requests |->
                IF req[r].pc = "done" /\ req[r].reply = "none" THEN "gone"
                                                             ELSE req[r].reply]

Atomic == INSTANCE AtomicRequests
    WITH asked <- Asked, recorded <- Recorded, done <- Done, told <- Told

ImplementsAtomic == Atomic!AtomicSpec

\* Every request comes to an end, and no connection is lost on the way: a
\* request that waits for one gets it after all those before it.
EveryRequestEnds ==
    \A r \in Requests : (req[r].pc = "waiting") ~> (req[r].pc = "done")
=============================================================================
