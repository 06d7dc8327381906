------------------------- MODULE LifecycleAdmission -------------------------
(***************************************************************************)
(* POST /lifecycle-events between two connection pools                     *)
(* (apps/api/src/routes/lifecycle-events.ts, apps/api/src/main.ts) and the *)
(* transaction helper (runTransaction of packages/db/src/pool.ts) that     *)
(* borrows from the second one.                                            *)
(*                                                                         *)
(* A request holds its connection of the request pool all along, and the   *)
(* ingestion it calls takes one connection of the lifecycle pool after the *)
(* other: one for each of two queries and of two transactions.  Both pools *)
(* are limited, and nobody gives up waiting.  What happens on the          *)
(* request's own connection is RequestLifecycle's; here it is held or not. *)
(***************************************************************************)
EXTENDS Naturals, Sequences, FiniteSets

CONSTANTS
    Requests,
    RequestConnections,     \* what the request pool holds at most
    LifecycleConnections,   \* what the lifecycle pool holds at most
    Idle                    \* the holder of an idle connection

ASSUME AdmissionAssumption == Idle \notin Requests

VARIABLES
    held,       \* who holds each connection of the request pool
    lconn,      \* the lifecycle connections: holder, transaction, broken
    req,        \* where each request stands
    durable     \* which transactions of which requests are committed

vars == <<held, lconn, req, durable>>

\* What runLifecycleIngestion does for one event: list the tenants, resolve
\* the workspace, record the event, write the ticket.
Plan     == <<"query", "query", "transaction", "transaction">>
Recorded == 3
Written  == 4

Busy == {"query", "begin", "statements", "commit", "rollback"}

Fresh == [holder |-> Idle, tx |-> "I", broken |-> FALSE]

Init ==
    /\ held = [c \in RequestConnections |-> Idle]
    /\ lconn = [c \in LifecycleConnections |-> Fresh]
    /\ req = [r \in Requests |->
          [pc |-> "waiting", unit |-> 1, unusable |-> FALSE, alive |-> TRUE,
           reply |-> "none"]]
    /\ durable = {}

-----------------------------------------------------------------------------

\* The request's own connection goes back, whoever finalizes the request.
GivesBack(r) ==
    held' = [c \in RequestConnections |-> IF held[c] = r THEN Idle ELSE held[c]]

\* A step of the ingestion is done: on to the next one, or back to the route.
NextUnit(q) ==
    IF q.unit = Len(Plan)
    THEN [q EXCEPT !.pc = "finishing", !.unusable = FALSE]
    ELSE [q EXCEPT !.unit = @ + 1, !.pc = "wanting", !.unusable = FALSE]

\* Fault: the error of a transaction is not thrown on.
ErrorSwallowed(q) == NextUnit(q)

\* A step has failed, and with it the ingestion and the route.
Throw(q) == [q EXCEPT !.pc = "throwing", !.unusable = FALSE]

\* Fault: the connection is kept for the next step.
KeptForNext(k, unusable) == k

\* Fault: release() without the error.
ReleasedAnyway(k, unusable) == [k EXCEPT !.holder = Idle]

\* client.release(unusable): the pool replaces a connection it gets with an
\* error by a new one.
Released(k, unusable) ==
    IF unusable THEN Fresh ELSE [k EXCEPT !.holder = Idle]

Moves(r, q) == req' = [req EXCEPT ![r] = q]

\* Request r goes on with state q and gives connection c, now k, back.
Releases(r, c, k, q, unusable) ==
    /\ lconn' = [lconn EXCEPT ![c] = Released(k, unusable)]
    /\ Moves(r, q)

At(r, c, label) == lconn[c].holder = r /\ req[r].pc = label

-----------------------------------------------------------------------------
\* The request

\* The request pool hands over a connection, unless the client has gone.
Admit(r) ==
    /\ req[r].pc = "waiting"
    /\ \E c \in RequestConnections :
          /\ held[c] = Idle
          /\ IF req[r].alive
             THEN /\ held' = [held EXCEPT ![c] = r]
                  /\ Moves(r, [req[r] EXCEPT !.pc = "wanting"])
             ELSE /\ Moves(r, [req[r] EXCEPT !.pc = "done"])
                  /\ UNCHANGED held
    /\ UNCHANGED <<lconn, durable>>

\* The key, the body or the ticket's id is not accepted; or, before any unit, the
\* pool.connect() of runTransaction or of pool.query rejects (pool.ts:37).
Refuse(r) ==
    /\ req[r].pc = "wanting"
    /\ Moves(r, Throw(req[r]))
    /\ UNCHANGED <<held, lconn, durable>>

\* The route reads the ticket again and returns it, and the request is
\* committed: on the request's connection, if it still has it.
Finish(r) ==
    /\ req[r].pc = "finishing"
    /\ \E reply \in {"ok", "error"} :
          Moves(r, [req[r] EXCEPT !.pc = "done", !.reply =
                        IF req[r].alive THEN reply ELSE "none"])
    /\ GivesBack(r)
    /\ UNCHANGED <<lconn, durable>>

Fail(r) ==
    /\ req[r].pc = "throwing"
    /\ Moves(r, [req[r] EXCEPT !.pc = "done", !.reply =
                    IF req[r].alive THEN "error" ELSE "none"])
    /\ GivesBack(r)
    /\ UNCHANGED <<lconn, durable>>

\* The client goes away: the request is rolled back and its connection given
\* back, but the ingestion runs on.
ClientGone(r) ==
    /\ req[r].alive
    /\ req[r].pc # "done"
    /\ Moves(r, [req[r] EXCEPT !.alive = FALSE])
    /\ GivesBack(r)
    /\ UNCHANGED <<lconn, durable>>

-----------------------------------------------------------------------------
\* The lifecycle pool

\* Fault: both pools are one, of the size of the request pool.
SharedConnectionFree(c) ==
    /\ lconn[c].holder = Idle
    /\ Cardinality({k \in RequestConnections : held[k] # Idle})
       + Cardinality({k \in LifecycleConnections : lconn[k].holder # Idle})
       < Cardinality(RequestConnections)

ConnectionFree(c) == lconn[c].holder = Idle

Acquire(r) ==
    /\ req[r].pc = "wanting"
    /\ \E c \in LifecycleConnections :
          /\ ConnectionFree(c)
          /\ lconn' = [lconn EXCEPT ![c].holder = r]
    /\ Moves(r, [req[r] EXCEPT !.pc = IF Plan[req[r].unit] = "query"
                                      THEN "query" ELSE "begin"])
    /\ UNCHANGED <<held, durable>>

\* pool.query: the pool releases the connection, with the error if there was
\* one.  The workspace may turn out not to exist.
Query(r, c) ==
    /\ At(r, c, "query")
    /\ \/ /\ ~lconn[c].broken
          /\ \E q \in {NextUnit(req[r]), Throw(req[r])} :
                Releases(r, c, lconn[c], q, FALSE)
       \/ Releases(r, c, lconn[c], Throw(req[r]), TRUE)
    /\ UNCHANGED <<held, durable>>

\* A statement of runTransaction's try is answered: the transaction has state
\* tx, and the code goes on at label.
Answered(r, c, tx, label) ==
    /\ lconn' = [lconn EXCEPT ![c].tx = tx]
    /\ Moves(r, [req[r] EXCEPT !.pc = label])
    /\ UNCHANGED <<held, durable>>

Begin(r, c) ==
    /\ At(r, c, "begin")
    /\ IF lconn[c].broken THEN Answered(r, c, "I", "rollback")
                          ELSE Answered(r, c, "T", "statements")

\* The tenant's scope and the callback; the callback may throw after an error
\* of the database or without one.
Statements(r, c) ==
    /\ At(r, c, "statements")
    /\ IF lconn[c].broken THEN Answered(r, c, "I", "rollback")
       ELSE \/ Answered(r, c, "T", "commit")
            \/ \E tx \in {"T", "E"} : Answered(r, c, tx, "rollback")

Commit(r, c) ==
    /\ At(r, c, "commit")
    /\ ~lconn[c].broken
    /\ durable' = durable \cup {<<r, req[r].unit>>}
    /\ Releases(r, c, [lconn[c] EXCEPT !.tx = "I"], NextUnit(req[r]),
                req[r].unusable)
    /\ UNCHANGED held

\* The COMMIT is refused, and so undone, or the connection is not there.
CommitFails(r, c) ==
    /\ At(r, c, "commit")
    /\ Answered(r, c, "I", "rollback")

\* catch and finally: a ROLLBACK that fails makes the connection unusable.
Rollback(r, c) ==
    /\ At(r, c, "rollback")
    /\ Releases(r, c, [lconn[c] EXCEPT !.tx = "I"], Throw(req[r]),
                req[r].unusable \/ lconn[c].broken)
    /\ UNCHANGED <<held, durable>>

\* A borrowed connection is lost: its transaction is undone, unless a COMMIT
\* was on its way and took effect.  The error listener notes it.
ConnectionLost(c) ==
    /\ lconn[c].holder # Idle
    /\ ~lconn[c].broken
    /\ lconn' = [lconn EXCEPT ![c].broken = TRUE, ![c].tx = "I"]
    /\ LET r == lconn[c].holder
       IN  /\ Moves(r, [req[r] EXCEPT !.unusable = TRUE])
           /\ \/ UNCHANGED durable
              \/ /\ req[r].pc = "commit"
                 /\ durable' = durable \cup {<<r, req[r].unit>>}
    /\ UNCHANGED held

-----------------------------------------------------------------------------

Uses(r, c) ==
    \/ Query(r, c) \/ Begin(r, c) \/ Statements(r, c)
    \/ Commit(r, c) \/ CommitFails(r, c) \/ Rollback(r, c)

Step(r) ==
    Finish(r) \/ Fail(r) \/ \E c \in LifecycleConnections : Uses(r, c)

Next ==
    \/ \E r \in Requests :
          Admit(r) \/ Refuse(r) \/ Acquire(r) \/ Step(r) \/ ClientGone(r)
    \/ \E c \in LifecycleConnections : ConnectionLost(c)

Spec == Init /\ [][Next]_vars

\* Statements are answered, and each pool serves its waiters in turn.
Fairness == \A r \in Requests :
    WF_vars(Step(r)) /\ SF_vars(Admit(r)) /\ SF_vars(Acquire(r))

FairSpec == Spec /\ Fairness

-----------------------------------------------------------------------------

TypeOK ==
    /\ held \in [RequestConnections -> Requests \cup {Idle}]
    /\ lconn \in [LifecycleConnections ->
          [holder : Requests \cup {Idle}, tx : {"I", "T", "E"},
           broken : BOOLEAN]]
    /\ req \in [Requests ->
          [pc : {"waiting", "wanting", "finishing", "throwing", "done"}
                \cup Busy,
           unit : 1..Len(Plan), unusable : BOOLEAN, alive : BOOLEAN,
           reply : {"none", "ok", "error"}]]
    /\ durable \subseteq Requests \X (1..Len(Plan))

\* A connection that is given back is neither broken nor in a transaction,
\* whatever statement failed and whenever the connection was lost.
IdleIsClean ==
    \A c \in LifecycleConnections : lconn[c].holder = Idle => lconn[c] = Fresh

\* Nobody waits with a lifecycle connection in hand: whoever has one has only
\* that one and is using it.  So the waits of the two pools form no cycle.
HoldersGoOn ==
    \A c \in LifecycleConnections : lconn[c].holder # Idle =>
        /\ req[lconn[c].holder].pc \in Busy
        /\ \A k \in LifecycleConnections :
              lconn[k].holder = lconn[c].holder => k = c

\* A client that was told "ok" has its event recorded and its ticket written.
SuccessIsApplied ==
    \A r \in Requests : req[r].reply = "ok" =>
        {<<r, Recorded>>, <<r, Written>>} \subseteq durable

\* All of this is one promise, that of IngestionCall: whichever statement
\* fails and whenever a connection is lost or a client leaves, the two
\* transactions take effect once and in order, nothing follows a failure, and
\* the answer comes after all effects.
Stage == [r \in Requests |->
    IF req[r].pc = "finishing" THEN "answer"
    ELSE IF \/ req[r].pc \in {"throwing", "done"}
            \/ <<r, req[r].unit>> \in durable
         THEN "over"
    ELSE IF req[r].unit <= Recorded THEN "record" ELSE "write"]

Told == [r \in Requests |-> IF req[r].alive THEN req[r].reply ELSE "gone"]

Call == INSTANCE IngestionCall
    WITH stage <- Stage, told <- Told,
         recorded <- {r \in Requests : <<r, Recorded>> \in durable},
         written <- {r \in Requests : <<r, Written>> \in durable}

ImplementsCall == Call!CallSpec

\* Every request comes to an end, although it holds a connection of one pool
\* while it waits for one of the other, and all of them may do so at once.
EveryRequestEnds ==
    \A r \in Requests : (req[r].pc = "waiting") ~> (req[r].pc = "done")
=============================================================================
