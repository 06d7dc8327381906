---------------------- MODULE LifecycleAdmissionProofs ----------------------
(***************************************************************************)
(* Theorems about LifecycleAdmission, for any requests and pools of any    *)
(* size.                                                                   *)
(*                                                                         *)
(* Beside the properties themselves the invariant says that a query runs   *)
(* outside a transaction (QueriesAreBare) and which steps of the ingestion *)
(* are behind a request (Progressed).                                      *)
(*                                                                         *)
(* The last part proves that IngestionCall is implemented, with the        *)
(* invariant that what a request has before it has not taken effect        *)
(* (CallInv).                                                              *)
(***************************************************************************)
EXTENDS LifecycleAdmission, TLAPS

QueriesAreBare ==
    \A c \in LifecycleConnections :
        lconn[c].holder # Idle /\ req[lconn[c].holder].pc = "query" =>
            lconn[c].tx = "I"

ProgressOf(r, q, committed) ==
    /\ q.pc = "query" => q.unit \in {1, 2}
    /\ q.pc \in {"begin", "statements", "commit"} => q.unit \in {3, 4}
    /\ q.unit = 4 => <<r, 3>> \in committed
    /\ q.pc = "finishing" \/ q.reply = "ok" =>
          <<r, 3>> \in committed /\ <<r, 4>> \in committed

Progressed == \A r \in Requests : ProgressOf(r, req[r], durable)

Inv ==
    /\ TypeOK
    /\ IdleIsClean
    /\ HoldersGoOn
    /\ QueriesAreBare
    /\ Progressed

LEMMA PlanIs ==
    /\ Len(Plan) = 4
    /\ Plan[1] = "query" /\ Plan[2] = "query"
    /\ Plan[3] = "transaction" /\ Plan[4] = "transaction"
BY DEF Plan

-----------------------------------------------------------------------------
\* The pieces that actions are made of.

LinesTyped == [holder : Requests \cup {Idle}, tx : {"I", "T", "E"},
               broken : BOOLEAN]

StatesTyped ==
    [pc : {"waiting", "wanting", "finishing", "throwing", "done"} \cup Busy,
     unit : 1..Len(Plan), unusable : BOOLEAN, alive : BOOLEAN,
     reply : {"none", "ok", "error"}]

\* Where a step of the ingestion leads to: another step, the route or an
\* error, in none of which a lifecycle connection is held.
LEMMA NextUnitTyped ==
    ASSUME NEW q \in StatesTyped
    PROVE  /\ NextUnit(q) \in StatesTyped
           /\ Throw(q) \in StatesTyped
           /\ NextUnit(q).pc \notin Busy
           /\ Throw(q).pc \notin Busy
<1>1. q.unit \in 1..4
  BY PlanIs DEF StatesTyped
<1>2. Throw(q) \in StatesTyped /\ Throw(q).pc \notin Busy
  BY DEF StatesTyped, Throw, Busy
<1>3. CASE q.unit = 4
  <2>1. NextUnit(q) = [q EXCEPT !.pc = "finishing", !.unusable = FALSE]
    BY <1>3, PlanIs DEF NextUnit
  <2> QED
    BY <1>2, <2>1 DEF StatesTyped, Busy
<1>4. CASE q.unit # 4
  <2>1. NextUnit(q)
        = [q EXCEPT !.unit = @ + 1, !.pc = "wanting", !.unusable = FALSE]
    BY <1>4, PlanIs DEF NextUnit
  <2>2. q.unit + 1 \in 1..Len(Plan)
    BY <1>1, <1>4, PlanIs
  <2> QED
    BY <1>2, <2>1, <2>2 DEF StatesTyped, Busy
<1> QED
  BY <1>3, <1>4

LEMMA NextUnitProgresses ==
    ASSUME NEW r \in Requests, NEW q \in StatesTyped, NEW S, NEW T,
           S \subseteq T, ProgressOf(r, q, S)
    PROVE  /\ q.unit \in {3, 4} /\ <<r, q.unit>> \in T =>
                  ProgressOf(r, NextUnit(q), T)
           /\ q.unit \in {1, 2} => ProgressOf(r, NextUnit(q), T)
           /\ ProgressOf(r, Throw(q), T)
           /\ ProgressOf(r, q, T)
BY PlanIs DEF StatesTyped, NextUnit, Throw, ProgressOf, Busy

\* A request moves on, and the connections stay as they are.
LEMMA RequestMoves ==
    ASSUME Inv, NEW r \in Requests, NEW q \in StatesTyped, Moves(r, q),
           req[r].pc \notin Busy, q.pc \notin Busy,
           held' \in [RequestConnections -> Requests \cup {Idle}],
           UNCHANGED <<lconn, durable>>, ProgressOf(r, q, durable)
    PROVE  Inv'
<1>1. req' = [req EXCEPT ![r] = q]
  BY DEF Moves
<1>2. TypeOK'
  BY <1>1 DEF Inv, TypeOK, StatesTyped
<1>3. ASSUME NEW c \in LifecycleConnections, lconn[c].holder # Idle
      PROVE  req'[lconn[c].holder] = req[lconn[c].holder]
  BY <1>1, <1>3 DEF Inv, HoldersGoOn, TypeOK
<1>4. IdleIsClean' /\ HoldersGoOn' /\ QueriesAreBare'
  BY <1>3 DEF Inv, IdleIsClean, HoldersGoOn, QueriesAreBare
<1>5. Progressed'
  BY <1>1 DEF Inv, Progressed, TypeOK
<1> QED
  BY <1>2, <1>4, <1>5 DEF Inv

LEMMA HoldsOne ==
    ASSUME Inv, NEW r \in Requests, NEW c \in LifecycleConnections,
           lconn[c].holder = r
    PROVE  /\ req[r].pc \in Busy
           /\ \A d \in LifecycleConnections : d # c => lconn[d].holder # r
BY AdmissionAssumption DEF Inv, HoldersGoOn, TypeOK

\* Request r works on connection c, its only one.
LEMMA RequestKeeps ==
    ASSUME Inv, NEW r \in Requests, NEW c \in LifecycleConnections,
           NEW q \in StatesTyped, NEW k \in LinesTyped,
           \A d \in LifecycleConnections : d # c => lconn[d].holder # r,
           k.holder = r, q.pc \in Busy,
           req' = [req EXCEPT ![r] = q], lconn' = [lconn EXCEPT ![c] = k],
           q.pc = "query" => k.tx = "I",
           held' = held, durable' \subseteq Requests \X (1..Len(Plan)),
           durable \subseteq durable', ProgressOf(r, q, durable')
    PROVE  Inv'
<1>1. TypeOK'
  <2>1. lconn' \in [LifecycleConnections -> LinesTyped]
    BY DEF Inv, TypeOK, LinesTyped
  <2>2. req' \in [Requests -> StatesTyped]
    BY DEF Inv, TypeOK, StatesTyped
  <2>3. held' \in [RequestConnections -> Requests \cup {Idle}]
    BY DEF Inv, TypeOK
  <2> QED
    BY <2>1, <2>2, <2>3, Zenon DEF TypeOK, StatesTyped, LinesTyped
<1>2. \A d \in LifecycleConnections : d # c => lconn'[d] = lconn[d]
  BY DEF Inv, TypeOK
<1>3. lconn'[c] = k /\ req'[r] = q
  BY DEF Inv, TypeOK
<1>4. \A s \in Requests : s # r => req'[s] = req[s]
  BY DEF Inv, TypeOK
<1>5. \A d \in LifecycleConnections : lconn[d].holder \in Requests \cup {Idle}
  BY DEF Inv, TypeOK
<1>6. IdleIsClean'
  BY <1>2, <1>3, AdmissionAssumption DEF Inv, IdleIsClean
<1>7. HoldersGoOn'
  BY <1>2, <1>3, <1>4, <1>5 DEF Inv, HoldersGoOn
<1>8. QueriesAreBare'
  BY <1>2, <1>3, <1>4, <1>5 DEF Inv, QueriesAreBare
<1>9. Progressed'
  <2>1. ASSUME NEW s \in Requests, s # r
        PROVE  ProgressOf(s, req[s], durable)'
    BY <2>1, <1>4 DEF Inv, Progressed, ProgressOf
  <2> QED
    BY <2>1, <1>3 DEF Progressed
<1> QED
  BY <1>1, <1>6, <1>7, <1>8, <1>9 DEF Inv

\* Request r gives connection c back, clean or to be replaced.
LEMMA RequestReleases ==
    ASSUME Inv, NEW r \in Requests, NEW c \in LifecycleConnections,
           NEW q \in StatesTyped, NEW k \in LinesTyped,
           NEW unusable \in BOOLEAN,
           lconn[c].holder = r, q.pc \notin Busy,
           ~unusable => k.tx = "I" /\ ~k.broken,
           Releases(r, c, k, q, unusable),
           held' = held, durable' \subseteq Requests \X (1..Len(Plan)),
           durable \subseteq durable', ProgressOf(r, q, durable')
    PROVE  Inv'
<1>1. req' = [req EXCEPT ![r] = q] /\ lconn' = [lconn EXCEPT ![c] = Fresh]
  <2>1. Released(k, unusable) = Fresh
    BY DEF Released, Fresh, LinesTyped
  <2> QED
    BY <2>1 DEF Releases, Moves
<1>2. TypeOK'
  <2>1. Fresh \in LinesTyped
    BY DEF Fresh, LinesTyped
  <2>2. lconn' \in [LifecycleConnections -> LinesTyped]
    BY <1>1, <2>1 DEF Inv, TypeOK, LinesTyped
  <2>3. req' \in [Requests -> StatesTyped]
    BY <1>1 DEF Inv, TypeOK, StatesTyped
  <2>4. held' \in [RequestConnections -> Requests \cup {Idle}]
    BY DEF Inv, TypeOK
  <2> QED
    BY <2>2, <2>3, <2>4, Zenon DEF TypeOK, StatesTyped, LinesTyped
<1>3. \A d \in LifecycleConnections : d # c => lconn'[d] = lconn[d]
  BY <1>1 DEF Inv, TypeOK
<1>4. lconn'[c] = Fresh /\ req'[r] = q
  BY <1>1 DEF Inv, TypeOK
<1>5. \A d \in LifecycleConnections : d # c => lconn[d].holder # r
  BY HoldsOne
<1>6. \A s \in Requests : s # r => req'[s] = req[s]
  BY <1>1 DEF Inv, TypeOK
<1>7. \A d \in LifecycleConnections : lconn[d].holder \in Requests \cup {Idle}
  BY DEF Inv, TypeOK
<1>8. IdleIsClean'
  BY <1>3, <1>4 DEF Inv, IdleIsClean, Fresh
<1>9. HoldersGoOn'
  BY <1>3, <1>4, <1>5, <1>6, <1>7 DEF Inv, HoldersGoOn, Fresh
<1>10. QueriesAreBare'
  BY <1>3, <1>4, <1>5, <1>6, <1>7 DEF Inv, QueriesAreBare, Fresh
<1>11. Progressed'
  <2>1. ASSUME NEW s \in Requests, s # r
        PROVE  ProgressOf(s, req[s], durable)'
    BY <2>1, <1>6 DEF Inv, Progressed, ProgressOf
  <2> QED
    BY <2>1, <1>4 DEF Progressed
<1> QED
  BY <1>2, <1>8, <1>9, <1>10, <1>11 DEF Inv

-----------------------------------------------------------------------------
\* The actions.

LEMMA StateOf ==
    ASSUME Inv, NEW r \in Requests
    PROVE  req[r] \in StatesTyped /\ ProgressOf(r, req[r], durable)
BY DEF Inv, TypeOK, StatesTyped, Progressed

LEMMA LineOf ==
    ASSUME Inv, NEW c \in LifecycleConnections
    PROVE  /\ lconn[c] \in LinesTyped
           /\ \A tx \in {"I", "T", "E"} :
                 [lconn[c] EXCEPT !.tx = tx] \in LinesTyped
<1>1. lconn[c] \in LinesTyped
  BY DEF Inv, TypeOK, LinesTyped
<1> QED
  BY <1>1 DEF LinesTyped

LEMMA GivesBackTyped ==
    ASSUME Inv, NEW r \in Requests, GivesBack(r)
    PROVE  held' \in [RequestConnections -> Requests \cup {Idle}]
BY DEF Inv, TypeOK, GivesBack

LEMMA AdmitInv == ASSUME Inv, NEW r \in Requests, Admit(r) PROVE Inv'
<1>1. PICK c \in RequestConnections :
        IF req[r].alive
        THEN /\ held' = [held EXCEPT ![c] = r]
             /\ Moves(r, [req[r] EXCEPT !.pc = "wanting"])
        ELSE /\ Moves(r, [req[r] EXCEPT !.pc = "done"])
             /\ UNCHANGED held
  BY DEF Admit
<1>2. held' \in [RequestConnections -> Requests \cup {Idle}]
  BY <1>1 DEF Inv, TypeOK
<1>3. PICK pc \in {"wanting", "done"} : Moves(r, [req[r] EXCEPT !.pc = pc])
  BY <1>1
<1> DEFINE q == [req[r] EXCEPT !.pc = pc]
<1>4. q \in StatesTyped /\ q.pc \notin Busy /\ req[r].pc \notin Busy
  BY StateOf DEF StatesTyped, Busy, Admit
<1>5. ProgressOf(r, q, durable)
  BY StateOf DEF StatesTyped, ProgressOf
<1> HIDE DEF q
<1>6. Moves(r, q)
  BY <1>3 DEF q
<1>7. UNCHANGED <<lconn, durable>>
  BY DEF Admit
<1> QED
  BY <1>2, <1>4, <1>5, <1>6, <1>7, RequestMoves

LEMMA RefuseInv == ASSUME Inv, NEW r \in Requests, Refuse(r) PROVE Inv'
<1>1. /\ Throw(req[r]) \in StatesTyped /\ Throw(req[r]).pc \notin Busy
      /\ ProgressOf(r, Throw(req[r]), durable)
  BY StateOf, NextUnitTyped, NextUnitProgresses
<1>2. req[r].pc \notin Busy
  BY DEF Refuse, Busy
<1>3. held' \in [RequestConnections -> Requests \cup {Idle}]
  BY DEF Refuse, Inv, TypeOK
<1> QED
  BY <1>1, <1>2, <1>3, RequestMoves DEF Refuse

LEMMA FinishInv == ASSUME Inv, NEW r \in Requests, Finish(r) PROVE Inv'
<1>1. PICK reply \in {"ok", "error", "none"} :
        Moves(r, [req[r] EXCEPT !.pc = "done", !.reply = reply])
  BY DEF Finish
<1> DEFINE q == [req[r] EXCEPT !.pc = "done", !.reply = reply]
<1>2. q \in StatesTyped /\ q.pc \notin Busy /\ req[r].pc \notin Busy
  BY StateOf DEF StatesTyped, Busy, Finish
<1>3. ProgressOf(r, q, durable)
  BY StateOf DEF StatesTyped, ProgressOf, Finish
<1>4. held' \in [RequestConnections -> Requests \cup {Idle}]
  BY GivesBackTyped DEF Finish
<1> HIDE DEF q
<1>5. Moves(r, q)
  BY <1>1 DEF q
<1> QED
  BY <1>2, <1>3, <1>4, <1>5, RequestMoves DEF Finish

LEMMA FailInv == ASSUME Inv, NEW r \in Requests, Fail(r) PROVE Inv'
<1>1. PICK reply \in {"none", "error"} :
        Moves(r, [req[r] EXCEPT !.pc = "done", !.reply = reply])
  BY DEF Fail
<1> DEFINE q == [req[r] EXCEPT !.pc = "done", !.reply = reply]
<1>2. q \in StatesTyped /\ q.pc \notin Busy /\ req[r].pc \notin Busy
  BY StateOf DEF StatesTyped, Busy, Fail
<1>3. ProgressOf(r, q, durable)
  BY StateOf DEF StatesTyped, ProgressOf
<1>4. held' \in [RequestConnections -> Requests \cup {Idle}]
  BY GivesBackTyped DEF Fail
<1> HIDE DEF q
<1>5. Moves(r, q)
  BY <1>1 DEF q
<1> QED
  BY <1>2, <1>3, <1>4, <1>5, RequestMoves DEF Fail

\* The request stays where it is, connection and all.
LEMMA ClientGoneInv == ASSUME Inv, NEW r \in Requests, ClientGone(r) PROVE Inv'
<1> DEFINE q == [req[r] EXCEPT !.alive = FALSE]
<1>1. q \in StatesTyped /\ q.pc = req[r].pc
  BY StateOf DEF StatesTyped
<1>2. ProgressOf(r, q, durable)
  BY StateOf DEF StatesTyped, ProgressOf
<1> HIDE DEF q
<1>3. /\ req' = [req EXCEPT ![r] = q] /\ UNCHANGED <<lconn, durable>>
      /\ held' \in [RequestConnections -> Requests \cup {Idle}]
  BY GivesBackTyped DEF q, ClientGone, Moves
<1>4. TypeOK'
  BY <1>1, <1>3 DEF Inv, TypeOK, StatesTyped
<1>5. \A s \in Requests : req'[s].pc = req[s].pc
  BY <1>1, <1>3 DEF Inv, TypeOK
<1>6. \A c \in LifecycleConnections : lconn[c].holder \in Requests \cup {Idle}
  BY DEF Inv, TypeOK
<1>7. IdleIsClean' /\ HoldersGoOn' /\ QueriesAreBare'
  BY <1>3, <1>5, <1>6
     DEF Inv, IdleIsClean, HoldersGoOn, QueriesAreBare
<1>8. Progressed'
  BY <1>2, <1>3 DEF Inv, Progressed, TypeOK
<1> QED
  BY <1>4, <1>7, <1>8 DEF Inv

LEMMA AcquireInv == ASSUME Inv, NEW r \in Requests, Acquire(r) PROVE Inv'
<1>1. PICK c \in LifecycleConnections :
        lconn[c].holder = Idle /\ lconn' = [lconn EXCEPT ![c].holder = r]
  BY DEF Acquire, ConnectionFree
<1> DEFINE pc == IF Plan[req[r].unit] = "query" THEN "query" ELSE "begin"
           q == [req[r] EXCEPT !.pc = pc]
           k == [lconn[c] EXCEPT !.holder = r]
<1>2. pc \in {"query", "begin"} /\ (pc = "query" <=> req[r].unit \in {1, 2})
  BY StateOf, PlanIs DEF StatesTyped
<1> HIDE DEF pc
<1>3. q \in StatesTyped /\ q.pc \in Busy /\ req[r].pc \notin Busy
  BY <1>2, StateOf DEF StatesTyped, Busy, Acquire
<1>4. ProgressOf(r, q, durable)
  BY <1>2, StateOf, PlanIs DEF StatesTyped, ProgressOf, Acquire
<1>5. k \in LinesTyped /\ k.holder = r /\ k.tx = "I"
  BY <1>1 DEF Inv, TypeOK, IdleIsClean, LinesTyped, Fresh
<1>6. \A d \in LifecycleConnections : d # c => lconn[d].holder # r
  BY <1>3, HoldsOne
<1>7. /\ req' = [req EXCEPT ![r] = q] /\ UNCHANGED <<held, durable>>
      /\ lconn' = [lconn EXCEPT ![c] = k]
  BY <1>1 DEF Acquire, Moves, pc
<1>8. durable' \subseteq Requests \X (1..Len(Plan)) /\ durable \subseteq durable'
  BY <1>7 DEF Inv, TypeOK
<1> HIDE DEF q, k
<1> QED
  BY <1>3, <1>4, <1>5, <1>6, <1>7, <1>8, RequestKeeps

\* A statement is answered and the transaction goes on.
LEMMA AnsweredInv ==
    ASSUME Inv, NEW r \in Requests, NEW c \in LifecycleConnections,
           lconn[c].holder = r, req[r].pc \in {"begin", "statements", "commit"},
           NEW tx \in {"I", "T", "E"},
           NEW label \in {"statements", "commit", "rollback"},
           Answered(r, c, tx, label)
    PROVE  Inv'
<1> DEFINE q == [req[r] EXCEPT !.pc = label]
           k == [lconn[c] EXCEPT !.tx = tx]
<1>1. q \in StatesTyped /\ q.pc \in Busy /\ q.pc # "query"
  BY StateOf DEF StatesTyped, Busy
<1>2. ProgressOf(r, q, durable)
  BY StateOf DEF StatesTyped, ProgressOf
<1>3. k \in LinesTyped /\ k.holder = r
  BY LineOf DEF LinesTyped
<1>4. \A d \in LifecycleConnections : d # c => lconn[d].holder # r
  BY HoldsOne
<1>5. /\ req' = [req EXCEPT ![r] = q] /\ UNCHANGED <<held, durable>>
      /\ lconn' = [lconn EXCEPT ![c] = k]
  BY DEF Answered, Moves
<1>6. durable' \subseteq Requests \X (1..Len(Plan)) /\ durable \subseteq durable'
  BY <1>5 DEF Inv, TypeOK
<1> HIDE DEF q, k
<1> QED
  BY <1>1, <1>2, <1>3, <1>4, <1>5, <1>6, RequestKeeps

LEMMA TransactionInv ==
    ASSUME Inv, NEW r \in Requests, NEW c \in LifecycleConnections,
           Begin(r, c) \/ Statements(r, c) \/ CommitFails(r, c)
    PROVE  Inv'
<1>1. /\ lconn[c].holder = r
      /\ req[r].pc \in {"begin", "statements", "commit"}
  BY DEF Begin, Statements, CommitFails, At
<1>2. \E tx \in {"I", "T", "E"}, label \in {"statements", "commit", "rollback"} :
        Answered(r, c, tx, label)
  BY DEF Begin, Statements, CommitFails
<1> QED
  BY <1>1, <1>2, AnsweredInv

LEMMA QueryInv ==
    ASSUME Inv, NEW r \in Requests, NEW c \in LifecycleConnections, Query(r, c)
    PROVE  Inv'
<1>1. lconn[c].holder = r /\ req[r].pc = "query"
  BY DEF Query, At
<1>2. lconn[c].tx = "I" /\ lconn[c] \in LinesTyped
  BY <1>1, LineOf, AdmissionAssumption DEF Inv, QueriesAreBare
<1>3. req[r].unit \in {1, 2}
  BY <1>1, StateOf DEF ProgressOf
<1>4. PICK q \in {NextUnit(req[r]), Throw(req[r])}, unusable \in BOOLEAN :
        /\ Releases(r, c, lconn[c], q, unusable)
        /\ ~unusable => ~lconn[c].broken
  BY DEF Query
<1>5. q \in StatesTyped /\ q.pc \notin Busy /\ ProgressOf(r, q, durable)
  BY <1>3, StateOf, NextUnitTyped, NextUnitProgresses
<1>6. /\ UNCHANGED <<held, durable>>
      /\ durable' \subseteq Requests \X (1..Len(Plan)) /\ durable \subseteq durable'
  BY DEF Query, Inv, TypeOK
<1> QED
  BY <1>1, <1>2, <1>4, <1>5, <1>6, RequestReleases

LEMMA CommitInv ==
    ASSUME Inv, NEW r \in Requests, NEW c \in LifecycleConnections, Commit(r, c)
    PROVE  Inv'
<1> DEFINE k == [lconn[c] EXCEPT !.tx = "I"]
           q == NextUnit(req[r])
<1>1. lconn[c].holder = r /\ req[r].pc = "commit" /\ ~lconn[c].broken
  BY DEF Commit, At
<1>2. k \in LinesTyped /\ k.tx = "I" /\ ~k.broken
  BY <1>1, LineOf DEF LinesTyped
<1>3. req[r].unit \in {3, 4} /\ req[r].unusable \in BOOLEAN
  BY <1>1, StateOf DEF ProgressOf, StatesTyped
<1>4. durable' = durable \cup {<<r, req[r].unit>>} /\ held' = held
  BY DEF Commit
<1>5. durable' \subseteq Requests \X (1..Len(Plan)) /\ durable \subseteq durable'
  BY <1>3, <1>4, PlanIs DEF Inv, TypeOK
<1>6. q \in StatesTyped /\ q.pc \notin Busy
  BY StateOf, NextUnitTyped
<1>7. ProgressOf(r, q, durable')
  BY <1>3, <1>4, <1>5, StateOf, NextUnitProgresses
<1>8. Releases(r, c, k, q, req[r].unusable)
  BY DEF Commit
<1> HIDE DEF k, q
<1> QED
  BY <1>1, <1>2, <1>3, <1>4, <1>5, <1>6, <1>7, <1>8, RequestReleases

LEMMA RollbackInv ==
    ASSUME Inv, NEW r \in Requests, NEW c \in LifecycleConnections,
           Rollback(r, c)
    PROVE  Inv'
<1> DEFINE k == [lconn[c] EXCEPT !.tx = "I"]
           q == Throw(req[r])
           unusable == req[r].unusable \/ lconn[c].broken
<1>1. lconn[c].holder = r
  BY DEF Rollback, At
<1>2. k \in LinesTyped /\ k.tx = "I" /\ (~unusable => ~k.broken)
  BY LineOf DEF LinesTyped
<1>3. unusable \in BOOLEAN
  BY StateOf, LineOf DEF StatesTyped, LinesTyped
<1>4. /\ UNCHANGED <<held, durable>>
      /\ durable' \subseteq Requests \X (1..Len(Plan)) /\ durable \subseteq durable'
  BY DEF Rollback, Inv, TypeOK
<1>5. q \in StatesTyped /\ q.pc \notin Busy /\ ProgressOf(r, q, durable')
  BY <1>4, StateOf, NextUnitTyped, NextUnitProgresses
<1>6. Releases(r, c, k, q, unusable)
  BY DEF Rollback
<1> HIDE DEF k, q, unusable
<1> QED
  BY <1>1, <1>2, <1>3, <1>4, <1>5, <1>6, RequestReleases

LEMMA ConnectionLostInv ==
    ASSUME Inv, NEW c \in LifecycleConnections, ConnectionLost(c)
    PROVE  Inv'
<1> DEFINE r == lconn[c].holder
           q == [req[r] EXCEPT !.unusable = TRUE]
           k == [lconn[c] EXCEPT !.broken = TRUE, !.tx = "I"]
<1>1. r \in Requests
  BY DEF ConnectionLost, Inv, TypeOK
<1>2. req[r].pc \in Busy /\ \A d \in LifecycleConnections :
                               d # c => lconn[d].holder # r
  BY <1>1, HoldsOne
<1>3. q \in StatesTyped /\ q.pc \in Busy
  BY <1>1, <1>2, StateOf DEF StatesTyped
<1>4. k \in LinesTyped /\ k.holder = r /\ k.tx = "I"
  BY LineOf DEF LinesTyped
<1>5. /\ req' = [req EXCEPT ![r] = q] /\ held' = held
      /\ lconn' = [lconn EXCEPT ![c] = k]
  BY DEF ConnectionLost, Moves
<1>6. durable' = durable \/ durable' = durable \cup {<<r, req[r].unit>>}
  BY DEF ConnectionLost
<1>7. req[r] \in StatesTyped /\ ProgressOf(r, req[r], durable)
  BY <1>1, StateOf
<1>8. durable' \subseteq Requests \X (1..Len(Plan)) /\ durable \subseteq durable'
  BY <1>1, <1>6, <1>7 DEF Inv, TypeOK, StatesTyped
<1>9. ProgressOf(r, q, durable')
  BY <1>7, <1>8 DEF ProgressOf, StatesTyped
<1> HIDE DEF q, k, r
<1> QED
  BY <1>1, <1>2, <1>3, <1>4, <1>5, <1>8, <1>9, RequestKeeps

-----------------------------------------------------------------------------

LEMMA InitInv == ASSUME Init PROVE Inv
<1>1. TypeOK
  BY PlanIs DEF Init, TypeOK, Fresh
<1>2. IdleIsClean /\ HoldersGoOn /\ QueriesAreBare
  BY DEF Init, IdleIsClean, HoldersGoOn, QueriesAreBare, Fresh
<1>3. Progressed
  BY DEF Init, Progressed, ProgressOf
<1> QED
  BY <1>1, <1>2, <1>3 DEF Inv

LEMMA StutterInv == ASSUME Inv, UNCHANGED vars PROVE Inv'
BY DEF Inv, TypeOK, IdleIsClean, HoldersGoOn, QueriesAreBare, Progressed, vars

LEMMA NextInv == ASSUME Inv, Next PROVE Inv'
<1>1. ASSUME NEW r \in Requests,
             Admit(r) \/ Refuse(r) \/ Acquire(r) \/ Finish(r) \/ Fail(r)
             \/ ClientGone(r)
      PROVE  Inv'
  BY <1>1, AdmitInv, RefuseInv, AcquireInv, FinishInv, FailInv, ClientGoneInv
<1>2. ASSUME NEW r \in Requests, NEW c \in LifecycleConnections, Uses(r, c)
      PROVE  Inv'
  BY <1>2, QueryInv, TransactionInv, CommitInv, RollbackInv DEF Uses
<1>3. ASSUME NEW c \in LifecycleConnections, ConnectionLost(c)
      PROVE  Inv'
  BY <1>3, ConnectionLostInv
<1> QED
  BY <1>1, <1>2, <1>3 DEF Next, Step

LEMMA SpecInv == Spec => []Inv
<1>1. Inv /\ [Next]_vars => Inv'
  BY NextInv, StutterInv
<1> QED
  BY <1>1, InitInv, PTL DEF Spec

-----------------------------------------------------------------------------

\* Every reachable state is well typed, for any number of requests and
\* connections.
THEOREM TypeCorrect == Spec => []TypeOK
<1>1. Inv => TypeOK
  BY DEF Inv
<1> QED
  BY <1>1, SpecInv, PTL

\* runTransaction and the pool give back no connection that is broken or in
\* a transaction, whichever of its statements failed.
THEOREM BorrowedComesBackClean == Spec => []IdleIsClean
<1>1. Inv => IdleIsClean
  BY DEF Inv
<1> QED
  BY <1>1, SpecInv, PTL

\* A request waits for a lifecycle connection with no other one in hand, so
\* that no number of waiting requests can block each other.
THEOREM NoWaitInHand == Spec => []HoldersGoOn
<1>1. Inv => HoldersGoOn
  BY DEF Inv
<1> QED
  BY <1>1, SpecInv, PTL

\* An answer of success means that both transactions of the event are
\* committed.
THEOREM SuccessMeansApplied == Spec => []SuccessIsApplied
<1>1. Inv => SuccessIsApplied
  BY DEF Inv, Progressed, ProgressOf, SuccessIsApplied, Recorded, Written
<1> QED
  BY <1>1, SpecInv, PTL

-----------------------------------------------------------------------------
\* The refinement of IngestionCall.

\* What is still ahead of a request has not taken effect.
Ahead(r, q, D) ==
    /\ \A u \in 1..4 : u > q.unit => <<r, u>> \notin D
    /\ q.pc \in {"waiting", "wanting", "query", "begin", "statements"} =>
          <<r, q.unit>> \notin D
    /\ q.reply # "none" => q.pc = "done"

\* Nor has a COMMIT, unless its connection is gone.
CommitOpen(r, q, k, D) ==
    k.holder = r /\ q.pc = "commit" /\ ~k.broken => <<r, q.unit>> \notin D

CallInv ==
    /\ \A r \in Requests : Ahead(r, req[r], durable)
    /\ \A r \in Requests, c \in LifecycleConnections :
          CommitOpen(r, req[r], lconn[c], durable)

StageOf(r, q, D) ==
    IF q.pc = "finishing" THEN "answer"
    ELSE IF q.pc \in {"throwing", "done"} \/ <<r, q.unit>> \in D THEN "over"
    ELSE IF q.unit <= 3 THEN "record" ELSE "write"

ToldOf(q) == IF q.alive THEN q.reply ELSE "gone"

\* A step of r, as IngestionCall sees it.
SameStage(r, q, D, q2, D2) == StageOf(r, q2, D2) = StageOf(r, q, D)
SameUnit(r, u, D, D2) == <<r, u>> \in D2 <=> <<r, u>> \in D
SameTold(q, q2) == ToldOf(q2) = ToldOf(q)

Recording(r, q, D, q2, D2) ==
    /\ StageOf(r, q, D) = "record"
    /\ <<r, 3>> \in D2
    /\ StageOf(r, q2, D2) \in {"write", "over"}
    /\ SameUnit(r, 4, D, D2) /\ SameTold(q, q2)

Writing(r, q, D, q2, D2) ==
    /\ StageOf(r, q, D) = "write"
    /\ <<r, 3>> \in D /\ <<r, 4>> \in D2
    /\ StageOf(r, q2, D2) \in {"answer", "over"}
    /\ SameUnit(r, 3, D, D2) /\ SameTold(q, q2)

GivingUp(r, q, D, q2, D2) ==
    /\ StageOf(r, q2, D2) = "over"
    /\ SameUnit(r, 3, D, D2) /\ SameUnit(r, 4, D, D2) /\ SameTold(q, q2)

Answering(r, q, D, q2, D2) ==
    /\ StageOf(r, q, D) \in {"answer", "over"} /\ StageOf(r, q2, D2) = "over"
    /\ ToldOf(q) = "none" /\ ToldOf(q2) \in {"ok", "error"}
    /\ ToldOf(q2) = "ok" => /\ StageOf(r, q, D) = "answer"
                            /\ <<r, 3>> \in D /\ <<r, 4>> \in D
    /\ SameUnit(r, 3, D, D2) /\ SameUnit(r, 4, D, D2)

Leaving(r, q, D, q2, D2) ==
    /\ ToldOf(q) = "none" /\ ToldOf(q2) = "gone"
    /\ SameStage(r, q, D, q2, D2)
    /\ SameUnit(r, 3, D, D2) /\ SameUnit(r, 4, D, D2)

Unseen(r, q, D, q2, D2) ==
    /\ SameStage(r, q, D, q2, D2) /\ SameTold(q, q2)
    /\ SameUnit(r, 3, D, D2) /\ SameUnit(r, 4, D, D2)

Seen(r, q, D, q2, D2) ==
    \/ Unseen(r, q, D, q2, D2) \/ Recording(r, q, D, q2, D2)
    \/ Writing(r, q, D, q2, D2) \/ GivingUp(r, q, D, q2, D2)
    \/ Answering(r, q, D, q2, D2) \/ Leaving(r, q, D, q2, D2)

\* Only request r and what it has made durable change.
OnlyOf(r, q2) ==
    /\ req' = [req EXCEPT ![r] = q2]
    /\ \A s \in Requests, u \in 1..4 :
          s # r => (<<s, u>> \in durable' <=> <<s, u>> \in durable)
    /\ durable \subseteq durable'

LEMMA CallKept ==
    ASSUME Inv, CallInv, NEW r \in Requests, NEW q2 \in StatesTyped,
           OnlyOf(r, q2), Ahead(r, q2, durable'),
           \A d \in LifecycleConnections :
              /\ lconn'[d].holder # r => \/ lconn'[d] = lconn[d]
                                         \/ lconn'[d].holder = Idle
              /\ CommitOpen(r, q2, lconn'[d], durable')
    PROVE  CallInv'
<1>1. req'[r] = q2 /\ \A s \in Requests : s # r => req'[s] = req[s]
  BY DEF OnlyOf, Inv, TypeOK
<1>2. \A s \in Requests : req[s].unit \in 1..4
  BY PlanIs DEF Inv, TypeOK
<1>3. ASSUME NEW s \in Requests PROVE Ahead(s, req'[s], durable')
  <2>1. CASE s = r
    BY <1>1, <2>1
  <2>2. CASE s # r
    BY <1>1, <1>2, <2>2 DEF CallInv, Ahead, OnlyOf
  <2> QED BY <2>1, <2>2
<1>4. ASSUME NEW s \in Requests, NEW d \in LifecycleConnections
      PROVE  CommitOpen(s, req'[s], lconn'[d], durable')
  <2>1. CASE s = r
    BY <1>1, <2>1
  <2>2. CASE s # r /\ lconn'[d].holder # s
    BY <2>2 DEF CommitOpen
  <2>3. CASE s # r /\ lconn'[d].holder = s
    <3>1. lconn'[d] = lconn[d]
      BY <2>3, AdmissionAssumption
    <3>2. CommitOpen(s, req[s], lconn[d], durable)
      BY DEF CallInv
    <3> QED BY <1>1, <1>2, <2>3, <3>1, <3>2 DEF CommitOpen, OnlyOf
  <2> QED BY <2>1, <2>2, <2>3
<1> QED BY <1>3, <1>4 DEF CallInv

LEMMA CallSeen ==
    ASSUME Inv, NEW r \in Requests, NEW q2 \in StatesTyped, OnlyOf(r, q2),
           Seen(r, req[r], durable, q2, durable')
    PROVE  [Call!CallNext]_(Call!callVars)
<1> DEFINE q == req[r]
           D == durable
           D2 == durable'
           RecordedOf(E) == {o \in Requests : <<o, 3>> \in E}
           WrittenOf(E) == {o \in Requests : <<o, 4>> \in E}
<1>1. req'[r] = q2 /\ \A s \in Requests : s # r => req'[s] = req[s]
  BY DEF OnlyOf, Inv, TypeOK
<1>2. \A s \in Requests : req[s].unit \in 1..4
  BY PlanIs DEF Inv, TypeOK
<1>3. /\ Stage = [o \in Requests |-> StageOf(o, req[o], durable)]
      /\ Stage' = [o \in Requests |-> StageOf(o, req'[o], durable')]
      /\ Told = [o \in Requests |-> ToldOf(req[o])]
      /\ Told' = [o \in Requests |-> ToldOf(req'[o])]
  BY DEF Stage, StageOf, Told, ToldOf, Recorded
<1>4. \A s \in Requests : s # r =>
          StageOf(s, req'[s], durable') = StageOf(s, req[s], durable)
  BY <1>1, <1>2 DEF StageOf, OnlyOf
<1>5. /\ Stage' = [Stage EXCEPT ![r] = StageOf(r, q2, D2)]
      /\ Told' = [Told EXCEPT ![r] = ToldOf(q2)]
  <2>1. Stage' = [Stage EXCEPT ![r] = StageOf(r, q2, D2)]
    BY <1>1, <1>3, <1>4
  <2>2. Told' = [Told EXCEPT ![r] = ToldOf(q2)]
    BY <1>1, <1>3
  <2> QED BY <2>1, <2>2
<1>6. Stage[r] = StageOf(r, q, D) /\ Told[r] = ToldOf(q)
  BY <1>3
<1>7. SameStage(r, q, D, q2, D2) => Stage' = Stage
  BY <1>3, <1>5, <1>6 DEF SameStage
<1>8. SameTold(q, q2) => Told' = Told
  BY <1>3, <1>5, <1>6 DEF SameTold
<1>9. /\ RecordedOf(D2) = IF <<r, 3>> \in D2 THEN RecordedOf(D) \cup {r}
                                             ELSE RecordedOf(D)
      /\ WrittenOf(D2) = IF <<r, 4>> \in D2 THEN WrittenOf(D) \cup {r}
                                            ELSE WrittenOf(D)
  <2>1. /\ \A s \in Requests : s # r => (<<s, 3>> \in D2 <=> <<s, 3>> \in D)
        /\ \A s \in Requests : s # r => (<<s, 4>> \in D2 <=> <<s, 4>> \in D)
        /\ D \subseteq D2
    <3>1. 3 \in 1..4 /\ 4 \in 1..4
      OBVIOUS
    <3> QED BY <3>1, Zenon DEF OnlyOf
  <2>2. RecordedOf(D2) = IF <<r, 3>> \in D2 THEN RecordedOf(D) \cup {r}
                                            ELSE RecordedOf(D)
    BY <2>1
  <2>3. WrittenOf(D2) = IF <<r, 4>> \in D2 THEN WrittenOf(D) \cup {r}
                                           ELSE WrittenOf(D)
    BY <2>1
  <2> QED BY <2>2, <2>3
<1>10. /\ r \in RecordedOf(D) <=> <<r, 3>> \in D
       /\ r \in WrittenOf(D) <=> <<r, 4>> \in D
  OBVIOUS
<1>11. /\ SameUnit(r, 3, D, D2) => RecordedOf(D2) = RecordedOf(D)
       /\ SameUnit(r, 4, D, D2) => WrittenOf(D2) = WrittenOf(D)
  BY <1>9, <1>10 DEF SameUnit
<1> USE DEF Recorded, Written
<1>12. CASE Unseen(r, q, D, q2, D2)
  BY <1>7, <1>8, <1>11, <1>12 DEF Unseen, Call!callVars
<1>13. CASE Recording(r, q, D, q2, D2)
  <2>1. Call!Record(r)
    BY <1>5, <1>6, <1>8, <1>9, <1>11, <1>13 DEF Recording, Call!Record
  <2> QED BY <2>1 DEF Call!CallNext
<1>14. CASE Writing(r, q, D, q2, D2)
  <2>1. Call!Write(r)
    BY <1>5, <1>6, <1>8, <1>9, <1>10, <1>11, <1>14 DEF Writing, Call!Write
  <2> QED BY <2>1 DEF Call!CallNext
<1>15. CASE GivingUp(r, q, D, q2, D2)
  <2>1. CASE StageOf(r, q, D) = "over"
    <3>1. Unseen(r, q, D, q2, D2)
      BY <1>15, <2>1 DEF GivingUp, Unseen, SameStage
    <3> QED BY <1>12, <3>1
  <2>2. CASE StageOf(r, q, D) # "over"
    <3>1. Call!GiveUp(r)
      BY <1>5, <1>6, <1>8, <1>11, <1>15, <2>2 DEF GivingUp, Call!GiveUp
    <3> QED BY <3>1 DEF Call!CallNext
  <2> QED BY <2>1, <2>2
<1>16. CASE Answering(r, q, D, q2, D2)
  <2>1. CASE ToldOf(q2) = "ok"
    <3>1. Call!Succeed(r)
      BY <1>5, <1>6, <1>10, <1>11, <1>16, <2>1 DEF Answering, Call!Succeed
    <3> QED BY <3>1 DEF Call!CallNext
  <2>2. CASE ToldOf(q2) = "error"
    <3>1. Call!Fail(r)
      BY <1>5, <1>6, <1>11, <1>16, <2>2 DEF Answering, Call!Fail
    <3> QED BY <3>1 DEF Call!CallNext
  <2> QED BY <1>16, <2>1, <2>2 DEF Answering
<1>17. CASE Leaving(r, q, D, q2, D2)
  <2>1. Call!Leave(r)
    BY <1>5, <1>6, <1>7, <1>11, <1>17 DEF Leaving, Call!Leave
  <2> QED BY <2>1 DEF Call!CallNext
<1> QED BY <1>12, <1>13, <1>14, <1>15, <1>16, <1>17 DEF Seen

-----------------------------------------------------------------------------
\* Each step keeps CallInv, and is a step of IngestionCall or none.
CallGoesOn == CallInv' /\ [Call!CallNext]_(Call!callVars)

\* A request moves on, and no connection changes.
LEMMA AloneCall ==
    ASSUME Inv, CallInv, NEW r \in Requests, NEW q2 \in StatesTyped,
           Moves(r, q2), UNCHANGED <<lconn, durable>>, Ahead(r, q2, durable),
           q2.pc = "commit" => q2.pc = req[r].pc /\ q2.unit = req[r].unit,
           Seen(r, req[r], durable, q2, durable)
    PROVE  CallGoesOn
<1>1. OnlyOf(r, q2) /\ durable' = durable
  BY DEF OnlyOf, Moves
<1>2. ASSUME NEW d \in LifecycleConnections
      PROVE  lconn'[d] = lconn[d] /\ CommitOpen(r, q2, lconn'[d], durable')
  <2>1. lconn'[d] = lconn[d]
    OBVIOUS
  <2>2. CommitOpen(r, req[r], lconn[d], durable)
    BY DEF CallInv
  <2> QED BY <1>1, <2>1, <2>2 DEF CommitOpen
<1>3. Ahead(r, q2, durable') /\ Seen(r, req[r], durable, q2, durable')
  BY <1>1
<1> QED BY <1>1, <1>2, <1>3, CallKept, CallSeen DEF CallGoesOn

\* A request moves on with its connection, which it keeps or gives back.
LEMMA HeldCall ==
    ASSUME Inv, CallInv, NEW r \in Requests, NEW q2 \in StatesTyped,
           NEW c \in LifecycleConnections, NEW k, lconn[c].holder = r,
           lconn' = [lconn EXCEPT ![c] = k], k.holder \in {r, Idle},
           OnlyOf(r, q2), Ahead(r, q2, durable'),
           CommitOpen(r, q2, k, durable'),
           Seen(r, req[r], durable, q2, durable')
    PROVE  CallGoesOn
<1>1. lconn'[c] = k
      /\ \A d \in LifecycleConnections :
            d # c => lconn'[d] = lconn[d] /\ lconn[d].holder # r
  BY HoldsOne DEF Inv, TypeOK
<1>2. ASSUME NEW d \in LifecycleConnections
      PROVE  /\ lconn'[d].holder # r => \/ lconn'[d] = lconn[d]
                                        \/ lconn'[d].holder = Idle
             /\ CommitOpen(r, q2, lconn'[d], durable')
  BY <1>1 DEF CommitOpen
<1> QED BY <1>2, CallKept, CallSeen DEF CallGoesOn

\* The states of a request and of what it has before it.
LEMMA CallStateOf ==
    ASSUME Inv, CallInv, NEW r \in Requests
    PROVE  /\ req[r] \in StatesTyped
           /\ req[r].unit \in 1..4
           /\ ProgressOf(r, req[r], durable)
           /\ Ahead(r, req[r], durable)
BY StateOf, PlanIs DEF CallInv, StatesTyped

\* A request that throws has given up.
LEMMA ThrowGivesUp ==
    ASSUME NEW r \in Requests, NEW q \in StatesTyped, NEW D, Ahead(r, q, D),
           q.pc # "done"
    PROVE  /\ Ahead(r, Throw(q), D)
           /\ Seen(r, q, D, Throw(q), D)
           /\ Throw(q).pc = "throwing"
<1>1. /\ Throw(q).pc = "throwing" /\ Throw(q).unit = q.unit
      /\ Throw(q).reply = q.reply /\ Throw(q).alive = q.alive
  BY DEF StatesTyped, Throw
<1>2. Ahead(r, Throw(q), D)
  BY <1>1 DEF Ahead
<1>3. GivingUp(r, q, D, Throw(q), D)
  BY <1>1 DEF GivingUp, StageOf, SameUnit, SameTold, ToldOf
<1> QED BY <1>1, <1>2, <1>3 DEF Seen

LEMMA AdmitCall ==
    ASSUME Inv, CallInv, NEW r \in Requests, Admit(r) PROVE CallGoesOn
<1>1. PICK pc \in {"wanting", "done"} :
        /\ Moves(r, [req[r] EXCEPT !.pc = pc])
        /\ pc = "done" => ~req[r].alive
  BY DEF Admit
<1> DEFINE q == req[r]
           q2 == [q EXCEPT !.pc = pc]
<1>2. /\ q \in StatesTyped /\ Ahead(r, q, durable) /\ q.pc = "waiting"
      /\ UNCHANGED <<lconn, durable>>
  BY CallStateOf DEF Admit
<1>3. /\ q2 \in StatesTyped /\ q2.pc = pc /\ q2.unit = q.unit
      /\ q2.reply = q.reply /\ q2.alive = q.alive
  BY <1>2 DEF StatesTyped
<1> HIDE DEF q2
<1>4. Ahead(r, q2, durable)
  BY <1>2, <1>3 DEF Ahead
<1>5. Seen(r, q, durable, q2, durable)
  <2>1. CASE pc = "wanting"
    BY <1>2, <1>3, <2>1
       DEF Seen, Unseen, SameStage, StageOf, SameUnit, SameTold, ToldOf
  <2>2. CASE pc = "done"
    BY <1>2, <1>3, <2>2
       DEF Seen, GivingUp, StageOf, SameUnit, SameTold, ToldOf
  <2> QED BY <2>1, <2>2
<1>6. Moves(r, q2)
  BY <1>1 DEF q2
<1> QED BY <1>2, <1>3, <1>4, <1>5, <1>6, AloneCall

LEMMA RefuseCall ==
    ASSUME Inv, CallInv, NEW r \in Requests, Refuse(r) PROVE CallGoesOn
<1>1. /\ req[r] \in StatesTyped /\ Ahead(r, req[r], durable)
      /\ req[r].pc = "wanting" /\ UNCHANGED <<lconn, durable>>
      /\ Moves(r, Throw(req[r]))
  BY CallStateOf DEF Refuse
<1>2. Throw(req[r]) \in StatesTyped
  BY <1>1, NextUnitTyped
<1> QED BY <1>1, <1>2, ThrowGivesUp, AloneCall

\* The answer is given, if there is somebody to hear it.
LEMMA AnswerCall ==
    ASSUME Inv, CallInv, NEW r \in Requests, Finish(r) \/ Fail(r)
    PROVE  CallGoesOn
<1> DEFINE q == req[r]
<1>1. PICK reply \in {"ok", "error", "none"} :
        /\ Moves(r, [q EXCEPT !.pc = "done", !.reply = reply])
        /\ reply = "none" <=> ~q.alive
        /\ reply = "ok" => q.pc = "finishing"
  BY CallStateOf DEF Finish, Fail, StatesTyped
<1> DEFINE q2 == [q EXCEPT !.pc = "done", !.reply = reply]
<1>2. /\ q \in StatesTyped /\ Ahead(r, q, durable)
      /\ ProgressOf(r, q, durable) /\ q.pc \in {"finishing", "throwing"}
      /\ UNCHANGED <<lconn, durable>>
  BY CallStateOf DEF Finish, Fail
<1>3. /\ q2 \in StatesTyped /\ q2.pc = "done" /\ q2.unit = q.unit
      /\ q2.reply = reply /\ q2.alive = q.alive
  BY <1>2 DEF StatesTyped
<1> HIDE DEF q2
<1>4. Ahead(r, q2, durable)
  BY <1>2, <1>3 DEF Ahead
<1>5. Seen(r, q, durable, q2, durable)
  <2>1. CASE reply = "none"
    BY <1>1, <1>2, <1>3, <2>1
       DEF Seen, GivingUp, StageOf, SameUnit, SameTold, ToldOf
  <2>2. CASE reply # "none"
    <3>1. q.alive /\ q.reply = "none"
      BY <1>1, <1>2, <2>2 DEF Ahead
    <3>2. /\ StageOf(r, q, durable) =
                IF q.pc = "finishing" THEN "answer" ELSE "over"
          /\ StageOf(r, q2, durable) = "over"
      BY <1>2, <1>3 DEF StageOf
    <3>3. q.pc = "finishing" => <<r, 3>> \in durable /\ <<r, 4>> \in durable
      BY <1>2 DEF ProgressOf
    <3>4. Answering(r, q, durable, q2, durable)
      BY <1>1, <1>2, <1>3, <2>2, <3>1, <3>2, <3>3
         DEF Answering, SameUnit, ToldOf
    <3> QED BY <3>4 DEF Seen
  <2> QED BY <2>1, <2>2
<1>6. Moves(r, q2)
  BY <1>1 DEF q2
<1> QED BY <1>2, <1>3, <1>4, <1>5, <1>6, AloneCall

LEMMA ClientGoneCall ==
    ASSUME Inv, CallInv, NEW r \in Requests, ClientGone(r) PROVE CallGoesOn
<1> DEFINE q == req[r]
           q2 == [q EXCEPT !.alive = FALSE]
<1>1. /\ q \in StatesTyped /\ Ahead(r, q, durable) /\ q.pc # "done"
      /\ q.alive /\ Moves(r, q2) /\ UNCHANGED <<lconn, durable>>
  BY CallStateOf DEF ClientGone
<1>2. /\ q2 \in StatesTyped /\ q2.pc = q.pc /\ q2.unit = q.unit
      /\ q2.reply = q.reply /\ ~q2.alive
  BY <1>1 DEF StatesTyped
<1> HIDE DEF q2
<1>3. Ahead(r, q2, durable)
  BY <1>1, <1>2 DEF Ahead
<1>4. Leaving(r, q, durable, q2, durable)
  BY <1>1, <1>2 DEF Ahead, Leaving, SameStage, StageOf, SameUnit, ToldOf
<1>5. Seen(r, q, durable, q2, durable)
  BY <1>4 DEF Seen
<1> QED BY <1>1, <1>2, <1>3, <1>5, AloneCall

LEMMA AcquireCall ==
    ASSUME Inv, CallInv, NEW r \in Requests, Acquire(r) PROVE CallGoesOn
<1>1. PICK c \in LifecycleConnections :
        lconn[c].holder = Idle /\ lconn' = [lconn EXCEPT ![c].holder = r]
  BY DEF Acquire, ConnectionFree
<1> DEFINE q == req[r]
           pc == IF Plan[q.unit] = "query" THEN "query" ELSE "begin"
           q2 == [q EXCEPT !.pc = pc]
<1>2. /\ q \in StatesTyped /\ Ahead(r, q, durable) /\ q.pc = "wanting"
      /\ Moves(r, q2) /\ durable' = durable
  BY CallStateOf DEF Acquire
<1>3. pc \in {"query", "begin"}
  OBVIOUS
<1> HIDE DEF pc
<1>4. /\ q2 \in StatesTyped /\ q2.pc = pc /\ q2.unit = q.unit
      /\ q2.reply = q.reply /\ q2.alive = q.alive
  BY <1>2, <1>3 DEF StatesTyped, Busy
<1> HIDE DEF q2
<1>5. Ahead(r, q2, durable')
  BY <1>2, <1>3, <1>4 DEF Ahead
<1>6. Seen(r, q, durable, q2, durable')
  BY <1>2, <1>3, <1>4
     DEF Seen, Unseen, SameStage, StageOf, SameUnit, SameTold, ToldOf
<1>7. OnlyOf(r, q2)
  BY <1>2 DEF OnlyOf, Moves
<1>8. ASSUME NEW d \in LifecycleConnections
      PROVE  /\ lconn'[d].holder # r => \/ lconn'[d] = lconn[d]
                                        \/ lconn'[d].holder = Idle
             /\ CommitOpen(r, q2, lconn'[d], durable')
  <2>1. CommitOpen(r, q2, lconn'[d], durable')
    BY <1>3, <1>4 DEF CommitOpen
  <2>2. CASE d = c
    <3>1. lconn'[d].holder = r
      BY <1>1, <2>2 DEF Inv, TypeOK
    <3> QED BY <2>1, <3>1
  <2>3. CASE d # c
    <3>1. lconn'[d] = lconn[d]
      BY <1>1, <2>3 DEF Inv, TypeOK
    <3> QED BY <2>1, <3>1
  <2> QED BY <2>2, <2>3
<1> QED BY <1>4, <1>5, <1>6, <1>7, <1>8, CallKept, CallSeen DEF CallGoesOn

\* A request that has given back its connection.
LEMMA ReleasesCall ==
    ASSUME Inv, CallInv, NEW r \in Requests, NEW c \in LifecycleConnections,
           NEW q2 \in StatesTyped, NEW k, NEW unusable \in BOOLEAN,
           lconn[c].holder = r, k \in LinesTyped,
           Releases(r, c, k, q2, unusable), q2.pc # "commit",
           durable' = durable \/ durable' = durable \cup {<<r, req[r].unit>>},
           Ahead(r, q2, durable'), Seen(r, req[r], durable, q2, durable')
    PROVE  CallGoesOn
<1>1. Released(k, unusable).holder = Idle
  BY DEF Released, Fresh, LinesTyped
<1>2. /\ lconn' = [lconn EXCEPT ![c] = Released(k, unusable)]
      /\ req' = [req EXCEPT ![r] = q2]
  BY DEF Releases, Moves
<1>3. OnlyOf(r, q2)
  BY <1>2 DEF OnlyOf
<1>4. CommitOpen(r, q2, Released(k, unusable), durable')
  BY DEF CommitOpen
<1> QED BY <1>1, <1>2, <1>3, <1>4, HeldCall

\* The step of the ingestion that follows another one.
LEMMA NextUnitIs ==
    ASSUME NEW q \in StatesTyped
    PROVE  /\ NextUnit(q) \in StatesTyped
           /\ NextUnit(q).reply = q.reply /\ NextUnit(q).alive = q.alive
           /\ q.unit = 4 => /\ NextUnit(q).pc = "finishing"
                            /\ NextUnit(q).unit = q.unit
           /\ q.unit # 4 => /\ NextUnit(q).pc = "wanting"
                            /\ NextUnit(q).unit = q.unit + 1
<1>1. NextUnit(q) \in StatesTyped
  BY NextUnitTyped
<1>2. CASE q.unit = 4
  <2>1. NextUnit(q) = [q EXCEPT !.pc = "finishing", !.unusable = FALSE]
    BY <1>2, PlanIs DEF NextUnit
  <2> QED BY <1>1, <1>2, <2>1 DEF StatesTyped
<1>3. CASE q.unit # 4
  <2>1. NextUnit(q)
        = [q EXCEPT !.unit = @ + 1, !.pc = "wanting", !.unusable = FALSE]
    BY <1>3, PlanIs DEF NextUnit
  <2> QED BY <1>1, <1>3, <2>1 DEF StatesTyped
<1> QED BY <1>2, <1>3

LEMMA QueryCall ==
    ASSUME Inv, CallInv, NEW r \in Requests, NEW c \in LifecycleConnections,
           Query(r, c)
    PROVE  CallGoesOn
<1> DEFINE q == req[r]
<1>1. PICK q2 \in {NextUnit(q), Throw(q)}, unusable \in BOOLEAN :
        Releases(r, c, lconn[c], q2, unusable)
  BY DEF Query
<1>2. /\ q \in StatesTyped /\ Ahead(r, q, durable) /\ q.pc = "query"
      /\ q.unit \in {1, 2} /\ lconn[c].holder = r /\ durable' = durable
      /\ lconn[c] \in LinesTyped
  BY CallStateOf, LineOf DEF ProgressOf, Query, At
<1>3. CASE q2 = Throw(q)
  BY <1>1, <1>2, <1>3, ThrowGivesUp, NextUnitTyped, ReleasesCall
<1>4. CASE q2 = NextUnit(q)
  <2>1. /\ q2 \in StatesTyped /\ q2.pc = "wanting" /\ q2.unit = q.unit + 1
        /\ q2.reply = q.reply /\ q2.alive = q.alive
    BY <1>2, <1>4, NextUnitIs
  <2>2. /\ \A u \in 1..4 : u > q.unit => <<r, u>> \notin durable
        /\ <<r, q.unit>> \notin durable /\ q.reply = "none"
    BY <1>2 DEF Ahead
  <2>3. <<r, q2.unit>> \notin durable
    BY <1>2, <2>1, <2>2
  <2>4. Ahead(r, q2, durable')
    BY <1>2, <2>1, <2>2, <2>3 DEF Ahead
  <2>5. /\ StageOf(r, q, durable) = "record"
        /\ StageOf(r, q2, durable) = "record"
    BY <1>2, <2>1, <2>2, <2>3 DEF StageOf
  <2>6. Unseen(r, q, durable, q2, durable')
    BY <1>2, <2>1, <2>5 DEF Unseen, SameStage, SameUnit, SameTold, ToldOf
  <2>7. Seen(r, q, durable, q2, durable') /\ q2.pc # "commit"
    BY <2>1, <2>6 DEF Seen
  <2> QED BY <1>1, <1>2, <2>1, <2>4, <2>7, ReleasesCall
<1> QED BY <1>3, <1>4

\* A statement is answered: nothing of it is seen.
LEMMA AnsweredCall ==
    ASSUME Inv, CallInv, NEW r \in Requests, NEW c \in LifecycleConnections,
           lconn[c].holder = r, NEW tx \in {"I", "T", "E"},
           NEW label \in {"statements", "commit", "rollback"},
           Answered(r, c, tx, label),
           req[r].pc \in {"begin", "statements", "commit"},
           label # "rollback" => req[r].pc # "commit"
    PROVE  CallGoesOn
<1> DEFINE q == req[r]
           q2 == [q EXCEPT !.pc = label]
           k == [lconn[c] EXCEPT !.tx = tx]
<1>1. /\ q \in StatesTyped /\ Ahead(r, q, durable)
      /\ lconn[c] \in LinesTyped
  BY CallStateOf, LineOf
<1>2. /\ q2 \in StatesTyped /\ q2.pc = label /\ q2.unit = q.unit
      /\ q2.reply = q.reply /\ q2.alive = q.alive
  BY <1>1 DEF StatesTyped, Busy
<1>3. k.holder = r
  BY <1>1 DEF LinesTyped
<1>4. /\ req' = [req EXCEPT ![r] = q2] /\ durable' = durable
      /\ lconn' = [lconn EXCEPT ![c] = k]
  BY DEF Answered, Moves
<1> HIDE DEF q2, k
<1>5. label # "rollback" => <<r, q.unit>> \notin durable
  BY <1>1 DEF Ahead
<1>6. Ahead(r, q2, durable')
  BY <1>1, <1>2, <1>4, <1>5 DEF Ahead
<1>7. CommitOpen(r, q2, k, durable')
  BY <1>2, <1>4, <1>5 DEF CommitOpen
<1>8. Seen(r, q, durable, q2, durable')
  BY <1>2, <1>4
     DEF Seen, Unseen, SameStage, StageOf, SameUnit, SameTold, ToldOf
<1>9. OnlyOf(r, q2)
  BY <1>4 DEF OnlyOf
<1> QED BY <1>2, <1>3, <1>4, <1>6, <1>7, <1>8, <1>9, HeldCall

LEMMA TransactionCall ==
    ASSUME Inv, CallInv, NEW r \in Requests, NEW c \in LifecycleConnections,
           Begin(r, c) \/ Statements(r, c) \/ CommitFails(r, c)
    PROVE  CallGoesOn
<1>1. /\ lconn[c].holder = r
      /\ req[r].pc \in {"begin", "statements", "commit"}
  BY DEF Begin, Statements, CommitFails, At
<1>2. \E tx \in {"I", "T", "E"}, label \in {"statements", "commit", "rollback"} :
        /\ Answered(r, c, tx, label)
        /\ label # "rollback" => req[r].pc # "commit"
  BY DEF Begin, Statements, CommitFails, At
<1> QED BY <1>1, <1>2, AnsweredCall

\* A transaction of which the COMMIT takes effect, whatever r then hears.
LEMMA TakesEffect ==
    ASSUME NEW r \in Requests, NEW q \in StatesTyped, NEW q2 \in StatesTyped,
           NEW D, NEW D2, Ahead(r, q, D), ProgressOf(r, q, D),
           q.pc = "commit", <<r, q.unit>> \notin D,
           D2 = D \cup {<<r, q.unit>>},
           q2.reply = q.reply, q2.alive = q.alive,
           \/ q2.pc = "commit" /\ q2.unit = q.unit
           \/ q.unit = 3 /\ q2.pc = "wanting" /\ q2.unit = 4
           \/ q.unit = 4 /\ q2.pc = "finishing" /\ q2.unit = 4
    PROVE  Ahead(r, q2, D2) /\ Seen(r, q, D, q2, D2)
<1>1. q.unit \in {3, 4} /\ q.reply = "none"
  BY DEF ProgressOf, Ahead
<1>2. SameTold(q, q2)
  BY DEF SameTold, ToldOf
<1>3. CASE q.unit = 3
  <2>1. <<r, 3>> \in D2 /\ <<r, 4>> \notin D2 /\ <<r, 4>> \notin D
    BY <1>3 DEF Ahead
  <2>2. Ahead(r, q2, D2)
    BY <1>1, <1>3, <2>1 DEF Ahead
  <2>3. StageOf(r, q, D) = "record" /\ StageOf(r, q2, D2) \in {"write", "over"}
    BY <1>3, <2>1 DEF StageOf
  <2>4. Recording(r, q, D, q2, D2)
    BY <1>2, <2>1, <2>3 DEF Recording, SameUnit
  <2> QED BY <2>2, <2>4 DEF Seen
<1>4. CASE q.unit = 4
  <2>1. <<r, 3>> \in D /\ <<r, 3>> \in D2 /\ <<r, 4>> \in D2
    BY <1>4 DEF ProgressOf
  <2>2. Ahead(r, q2, D2)
    BY <1>1, <1>4 DEF Ahead
  <2>3. StageOf(r, q, D) = "write" /\ StageOf(r, q2, D2) \in {"answer", "over"}
    BY <1>4, <2>1 DEF StageOf
  <2>4. Writing(r, q, D, q2, D2)
    BY <1>2, <2>1, <2>3 DEF Writing, SameUnit
  <2> QED BY <2>2, <2>4 DEF Seen
<1> QED BY <1>1, <1>3, <1>4

LEMMA CommitCall ==
    ASSUME Inv, CallInv, NEW r \in Requests, NEW c \in LifecycleConnections,
           Commit(r, c)
    PROVE  CallGoesOn
<1> DEFINE q == req[r]
           q2 == NextUnit(q)
           k == [lconn[c] EXCEPT !.tx = "I"]
<1>1. /\ q \in StatesTyped /\ Ahead(r, q, durable)
      /\ ProgressOf(r, q, durable) /\ q.pc = "commit"
      /\ lconn[c].holder = r /\ ~lconn[c].broken /\ q.unusable \in BOOLEAN
  BY CallStateOf DEF Commit, At, StatesTyped
<1>2. <<r, q.unit>> \notin durable
  BY <1>1 DEF CallInv, CommitOpen
<1>3. /\ q2 \in StatesTyped /\ q2.reply = q.reply /\ q2.alive = q.alive
      /\ \/ q.unit = 3 /\ q2.pc = "wanting" /\ q2.unit = 4
         \/ q.unit = 4 /\ q2.pc = "finishing" /\ q2.unit = 4
  BY <1>1, NextUnitIs DEF ProgressOf
<1>4. k \in LinesTyped
  BY LineOf
<1>5. /\ durable' = durable \cup {<<r, q.unit>>}
      /\ Releases(r, c, k, q2, q.unusable)
  BY DEF Commit
<1> HIDE DEF q2, k
<1>6. Ahead(r, q2, durable') /\ Seen(r, q, durable, q2, durable')
  BY <1>1, <1>2, <1>3, <1>5, TakesEffect
<1> QED BY <1>1, <1>3, <1>4, <1>5, <1>6, ReleasesCall

LEMMA RollbackCall ==
    ASSUME Inv, CallInv, NEW r \in Requests, NEW c \in LifecycleConnections,
           Rollback(r, c)
    PROVE  CallGoesOn
<1> DEFINE q == req[r]
           q2 == Throw(q)
           k == [lconn[c] EXCEPT !.tx = "I"]
           unusable == q.unusable \/ lconn[c].broken
<1>1. /\ q \in StatesTyped /\ Ahead(r, q, durable) /\ q.pc = "rollback"
      /\ lconn[c].holder = r /\ durable' = durable
  BY CallStateOf DEF Rollback, At
<1>2. k \in LinesTyped /\ unusable \in BOOLEAN
  BY <1>1, LineOf DEF LinesTyped, StatesTyped
<1>3. q2 \in StatesTyped /\ q2.pc # "commit"
  BY <1>1, NextUnitTyped, ThrowGivesUp
<1>4. Ahead(r, q2, durable') /\ Seen(r, q, durable, q2, durable')
  BY <1>1, ThrowGivesUp
<1>5. Releases(r, c, k, q2, unusable)
  BY DEF Rollback
<1> HIDE DEF q2, k, unusable
<1> QED BY <1>1, <1>2, <1>3, <1>4, <1>5, ReleasesCall

LEMMA ConnectionLostCall ==
    ASSUME Inv, CallInv, NEW c \in LifecycleConnections, ConnectionLost(c)
    PROVE  CallGoesOn
<1> DEFINE r == lconn[c].holder
           q == req[r]
           q2 == [q EXCEPT !.unusable = TRUE]
           k == [lconn[c] EXCEPT !.broken = TRUE, !.tx = "I"]
<1>1. r \in Requests /\ ~lconn[c].broken
  BY DEF ConnectionLost, Inv, TypeOK
<1>2. /\ q \in StatesTyped /\ Ahead(r, q, durable)
      /\ ProgressOf(r, q, durable) /\ CommitOpen(r, q, lconn[c], durable)
  BY <1>1, CallStateOf DEF CallInv
<1>3. /\ q2 \in StatesTyped /\ q2.pc = q.pc /\ q2.unit = q.unit
      /\ q2.reply = q.reply /\ q2.alive = q.alive
  BY <1>2 DEF StatesTyped
<1>4. k.holder = r /\ k.broken
  BY LineOf DEF LinesTyped
<1>5. /\ req' = [req EXCEPT ![r] = q2] /\ lconn' = [lconn EXCEPT ![c] = k]
      /\ \/ durable' = durable
         \/ q.pc = "commit" /\ durable' = durable \cup {<<r, q.unit>>}
  BY DEF ConnectionLost, Moves
<1>6. lconn[c].holder = r
  OBVIOUS
<1> HIDE DEF r, q2, k
<1>7. Ahead(r, q2, durable') /\ Seen(r, q, durable, q2, durable')
  <2>1. CASE durable' = durable
    <3>1. Ahead(r, q2, durable)
      BY <1>2, <1>3 DEF Ahead
    <3>2. Unseen(r, q, durable, q2, durable)
      BY <1>3 DEF Unseen, SameStage, StageOf, SameUnit, SameTold, ToldOf
    <3> QED BY <2>1, <3>1, <3>2 DEF Seen
  <2>2. CASE q.pc = "commit" /\ durable' = durable \cup {<<r, q.unit>>}
    <3>1. <<r, q.unit>> \notin durable
      BY <1>1, <1>2, <1>6, <2>2 DEF CommitOpen
    <3> QED BY <1>1, <1>2, <1>3, <2>2, <3>1, TakesEffect
  <2> QED BY <1>5, <2>1, <2>2
<1>8. CommitOpen(r, q2, k, durable')
  BY <1>4 DEF CommitOpen
<1>9. OnlyOf(r, q2)
  BY <1>5 DEF OnlyOf
<1> QED BY <1>1, <1>3, <1>4, <1>5, <1>6, <1>7, <1>8, <1>9, HeldCall

LEMMA NextCall == ASSUME Inv, CallInv, Next PROVE CallGoesOn
<1>1. ASSUME NEW r \in Requests,
             Admit(r) \/ Refuse(r) \/ Acquire(r) \/ Finish(r) \/ Fail(r)
             \/ ClientGone(r)
      PROVE  CallGoesOn
  BY <1>1, AdmitCall, RefuseCall, AcquireCall, AnswerCall, ClientGoneCall
<1>2. ASSUME NEW r \in Requests, NEW c \in LifecycleConnections, Uses(r, c)
      PROVE  CallGoesOn
  BY <1>2, QueryCall, TransactionCall, CommitCall, RollbackCall DEF Uses
<1>3. ASSUME NEW c \in LifecycleConnections, ConnectionLost(c)
      PROVE  CallGoesOn
  BY <1>3, ConnectionLostCall
<1> QED BY <1>1, <1>2, <1>3 DEF Next, Step

LEMMA StutterCall == ASSUME CallInv, UNCHANGED vars PROVE CallGoesOn
<1>1. CallInv'
  BY DEF CallInv, Ahead, CommitOpen, vars
<1>2. UNCHANGED Call!callVars
  BY DEF vars, Call!callVars, Stage, Told
<1> QED BY <1>1, <1>2 DEF CallGoesOn

LEMMA InitCall == ASSUME Init PROVE CallInv /\ Call!CallInit
<1>1. CallInv
  BY DEF Init, CallInv, Ahead, CommitOpen
<1>2. Stage = [r \in Requests |-> "record"]
  BY DEF Init, Stage, Recorded
<1>3. Told = [r \in Requests |-> "none"]
  BY DEF Init, Told
<1>4. {r \in Requests : <<r, Recorded>> \in durable} = {}
      /\ {r \in Requests : <<r, Written>> \in durable} = {}
  BY DEF Init
<1> QED BY <1>1, <1>2, <1>3, <1>4 DEF Call!CallInit

\* The ingestion of one event between two pools implements IngestionCall: for
\* any number of requests and connections, its two transactions take effect
\* once and in order, nothing follows a failure, and no effect an answer.
THEOREM CallImplemented == Spec => ImplementsCall
<1>1. Init => CallInv /\ Call!CallInit
  BY InitCall
<1>2. Inv /\ CallInv /\ [Next]_vars =>
          CallInv' /\ [Call!CallNext]_(Call!callVars)
  BY NextCall, StutterCall DEF CallGoesOn
<1> QED BY <1>1, <1>2, SpecInv, PTL DEF Spec, ImplementsCall, Call!CallSpec
-----------------------------------------------------------------------------
\* How long a request can be.

Rank == [wanting |-> 6, query |-> 5, begin |-> 5, statements |-> 4,
         commit |-> 3, rollback |-> 2, finishing |-> 1, throwing |-> 1]

\* What the units of the plan behind the present one take.
After == <<8, 6, 4, 0>>

\* The steps a request has left, at most.
StepsLeft(q) ==
    IF q.pc = "waiting" THEN 15
    ELSE IF q.pc \in {"wanting"} \cup Busy THEN After[q.unit] + Rank[q.pc]
    ELSE IF q.pc \in {"finishing", "throwing"} THEN 1
    ELSE 0

\* A request makes no more than 15 steps.
BoundedSteps == \A r \in Requests : StepsLeft(req[r]) \in 0..15

\* Each of its steps takes one away, and nothing else adds any.
StepsRunOut ==
    [][\A r \in Requests :
          /\ Admit(r) \/ Refuse(r) \/ Acquire(r) \/ Step(r) =>
                StepsLeft(req'[r]) < StepsLeft(req[r])
          /\ StepsLeft(req'[r]) <= StepsLeft(req[r])]_vars

LEMMA AfterIs ==
    /\ After[1] = 8 /\ After[2] = 6 /\ After[3] = 4 /\ After[4] = 0
    /\ \A u \in 1..4 : After[u] \in 0..8
BY DEF After

LEMMA LeftIs ==
    ASSUME NEW q \in StatesTyped
    PROVE  /\ StepsLeft(q) \in 0..15
           /\ q.pc \notin {"waiting", "done"} => StepsLeft(q) \in 1..14
           /\ q.pc \in {"wanting"} \cup Busy =>
                 StepsLeft(q) = After[q.unit] + Rank[q.pc]
                 /\ q.unit \in 1..4 /\ Rank[q.pc] \in 2..6
<1>1. q.unit \in 1..4
  BY PlanIs DEF StatesTyped
<1>2. CASE q.pc \in {"wanting"} \cup Busy
  <2>1. Rank[q.pc] \in 2..6
    BY <1>2 DEF Rank, Busy
  <2>2. StepsLeft(q) = After[q.unit] + Rank[q.pc]
    BY <1>2 DEF StepsLeft, Busy
  <2>3. After[q.unit] \in 0..8
    BY <1>1, AfterIs
  <2>4. StepsLeft(q) \in 1..14
    BY <2>1, <2>2, <2>3
  <2> QED
    BY <1>1, <2>1, <2>2, <2>4
<1>3. CASE q.pc \in {"waiting", "finishing", "throwing", "done"}
  BY <1>3 DEF StepsLeft, Busy
<1> QED
  BY <1>2, <1>3 DEF StatesTyped

\* A query is over when it is answered, a transaction when it is committed.
EndsUnit(q) ==
    \/ q.pc = "query" /\ q.unit \in {1, 2}
    \/ q.pc = "commit" /\ q.unit \in {3, 4}

\* Where a request goes on within a unit, it has less left; where it comes to
\* the end of one, too.
LEMMA LabelShortens ==
    ASSUME NEW q \in StatesTyped, q.pc \in {"wanting"} \cup Busy,
           NEW label \in Busy, Rank[label] < Rank[q.pc]
    PROVE  StepsLeft([q EXCEPT !.pc = label]) < StepsLeft(q)
<1> DEFINE p == [q EXCEPT !.pc = label]
<1>1. p \in StatesTyped /\ p.pc = label /\ p.unit = q.unit
  BY DEF StatesTyped
<1>2. StepsLeft(q) = After[q.unit] + Rank[q.pc]
      /\ q.unit \in 1..4 /\ Rank[q.pc] \in 2..6
  BY LeftIs
<1> HIDE DEF p
<1>3. StepsLeft(p) = After[q.unit] + Rank[label] /\ Rank[label] \in 2..6
  BY <1>1, LeftIs
<1>4. After[q.unit] \in 0..8
  BY <1>2, AfterIs
<1> QED
  BY <1>2, <1>3, <1>4 DEF p

LEMMA EndShortens ==
    ASSUME NEW q \in StatesTyped
    PROVE  /\ q.pc \in {"wanting"} \cup Busy =>
                 StepsLeft(Throw(q)) < StepsLeft(q)
           /\ EndsUnit(q) => StepsLeft(NextUnit(q)) < StepsLeft(q)
<1>1. ASSUME q.pc \in {"wanting"} \cup Busy
      PROVE  StepsLeft(Throw(q)) < StepsLeft(q)
  <2>1. StepsLeft(Throw(q)) = 1
    BY DEF StatesTyped, Throw, StepsLeft, Busy
  <2>2. StepsLeft(q) = After[q.unit] + Rank[q.pc]
        /\ q.unit \in 1..4 /\ Rank[q.pc] \in 2..6
    BY <1>1, LeftIs
  <2>3. After[q.unit] \in 0..8
    BY <2>2, AfterIs
  <2> QED
    BY <2>1, <2>2, <2>3
<1>2. ASSUME EndsUnit(q)
      PROVE  StepsLeft(NextUnit(q)) < StepsLeft(q)
  <2>1. /\ StepsLeft(q) = After[q.unit] + Rank[q.pc]
        /\ \/ q.unit \in {1, 2} /\ Rank[q.pc] = 5
           \/ q.unit \in {3, 4} /\ Rank[q.pc] = 3
    <3>1. q.pc \in {"wanting"} \cup Busy
      BY <1>2 DEF Busy, EndsUnit
    <3>2. StepsLeft(q) = After[q.unit] + Rank[q.pc]
      BY <3>1, LeftIs
    <3> QED
      BY <1>2, <3>2 DEF Rank, EndsUnit
  <2>2. CASE q.unit = 4
    <3>1. StepsLeft(NextUnit(q)) = 1
      BY <2>2, PlanIs DEF StatesTyped, NextUnit, StepsLeft, Busy
    <3> QED
      BY <2>1, <2>2, <3>1, AfterIs
  <2>3. CASE q.unit # 4
    <3> DEFINE p == NextUnit(q)
    <3>1. p.pc = "wanting" /\ p.unit = q.unit + 1 /\ p \in StatesTyped
      <4>1. p = [q EXCEPT !.unit = @ + 1, !.pc = "wanting",
                          !.unusable = FALSE]
        BY <2>3, PlanIs DEF NextUnit
      <4>2. p.pc = "wanting" /\ p.unit = q.unit + 1
        BY <4>1 DEF StatesTyped
      <4> QED
        BY <4>2, NextUnitTyped
    <3> HIDE DEF p
    <3>2. StepsLeft(p) = After[q.unit + 1] + 6
      BY <3>1, LeftIs DEF Rank
    <3>3. q.unit \in {1, 2, 3}
      BY <2>1, <2>3
    <3> QED
      BY <2>1, <3>2, <3>3, AfterIs DEF p
  <2> QED
    BY <2>2, <2>3
<1> QED
  BY <1>1, <1>2

\* Request r, and no other, goes on to less.
Shortens(r) ==
    \E q : Moves(r, q) /\ StepsLeft(q) < StepsLeft(req[r])

LEMMA RequestShortens ==
    ASSUME Inv, NEW r \in Requests,
           Admit(r) \/ Refuse(r) \/ Acquire(r) \/ Finish(r) \/ Fail(r)
    PROVE  Shortens(r)
<1> DEFINE q == req[r]
<1>1. q \in StatesTyped
  BY StateOf
<1>2. CASE Admit(r)
  <2>1. q.pc = "waiting"
    BY <1>2 DEF Admit
  <2>2. PICK label \in {"wanting", "done"} : Moves(r, [q EXCEPT !.pc = label])
    BY <1>2 DEF Admit
  <2> DEFINE p == [q EXCEPT !.pc = label]
  <2>3. p \in StatesTyped /\ p.pc = label
    BY <1>1 DEF StatesTyped
  <2>4. StepsLeft(q) = 15
    BY <2>1 DEF StepsLeft
  <2>5. StepsLeft(p) \in 0..14
    <3> HIDE DEF p
    <3>1. CASE label = "wanting"
      BY <2>3, <3>1, LeftIs
    <3>2. CASE label = "done"
      BY <2>3, <3>2 DEF StepsLeft, Busy
    <3> QED
      BY <3>1, <3>2
  <2> HIDE DEF q
  <2>6. StepsLeft(p) < StepsLeft(q)
    <3> HIDE DEF p
    <3> QED
      BY <2>4, <2>5
  <2> QED
    BY <2>2, <2>6 DEF Shortens, q
<1>3. CASE Refuse(r)
  BY <1>1, <1>3, EndShortens DEF Refuse, Shortens
<1>4. CASE Acquire(r)
  <2>1. q.pc = "wanting"
    BY <1>4 DEF Acquire
  <2>2. PICK label \in {"query", "begin"} : Moves(r, [q EXCEPT !.pc = label])
    BY <1>4 DEF Acquire
  <2>3. label \in Busy /\ Rank[label] < Rank["wanting"]
    BY <2>2 DEF Rank, Busy
  <2>4. StepsLeft([q EXCEPT !.pc = label]) < StepsLeft(q)
    BY <1>1, <2>1, <2>3, LabelShortens
  <2> QED
    BY <2>2, <2>4 DEF Shortens
<1>5. CASE Finish(r) \/ Fail(r)
  <2>1. StepsLeft(q) = 1
    BY <1>5 DEF Finish, Fail, StepsLeft, Busy
  <2>2. PICK reply \in {"ok", "error", "none"} :
            Moves(r, [q EXCEPT !.pc = "done", !.reply = reply])
    BY <1>5 DEF Finish, Fail
  <2>3. StepsLeft([q EXCEPT !.pc = "done", !.reply = reply]) = 0
    BY <1>1 DEF StatesTyped, StepsLeft, Busy
  <2> QED
    BY <2>1, <2>2, <2>3 DEF Shortens
<1> QED
  BY <1>2, <1>3, <1>4, <1>5

LEMMA UseShortens ==
    ASSUME Inv, NEW r \in Requests, NEW c \in LifecycleConnections, Uses(r, c)
    PROVE  Shortens(r)
<1> DEFINE q == req[r]
<1>1. q \in StatesTyped
  BY StateOf
<1>2. CASE Query(r, c)
  <2>1. q.pc = "query" /\ q.unit \in {1, 2}
    BY <1>2, StateOf DEF Query, At, ProgressOf
  <2>2. Moves(r, NextUnit(q)) \/ Moves(r, Throw(q))
    BY <1>2 DEF Query, Releases
  <2> QED
    BY <1>1, <2>1, <2>2, EndShortens DEF Shortens, Busy, EndsUnit
<1>3. CASE Commit(r, c)
  <2>1. q.pc = "commit" /\ q.unit \in {3, 4}
    BY <1>3, StateOf DEF Commit, At, ProgressOf
  <2>2. Moves(r, NextUnit(q))
    BY <1>3 DEF Commit, Releases
  <2> QED
    BY <1>1, <2>1, <2>2, EndShortens DEF Shortens, EndsUnit
<1>4. CASE Rollback(r, c)
  BY <1>1, <1>4, EndShortens DEF Rollback, At, Releases, Shortens, Busy
<1>5. CASE Begin(r, c) \/ Statements(r, c) \/ CommitFails(r, c)
  <2>1. PICK label \in Busy :
            /\ Moves(r, [q EXCEPT !.pc = label])
            /\ \/ q.pc = "begin" /\ label \in {"rollback", "statements"}
               \/ q.pc = "statements" /\ label \in {"rollback", "commit"}
               \/ q.pc = "commit" /\ label = "rollback"
    BY <1>5 DEF Begin, Statements, CommitFails, At, Answered, Busy
  <2>2. q.pc \in Busy /\ Rank[label] < Rank[q.pc]
    BY <2>1 DEF Rank, Busy
  <2>3. StepsLeft([q EXCEPT !.pc = label]) < StepsLeft(q)
    BY <1>1, <2>2, LabelShortens
  <2> QED
    BY <2>1, <2>3 DEF Shortens
<1> QED
  BY <1>2, <1>3, <1>4, <1>5 DEF Uses

\* A client that leaves and a connection that is lost change nothing of it.
LEMMA OthersKeepSteps ==
    ASSUME Inv, NEW r \in Requests,
           \E q : /\ Moves(r, q)
                 /\ q.pc = req[r].pc
                 /\ q.unit = req[r].unit
    PROVE  \A s \in Requests : StepsLeft(req'[s]) = StepsLeft(req[s])
<1>1. PICK q : Moves(r, q) /\ q.pc = req[r].pc /\ q.unit = req[r].unit
  OBVIOUS
<1>2. req'[r] = q /\ \A s \in Requests : s # r => req'[s] = req[s]
  BY <1>1 DEF Moves, Inv, TypeOK
<1>3. StepsLeft(q) = StepsLeft(req[r])
  BY <1>1 DEF StepsLeft
<1> QED
  BY <1>2, <1>3

LEMMA NextShortens ==
    ASSUME Inv, Next
    PROVE  \A r \in Requests :
               /\ Admit(r) \/ Refuse(r) \/ Acquire(r) \/ Step(r) =>
                     StepsLeft(req'[r]) < StepsLeft(req[r])
               /\ StepsLeft(req'[r]) <= StepsLeft(req[r])
<1>0. \A s \in Requests : StepsLeft(req[s]) \in 0..15
  BY StateOf, LeftIs
<1>1. ASSUME NEW r \in Requests, Shortens(r)
      PROVE  /\ StepsLeft(req'[r]) < StepsLeft(req[r])
             /\ \A s \in Requests : s # r => req'[s] = req[s]
  BY <1>1 DEF Shortens, Moves, Inv, TypeOK
<1>2. ASSUME NEW r \in Requests,
             Admit(r) \/ Refuse(r) \/ Acquire(r) \/ Step(r)
      PROVE  Shortens(r)
  BY <1>2, RequestShortens, UseShortens DEF Step
<1>3. ASSUME NEW s \in Requests
      PROVE  StepsLeft(req'[s]) <= StepsLeft(req[s])
  <2>1. ASSUME NEW r \in Requests, Shortens(r)
        PROVE  StepsLeft(req'[s]) <= StepsLeft(req[s])
    <3>1. CASE s = r
      <4>1. StepsLeft(req'[s]) < StepsLeft(req[s])
        BY <1>1, <2>1, <3>1
      <4>2. req'[s] \in StatesTyped
        <5>1. Inv'
          BY NextInv
        <5> QED
          BY <5>1 DEF Inv, TypeOK, StatesTyped
      <4>3. StepsLeft(req'[s]) \in 0..15
        BY <4>2, LeftIs
      <4> QED
        BY <1>0, <4>1, <4>3
    <3>2. CASE s # r
      <4>1. req'[s] = req[s]
        BY <1>1, <2>1, <3>2
      <4> QED
        BY <1>0, <4>1
    <3> QED
      BY <3>1, <3>2
  <2>2. ASSUME NEW r \in Requests, ClientGone(r)
        PROVE  StepsLeft(req'[s]) <= StepsLeft(req[s])
    <3>1. \E q : Moves(r, q) /\ q.pc = req[r].pc /\ q.unit = req[r].unit
      BY <2>2, StateOf DEF ClientGone, StatesTyped
    <3> QED
      BY <1>0, <3>1, OthersKeepSteps
  <2>3. ASSUME NEW c \in LifecycleConnections, ConnectionLost(c)
        PROVE  StepsLeft(req'[s]) <= StepsLeft(req[s])
    <3> DEFINE r == lconn[c].holder
    <3>1. r \in Requests
      BY <2>3 DEF ConnectionLost, Inv, TypeOK
    <3>2. \E q : Moves(r, q) /\ q.pc = req[r].pc /\ q.unit = req[r].unit
      BY <2>3, <3>1, StateOf DEF ConnectionLost, StatesTyped
    <3> HIDE DEF r
    <3> QED
      BY <1>0, <3>1, <3>2, OthersKeepSteps
  <2> QED
    BY <1>2, <2>1, <2>2, <2>3 DEF Next
<1> QED
  BY <1>1, <1>2, <1>3

\* Whatever fails and however many wait, a request makes 15 steps of its own
\* at the most: what remains for it to end is that the two pools go on serving
\* those who wait, and whoever has a connection is using it (HoldersGoOn).
THEOREM RequestsAreBounded == Spec => []BoundedSteps /\ StepsRunOut
<1> DEFINE Shorter == \A r \in Requests :
               /\ Admit(r) \/ Refuse(r) \/ Acquire(r) \/ Step(r) =>
                     StepsLeft(req'[r]) < StepsLeft(req[r])
               /\ StepsLeft(req'[r]) <= StepsLeft(req[r])
<1>1. Inv => BoundedSteps
  BY StateOf, LeftIs DEF BoundedSteps
<1>2. Inv /\ [Next]_vars => [Shorter]_vars
  BY NextShortens
<1> QED
  BY <1>1, <1>2, SpecInv, PTL DEF Spec, StepsRunOut
=============================================================================
