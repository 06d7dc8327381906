----------------------- MODULE RequestLifecycleProofs -----------------------
(***************************************************************************)
(* Theorems about RequestLifecycle, for any requests and any connections.  *)
(*                                                                         *)
(* A request and the connection it holds are a pair, and every step        *)
(* touches one pair only.  Held says what is invariant of a pair: which    *)
(* statements are on their way (Queued), in which state the transaction is *)
(* (Opened), and what it has written (Wrote).  Let says what stays true of *)
(* a request that has given its connection back.                           *)
(*                                                                         *)
(* The next part proves that a request is one step of AtomicRequests.  It  *)
(* needs a second layer (AtomicInv): what the transaction under way has    *)
(* written is all that a COMMIT makes durable (Whole), and what is durable *)
(* is nothing or all of the route's work (Accounted).                      *)
(*                                                                         *)
(* Then comes the end of a request: StepsLeft counts what it can do yet,   *)
(* and every step takes from it; Attended says that what it waits for is   *)
(* on its way.                                                             *)
(***************************************************************************)
EXTENDS RequestLifecycle, SequenceTheorems, TLAPS

BootstrapOps == {"begin_bootstrap", "authenticate", "resolve", "record",
                 "commit_bootstrap"}
RouteOps     == {"begin_route", "scope_route", "membership", "work"}
HandlerOps   == BootstrapOps \cup RouteOps \cup {"scope_bootstrap"}
EndOps       == {"final_commit", "access_commit", "rollback"}

PCs == {"waiting", "handler", "replying", "failing", "done"}
       \cup BootstrapOps \cup RouteOps

RequestStates ==
    [pc : PCs, conn : Connections \cup {Pool},
     phase : {"bootstrap", "route", "committed", "rolled_back", "none"},
     fin : {"none", "committing", "rolling_back", "settled", "rejected"},
     accessRecordIssued : BOOLEAN, poisoned : BOOLEAN, released : BOOLEAN,
     alive : BOOLEAN, work : Nat, reply : {"none", "ok", "error"}]

ConnectionStates ==
    [holder : Requests \cup {Pool}, tx : {"I", "T", "E"},
     scope : Tenants \cup {NoScope}, queue : Seq(Statements),
     pending : SUBSET Effects, broken : BOOLEAN]

Typed ==
    /\ conn \in [Connections -> ConnectionStates]
    /\ req \in [Requests -> RequestStates]
    /\ durable \in SUBSET Effects

-----------------------------------------------------------------------------
\* A request q, by name r, and the connection k it holds, with D durable.

Op(k, i) == k.queue[i].op

\* The statements on their way are those the request waits for.
Queued(r, q, k) ==
    /\ \A i \in DOMAIN k.queue : k.queue[i].by = r
    /\ q.fin \in {"none", "committing", "rolling_back"}
    /\ q.fin = "none" =>
          /\ \/ /\ q.pc = "handler" /\ Len(k.queue) = 0
             \/ /\ q.pc \in BootstrapOps \cup RouteOps /\ Len(k.queue) = 1
                /\ Op(k, 1) = q.pc
             \/ /\ q.pc = "record" /\ Len(k.queue) = 2
                /\ Op(k, 1) = "scope_bootstrap" /\ Op(k, 2) = "record"
          /\ q.phase = IF q.pc \in BootstrapOps THEN "bootstrap" ELSE "route"
    /\ q.fin = "committing" =>
          /\ q.pc = "replying" /\ q.phase = "route" /\ Len(k.queue) = 1
          /\ Op(k, 1) \in {"final_commit", "rollback"}
    /\ q.fin = "rolling_back" =>
          /\ q.pc \notin {"waiting", "done"}
          /\ q.pc = "failing" \/ ~q.alive
          /\ \/ Len(k.queue) = 1
             \/ Len(k.queue) = 2 /\ Op(k, 1) \in HandlerOps
             \/ /\ Len(k.queue) = 3
                /\ Op(k, 1) = "scope_bootstrap" /\ Op(k, 2) = "record"
          /\ Op(k, Len(k.queue)) \in {"rollback", "access_commit"}
          /\ Op(k, 1) = "commit_bootstrap" => q.pc = "commit_bootstrap"

\* As long as the connection is not lost, its transaction is open while there
\* is something to execute in it, good until a statement fails, and under the
\* request's scope when it writes.
Opened(r, q, k) ==
    ~k.broken =>
        /\ q.fin = "none" /\ q.pc \notin Begins => k.tx = "T"
        /\ k.queue # << >> /\ Op(k, 1) \in HandlerOps \ Begins => k.tx # "I"
        /\ \/ k.queue # << >> /\ Op(k, 1) \in {"record", "membership", "work"}
           \/ q.fin = "none" /\ q.pc = "handler"
           => k.tx = "E" \/ k.scope = TenantOf[r]

AccessOf(r, S) == \E e \in S : e.kind = "access" /\ e.by = r

WorkOf(r, n, S) ==
    \A i \in 1..n : \E e \in S : e.kind = "work" /\ e.by = r /\ e.n = i

\* What the transaction has written, and what is durable by then.
Wrote(r, q, k, D) ==
    /\ \A e \in k.pending : e.by = r /\ e.scope = TenantOf[r]
    /\ r \in Staff /\ (\/ q.fin = "none" /\ q.pc \in RouteOps \cup {"handler"}
                       \/ \E i \in DOMAIN k.queue : Op(k, i) \in RouteOps
                       \/ \E e \in k.pending : e.kind = "work")
          => AccessOf(r, D)
    /\ r \in Staff /\ ~k.broken /\ k.queue # << >>
       /\ Op(k, 1) = "commit_bootstrap"
          => k.tx = "T" /\ AccessOf(r, k.pending)
    /\ q.fin = "none" /\ q.pc \notin {"handler", "work"} => q.work = 0
    /\ ~k.broken /\ q.fin = "none" /\ q.pc = "handler" =>
          WorkOf(r, q.work, k.pending)
    /\ ~k.broken /\ q.fin = "none" /\ q.pc = "work" =>
          q.work > 0 /\ WorkOf(r, q.work - 1, k.pending)
    /\ ~k.broken /\ q.fin = "committing" /\ Op(k, 1) = "final_commit" =>
          k.tx = "T" /\ WorkOf(r, q.work, k.pending)
    /\ q.reply = "none"

\* An access record that is on its way, or written and not committed, is
\* under way to be committed.
Recording(r, k) ==
    \/ \E i \in DOMAIN k.queue : Op(k, i) = "record"
    \/ AccessOf(r, k.pending)

Keeps(r, q, k) ==
    /\ AccessOf(r, k.pending) =>
          /\ k.tx = "T"
          /\ \A i \in DOMAIN k.queue : Op(k, i) # "record"
          /\ k.queue # << >> /\ Op(k, 1) \in HandlerOps =>
                Op(k, 1) = "commit_bootstrap"
    /\ Recording(r, k) =>
          /\ q.fin = "none" =>
                q.pc \in {"record", "commit_bootstrap"} /\ q.accessRecordIssued
          /\ q.fin # "committing"
          /\ q.fin = "rolling_back" => Op(k, Len(k.queue)) = "access_commit"

Held(r, q, k, D) ==
    /\ Queued(r, q, k)
    /\ Opened(r, q, k)
    /\ Wrote(r, q, k, D)
    /\ Keeps(r, q, k)

\* A request that holds no connection, any more or yet.
Let(r, q, D) ==
    /\ q.fin = "none" => q.pc \in {"waiting", "done"} /\ q.reply # "ok"
    /\ q.alive /\ q.fin = "settled" =>
          /\ q.pc \in {"replying", "failing", "done"}
          /\ q.pc = "replying" => WorkOf(r, q.work, D)
    /\ q.reply = "ok" => q.pc = "done" /\ WorkOf(r, q.work, D)
    /\ q.fin \in {"none", "settled", "rejected"}

\* A request that has not started.
Fresh(q) ==
    q.pc = "waiting" =>
        q.fin = "none" /\ q.reply = "none" /\ ~q.released /\ q.work = 0

Clean(k) ==
    /\ k.tx = "I" /\ k.scope = NoScope /\ k.pending = {}
    /\ k.queue = << >> /\ ~k.broken

Holding(q) == q.pc # "waiting" /\ ~q.released

Paired ==
    /\ \A r \in Requests : Holding(req[r]) =>
          req[r].conn \in Connections /\ conn[req[r].conn].holder = r
    /\ \A c \in Connections : conn[c].holder # Pool =>
          Holding(req[conn[c].holder]) /\ req[conn[c].holder].conn = c

Inv ==
    /\ Typed
    /\ Paired
    /\ \A r \in Requests :
          Holding(req[r]) => Held(r, req[r], conn[req[r].conn], durable)
    /\ \A r \in Requests : ~Holding(req[r]) => Let(r, req[r], durable)
    /\ \A r \in Requests : Fresh(req[r])
    /\ \A c \in Connections : conn[c].holder = Pool => Clean(conn[c])
    /\ \A e \in durable : /\ e.scope = TenantOf[e.by]
                          /\ e.kind = "work" /\ e.by \in Staff =>
                                AccessOf(e.by, durable)

-----------------------------------------------------------------------------
\* From one pair to the whole state

\* What is durable stays durable.
LEMMA HeldIsMonotone ==
    ASSUME NEW r, NEW q, NEW k, NEW D, NEW D2, D \subseteq D2, Held(r, q, k, D)
    PROVE  Held(r, q, k, D2)
<1>1. AccessOf(r, D) => AccessOf(r, D2)
  BY DEF AccessOf
<1>2. Wrote(r, q, k, D2)
  BY <1>1 DEF Held, Wrote
<1> QED BY <1>2 DEF Held

\* What a request without a connection is owed stays durable too.
LEMMA LetIsMonotone ==
    ASSUME NEW r, NEW q, NEW D, NEW D2, D \subseteq D2, Let(r, q, D)
    PROVE  Let(r, q, D2)
<1>1. WorkOf(r, q.work, D) => WorkOf(r, q.work, D2)
  BY DEF WorkOf
<1> QED BY <1>1 DEF Let

\* A step of the request r on the connection it holds preserves the invariant
\* when it preserves that of the pair and commits only what the pair wrote.
LEMMA PairStep ==
    ASSUME RequestAssumption, Inv,
           NEW r \in Requests, Holding(req[r]),
           NEW q2 \in RequestStates, NEW k2 \in ConnectionStates,
           NEW c, c = req[r].conn,
           req' = [req EXCEPT ![r] = q2],
           conn' = [conn EXCEPT ![c] = k2],
           durable' \in SUBSET Effects,
           q2.conn = c, q2.pc # "waiting",
           q2.released => k2.holder = Pool /\ Clean(k2) /\ Let(r, q2, durable'),
           ~q2.released => k2.holder = r /\ Held(r, q2, k2, durable'),
           durable \subseteq durable',
           durable' \subseteq durable \cup conn[c].pending
    PROVE  Inv'
<1> USE DEF RequestAssumption
<1>1. /\ Typed /\ Paired /\ c \in Connections /\ conn[c].holder = r
  BY DEF Inv, Paired
<1>2. Typed'
  BY <1>1 DEF Typed
<1>3. /\ req'[r] = q2 /\ conn'[c] = k2
      /\ \A o \in Requests \ {r} : req'[o] = req[o]
      /\ \A d \in Connections \ {c} : conn'[d] = conn[d]
  BY <1>1 DEF Typed
<1>4. /\ Holding(req'[r]) <=> ~q2.released
      /\ \A o \in Requests \ {r} : Holding(req'[o]) <=> Holding(req[o])
  BY <1>3 DEF Holding
<1>5. \A o \in Requests \ {r} : Holding(req[o]) =>
          req[o].conn \in Connections \ {c} /\ conn[req[o].conn].holder = o
  BY <1>1 DEF Paired
<1>6. Paired'
  <2>1. \A o \in Requests : Holding(req'[o]) =>
            req'[o].conn \in Connections /\ conn'[req'[o].conn].holder = o
    BY <1>1, <1>3, <1>4, <1>5
  <2>2. \A d \in Connections : conn'[d].holder # Pool =>
            Holding(req'[conn'[d].holder]) /\ req'[conn'[d].holder].conn = d
    <3> SUFFICES ASSUME NEW d \in Connections, conn'[d].holder # Pool
                 PROVE  /\ Holding(req'[conn'[d].holder])
                        /\ req'[conn'[d].holder].conn = d
      OBVIOUS
    <3>1. CASE d = c
      BY <1>3, <1>4, <3>1
    <3>2. CASE d # c
      <4>1. conn'[d] = conn[d]
        BY <1>3, <3>2
      <4>2. conn[d].holder \in Requests
        BY <1>1, <4>1 DEF Typed, ConnectionStates
      <4>3. Holding(req[conn[d].holder]) /\ req[conn[d].holder].conn = d
        BY <1>1, <4>1 DEF Paired
      <4>4. conn[d].holder # r
        BY <4>3, <3>2
      <4> QED BY <4>1, <4>2, <4>3, <4>4, <1>3, <1>4
    <3> QED BY <3>1, <3>2
  <2> QED BY <2>1, <2>2 DEF Paired
<1>7. ASSUME NEW o \in Requests, Holding(req'[o])
      PROVE  Held(o, req'[o], conn'[req'[o].conn], durable')
  <2>1. CASE o = r
    BY <2>1, <1>3, <1>4, <1>7
  <2>2. CASE o # r
    <3>1. /\ Holding(req[o]) /\ req'[o] = req[o]
          /\ conn'[req[o].conn] = conn[req[o].conn]
      BY <2>2, <1>3, <1>4, <1>5, <1>7
    <3>2. Held(o, req[o], conn[req[o].conn], durable)
      BY <3>1 DEF Inv
    <3> QED BY <3>1, <3>2, HeldIsMonotone
  <2> QED BY <2>1, <2>2
<1>8. ASSUME NEW o \in Requests, ~Holding(req'[o])
      PROVE  Let(o, req'[o], durable')
  <2>1. CASE o = r
    BY <2>1, <1>3, <1>4, <1>8
  <2>2. CASE o # r
    <3>1. ~Holding(req[o]) /\ req'[o] = req[o]
      BY <2>2, <1>3, <1>4, <1>8
    <3>2. Let(o, req[o], durable)
      BY <3>1 DEF Inv
    <3> QED BY <3>1, <3>2, LetIsMonotone
  <2> QED BY <2>1, <2>2
<1>9. \A o \in Requests : Fresh(req'[o])
  BY <1>3 DEF Inv, Fresh
<1>10. \A d \in Connections : conn'[d].holder = Pool => Clean(conn'[d])
  BY <1>3 DEF Inv
<1>11. ASSUME NEW e \in durable'
       PROVE  /\ e.scope = TenantOf[e.by]
              /\ e.kind = "work" /\ e.by \in Staff => AccessOf(e.by, durable')
  <2>1. \A o : AccessOf(o, durable) => AccessOf(o, durable')
    BY DEF AccessOf
  <2>2. CASE e \in durable
    BY <2>1, <2>2 DEF Inv
  <2>3. CASE e \in conn[c].pending
    <3>1. Held(r, req[r], conn[c], durable)
      BY DEF Inv
    <3>2. /\ e.by = r /\ e.scope = TenantOf[r]
          /\ r \in Staff /\ e.kind = "work" => AccessOf(r, durable)
      BY <3>1, <2>3 DEF Held, Wrote
    <3> QED BY <3>2, <2>1
  <2> QED BY <2>2, <2>3
<1> QED BY <1>2, <1>6, <1>7, <1>8, <1>9, <1>10, <1>11 DEF Inv

\* A step of a request that holds no connection preserves the invariant.
LEMMA LetStep ==
    ASSUME Inv,
           NEW r \in Requests, ~Holding(req[r]),
           NEW q2 \in RequestStates,
           req' = [req EXCEPT ![r] = q2], conn' = conn, durable' = durable,
           ~Holding(q2), Fresh(q2), Let(r, q2, durable)
    PROVE  Inv'
<1>1. Typed'
  BY DEF Inv, Typed
<1>2. req'[r] = q2 /\ \A o \in Requests \ {r} : req'[o] = req[o]
  BY DEF Inv, Typed
<1>3. \A o \in Requests : Holding(req'[o]) <=> Holding(req[o])
  BY <1>2
<1>4. \A o \in Requests : Holding(req[o]) => req'[o] = req[o]
  BY <1>2
<1>5. Paired'
  <2>1. \A o \in Requests : Holding(req'[o]) =>
            req'[o].conn \in Connections /\ conn[req'[o].conn].holder = o
    BY <1>3, <1>4 DEF Inv, Paired
  <2>2. \A d \in Connections : conn[d].holder # Pool =>
            Holding(req'[conn[d].holder]) /\ req'[conn[d].holder].conn = d
    <3> SUFFICES ASSUME NEW d \in Connections, conn[d].holder # Pool
                 PROVE  /\ Holding(req'[conn[d].holder])
                        /\ req'[conn[d].holder].conn = d
      OBVIOUS
    <3>1. conn[d].holder \in Requests
      BY DEF Inv, Typed, ConnectionStates
    <3>2. Holding(req[conn[d].holder]) /\ req[conn[d].holder].conn = d
      BY DEF Inv, Paired
    <3> QED BY <3>1, <3>2, <1>4
  <2> QED BY <2>1, <2>2 DEF Paired
<1>6. \A o \in Requests : Holding(req'[o]) =>
          Held(o, req'[o], conn'[req'[o].conn], durable')
  BY <1>3, <1>4 DEF Inv
<1>7. \A o \in Requests : ~Holding(req'[o]) => Let(o, req'[o], durable')
  BY <1>2, <1>3 DEF Inv
<1>8. \A o \in Requests : Fresh(req'[o])
  BY <1>2 DEF Inv
<1> QED BY <1>1, <1>5, <1>6, <1>7, <1>8 DEF Inv

-----------------------------------------------------------------------------
\* The queue of a connection, and the connection after a step

Ops == TxControl \cup ScopeSetters \cup
       {"authenticate", "resolve", "record", "membership", "work"}

\* The queue t is the queue s followed by what r issued.
Follows(t, s, ops, r) ==
    /\ t \in Seq(Statements)
    /\ Len(t) = Len(s) + Len(ops)
    /\ \A i \in 1..Len(s) : t[i] = s[i]
    /\ \A i \in 1..Len(ops) : t[Len(s) + i] = [op |-> ops[i], by |-> r]

\* What a request issues is queued behind what is there.
LEMMA IssuedFollows ==
    ASSUME NEW r \in Requests, NEW s \in Seq(Statements), NEW ops \in Seq(Ops)
    PROVE  Follows(s \o [i \in DOMAIN ops |-> [op |-> ops[i], by |-> r]],
                   s, ops, r)
<1> DEFINE m == [i \in DOMAIN ops |-> [op |-> ops[i], by |-> r]]
<1>1. /\ Len(ops) \in Nat /\ DOMAIN ops = 1..Len(ops)
      /\ \A i \in 1..Len(ops) : ops[i] \in Ops
  BY LenProperties, ElementOfSeq
<1>2. m \in [1..Len(ops) -> Statements]
  BY <1>1 DEF Statements, Ops
<1>3. m \in Seq(Statements)
  BY <1>1, <1>2
<1>4. Len(m) = Len(ops)
  BY <1>1, <1>2, <1>3, LenProperties
<1>5. /\ s \o m \in Seq(Statements)
      /\ Len(s \o m) = Len(s) + Len(m)
      /\ \A i \in 1..(Len(s) + Len(m)) :
            (s \o m)[i] = IF i <= Len(s) THEN s[i] ELSE m[i - Len(s)]
  BY <1>3, ConcatProperties
<1>6. Len(s) \in Nat
  BY LenProperties
<1>7. \A i \in 1..Len(s) : (s \o m)[i] = s[i]
  BY <1>1, <1>4, <1>5, <1>6
<1>8. \A i \in 1..Len(ops) : (s \o m)[Len(s) + i] = m[i]
  <2> HIDE DEF m
  <2> SUFFICES ASSUME NEW i \in 1..Len(ops)
               PROVE  (s \o m)[Len(s) + i] = m[i]
    OBVIOUS
  <2>1. Len(s) + i \in 1..(Len(s) + Len(m)) /\ ~(Len(s) + i <= Len(s))
    BY <1>1, <1>4, <1>6
  <2>2. (Len(s) + i) - Len(s) = i
    BY <1>1, <1>6
  <2> QED BY <1>5, <2>1, <2>2
<1>9. \A i \in 1..Len(ops) : m[i] = [op |-> ops[i], by |-> r]
  BY <1>1
<1> QED BY <1>4, <1>5, <1>7, <1>8, <1>9 DEF Follows

\* The connection k2 is k1 with the statements ops of r on their way.
Sends(k1, k2, ops, r) ==
    /\ k2 \in ConnectionStates
    /\ k2 = [k1 EXCEPT !.queue = k2.queue]
    /\ Follows(k2.queue, k1.queue, ops, r)

\* The connection after a step that does not give it back ...
LEMMA AfterIssue ==
    ASSUME NEW r \in Requests, NEW k \in ConnectionStates,
           NEW q, NEW next, ~next.q.released \/ q.released,
           NEW ops \in Seq(Ops), next.issue = ops,
           NEW k2, k2 = After(k, r, q, next)
    PROVE  Sends(k, k2, ops, r)
<1> DEFINE t == k.queue \o [i \in DOMAIN ops |-> [op |-> ops[i], by |-> r]]
<1>1. k2 = [k EXCEPT !.queue = t]
  BY DEF After
<1>2. k.queue \in Seq(Statements)
  BY DEF ConnectionStates
<1>3. Follows(t, k.queue, ops, r)
  BY <1>2, IssuedFollows
<1>4. t \in Seq(Statements)
  BY <1>3 DEF Follows
<1> HIDE DEF t
<1> QED BY <1>1, <1>3, <1>4 DEF ConnectionStates, Sends

\* ... and after one that does.
LEMMA AfterRelease ==
    ASSUME NEW r \in Requests, NEW k \in ConnectionStates,
           NEW q, NEW next, next.q.released, ~q.released,
           NEW k2, k2 = After(k, r, q, next)
    PROVE  /\ k2 \in ConnectionStates
           /\ k2 = IF next.q.poisoned THEN FreshConnection
                                      ELSE [k EXCEPT !.holder = Pool]
<1>1. FreshConnection \in ConnectionStates
  BY EmptySeq DEF FreshConnection, ConnectionStates
<1> QED BY <1>1 DEF After, ConnectionStates

\* The connection k1 is k after the server has executed op on it.
Ran(r, q, k, op, ok, k1) ==
    /\ k1 \in ConnectionStates
    /\ k1.holder = k.holder /\ k1.broken = k.broken
    /\ Len(k1.queue) = Len(k.queue) - 1
    /\ \A i \in 1..Len(k1.queue) : k1.queue[i] = k.queue[i + 1]
    /\ op \in Commits \cup {"rollback"} =>
          k1.tx = "I" /\ k1.scope = NoScope /\ k1.pending = {}
    /\ op \in Begins =>
          /\ k1.tx = IF ok THEN "T" ELSE k.tx
          /\ k1.scope = k.scope /\ k1.pending = k.pending
    /\ op \notin TxControl /\ ~ok =>
          /\ k1.tx = IF k.tx = "T" THEN "E" ELSE k.tx
          /\ k1.scope = k.scope /\ k1.pending = k.pending
    /\ op \notin TxControl /\ ok =>
          /\ k1.tx = k.tx
          /\ k1.scope = IF op \in ScopeSetters THEN TenantOf[r] ELSE k.scope
          /\ k1.pending = k.pending \cup
                (IF op = "record"
                 THEN {[kind |-> "access", by |-> r, n |-> 0,
                        scope |-> k.scope]}
                 ELSE IF op = "work"
                 THEN {[kind |-> "work", by |-> r, n |-> q.work,
                        scope |-> k.scope]}
                 ELSE {})

\* Executed, by kinds of statements.
LEMMA ExecutedRan ==
    ASSUME RequestAssumption, NEW k \in ConnectionStates, k.queue # << >>,
           NEW ok \in BOOLEAN, req \in [Requests -> RequestStates],
           NEW st, st = Head(k.queue), NEW k1, k1 = Executed(k, st, ok)
    PROVE  /\ st \in Statements /\ st = k.queue[1]
           /\ Ran(st.by, req[st.by], k, st.op, ok, k1)
<1> DEFINE rest == [k EXCEPT !.queue = Tail(k.queue)]
<1>1. k.queue \in Seq(Statements)
  BY DEF ConnectionStates
<1>2. /\ st \in Statements /\ st = k.queue[1]
      /\ Tail(k.queue) \in Seq(Statements)
      /\ Len(Tail(k.queue)) = Len(k.queue) - 1
      /\ \A i \in 1..Len(Tail(k.queue)) : Tail(k.queue)[i] = k.queue[i + 1]
  BY <1>1, HeadTailProperties
<1>3. /\ st.op \in Ops /\ st.by \in Requests
      /\ TenantOf[st.by] \in Tenants /\ req[st.by].work \in Nat
  BY <1>2 DEF Statements, Ops, RequestAssumption, RequestStates
<1>4. /\ rest \in ConnectionStates
      /\ rest.queue = Tail(k.queue) /\ rest.holder = k.holder
      /\ rest.broken = k.broken /\ rest.tx = k.tx
      /\ rest.scope = k.scope /\ rest.pending = k.pending
  BY <1>2 DEF ConnectionStates
<1>5. CASE st.op \in Commits \cup {"rollback"}
  <2>1. k1 = [rest EXCEPT !.tx = "I", !.scope = NoScope, !.pending = {}]
    BY <1>5 DEF Executed, TxControl, Commits, Begins, ScopeSetters
  <2> HIDE DEF rest
  <2>2. /\ k1 \in ConnectionStates
        /\ k1.holder = k.holder /\ k1.broken = k.broken
        /\ k1.queue = Tail(k.queue)
    BY <1>2, <1>4, <2>1 DEF ConnectionStates
  <2>3. k1.tx = "I" /\ k1.scope = NoScope /\ k1.pending = {}
    BY <1>4, <2>1 DEF ConnectionStates
  <2> QED BY <1>2, <1>5, <2>2, <2>3
        DEF Ran, TxControl, Commits, Begins
<1>6. CASE st.op \in Begins
  <2>1. k1 = IF ok THEN [rest EXCEPT !.tx = "T"] ELSE rest
    BY <1>6 DEF Executed, TxControl, Commits, Begins, ScopeSetters
  <2> HIDE DEF rest
  <2>2. /\ k1 \in ConnectionStates
        /\ k1.holder = k.holder /\ k1.broken = k.broken
        /\ k1.queue = Tail(k.queue)
    BY <1>2, <1>4, <2>1 DEF ConnectionStates
  <2>3. /\ k1.tx = IF ok THEN "T" ELSE k.tx
        /\ k1.scope = k.scope /\ k1.pending = k.pending
    BY <1>4, <2>1 DEF ConnectionStates
  <2> QED BY <1>2, <1>6, <2>2, <2>3
        DEF Ran, TxControl, Commits, Begins
<1>7. CASE st.op \notin TxControl /\ ~ok
  <2>1. k1 = [rest EXCEPT !.tx = IF @ = "T" THEN "E" ELSE @]
    BY <1>7 DEF Executed, TxControl, Commits, Begins, ScopeSetters
  <2> HIDE DEF rest
  <2>2. /\ k1 \in ConnectionStates
        /\ k1.holder = k.holder /\ k1.broken = k.broken
        /\ k1.queue = Tail(k.queue)
    BY <1>2, <1>4, <2>1 DEF ConnectionStates
  <2>3. /\ k1.tx = IF k.tx = "T" THEN "E" ELSE k.tx
        /\ k1.scope = k.scope /\ k1.pending = k.pending
    BY <1>4, <2>1 DEF ConnectionStates
  <2> QED BY <1>2, <1>7, <2>2, <2>3
        DEF Ran, TxControl, Commits, Begins
<1>8. CASE st.op \notin TxControl /\ ok
  <2>1. CASE st.op \in ScopeSetters
    <3>1. k1 = [rest EXCEPT !.scope = TenantOf[st.by]]
      BY <1>8, <2>1 DEF Executed, TxControl, Commits, Begins, ScopeSetters
    <3> HIDE DEF rest
    <3>2. /\ k1 \in ConnectionStates
          /\ k1.holder = k.holder /\ k1.broken = k.broken
          /\ k1.queue = Tail(k.queue)
      BY <1>2, <1>3, <1>4, <3>1 DEF ConnectionStates
    <3>3. /\ k1.tx = k.tx /\ k1.scope = TenantOf[st.by]
          /\ k1.pending = k.pending
      BY <1>4, <3>1 DEF ConnectionStates
    <3> QED BY <1>2, <1>8, <2>1, <3>2, <3>3
          DEF Ran, TxControl, Commits, Begins, ScopeSetters
  <2>2. CASE st.op = "record"
    <3>1. k1 = [rest EXCEPT !.pending = @ \cup
                    {[kind |-> "access", by |-> st.by, n |-> 0,
                      scope |-> k.scope]}]
      BY <1>8, <2>2 DEF Executed, TxControl, Commits, Begins, ScopeSetters
    <3> HIDE DEF rest
    <3>2. [kind |-> "access", by |-> st.by, n |-> 0, scope |-> k.scope]
             \in Effects
      BY <1>3 DEF Effects, ConnectionStates
    <3>3. /\ k1 \in ConnectionStates
          /\ k1.holder = k.holder /\ k1.broken = k.broken
          /\ k1.queue = Tail(k.queue)
      BY <1>2, <1>3, <1>4, <3>1, <3>2 DEF ConnectionStates
    <3>4. /\ k1.tx = k.tx /\ k1.scope = k.scope
          /\ k1.pending = k.pending \cup
                {[kind |-> "access", by |-> st.by, n |-> 0,
                  scope |-> k.scope]}
      BY <1>4, <3>1 DEF ConnectionStates
    <3> QED BY <1>2, <1>8, <2>2, <3>3, <3>4
          DEF Ran, TxControl, Commits, Begins, ScopeSetters
  <2>3. CASE st.op = "work"
    <3>1. k1 = [rest EXCEPT !.pending = @ \cup
                    {[kind |-> "work", by |-> st.by, n |-> req[st.by].work,
                      scope |-> k.scope]}]
      BY <1>8, <2>3 DEF Executed, TxControl, Commits, Begins, ScopeSetters
    <3> HIDE DEF rest
    <3>2. [kind |-> "work", by |-> st.by, n |-> req[st.by].work,
           scope |-> k.scope] \in Effects
      BY <1>3 DEF Effects, ConnectionStates
    <3>3. /\ k1 \in ConnectionStates
          /\ k1.holder = k.holder /\ k1.broken = k.broken
          /\ k1.queue = Tail(k.queue)
      BY <1>2, <1>3, <1>4, <3>1, <3>2 DEF ConnectionStates
    <3>4. /\ k1.tx = k.tx /\ k1.scope = k.scope
          /\ k1.pending = k.pending \cup
                {[kind |-> "work", by |-> st.by, n |-> req[st.by].work,
                  scope |-> k.scope]}
      BY <1>4, <3>1 DEF ConnectionStates
    <3> QED BY <1>2, <1>8, <2>3, <3>3, <3>4
          DEF Ran, TxControl, Commits, Begins, ScopeSetters
  <2>4. CASE st.op \notin ScopeSetters \cup {"record", "work"}
    <3>1. k1 = rest
      BY <1>8, <2>4 DEF Executed, TxControl, Commits, Begins, ScopeSetters
    <3> HIDE DEF rest
    <3>2. /\ k1 \in ConnectionStates
          /\ k1.holder = k.holder /\ k1.broken = k.broken
          /\ k1.queue = Tail(k.queue)
      BY <1>2, <1>3, <1>4, <3>1 DEF ConnectionStates
    <3>3. /\ k1.tx = k.tx /\ k1.scope = k.scope
          /\ k1.pending = k.pending
      BY <1>4, <3>1 DEF ConnectionStates
    <3> QED BY <1>2, <1>8, <2>4, <3>2, <3>3
          DEF Ran, TxControl, Commits, Begins, ScopeSetters
  <2> QED BY <2>1, <2>2, <2>3, <2>4
<1> QED BY <1>2, <1>5, <1>6, <1>7, <1>8 DEF TxControl

-----------------------------------------------------------------------------
\* A statement is executed, and its request goes on

LEMMA SendsNothing ==
    ASSUME NEW r \in Requests, NEW k1 \in ConnectionStates, NEW k2,
           Sends(k1, k2, << >>, r)
    PROVE  /\ k2.holder = k1.holder /\ k2.tx = k1.tx /\ k2.scope = k1.scope
           /\ k2.pending = k1.pending /\ k2.broken = k1.broken
           /\ Len(k1.queue) \in Nat /\ Len(k2.queue) = Len(k1.queue)
           /\ DOMAIN k2.queue = 1..Len(k2.queue)
           /\ \A i \in 1..Len(k1.queue) : k2.queue[i] = k1.queue[i]
<1>1. Len(k1.queue) \in Nat /\ DOMAIN k2.queue = 1..Len(k2.queue)
  BY LenProperties DEF ConnectionStates, Sends
<1>2. Len(k2.queue) = Len(k1.queue)
  BY <1>1, EmptySeq DEF Sends, Follows
<1> QED BY <1>1, <1>2 DEF ConnectionStates, Sends, Follows

\* ... and one that issues one statement has it last in the queue.
LEMMA SendsOne ==
    ASSUME NEW r \in Requests, NEW k1 \in ConnectionStates, NEW k2,
           NEW op, Sends(k1, k2, <<op>>, r)
    PROVE  /\ k2.holder = k1.holder /\ k2.tx = k1.tx /\ k2.scope = k1.scope
           /\ k2.pending = k1.pending /\ k2.broken = k1.broken
           /\ Len(k1.queue) \in Nat /\ Len(k2.queue) = Len(k1.queue) + 1
           /\ DOMAIN k2.queue = 1..Len(k2.queue)
           /\ \A i \in 1..Len(k1.queue) : k2.queue[i] = k1.queue[i]
           /\ k2.queue[Len(k1.queue) + 1] = [op |-> op, by |-> r]
<1>1. Len(k1.queue) \in Nat /\ DOMAIN k2.queue = 1..Len(k2.queue)
  BY LenProperties DEF ConnectionStates, Sends
<1>2. Len(<<op>>) = 1 /\ <<op>>[1] = op
  OBVIOUS
<1>3. Len(k2.queue) = Len(k1.queue) + 1
  BY <1>1, <1>2 DEF Sends, Follows
<1> QED BY <1>1, <1>2, <1>3 DEF ConnectionStates, Sends, Follows

\* The request r with the state q and the connection k, with D durable.
Running(r, q, k, D) ==
    /\ r \in Requests /\ q \in RequestStates /\ k \in ConnectionStates
    /\ D \in SUBSET Effects
    /\ k.holder = r
    /\ Holding(q)
    /\ Held(r, q, k, D)

\* The server has executed the first statement of k.
Serving(r, q, k, D, ok, k1, D2) ==
    /\ Running(r, q, k, D)
    /\ k.queue # << >>
    /\ ok \in BOOLEAN
    /\ IF ok THEN CanSucceed(k, Op(k, 1)) ELSE CanFail(k, Op(k, 1))
    /\ Ran(r, q, k, Op(k, 1), ok, k1)
    /\ D2 = IF ok /\ Op(k, 1) \in Commits /\ k.tx = "T"
            THEN D \cup k.pending ELSE D

\* A step of the pair preserves what is invariant of it.
Preserved(r, q, k, D, q2, k2, D2) ==
    /\ q2 \in RequestStates /\ k2 \in ConnectionStates /\ D2 \in SUBSET Effects
    /\ q2.conn = q.conn /\ q2.pc # "waiting"
    /\ q2.released => k2.holder = Pool /\ Clean(k2) /\ Let(r, q2, D2)
    /\ ~q2.released => k2.holder = r /\ Held(r, q2, k2, D2)
    /\ D \subseteq D2 /\ D2 \subseteq D \cup k.pending

\* The queue of a connection that is being served.
LEMMA ServingQueue ==
    ASSUME NEW r, NEW q, NEW k, NEW D, NEW ok, NEW k1, NEW D2,
           Serving(r, q, k, D, ok, k1, D2)
    PROVE  /\ Len(k.queue) \in 1..3 /\ DOMAIN k.queue = 1..Len(k.queue)
           /\ DOMAIN k1.queue = 1..Len(k1.queue)
           /\ \A i \in 1..Len(k.queue) : k.queue[i].by = r /\ Op(k, i) \in Ops
           /\ Len(k1.queue) = Len(k.queue) - 1
           /\ \A i \in 1..Len(k1.queue) : k1.queue[i] = k.queue[i + 1]
           /\ k1.queue \in Seq(Statements)
           /\ D2 \in SUBSET Effects
           /\ D \subseteq D2 /\ D2 \subseteq D \cup k.pending
<1>1. /\ k.queue \in Seq(Statements) /\ k1.queue \in Seq(Statements)
      /\ k.pending \in SUBSET Effects
  BY DEF Serving, Running, Ran, ConnectionStates
<1>2. /\ DOMAIN k.queue = 1..Len(k.queue) /\ Len(k.queue) \in Nat
      /\ DOMAIN k1.queue = 1..Len(k1.queue) /\ Len(k1.queue) \in Nat
      /\ \A i \in 1..Len(k.queue) : k.queue[i] \in Statements
  BY <1>1, LenProperties, ElementOfSeq
<1>3. Len(k.queue) # 0
  BY <1>1, EmptySeq DEF Serving
<1>4. Len(k.queue) \in 1..3
  BY <1>2, <1>3 DEF Serving, Running, Held, Queued
<1>5. \A i \in 1..Len(k.queue) : k.queue[i].by = r /\ Op(k, i) \in Ops
  BY <1>2 DEF Serving, Running, Held, Queued, Op, Statements, Ops
<1> QED BY <1>1, <1>2, <1>4, <1>5 DEF Serving, Running, Ran

\* The finalization is told how its statement ended.
LEMMA ServeFinalization ==
    ASSUME RequestAssumption,
           NEW r, NEW q, NEW k, NEW D, NEW ok, NEW k1, NEW D2,
           Serving(r, q, k, D, ok, k1, D2), Op(k, 1) \in EndOps,
           NEW next, next = Finalized(q, Op(k, 1), ok),
           NEW k2, k2 = After(k1, r, q, next)
    PROVE  Preserved(r, q, k, D, next.q, k2, D2)
<1>0. Running(r, q, k, D)
  BY DEF Serving
<1>1. /\ r \in Requests /\ q \in RequestStates /\ k \in ConnectionStates
      /\ k1 \in ConnectionStates /\ ok \in BOOLEAN
      /\ ~q.released /\ q.pc # "waiting"
  BY DEF Serving, Running, Ran, Holding
<1>2. /\ q.fin \in {"committing", "rolling_back"}
      /\ Len(k.queue) = 1 /\ q.reply = "none"
      /\ q.fin = "committing" =>
            q.pc = "replying" /\ Op(k, 1) \in {"final_commit", "rollback"}
      /\ q.fin = "rolling_back" =>
            /\ q.pc = "failing" \/ ~q.alive
            /\ Op(k, 1) \in {"rollback", "access_commit"}
  BY <1>0, ServingQueue DEF Running, Held, Queued, Wrote, EndOps, HandlerOps,
     BootstrapOps, RouteOps
<1>3. k1.queue = << >> /\ k1.tx = "I" /\ k1.scope = NoScope /\ k1.pending = {}
  BY <1>1, <1>2, ServingQueue, EmptySeq DEF Serving, Ran, EndOps, Commits
<1>4. D2 \in SUBSET Effects /\ D \subseteq D2 /\ D2 \subseteq D \cup k.pending
  BY ServingQueue
<1>5. ASSUME next.q \in RequestStates, next.q.conn = q.conn,
             next.q.pc = q.pc, next.q.released,
             next.q.poisoned \/ ~k.broken, Let(r, next.q, D2)
      PROVE  Preserved(r, q, k, D, next.q, k2, D2)
  <2>1. /\ k2 \in ConnectionStates
        /\ k2 = IF next.q.poisoned THEN FreshConnection
                                   ELSE [k1 EXCEPT !.holder = Pool]
    BY <1>1, <1>5, AfterRelease
  <2>2. k2.holder = Pool /\ Clean(k2)
    BY <1>1, <1>3, <1>5, <2>1
    DEF Serving, Ran, Clean, FreshConnection, ConnectionStates
  <2> QED BY <1>1, <1>4, <1>5, <2>1, <2>2 DEF Preserved
<1>6. CASE Op(k, 1) = "final_commit" /\ ok
  <2>1. next.q = [q EXCEPT !.phase = "committed", !.fin = "settled",
                          !.released = TRUE]
    BY <1>6 DEF Finalized, Release, Then
  <2>2. /\ next.q \in RequestStates /\ next.q.conn = q.conn
        /\ next.q.pc = q.pc /\ next.q.released /\ next.q.fin = "settled"
        /\ next.q.work = q.work /\ next.q.reply = q.reply
    BY <1>1, <2>1 DEF RequestStates
  <2>3. ~k.broken /\ k.tx = "T" /\ WorkOf(r, q.work, k.pending)
    BY <1>0, <1>2, <1>6 DEF Serving, CanSucceed, Running, Held, Wrote
  <2>4. WorkOf(r, q.work, D2)
    BY <1>6, <2>3 DEF Serving, Commits, WorkOf
  <2>5. Let(r, next.q, D2)
    BY <1>2, <1>6, <2>2, <2>4 DEF Let
  <2> QED BY <1>5, <2>2, <2>3, <2>5
<1>7. CASE Op(k, 1) # "final_commit" /\ ok
  <2>1. next.q = [q EXCEPT
            !.phase = IF Op(k, 1) = "rollback" THEN "rolled_back"
                                               ELSE "committed",
            !.fin = AfterRollback(q), !.released = TRUE]
    BY <1>7 DEF Finalized, Release, Then
  <2>2. /\ next.q \in RequestStates /\ next.q.conn = q.conn
        /\ next.q.pc = q.pc /\ next.q.released
        /\ next.q.fin = AfterRollback(q)
        /\ next.q.alive = q.alive /\ next.q.reply = q.reply
    BY <1>1, <2>1 DEF RequestStates, AfterRollback
  <2>3. Let(r, next.q, D2)
    BY <1>2, <2>2 DEF Let, AfterRollback
  <2> QED BY <1>5, <1>7, <2>2, <2>3 DEF Serving, CanSucceed
<1>8. CASE Op(k, 1) # "final_commit" /\ ~ok
  <2>1. next.q = [q EXCEPT !.fin = "rejected", !.poisoned = TRUE,
                          !.released = TRUE]
    BY <1>8 DEF Finalized, RollbackFailed, Release, Then
  <2>2. /\ next.q \in RequestStates /\ next.q.conn = q.conn
        /\ next.q.pc = q.pc /\ next.q.released /\ next.q.poisoned
        /\ next.q.fin = "rejected" /\ next.q.reply = q.reply
    BY <1>1, <2>1 DEF RequestStates
  <2>3. Let(r, next.q, D2)
    BY <1>2, <2>2 DEF Let
  <2> QED BY <1>5, <2>2, <2>3
<1>9. CASE Op(k, 1) = "final_commit" /\ ~ok
  <2>1. next.q = [q EXCEPT !.poisoned = TRUE] /\ next.issue = <<"rollback">>
    BY <1>9 DEF Finalized, Then
  <2>2. /\ next.q \in RequestStates /\ next.q.conn = q.conn
        /\ next.q.pc = q.pc /\ ~next.q.released /\ next.q.fin = q.fin
        /\ next.q.phase = q.phase /\ next.q.reply = q.reply
        /\ next.issue = <<"rollback">>
    BY <1>1, <2>1 DEF RequestStates
  <2>3. <<"rollback">> \in Seq(Ops)
    BY DEF Ops, TxControl
  <2>4. Sends(k1, k2, <<"rollback">>, r)
    BY <1>1, <2>2, <2>3, AfterIssue
  <2>5. /\ k2.holder = k1.holder /\ k2.pending = {} /\ k2.tx = "I"
        /\ k2.broken = k1.broken /\ Len(k2.queue) = 1
        /\ DOMAIN k2.queue = {1} /\ k2.queue[1] = [op |-> "rollback", by |-> r]
    <3>1. Len(k1.queue) = 0
      BY <1>3, EmptySeq
    <3>2. /\ k2.holder = k1.holder /\ k2.tx = k1.tx
          /\ k2.pending = k1.pending /\ k2.broken = k1.broken
          /\ Len(k2.queue) = Len(k1.queue) + 1
          /\ DOMAIN k2.queue = 1..Len(k2.queue)
          /\ k2.queue[Len(k1.queue) + 1] = [op |-> "rollback", by |-> r]
      BY <1>1, <2>4, SendsOne
    <3> QED BY <1>3, <3>1, <3>2
  <2>6. /\ q.fin = "committing" /\ q.pc = "replying" /\ q.phase = "route"
    BY <1>0, <1>2, <1>9 DEF Running, Held, Queued
  <2>7. Op(k2, 1) = "rollback" /\ k2.queue[1].by = r
    BY <2>5 DEF Op
  <2>8. Queued(r, next.q, k2)
    BY <2>2, <2>5, <2>6, <2>7 DEF Queued
  <2>9. Opened(r, next.q, k2)
    BY <2>2, <2>6, <2>7 DEF Opened, HandlerOps, BootstrapOps, RouteOps
  <2>10. Wrote(r, next.q, k2, D2)
    <3>1. \A i \in DOMAIN k2.queue : Op(k2, i) = "rollback"
      BY <2>5, <2>7
    <3> QED BY <1>2, <2>2, <2>5, <2>6, <2>7, <3>1 DEF Wrote, RouteOps
  <2>11. Keeps(r, next.q, k2)
    <3>1. ~AccessOf(r, k2.pending) /\ ~Recording(r, k2)
      BY <2>5, <2>7 DEF Recording, AccessOf
    <3> QED BY <3>1 DEF Keeps
  <2> QED BY <1>1, <1>4, <2>2, <2>4, <2>5, <2>8, <2>9, <2>10, <2>11
          DEF Preserved, Held, Sends, Serving, Running, Ran
<1> QED BY <1>1, <1>6, <1>7, <1>8, <1>9

\* A handler that resumes after its request was finalized issues nothing.
LEMMA ThrowFenced ==
    ASSUME NEW x \in RequestStates, x.fin # "none"
    PROVE  /\ Throw(x).q = [x EXCEPT !.pc = "failing"]
           /\ Throw(x).issue = << >>
BY DEF Throw, Finalize, Then, RequestStates

\* What a fenced handler may do to the state q: it becomes p.
Fenced(q, p, op) ==
    /\ p \in RequestStates
    /\ p.conn = q.conn /\ p.fin = q.fin /\ p.released = q.released
    /\ p.alive = q.alive /\ p.reply = q.reply /\ p.work = q.work
    /\ q.poisoned => p.poisoned
    /\ p.pc # q.pc => q.pc \in HandlerOps /\ p.pc \in {"handler", "failing"}

\* What reaches the handler of a request whose finalization has begun leaves
\* its outcome alone and issues nothing.
LEMMA FencedContinue ==
    ASSUME NEW r, NEW q \in RequestStates, q.fin # "none",
           NEW op \in HandlerOps, NEW ok \in BOOLEAN, NEW accepted \in BOOLEAN,
           NEW next, next = Continue(q, r, op, ok, accepted)
    PROVE  /\ next.issue = << >>
           /\ Fenced(q, next.q, op)
           /\ q.pc = op /\ ~ok /\ op \in TxControl => next.q.poisoned
<1>1. op \notin {"final_commit", "access_commit", "rollback"}
  BY DEF HandlerOps, BootstrapOps, RouteOps
<1>2. CASE q.pc # (IF op = "scope_bootstrap" THEN "record" ELSE op)
  <2>1. next.q = q /\ next.issue = << >> /\ q.pc # op
    BY <1>1, <1>2 DEF Continue, Then, RequestStates, PCs, BootstrapOps,
       RouteOps
  <2> QED BY <2>1 DEF Fenced
<1>3. CASE q.pc = IF op = "scope_bootstrap" THEN "record" ELSE op
  <2>0. q.pc \in HandlerOps
    BY <1>3 DEF HandlerOps, BootstrapOps
  <2>1. ASSUME NEW x \in RequestStates, next = Throw(x),
               x.pc = q.pc, x.conn = q.conn, x.fin = q.fin,
               x.released = q.released, x.alive = q.alive,
               x.reply = q.reply, x.work = q.work,
               q.poisoned => x.poisoned,
               ~ok /\ op \in TxControl => x.poisoned
        PROVE  /\ next.issue = << >>
               /\ Fenced(q, next.q, op)
               /\ ~ok /\ op \in TxControl => next.q.poisoned
    <3>1. next.q = [x EXCEPT !.pc = "failing"] /\ next.issue = << >>
      BY <2>1, ThrowFenced
    <3>2. /\ next.q \in RequestStates /\ next.q.pc = "failing"
          /\ next.q.conn = x.conn /\ next.q.fin = x.fin
          /\ next.q.released = x.released /\ next.q.alive = x.alive
          /\ next.q.reply = x.reply /\ next.q.poisoned = x.poisoned
          /\ next.q.work = x.work
      BY <3>1 DEF RequestStates, PCs
    <3> QED BY <2>0, <2>1, <3>1, <3>2 DEF Fenced
  <2>2. CASE ~ok
    <3> DEFINE x == [q EXCEPT !.poisoned = @ \/ op \in TxControl]
    <3>1. next = Throw(x)
      BY <1>1, <1>3, <2>2 DEF Continue
    <3>2. /\ x \in RequestStates /\ x.pc = q.pc /\ x.conn = q.conn
          /\ x.fin = q.fin /\ x.released = q.released /\ x.alive = q.alive
          /\ x.reply = q.reply /\ x.work = q.work
          /\ q.poisoned => x.poisoned
          /\ op \in TxControl => x.poisoned
      BY DEF RequestStates
    <3> HIDE DEF x
    <3> QED BY <2>1, <3>1, <3>2
  <2>3. CASE ok
    <3>1. next = Answered(q, r, op, accepted)
      BY <1>1, <1>3, <2>3 DEF Continue
    <3>2. CASE op = "resolve" /\ accepted
      <4> DEFINE x == [q EXCEPT !.accessRecordIssued = TRUE]
      <4>1. next = Throw(x)
        BY <3>1, <3>2 DEF Answered, Issue, Live, RequestStates
      <4>2. /\ x \in RequestStates /\ x.pc = q.pc /\ x.conn = q.conn
            /\ x.fin = q.fin /\ x.released = q.released /\ x.alive = q.alive
            /\ x.reply = q.reply /\ x.work = q.work
            /\ q.poisoned => x.poisoned
        BY DEF RequestStates
      <4> HIDE DEF x
      <4> QED BY <2>1, <2>3, <4>1, <4>2
    <3>3. CASE op = "commit_bootstrap"
      <4> DEFINE x == [q EXCEPT !.phase = "none", !.accessRecordIssued = FALSE]
      <4>1. /\ x \in RequestStates /\ x.pc = q.pc /\ x.conn = q.conn
            /\ x.fin = q.fin /\ x.released = q.released /\ x.alive = q.alive
            /\ x.reply = q.reply /\ x.work = q.work
            /\ q.poisoned => x.poisoned
        BY DEF RequestStates
      <4> HIDE DEF x
      <4>2. next = Throw(x)
        <5>1. next = BeginTenantTransaction(x)
          BY <3>1, <3>3 DEF Answered, x
        <5> QED BY <4>1, <5>1 DEF BeginTenantTransaction, Live
      <4> QED BY <2>1, <2>3, <4>1, <4>2
    <3>4. CASE /\ op # "commit_bootstrap"
               /\ ~(op = "resolve" /\ accepted)
      <4>1. \/ next = Throw(q)
            \/ next.q = [q EXCEPT !.pc = "handler"] /\ next.issue = << >>
            \/ next.q = q /\ next.issue = << >>
        <5>1. \A pc, ops : Issue(q, pc, ops) = Throw(q)
          BY DEF Issue, Live
        <5>2. CASE op \in {"begin_bootstrap", "authenticate", "resolve",
                           "record", "begin_route"}
          BY <3>1, <3>4, <5>1, <5>2 DEF Answered, AfterRecord, AfterBegin
        <5>3. CASE op = "scope_route"
          <6>1. next = IF r \in Staff
                       THEN Then([q EXCEPT !.pc = "handler"], << >>)
                       ELSE Issue(q, "membership", <<"membership">>)
            BY <3>1, <5>3 DEF Answered
          <6> QED BY <5>1, <6>1 DEF Then
        <5>4. CASE op = "membership"
          BY <3>1, <5>4 DEF Answered, Then
        <5>5. CASE op = "work"
          BY <3>1, <5>5 DEF Answered, Then
        <5>6. CASE op = "scope_bootstrap"
          BY <3>1, <5>6 DEF Answered, Then
        <5> QED BY <3>4, <5>2, <5>3, <5>5, <5>6, <5>4
                DEF HandlerOps, BootstrapOps, RouteOps
      <4>2. CASE next = Throw(q)
        BY <2>1, <2>3, <4>2
      <4>3. CASE next.q = [q EXCEPT !.pc = "handler"] /\ next.issue = << >>
        <5>1. /\ next.q \in RequestStates /\ next.q.pc = "handler"
              /\ next.q.conn = q.conn /\ next.q.fin = q.fin
              /\ next.q.released = q.released /\ next.q.alive = q.alive
              /\ next.q.reply = q.reply /\ next.q.poisoned = q.poisoned
              /\ next.q.work = q.work
          BY <4>3 DEF RequestStates, PCs
        <5> QED BY <2>0, <2>3, <4>3, <5>1 DEF Fenced
      <4>4. CASE next.q = q /\ next.issue = << >>
        BY <2>3, <4>4 DEF Fenced
      <4> QED BY <4>1, <4>2, <4>3, <4>4
    <3> QED BY <3>2, <3>3, <3>4
  <2> QED BY <2>2, <2>3
<1> QED BY <1>2, <1>3

\* A statement of the handler ends after the finalization has begun.
LEMMA ServeFenced ==
    ASSUME RequestAssumption,
           NEW r, NEW q, NEW k, NEW D, NEW ok, NEW k1, NEW D2,
           Serving(r, q, k, D, ok, k1, D2),
           Op(k, 1) \in HandlerOps, q.fin # "none",
           NEW q2, Fenced(q, q2, Op(k, 1)),
           NEW k2, Sends(k1, k2, << >>, r)
    PROVE  Preserved(r, q, k, D, q2, k2, D2)
<1>0. Queued(r, q, k) /\ Opened(r, q, k) /\ Wrote(r, q, k, D) /\ Keeps(r, q, k)
  BY DEF Serving, Running, Held
<1>1. /\ r \in Requests /\ q \in RequestStates /\ k \in ConnectionStates
      /\ k1 \in ConnectionStates /\ ok \in BOOLEAN
      /\ ~q.released /\ q.pc # "waiting" /\ k.holder = r
      /\ Ran(r, q, k, Op(k, 1), ok, k1)
      /\ ok => ~k.broken /\ (k.tx # "E" \/ Op(k, 1) \in TxControl)
  BY DEF Serving, Running, Ran, Holding, CanSucceed
<1>2. /\ Len(k.queue) \in 1..3 /\ DOMAIN k.queue = 1..Len(k.queue)
      /\ DOMAIN k2.queue = 1..Len(k2.queue)
      /\ Len(k2.queue) = Len(k.queue) - 1
      /\ \A i \in 1..Len(k2.queue) :
            k2.queue[i] = k.queue[i + 1] /\ Op(k2, i) = Op(k, i + 1)
      /\ \A i \in 1..Len(k.queue) : k.queue[i].by = r
  <2>1. /\ Len(k.queue) \in 1..3 /\ DOMAIN k.queue = 1..Len(k.queue)
        /\ Len(k1.queue) = Len(k.queue) - 1
        /\ \A i \in 1..Len(k1.queue) : k1.queue[i] = k.queue[i + 1]
        /\ \A i \in 1..Len(k.queue) : k.queue[i].by = r
    BY ServingQueue
  <2>2. /\ DOMAIN k2.queue = 1..Len(k2.queue)
        /\ Len(k2.queue) = Len(k1.queue)
        /\ \A i \in 1..Len(k1.queue) : k2.queue[i] = k1.queue[i]
    BY <1>1, SendsNothing
  <2> QED BY <2>1, <2>2 DEF Op
<1>3. /\ k2.holder = r /\ k2.tx = k1.tx /\ k2.scope = k1.scope
      /\ k2.pending = k1.pending /\ k2.broken = k.broken
      /\ k2 \in ConnectionStates
  BY <1>1, SendsNothing DEF Sends, Ran
<1>4. D2 \in SUBSET Effects /\ D \subseteq D2 /\ D2 \subseteq D \cup k.pending
  BY ServingQueue
<1>5. /\ q2 \in RequestStates /\ q2.conn = q.conn /\ q2.fin = q.fin
      /\ ~q2.released /\ q2.alive = q.alive /\ q2.reply = q.reply
      /\ q2.pc # q.pc =>
            q.pc \in HandlerOps /\ q2.pc \in {"handler", "failing"}
  BY <1>1 DEF Fenced
<1>6. q.fin = "rolling_back"
  BY <1>0 DEF Queued, HandlerOps, BootstrapOps, RouteOps
<1>7. /\ \/ Len(k.queue) = 2
         \/ /\ Len(k.queue) = 3
            /\ Op(k, 1) = "scope_bootstrap" /\ Op(k, 2) = "record"
      /\ Op(k, Len(k.queue)) \in {"rollback", "access_commit"}
      /\ q.pc \notin {"waiting", "done"}
      /\ q.pc = "failing" \/ ~q.alive
  BY <1>0, <1>2, <1>6 DEF Queued, HandlerOps, BootstrapOps, RouteOps
<1>8. /\ Op(k2, Len(k2.queue)) = Op(k, Len(k.queue))
      /\ \/ Len(k2.queue) = 1
         \/ /\ Len(k2.queue) = 2 /\ Op(k2, 1) = "record"
            /\ Op(k, 1) = "scope_bootstrap"
      /\ k2.queue # << >>
  <2>1. CASE Len(k.queue) = 2
    <3>1. Len(k2.queue) = 1
      BY <1>2, <2>1
    <3>2. Op(k2, 1) = Op(k, 2)
      BY <1>2, <3>1
    <3> QED BY <2>1, <3>1, <3>2, EmptySeq
  <2>2. CASE Len(k.queue) = 3
    <3>1. Len(k2.queue) = 2
      BY <1>2, <2>2
    <3>2. Op(k2, 1) = Op(k, 2) /\ Op(k2, 2) = Op(k, 3)
      BY <1>2, <3>1
    <3> QED BY <1>7, <2>2, <3>1, <3>2, EmptySeq
  <2> QED BY <1>7, <2>1, <2>2
<1>9. Queued(r, q2, k2)
  <2>1. \A i \in DOMAIN k2.queue : k2.queue[i].by = r
    BY <1>2
  <2>2. q2.pc \notin {"waiting", "done"} /\ (q2.pc = "failing" \/ ~q2.alive)
    BY <1>5, <1>7 DEF HandlerOps, BootstrapOps, RouteOps
  <2>3. Op(k2, 1) # "commit_bootstrap"
    BY <1>7, <1>8
  <2>4. q2.fin = "rolling_back"
    BY <1>5, <1>6
  <2>5. \/ Len(k2.queue) = 1
        \/ Len(k2.queue) = 2 /\ Op(k2, 1) \in HandlerOps
    BY <1>8 DEF HandlerOps, BootstrapOps
  <2>6. Op(k2, Len(k2.queue)) \in {"rollback", "access_commit"}
    BY <1>7, <1>8
  <2> QED BY <2>1, <2>2, <2>3, <2>4, <2>5, <2>6 DEF Queued
<1>10. Opened(r, q2, k2)
  <2> SUFFICES ASSUME ~k.broken, Op(k2, 1) \in HandlerOps
               PROVE  /\ k2.tx # "I"
                      /\ k2.tx = "E" \/ k2.scope = TenantOf[r]
    BY <1>3, <1>5, <1>6 DEF Opened, HandlerOps, BootstrapOps, RouteOps
  <2>1. Op(k, 1) = "scope_bootstrap"
    BY <1>7, <1>8 DEF HandlerOps, BootstrapOps, RouteOps
  <2>2. k.tx # "I" /\ k.tx \in {"I", "T", "E"}
    BY <1>0, <1>1, <2>1 DEF Opened, Begins, Serving, ConnectionStates
  <2> QED BY <1>1, <1>3, <2>1, <2>2
          DEF Ran, TxControl, Commits, Begins, ScopeSetters
<1>11. Wrote(r, q2, k2, D2)
  <2>1. \A e \in k2.pending : e \in k.pending \/
          /\ ok /\ Op(k, 1) \in {"record", "work"}
          /\ e.by = r /\ e.scope = k.scope
          /\ e.kind = IF Op(k, 1) = "record" THEN "access" ELSE "work"
    BY <1>1, <1>3 DEF Ran, HandlerOps, BootstrapOps, RouteOps, TxControl,
       Commits, Begins
  <2>2. ok /\ Op(k, 1) \in {"record", "work"} => k.scope = TenantOf[r]
    BY <1>0, <1>1 DEF Opened, Serving, TxControl, Commits, Begins
  <2>3. \A e \in k2.pending : e.by = r /\ e.scope = TenantOf[r]
    BY <1>0, <2>1, <2>2 DEF Wrote
  <2>4. AccessOf(r, D) => AccessOf(r, D2)
    BY <1>4 DEF AccessOf
  <2>5. \A i \in DOMAIN k2.queue : Op(k2, i) \notin RouteOps
    <3>1. \A i \in DOMAIN k2.queue :
              i = Len(k2.queue) \/ Op(k2, i) = "record"
      <4>1. CASE Len(k2.queue) = 1
        BY <1>2, <4>1
      <4>2. CASE Len(k2.queue) = 2 /\ Op(k2, 1) = "record"
        <5>1. DOMAIN k2.queue = {1, 2}
          BY <1>2, <4>2
        <5> QED BY <4>2, <5>1
      <4> QED BY <1>8, <4>1, <4>2
    <3> QED BY <1>7, <1>8, <3>1 DEF RouteOps
  <2>6. r \in Staff /\ (\E e \in k2.pending : e.kind = "work")
          => AccessOf(r, D2)
    <3>1. Op(k, 1) = "work" /\ r \in Staff => AccessOf(r, D)
      BY <1>0, <1>2 DEF Wrote, RouteOps
    <3> QED BY <1>0, <2>1, <2>4, <3>1 DEF Wrote
  <2>7. Op(k2, 1) # "commit_bootstrap"
    BY <1>7, <1>8
  <2> QED BY <1>0, <1>5, <1>6, <2>3, <2>5, <2>6, <2>7 DEF Wrote
<1>12. Keeps(r, q2, k2)
  <2>1. AccessOf(r, k2.pending) =>
            k2.tx = "T" /\ Op(k, Len(k.queue)) = "access_commit"
            /\ Len(k2.queue) = 1
    <3> SUFFICES ASSUME AccessOf(r, k2.pending)
                 PROVE  /\ k2.tx = "T" /\ Op(k, Len(k.queue)) = "access_commit"
                        /\ Len(k2.queue) = 1
      OBVIOUS
    <3>1. CASE AccessOf(r, k.pending)
      <4>1. Op(k, 1) = "commit_bootstrap"
        BY <1>0, <3>1 DEF Keeps, Serving
      <4>2. k2.pending = {}
        BY <1>1, <1>3, <4>1 DEF Ran, Commits
      <4> QED BY <4>2 DEF AccessOf
    <3>2. CASE ~AccessOf(r, k.pending)
      <4>1. ok /\ Op(k, 1) = "record"
        BY <1>1, <1>3, <3>2
        DEF Ran, AccessOf, HandlerOps, BootstrapOps, RouteOps, TxControl,
            Commits, Begins
      <4>2. k.tx # "I" /\ k.tx # "E" /\ k.tx \in {"I", "T", "E"}
        BY <1>0, <1>1, <4>1
        DEF Opened, Serving, TxControl, Commits, Begins, ConnectionStates
      <4>3. k2.tx = "T"
        BY <1>1, <1>3, <4>1, <4>2 DEF Ran, TxControl, Commits, Begins
      <4>4. Op(k, Len(k.queue)) = "access_commit"
        BY <1>0, <1>2, <1>6, <4>1 DEF Keeps, Recording
      <4> QED BY <1>8, <4>1, <4>3, <4>4
    <3> QED BY <3>1, <3>2
  <2>2. (\E i \in DOMAIN k2.queue : Op(k2, i) = "record") =>
            Op(k, Len(k.queue)) = "access_commit"
    <3>1. (\E i \in DOMAIN k2.queue : Op(k2, i) = "record") =>
              \E i \in DOMAIN k.queue : Op(k, i) = "record"
      BY <1>2
    <3> QED BY <1>0, <1>6, <3>1 DEF Keeps, Recording
  <2>3. AccessOf(r, k2.pending) => Op(k2, 1) = "access_commit"
    BY <1>8, <2>1
  <2>4. AccessOf(r, k2.pending) =>
            \A i \in DOMAIN k2.queue : Op(k2, i) # "record"
    BY <1>2, <2>1, <2>3
  <2> QED BY <1>5, <1>6, <1>8, <2>1, <2>2, <2>3, <2>4
          DEF Keeps, Recording, HandlerOps, BootstrapOps, RouteOps
<1> QED BY <1>1, <1>3, <1>4, <1>5, <1>7, <1>9, <1>10, <1>11, <1>12
        DEF Preserved, Held, Queued

\* The connection k of an unfinalized request r with the state q, or what
\* remains of it when the statement that just failed is taken away, is k1.
Remains(r, q, k, k1) ==
    /\ k1 \in ConnectionStates
    /\ k1.holder = r /\ k1.broken = k.broken
    /\ k1.pending \subseteq k.pending
    /\ AccessOf(r, k1.pending) => k1.tx = "T"
    /\ DOMAIN k1.queue = 1..Len(k1.queue)
    /\ \A i \in 1..Len(k1.queue) :
          k1.queue[i].by = r /\ \E j \in DOMAIN k.queue : Op(k, j) = Op(k1, i)
    /\ \/ Len(k1.queue) = 0
       \/ /\ Len(k1.queue) = 1 /\ Op(k1, 1) = q.pc
          /\ q.pc \in BootstrapOps \cup RouteOps
       \/ /\ Len(k1.queue) = 2
          /\ Op(k1, 1) = "scope_bootstrap" /\ Op(k1, 2) = "record"
    /\ ~k.broken /\ Len(k1.queue) > 0 =>
          /\ Op(k1, 1) \notin Begins => k1.tx # "I"
          /\ Op(k1, 1) \in {"record", "membership", "work"} =>
                k1.tx = "E" \/ k1.scope = TenantOf[r]
          /\ r \in Staff /\ Op(k1, 1) = "commit_bootstrap" =>
                k1.tx = "T" /\ AccessOf(r, k1.pending)

\* The rollback that ends an open transaction is sent.
LEMMA RollsBack ==
    ASSUME RequestAssumption,
           NEW r, NEW q, NEW k, NEW D, NEW k1, NEW k2, NEW p,
           Running(r, q, k, D), q.fin = "none", Remains(r, q, k, k1),
           Sends(k1, k2, <<RollbackOp(q)>>, r),
           p \in RequestStates, p.fin = "rolling_back", ~p.released,
           p.pc \notin {"waiting", "done"}, p.pc = "failing" \/ ~p.alive,
           \/ p.pc = q.pc
           \/ p.pc = "failing" /\ (Len(k1.queue) = 0 \/ q.pc = "record"),
           p.conn = q.conn, p.reply = q.reply
    PROVE  Preserved(r, q, k, D, p, k2, D)
<1>0. /\ Queued(r, q, k) /\ Opened(r, q, k) /\ Wrote(r, q, k, D)
      /\ Keeps(r, q, k) /\ r \in Requests /\ D \in SUBSET Effects
  BY DEF Running, Held
<1>1. RollbackOp(q) \in {"rollback", "access_commit"}
  BY DEF RollbackOp
<1> DEFINE n == Len(k1.queue)
<1>2. /\ k2.holder = r /\ k2.tx = k1.tx /\ k2.scope = k1.scope
      /\ k2.pending = k1.pending /\ k2.broken = k.broken
      /\ n \in 0..2 /\ Len(k2.queue) = n + 1
      /\ DOMAIN k2.queue = 1..(n + 1)
      /\ \A i \in 1..n : k2.queue[i] = k1.queue[i]
      /\ k2.queue[n + 1] = [op |-> RollbackOp(q), by |-> r]
      /\ k2 \in ConnectionStates
  BY <1>0, SendsOne DEF Remains, Sends
<1>3. /\ \A i \in 1..n : Op(k2, i) = Op(k1, i)
      /\ Op(k2, n + 1) = RollbackOp(q)
      /\ \A i \in 1..(n + 1) : k2.queue[i].by = r
      /\ k2.queue # << >>
  <2>1. \A i \in 1..n : Op(k2, i) = Op(k1, i)
    BY <1>2 DEF Op
  <2>2. Op(k2, n + 1) = RollbackOp(q) /\ k2.queue[n + 1].by = r
    BY <1>2 DEF Op
  <2>3. \A i \in 1..n : k2.queue[i].by = r
    BY <1>2 DEF Remains
  <2>4. \A i \in 1..(n + 1) : i = n + 1 \/ i \in 1..n
    BY <1>2
  <2>5. k2.queue # << >>
    BY <1>2, EmptySeq
  <2> QED BY <2>1, <2>2, <2>3, <2>4, <2>5
<1>4. \/ n = 0
      \/ /\ n = 1 /\ Op(k2, 1) = q.pc /\ q.pc \in BootstrapOps \cup RouteOps
      \/ n = 2 /\ Op(k2, 1) = "scope_bootstrap" /\ Op(k2, 2) = "record"
  <2>1. CASE n = 0
    BY <2>1
  <2>2. CASE n = 1
    <3>1. Op(k2, 1) = Op(k1, 1)
      BY <1>3, <2>2
    <3> QED BY <2>2, <3>1 DEF Remains
  <2>3. CASE n = 2
    <3>1. Op(k2, 1) = Op(k1, 1) /\ Op(k2, 2) = Op(k1, 2)
      BY <1>3, <2>3
    <3> QED BY <2>3, <3>1 DEF Remains
  <2>4. n \in {0, 1, 2}
    BY <1>2
  <2> QED BY <2>1, <2>2, <2>3, <2>4
<1>5. Queued(r, p, k2)
  <2>1. n = 0 => Op(k2, 1) \in {"rollback", "access_commit"}
    BY <1>1, <1>3
  <2>2. Op(k2, 1) = "commit_bootstrap" => p.pc = "commit_bootstrap"
    BY <1>2, <1>4, <2>1
  <2>3. \/ Len(k2.queue) = 1
        \/ Len(k2.queue) = 2 /\ Op(k2, 1) \in HandlerOps
        \/ /\ Len(k2.queue) = 3
           /\ Op(k2, 1) = "scope_bootstrap" /\ Op(k2, 2) = "record"
    <3>1. q.pc \in BootstrapOps \cup RouteOps => q.pc \in HandlerOps
      BY DEF HandlerOps
    <3>2. /\ n = 0 => Len(k2.queue) = 1
          /\ n = 1 => Len(k2.queue) = 2
          /\ n = 2 => Len(k2.queue) = 3
      <4>1. n \in 0..2 /\ Len(k2.queue) = n + 1
        BY <1>2
      <4>2. \A a \in 0..2 : /\ a = 0 => a + 1 = 1
                            /\ a = 1 => a + 1 = 2
                            /\ a = 2 => a + 1 = 3
        OBVIOUS
      <4> HIDE DEF n
      <4> QED BY <4>1, <4>2
    <3> QED BY <1>4, <3>1, <3>2
  <2>4. Op(k2, Len(k2.queue)) = RollbackOp(q)
    BY <1>2, <1>3
  <2>5. \A i \in DOMAIN k2.queue : k2.queue[i].by = r
    BY <1>2, <1>3
  <2> QED BY <1>1, <2>2, <2>3, <2>4, <2>5 DEF Queued
<1>6. Opened(r, p, k2)
  <2>1. ~k.broken /\ n > 0 =>
          /\ Op(k2, 1) \notin Begins => k2.tx # "I"
          /\ Op(k2, 1) \in {"record", "membership", "work"} =>
                k2.tx = "E" \/ k2.scope = TenantOf[r]
    BY <1>2, <1>3 DEF Remains
  <2>2. n = 0 => Op(k2, 1) \in {"rollback", "access_commit"}
    BY <1>1, <1>3
  <2>3. n > 0 \/ n = 0
    BY <1>2
  <2> QED BY <1>2, <2>1, <2>2, <2>3
          DEF Opened, HandlerOps, BootstrapOps, RouteOps
<1>7. Wrote(r, p, k2, D)
  <2>1. (\E i \in DOMAIN k2.queue : Op(k2, i) \in RouteOps)
          => \E j \in DOMAIN k.queue : Op(k, j) \in RouteOps
    <3>1. \A i \in 1..(n + 1) : i \in 1..n \/ i = n + 1
      BY <1>2
    <3> QED BY <1>1, <1>2, <1>3, <3>1 DEF Remains, RouteOps
  <2>2. r \in Staff /\ ~k2.broken /\ Op(k2, 1) = "commit_bootstrap" =>
            k2.tx = "T" /\ AccessOf(r, k2.pending)
    <3>1. n = 0 => Op(k2, 1) \in {"rollback", "access_commit"}
      BY <1>1, <1>3
    <3>2. n > 0 \/ n = 0
      BY <1>2
    <3> QED BY <1>2, <1>3, <3>1, <3>2 DEF Remains
  <2>3. \A e \in k2.pending : e \in k.pending
    BY <1>2 DEF Remains
  <2> QED BY <1>0, <2>1, <2>2, <2>3 DEF Wrote
<1>8. Keeps(r, p, k2)
  <2>1. AccessOf(r, k2.pending) => AccessOf(r, k.pending)
    BY <1>2 DEF AccessOf, Remains
  <2>2. (\E i \in DOMAIN k2.queue : Op(k2, i) = "record")
          => \E j \in DOMAIN k.queue : Op(k, j) = "record"
    <3>1. \A i \in 1..(n + 1) : i \in 1..n \/ i = n + 1
      BY <1>2
    <3> QED BY <1>1, <1>2, <1>3, <3>1 DEF Remains
  <2>3. Recording(r, k2) => Recording(r, k)
    BY <2>1, <2>2 DEF Recording
  <2>4. Recording(r, k) => RollbackOp(q) = "access_commit"
    BY <1>0 DEF Keeps, Queued, RollbackOp, BootstrapOps
  <2>5. AccessOf(r, k2.pending) =>
            /\ k2.tx = "T"
            /\ \A i \in DOMAIN k2.queue : Op(k2, i) # "record"
            /\ Op(k2, 1) \in HandlerOps => Op(k2, 1) = "commit_bootstrap"
    <3> SUFFICES ASSUME AccessOf(r, k2.pending)
                 PROVE  /\ k2.tx = "T"
                        /\ \A i \in DOMAIN k2.queue : Op(k2, i) # "record"
                        /\ Op(k2, 1) \in HandlerOps =>
                              Op(k2, 1) = "commit_bootstrap"
      OBVIOUS
    <3>1. /\ \A i \in DOMAIN k.queue : Op(k, i) # "record"
          /\ q.pc \in {"record", "commit_bootstrap"}
      BY <1>0, <2>1 DEF Keeps, Recording
    <3>2. q.pc = "commit_bootstrap"
      BY <1>0, <3>1 DEF Queued, BootstrapOps, Running, ConnectionStates
    <3>3. k2.tx = "T"
      BY <1>2 DEF Remains
    <3>4. \A i \in DOMAIN k2.queue : Op(k2, i) # "record"
      BY <2>2, <3>1
    <3>5. Op(k2, 1) \in HandlerOps => Op(k2, 1) = "commit_bootstrap"
      <4>1. n = 0 => Op(k2, 1) \in {"rollback", "access_commit"}
        BY <1>1, <1>3
      <4>2. n # 2
        <5>1. n = 2 => 2 \in DOMAIN k2.queue
          BY <1>2
        <5>2. n = 2 => Op(k2, 2) = "record"
          BY <1>4
        <5> QED BY <3>4, <5>1, <5>2
      <4> QED BY <1>4, <3>2, <4>1, <4>2 DEF HandlerOps, BootstrapOps, RouteOps
    <3> QED BY <3>3, <3>4, <3>5
  <2> QED BY <1>2, <1>3, <2>3, <2>4, <2>5 DEF Keeps
<1> QED BY <1>0, <1>2, <1>5, <1>6, <1>7, <1>8 DEF Preserved, Held

\* Remains holds of a connection on which nothing was executed.
LEMMA RemainsItself ==
    ASSUME NEW r, NEW q, NEW k, NEW D, Running(r, q, k, D), q.fin = "none"
    PROVE  Remains(r, q, k, k)
<1>1. /\ Queued(r, q, k) /\ Opened(r, q, k) /\ Wrote(r, q, k, D)
      /\ Keeps(r, q, k) /\ k \in ConnectionStates /\ k.holder = r
  BY DEF Running, Held
<1>2. DOMAIN k.queue = 1..Len(k.queue) /\ Len(k.queue) \in Nat
  BY <1>1, LenProperties DEF ConnectionStates
<1>3. \/ Len(k.queue) = 0
      \/ /\ Len(k.queue) = 1 /\ Op(k, 1) = q.pc
         /\ q.pc \in BootstrapOps \cup RouteOps
      \/ /\ Len(k.queue) = 2 /\ q.pc = "record"
         /\ Op(k, 1) = "scope_bootstrap" /\ Op(k, 2) = "record"
  BY <1>1 DEF Queued
<1>4. Len(k.queue) > 0 => k.queue # << >>
  BY EmptySeq
<1>5. ASSUME ~k.broken, Len(k.queue) > 0
      PROVE  /\ Op(k, 1) \notin Begins => k.tx # "I"
             /\ Op(k, 1) \in {"record", "membership", "work"} =>
                   k.tx = "E" \/ k.scope = TenantOf[r]
             /\ r \in Staff /\ Op(k, 1) = "commit_bootstrap" =>
                   k.tx = "T" /\ AccessOf(r, k.pending)
  <2>1. Op(k, 1) \in HandlerOps
    BY <1>3, <1>5 DEF HandlerOps
  <2> QED BY <1>1, <1>4, <1>5, <2>1 DEF Opened, Wrote
<1> QED BY <1>1, <1>2, <1>3, <1>5 DEF Remains, Queued, Keeps

\* An error of the handler of an open request begins the rollback ...
LEMMA ThrowOpen ==
    ASSUME NEW x \in RequestStates, x.fin = "none",
           x.phase \in {"bootstrap", "route"}
    PROVE  /\ Throw(x).q = [x EXCEPT !.pc = "failing", !.fin = "rolling_back"]
           /\ Throw(x).issue = <<RollbackOp(x)>>
<1> DEFINE y == [x EXCEPT !.pc = "failing"]
<1>1. /\ y.fin = "none" /\ y.phase = x.phase
      /\ y.accessRecordIssued = x.accessRecordIssued
  BY DEF RequestStates
<1>2. Throw(x) = Finalize(y, "rollback")
  BY DEF Throw
<1> HIDE DEF y
<1>3. Throw(x) = Then([y EXCEPT !.fin = "rolling_back"], <<RollbackOp(y)>>)
  BY <1>1, <1>2 DEF Finalize
<1>4. RollbackOp(y) = RollbackOp(x)
  BY <1>1 DEF RollbackOp
<1> QED BY <1>3, <1>4 DEF Then, y

\* Two states of a request that differ in poisoned at most.
SameButPoisoned(q, x) ==
    /\ x \in RequestStates
    /\ x.pc = q.pc /\ x.conn = q.conn /\ x.phase = q.phase /\ x.fin = q.fin
    /\ x.accessRecordIssued = q.accessRecordIssued
    /\ x.released = q.released /\ x.alive = q.alive /\ x.reply = q.reply
    /\ x.work = q.work

\* A handler whose connection has become k1 throws.
LEMMA ThrowsFrom ==
    ASSUME RequestAssumption,
           NEW r, NEW q, NEW k, NEW D, NEW k1, NEW k2, NEW x, NEW next,
           Running(r, q, k, D), q.fin = "none", Remains(r, q, k, k1),
           Len(k1.queue) = 0 \/ q.pc = "record",
           SameButPoisoned(q, x),
           next = Throw(x), k2 = After(k1, r, q, next)
    PROVE  Preserved(r, q, k, D, next.q, k2, D)
<1>1. /\ r \in Requests /\ q \in RequestStates /\ k1 \in ConnectionStates
      /\ ~q.released /\ q.phase \in {"bootstrap", "route"}
  BY DEF Running, Held, Holding, Queued, Remains
<1>2. next.issue = <<RollbackOp(x)>> /\ RollbackOp(x) = RollbackOp(q)
      /\ next.q = [x EXCEPT !.pc = "failing", !.fin = "rolling_back"]
  BY <1>1, ThrowOpen DEF SameButPoisoned, RollbackOp
<1>3. /\ next.q \in RequestStates /\ next.q.fin = "rolling_back"
      /\ ~next.q.released /\ next.q.pc = "failing"
      /\ next.q.conn = q.conn /\ next.q.reply = q.reply
  <2>1. /\ x \in RequestStates /\ x.conn = q.conn
        /\ x.released = q.released /\ x.reply = q.reply
    BY <1>1 DEF SameButPoisoned
  <2> DEFINE y == [x EXCEPT !.pc = "failing", !.fin = "rolling_back"]
  <2>2. /\ y \in RequestStates /\ y.fin = "rolling_back"
        /\ y.released = x.released /\ y.pc = "failing"
        /\ y.conn = x.conn /\ y.reply = x.reply
    BY <2>1 DEF RequestStates, PCs
  <2>3. next.q = y
    BY <1>2
  <2> HIDE DEF y
  <2> QED BY <1>1, <2>1, <2>2, <2>3
<1>4. <<RollbackOp(q)>> \in Seq(Ops)
  BY DEF RollbackOp, Ops, TxControl, Commits
<1>5. Sends(k1, k2, <<RollbackOp(q)>>, r)
  BY <1>1, <1>2, <1>3, <1>4, AfterIssue
<1> QED BY <1>3, <1>5, RollsBack

\* A statement of the handler fails, or its answer is not accepted.
LEMMA ServeThrows ==
    ASSUME RequestAssumption,
           NEW r, NEW q, NEW k, NEW D, NEW ok, NEW k1, NEW D2,
           Serving(r, q, k, D, ok, k1, D2), q.fin = "none",
           ~ok \/ Op(k, 1) \in {"authenticate", "resolve", "membership"},
           NEW x, SameButPoisoned(q, x),
           NEW next, next = Throw(x),
           NEW k2, k2 = After(k1, r, q, next)
    PROVE  Preserved(r, q, k, D, next.q, k2, D2)
<1>0. /\ Queued(r, q, k) /\ Opened(r, q, k) /\ Wrote(r, q, k, D)
      /\ Keeps(r, q, k) /\ Running(r, q, k, D)
  BY DEF Serving, Running, Held
<1>1. D2 = D
  BY DEF Serving, Commits
<1>2. /\ Ran(r, q, k, Op(k, 1), ok, k1) /\ k.holder = r
      /\ k.queue # << >> /\ k.tx \in {"I", "T", "E"}
  BY DEF Serving, Running, ConnectionStates
<1>3. /\ Len(k.queue) \in 1..3 /\ DOMAIN k.queue = 1..Len(k.queue)
      /\ DOMAIN k1.queue = 1..Len(k1.queue)
      /\ Len(k1.queue) = Len(k.queue) - 1
      /\ \A i \in 1..Len(k1.queue) : k1.queue[i] = k.queue[i + 1]
      /\ \A i \in 1..Len(k.queue) : k.queue[i].by = r
  BY ServingQueue
<1>4. \/ /\ Len(k1.queue) = 0
         /\ Op(k, 1) = q.pc /\ q.pc \in BootstrapOps \cup RouteOps
      \/ /\ Len(k1.queue) = 1 /\ q.pc = "record" /\ Op(k1, 1) = "record"
         /\ Op(k, 1) = "scope_bootstrap"
  <2>1. CASE Len(k.queue) = 1
    BY <1>0, <1>3, <2>1 DEF Queued
  <2>2. CASE Len(k.queue) = 2
    <3>1. Len(k1.queue) = 1
      BY <1>3, <2>2
    <3>2. Op(k1, 1) = Op(k, 2)
      BY <1>3, <3>1 DEF Op
    <3> QED BY <1>0, <2>2, <3>1, <3>2 DEF Queued
  <2>3. Len(k.queue) \in {0, 1, 2}
    BY <1>0 DEF Queued
  <2>4. Len(k.queue) # 0
    BY <1>3
  <2> QED BY <2>1, <2>2, <2>3, <2>4
<1>5. Op(k, 1) \in HandlerOps
  BY <1>4 DEF HandlerOps
<1>6. k1.pending \subseteq k.pending
  BY <1>2, <1>5
  DEF Ran, HandlerOps, BootstrapOps, RouteOps, TxControl, Commits, Begins
<1>7. ~AccessOf(r, k1.pending)
  <2>1. AccessOf(r, k.pending) => Op(k, 1) = "commit_bootstrap"
    BY <1>0, <1>2, <1>5 DEF Keeps
  <2>2. Op(k, 1) = "commit_bootstrap" => k1.pending = {}
    BY <1>2 DEF Ran, Commits
  <2> QED BY <1>6, <2>1, <2>2 DEF AccessOf
<1>8. ASSUME ~k.broken, Len(k1.queue) > 0
      PROVE  k1.tx = "E" /\ Op(k1, 1) = "record"
  <2>1. ~ok /\ Op(k, 1) = "scope_bootstrap" /\ q.pc = "record"
    BY <1>4, <1>8
  <2>2. k.tx = "T"
    BY <1>0, <1>8, <2>1 DEF Opened, Begins
  <2> QED BY <1>2, <1>4, <1>8, <2>1, <2>2 DEF Ran, TxControl, Commits, Begins
<1>9. \A i \in 1..Len(k1.queue) :
          /\ k1.queue[i].by = r
          /\ \E j \in DOMAIN k.queue : Op(k, j) = Op(k1, i)
  <2> SUFFICES ASSUME NEW i \in 1..Len(k1.queue)
               PROVE  /\ k1.queue[i].by = r
                      /\ \E j \in DOMAIN k.queue : Op(k, j) = Op(k1, i)
    OBVIOUS
  <2>1. i + 1 \in 1..Len(k.queue) /\ k1.queue[i] = k.queue[i + 1]
    BY <1>3
  <2> QED BY <1>3, <2>1 DEF Op
<1>10. Remains(r, q, k, k1)
  <2>1. "record" \in BootstrapOps
    BY DEF BootstrapOps
  <2> QED BY <1>2, <1>3, <1>4, <1>6, <1>7, <1>8, <1>9, <2>1
          DEF Remains, Ran
<1>11. Len(k1.queue) = 0 \/ q.pc = "record"
  BY <1>4
<1> QED BY <1>0, <1>1, <1>10, <1>11, ThrowsFrom

\* The state p of a request whose connection is k1 and has nothing queued, when
\* it goes on to its next statement or waits for the route to issue one.
GoesOn(r, p, k1, D) ==
    /\ p \in RequestStates /\ k1 \in ConnectionStates
    /\ k1.holder = r /\ Len(k1.queue) = 0
    /\ p.fin = "none" /\ ~p.released /\ p.reply = "none"
    /\ p.pc \in (BootstrapOps \cup RouteOps \cup {"handler"}) \ {"record"}
    /\ p.phase = IF p.pc \in BootstrapOps THEN "bootstrap" ELSE "route"
    /\ ~k1.broken =>
          /\ p.pc \notin Begins => k1.tx = "T"
          /\ p.pc \in {"membership", "work", "handler"} =>
                k1.scope = TenantOf[r]
          /\ r \in Staff /\ p.pc = "commit_bootstrap" =>
                AccessOf(r, k1.pending)
          /\ p.pc = "handler" => WorkOf(r, p.work, k1.pending)
          /\ p.pc = "work" => p.work > 0 /\ WorkOf(r, p.work - 1, k1.pending)
    /\ p.pc \notin {"handler", "work"} => p.work = 0
    /\ \A e \in k1.pending : e.by = r /\ e.scope = TenantOf[r]
    /\ r \in Staff /\ (\/ p.pc \in RouteOps \cup {"handler"}
                       \/ \E e \in k1.pending : e.kind = "work")
          => AccessOf(r, D)
    /\ AccessOf(r, k1.pending) =>
          p.pc = "commit_bootstrap" /\ p.accessRecordIssued /\ k1.tx = "T"

\* The pair after an answer the handler accepts, with the next statement.
LEMMA GoingOn ==
    ASSUME NEW r \in Requests, NEW p, NEW k1, NEW k2, NEW D,
           GoesOn(r, p, k1, D),
           NEW ops, Sends(k1, k2, ops, r),
           ops = IF p.pc = "handler" THEN << >> ELSE <<p.pc>>
    PROVE  k2 \in ConnectionStates /\ k2.holder = r /\ Held(r, p, k2, D)
<1>1. CASE p.pc # "handler"
  <2>1. /\ k2.holder = r /\ k2.tx = k1.tx /\ k2.scope = k1.scope
        /\ k2.pending = k1.pending /\ k2.broken = k1.broken
        /\ Len(k2.queue) = 1 /\ DOMAIN k2.queue = {1}
        /\ k2.queue[1] = [op |-> p.pc, by |-> r]
        /\ k2 \in ConnectionStates
    <3>1. /\ k2.holder = k1.holder /\ k2.tx = k1.tx /\ k2.scope = k1.scope
          /\ k2.pending = k1.pending /\ k2.broken = k1.broken
          /\ Len(k2.queue) = Len(k1.queue) + 1
          /\ DOMAIN k2.queue = 1..Len(k2.queue)
          /\ k2.queue[Len(k1.queue) + 1] = [op |-> p.pc, by |-> r]
      <4>1. k1 \in ConnectionStates /\ Sends(k1, k2, <<p.pc>>, r)
        BY <1>1 DEF GoesOn
      <4> QED BY <4>1, SendsOne
    <3>2. k2 \in ConnectionStates /\ k1.holder = r /\ Len(k1.queue) = 0
      BY <1>1 DEF GoesOn, Sends
    <3> QED BY <3>1, <3>2
  <2>2. Op(k2, 1) = p.pc /\ k2.queue[1].by = r /\ k2.queue # << >>
    BY <2>1, EmptySeq DEF Op
  <2>3. p.pc \in BootstrapOps \cup RouteOps /\ p.pc # "record"
    BY <1>1 DEF GoesOn
  <2>4. Queued(r, p, k2)
    BY <2>1, <2>2, <2>3 DEF GoesOn, Queued
  <2>5. Opened(r, p, k2)
    BY <1>1, <2>1, <2>2, <2>3
    DEF GoesOn, Opened, HandlerOps, Begins
  <2>6. Wrote(r, p, k2, D)
    BY <1>1, <2>1, <2>2 DEF GoesOn, Wrote, Begins
  <2>7. Keeps(r, p, k2)
    BY <2>1, <2>2, <2>3 DEF GoesOn, Keeps, Recording
  <2> QED BY <2>1, <2>4, <2>5, <2>6, <2>7 DEF Held
<1>2. CASE p.pc = "handler"
  <2>1. /\ k2.holder = r /\ k2.tx = k1.tx /\ k2.scope = k1.scope
        /\ k2.pending = k1.pending /\ k2.broken = k1.broken
        /\ Len(k2.queue) = 0 /\ DOMAIN k2.queue = {}
        /\ k2 \in ConnectionStates
    BY <1>2, SendsNothing DEF GoesOn, Sends
  <2>2. k2.queue = << >>
    BY <2>1, EmptySeq DEF ConnectionStates
  <2>3. Queued(r, p, k2)
    BY <1>2, <2>1 DEF GoesOn, Queued, BootstrapOps
  <2>4. Opened(r, p, k2)
    BY <1>2, <2>1, <2>2 DEF GoesOn, Opened, Begins
  <2>5. Wrote(r, p, k2, D)
    BY <1>2, <2>1, <2>2 DEF GoesOn, Wrote, RouteOps
  <2>6. Keeps(r, p, k2)
    BY <1>2, <2>1, <2>2 DEF GoesOn, Keeps, Recording
  <2> QED BY <2>1, <2>3, <2>4, <2>5, <2>6 DEF Held
<1> QED BY <1>1, <1>2

\* What Ran says of a statement that succeeds.
RanWell(r, q, k, op, k1) ==
    /\ op \in Commits =>
          k1.tx = "I" /\ k1.scope = NoScope /\ k1.pending = {}
    /\ op \in Begins =>
          k1.tx = "T" /\ k1.scope = k.scope /\ k1.pending = k.pending
    /\ op \notin TxControl =>
          /\ k1.tx = k.tx
          /\ k1.scope = IF op \in ScopeSetters THEN TenantOf[r] ELSE k.scope
          /\ k1.pending = k.pending \cup
                (IF op = "record"
                 THEN {[kind |-> "access", by |-> r, n |-> 0,
                        scope |-> k.scope]}
                 ELSE IF op = "work"
                 THEN {[kind |-> "work", by |-> r, n |-> q.work,
                        scope |-> k.scope]}
                 ELSE {})

\* The handler goes on with its work.
WellAnswered(op, ok, accepted) ==
    ok /\ (accepted \/ op \notin {"authenticate", "resolve", "membership"})

\* A statement of the handler is answered, and the handler accepts the answer.
LEMMA ServeAnswered ==
    ASSUME RequestAssumption,
           NEW r, NEW q, NEW k, NEW D, NEW ok, NEW k1, NEW D2,
           Serving(r, q, k, D, ok, k1, D2), q.fin = "none",
           Op(k, 1) \notin {"scope_bootstrap", "resolve"},
           NEW accepted, WellAnswered(Op(k, 1), ok, accepted),
           NEW next, next = Answered(q, r, Op(k, 1), accepted),
           NEW k2, k2 = After(k1, r, q, next)
    PROVE  Preserved(r, q, k, D, next.q, k2, D2)
<1> DEFINE op == Op(k, 1)
<1>1. /\ Queued(r, q, k) /\ Opened(r, q, k) /\ Wrote(r, q, k, D)
      /\ Keeps(r, q, k)
  BY DEF Serving, Running, Held
<1>2. /\ r \in Requests /\ q \in RequestStates /\ k \in ConnectionStates
      /\ k1 \in ConnectionStates /\ ~q.released /\ q.pc # "waiting"
      /\ k.holder = r /\ k1.holder = r /\ ~k.broken /\ ~k1.broken
      /\ k.tx # "E" \/ op \in TxControl
      /\ q.reply = "none" /\ k.queue # << >> /\ q.work \in Nat
      /\ k.tx \in {"I", "T", "E"}
      /\ D2 = IF op \in Commits /\ k.tx = "T" THEN D \cup k.pending ELSE D
  BY <1>1 DEF Serving, Running, Ran, Holding, CanSucceed, Wrote, RequestStates,
     ConnectionStates, WellAnswered
<1>3. RanWell(r, q, k, op, k1)
  BY DEF Serving, Ran, RanWell, WellAnswered
<1>4. /\ Len(k1.queue) = 0 /\ q.pc = op /\ op \in BootstrapOps \cup RouteOps
      /\ op \in HandlerOps
  <2>1. Len(k.queue) = 1 /\ q.pc = op /\ op \in BootstrapOps \cup RouteOps
    BY <1>1, ServingQueue DEF Queued
  <2> QED BY <2>1, ServingQueue DEF HandlerOps
<1>5. D2 \in SUBSET Effects /\ D \subseteq D2 /\ D2 \subseteq D \cup k.pending
  BY ServingQueue
<1>6. ASSUME NEW ops \in Seq(Ops), next.issue = ops, next.q.conn = q.conn,
             GoesOn(r, next.q, k1, D2),
             ops = IF next.q.pc = "handler" THEN << >> ELSE <<next.q.pc>>
      PROVE  Preserved(r, q, k, D, next.q, k2, D2)
  <2>1. /\ ~next.q.released /\ next.q \in RequestStates
        /\ next.q.pc # "waiting"
    BY <1>6 DEF GoesOn, BootstrapOps, RouteOps
  <2>2. Sends(k1, k2, ops, r)
    BY <1>2, <1>6, <2>1, AfterIssue
  <2>3. k2 \in ConnectionStates /\ k2.holder = r /\ Held(r, next.q, k2, D2)
    <3> DEFINE p == next.q
    <3>1. r \in Requests
      BY <1>2
    <3>2. GoesOn(r, p, k1, D2)
      BY <1>6
    <3>3. ops = IF p.pc = "handler" THEN << >> ELSE <<p.pc>>
      BY <1>6
    <3> HIDE DEF p
    <3>4. k2 \in ConnectionStates /\ k2.holder = r /\ Held(r, p, k2, D2)
      BY ONLY <3>1, <3>2, <3>3, <2>2, GoingOn
    <3> QED BY <3>4 DEF p
  <2> QED BY <1>5, <1>6, <2>1, <2>3 DEF Preserved
<1>7. \A x, pc, ops : x.fin = "none" /\ ~x.released =>
          Issue(x, pc, ops) = Then([x EXCEPT !.pc = pc], ops)
  BY DEF Issue, Live
<1>8. \A o \in Ops : <<o>> \in Seq(Ops)
  OBVIOUS
<1>9. << >> \in Seq(Ops)
  BY EmptySeq
\* The statements before the route's.
<1>10. op \in {"begin_bootstrap", "authenticate"} =>
          /\ k1.tx = "T" /\ k1.pending = k.pending /\ D2 = D
          /\ ~AccessOf(r, k.pending) /\ q.work = 0
          /\ ~(r \in Staff /\ \E e \in k.pending : e.kind = "work")
             \/ AccessOf(r, D)
  BY <1>3, <1>1, <1>2, <1>4
  DEF RanWell, TxControl, Commits, Begins, Serving, Opened, Keeps, Wrote
<1>11. CASE op = "begin_bootstrap"
  <2>1. /\ next.q = [q EXCEPT !.pc = "authenticate"]
        /\ next.issue = <<"authenticate">>
    <3>1. next = Issue(q, "authenticate", <<"authenticate">>)
      BY <1>11 DEF Answered
    <3> QED BY <1>2, <1>7, <3>1 DEF Then
  <2>2. /\ next.q \in RequestStates /\ next.q.pc = "authenticate"
        /\ next.q.conn = q.conn /\ next.q.fin = "none" /\ ~next.q.released
        /\ next.q.reply = "none" /\ next.q.phase = q.phase
        /\ next.q.work = q.work
    BY <1>2, <2>1 DEF RequestStates, PCs, BootstrapOps
  <2>3. q.phase = "bootstrap"
    BY <1>1, <1>4, <1>11 DEF Queued, BootstrapOps
  <2>4. GoesOn(r, next.q, k1, D2)
    BY <1>1, <1>2, <1>4, <1>10, <1>11, <2>2, <2>3
    DEF GoesOn, Wrote, BootstrapOps, RouteOps, Begins
  <2> QED BY <1>6, <1>8, <2>1, <2>2, <2>4 DEF Ops
<1>12. CASE op = "authenticate"
  <2> DEFINE pc == IF r \in Staff THEN "resolve" ELSE "commit_bootstrap"
  <2>1. next.q = [q EXCEPT !.pc = pc] /\ next.issue = <<pc>>
    BY <1>2, <1>7, <1>12 DEF Answered, Then, WellAnswered
  <2>2. /\ next.q \in RequestStates /\ next.q.pc = pc
        /\ next.q.conn = q.conn /\ next.q.fin = "none" /\ ~next.q.released
        /\ next.q.reply = "none" /\ next.q.phase = q.phase
        /\ next.q.work = q.work
    BY <1>2, <2>1 DEF RequestStates, PCs, BootstrapOps
  <2>3. q.phase = "bootstrap"
    BY <1>1, <1>4, <1>12 DEF Queued, BootstrapOps
  <2>4. GoesOn(r, next.q, k1, D2)
    BY <1>1, <1>2, <1>4, <1>10, <1>12, <2>2, <2>3
    DEF GoesOn, Wrote, BootstrapOps, RouteOps, Begins
  <2> QED BY <1>6, <1>8, <2>1, <2>2, <2>4 DEF Ops, TxControl, Commits
<1>13. CASE op = "record"
  <2>1. /\ next.q = [q EXCEPT !.pc = "commit_bootstrap"]
        /\ next.issue = <<"commit_bootstrap">>
    BY <1>2, <1>7, <1>13 DEF Answered, AfterRecord, Then
  <2>2. /\ next.q \in RequestStates /\ next.q.pc = "commit_bootstrap"
        /\ next.q.conn = q.conn /\ next.q.fin = "none" /\ ~next.q.released
        /\ next.q.reply = "none" /\ next.q.phase = q.phase
        /\ next.q.work = q.work
        /\ next.q.accessRecordIssued = q.accessRecordIssued
    BY <1>2, <2>1 DEF RequestStates, PCs, BootstrapOps
  <2>3. q.phase = "bootstrap" /\ q.work = 0 /\ D2 = D
    BY <1>1, <1>2, <1>4, <1>13 DEF Queued, Wrote, BootstrapOps, Commits
  <2>4. q.accessRecordIssued
    <3>1. 1 \in DOMAIN k.queue
      BY ServingQueue
    <3> QED BY <1>1, <1>13, <3>1 DEF Keeps, Recording
  <2>5. k1.tx = "T" /\ k.scope = TenantOf[r]
    BY <1>3, <1>1, <1>2, <1>4, <1>13
    DEF Opened, RanWell, TxControl, Commits, Begins
  <2> DEFINE rec == [kind |-> "access", by |-> r, n |-> 0, scope |-> k.scope]
  <2>6. k1.pending = k.pending \cup {rec}
    BY <1>3, <1>2, <1>13 DEF RanWell, TxControl, Commits, Begins
  <2>7. rec.kind = "access" /\ rec.by = r /\ rec.scope = TenantOf[r]
    BY <2>5
  <2> HIDE DEF rec
  <2>8. AccessOf(r, k1.pending)
    BY <2>6, <2>7 DEF AccessOf
  <2>9. /\ \A e \in k1.pending : e.by = r /\ e.scope = TenantOf[r]
        /\ r \in Staff /\ (\E e \in k1.pending : e.kind = "work")
              => AccessOf(r, D)
    BY <1>1, <2>6, <2>7 DEF Wrote
  <2>10. GoesOn(r, next.q, k1, D2)
    BY <1>2, <1>4, <2>2, <2>3, <2>4, <2>5, <2>8, <2>9
    DEF GoesOn, BootstrapOps, RouteOps, Begins
  <2> QED BY <1>6, <1>8, <2>1, <2>2, <2>10 DEF Ops, TxControl, Commits
<1>14. CASE op = "commit_bootstrap"
  <2> DEFINE x == [q EXCEPT !.phase = "none", !.accessRecordIssued = FALSE]
             y == [x EXCEPT !.phase = "route"]
  <2>1. /\ x.fin = "none" /\ ~x.released
        /\ y.fin = "none" /\ ~y.released
        /\ y \in RequestStates /\ y.phase = "route" /\ y.conn = q.conn
        /\ y.reply = "none" /\ y.work = q.work
    BY <1>2 DEF RequestStates
  <2>2. next = Issue(y, "begin_route", <<"begin_route">>)
    <3> HIDE DEF y
    <3>1. next = BeginTenantTransaction(x)
      BY <1>14 DEF Answered
    <3> HIDE DEF x
    <3> QED BY <2>1, <3>1
            DEF BeginTenantTransaction, Live, PhaseOfRoute, y
  <2> HIDE DEF y
  <2>3. /\ next.q = [y EXCEPT !.pc = "begin_route"]
        /\ next.issue = <<"begin_route">>
    <3>1. next = Then([y EXCEPT !.pc = "begin_route"], <<"begin_route">>)
      BY <2>1, <2>2 DEF Issue, Live
    <3>2. next = [q |-> [y EXCEPT !.pc = "begin_route"],
                  issue |-> <<"begin_route">>]
      BY <3>1 DEF Then
    <3> QED BY <3>2
  <2>4. /\ next.q \in RequestStates /\ next.q.pc = "begin_route"
        /\ next.q.conn = q.conn /\ next.q.fin = "none" /\ ~next.q.released
        /\ next.q.reply = "none" /\ next.q.phase = "route"
        /\ next.q.work = q.work
    BY <2>1, <2>3 DEF RequestStates, PCs, RouteOps
  <2>5. q.work = 0 /\ k1.pending = {}
    BY <1>3, <1>1, <1>2, <1>4, <1>14 DEF Wrote, RanWell, Commits
  <2>6. r \in Staff => AccessOf(r, D2)
    BY <1>1, <1>2, <1>14 DEF Wrote, AccessOf, Commits
  <2>7. GoesOn(r, next.q, k1, D2)
    BY <1>2, <1>4, <2>4, <2>5, <2>6
    DEF GoesOn, BootstrapOps, RouteOps, Begins, AccessOf
  <2> QED BY <1>6, <1>8, <2>3, <2>4, <2>7 DEF Ops, TxControl, Begins
\* The statements of the route's transaction.
<1>15. op \in RouteOps =>
          /\ D2 = D
          /\ r \in Staff => AccessOf(r, D)
          /\ q.phase = "route" /\ ~AccessOf(r, k.pending)
          /\ op # "work" => k1.pending = k.pending /\ q.work = 0
          /\ k1.tx = "T"
          /\ op # "begin_route" => k1.scope = TenantOf[r]
  <2> SUFFICES ASSUME op \in RouteOps
               PROVE  /\ D2 = D
                      /\ r \in Staff => AccessOf(r, D)
                      /\ q.phase = "route" /\ ~AccessOf(r, k.pending)
                      /\ op # "work" => k1.pending = k.pending /\ q.work = 0
                      /\ k1.tx = "T"
                      /\ op # "begin_route" => k1.scope = TenantOf[r]
    OBVIOUS
  <2>1. D2 = D
    BY <1>2 DEF Commits, RouteOps
  <2>2. /\ r \in Staff => AccessOf(r, D)
        /\ q.phase = "route" /\ ~AccessOf(r, k.pending)
        /\ op # "work" => q.work = 0
    BY <1>1, <1>4 DEF Wrote, Queued, Keeps, Recording, RouteOps, BootstrapOps
  <2>3. op # "work" => k1.pending = k.pending
    BY <1>3, <1>2 DEF RanWell, RouteOps, TxControl, Commits, Begins
  <2>4. k1.tx = "T"
    BY <1>3, <1>1, <1>2, <1>4
    DEF Opened, RanWell, RouteOps, TxControl, Commits, Begins
  <2>5. op # "begin_route" => k1.scope = TenantOf[r]
    BY <1>3, <1>1, <1>2, <1>4
    DEF Opened, RanWell, RouteOps, TxControl, Commits, Begins, ScopeSetters
  <2> QED BY <2>1, <2>2, <2>3, <2>4, <2>5
<1>16. CASE op = "begin_route"
  <2>1. /\ next.q = [q EXCEPT !.pc = "scope_route"]
        /\ next.issue = <<"scope_route">>
    BY <1>2, <1>7, <1>16 DEF Answered, AfterBegin, Then
  <2>2. /\ next.q \in RequestStates /\ next.q.pc = "scope_route"
        /\ next.q.conn = q.conn /\ next.q.fin = "none" /\ ~next.q.released
        /\ next.q.reply = "none" /\ next.q.phase = q.phase
        /\ next.q.work = q.work
    BY <1>2, <2>1 DEF RequestStates, PCs, RouteOps
  <2>3. GoesOn(r, next.q, k1, D2)
    BY <1>1, <1>2, <1>4, <1>15, <1>16, <2>2
    DEF GoesOn, Wrote, BootstrapOps, RouteOps, Begins
  <2> QED BY <1>6, <1>8, <2>1, <2>2, <2>3 DEF Ops, ScopeSetters
<1>17. WorkOf(r, 0, k1.pending)
  BY DEF WorkOf
<1>18. CASE op = "scope_route" /\ r \notin Staff
  <2>1. /\ next.q = [q EXCEPT !.pc = "membership"]
        /\ next.issue = <<"membership">>
    BY <1>2, <1>7, <1>18 DEF Answered, Then, WellAnswered
  <2>2. /\ next.q \in RequestStates /\ next.q.pc = "membership"
        /\ next.q.conn = q.conn /\ next.q.fin = "none" /\ ~next.q.released
        /\ next.q.reply = "none" /\ next.q.phase = q.phase
        /\ next.q.work = q.work
    BY <1>2, <2>1 DEF RequestStates, PCs, RouteOps
  <2>3. GoesOn(r, next.q, k1, D2)
    BY <1>1, <1>2, <1>4, <1>15, <1>18, <2>2
    DEF GoesOn, Wrote, BootstrapOps, RouteOps, Begins
  <2> QED BY <1>6, <1>8, <2>1, <2>2, <2>3 DEF Ops
<1>19. CASE (op = "scope_route" /\ r \in Staff) \/ op = "membership"
  <2>1. next.q = [q EXCEPT !.pc = "handler"] /\ next.issue = << >>
    BY <1>19 DEF Answered, Then, WellAnswered
  <2>2. /\ next.q \in RequestStates /\ next.q.pc = "handler"
        /\ next.q.conn = q.conn /\ next.q.fin = "none" /\ ~next.q.released
        /\ next.q.reply = "none" /\ next.q.phase = q.phase
        /\ next.q.work = q.work
    BY <1>2, <1>4, <2>1 DEF RequestStates, PCs
  <2>3. q.work = 0 /\ op \in RouteOps
    BY <1>1, <1>4, <1>19 DEF Wrote, RouteOps
  <2>4. /\ \A e \in k1.pending : e.by = r /\ e.scope = TenantOf[r]
        /\ ~AccessOf(r, k1.pending)
        /\ r \in Staff => AccessOf(r, D2)
        /\ k1.scope = TenantOf[r] /\ k1.tx = "T" /\ q.phase = "route"
    <3>1. op \notin {"work", "begin_route"}
      BY <1>19
    <3>2. \A e \in k.pending : e.by = r /\ e.scope = TenantOf[r]
      BY <1>1 DEF Wrote
    <3> QED BY <1>15, <2>3, <3>1, <3>2
  <2>5. GoesOn(r, next.q, k1, D2)
    BY <1>2, <1>4, <1>17, <2>2, <2>3, <2>4
    DEF GoesOn, BootstrapOps, RouteOps, Begins
  <2> QED BY <1>6, <1>9, <2>1, <2>2, <2>5
<1>20. CASE op = "work"
  <2>1. next.q = [q EXCEPT !.pc = "handler"] /\ next.issue = << >>
    BY <1>20 DEF Answered, Then, WellAnswered
  <2>2. /\ next.q \in RequestStates /\ next.q.pc = "handler"
        /\ next.q.conn = q.conn /\ next.q.fin = "none" /\ ~next.q.released
        /\ next.q.reply = "none" /\ next.q.phase = q.phase
        /\ next.q.work = q.work
    BY <1>2, <2>1 DEF RequestStates, PCs
  <2> DEFINE new == [kind |-> "work", by |-> r, n |-> q.work,
                     scope |-> k.scope]
  <2>3. k1.pending = k.pending \cup {new}
    BY <1>3, <1>2, <1>20 DEF RanWell, TxControl, Commits, Begins
  <2>4. k.scope = k1.scope
    BY <1>3, <1>2, <1>20 DEF RanWell, TxControl, Commits, Begins, ScopeSetters
  <2>5. /\ new.kind = "work" /\ new.by = r /\ new.n = q.work
        /\ new.scope = TenantOf[r]
    BY <1>15, <1>20, <2>4 DEF RouteOps
  <2> HIDE DEF new
  <2>6. WorkOf(r, q.work, k1.pending)
    <3>1. q.work > 0 /\ WorkOf(r, q.work - 1, k.pending)
      BY <1>1, <1>2, <1>4, <1>20 DEF Wrote
    <3>2. \A i \in 1..q.work : i = q.work \/ i \in 1..(q.work - 1)
      BY <1>2, <3>1
    <3> QED BY <2>3, <2>5, <3>1, <3>2 DEF WorkOf
  <2>7. /\ \A e \in k1.pending : e.by = r /\ e.scope = TenantOf[r]
        /\ ~AccessOf(r, k1.pending)
    BY <1>1, <1>15, <1>20, <2>3, <2>5 DEF Wrote, AccessOf, RouteOps
  <2>8. GoesOn(r, next.q, k1, D2)
    BY <1>2, <1>4, <1>15, <1>20, <2>2, <2>6, <2>7
    DEF GoesOn, BootstrapOps, RouteOps, Begins
  <2> QED BY <1>6, <1>9, <2>1, <2>2, <2>8
<1> QED BY <1>4, <1>11, <1>12, <1>13, <1>14, <1>16, <1>18, <1>19, <1>20
        DEF BootstrapOps, RouteOps

\* The two statements that write the access record are sent together ...
LEMMA SendsTwo ==
    ASSUME NEW r \in Requests, NEW k1 \in ConnectionStates, NEW k2,
           Len(k1.queue) = 0, NEW a, NEW b, Sends(k1, k2, <<a, b>>, r)
    PROVE  /\ k2.holder = k1.holder /\ k2.tx = k1.tx /\ k2.scope = k1.scope
           /\ k2.pending = k1.pending /\ k2.broken = k1.broken
           /\ Len(k2.queue) = 2 /\ DOMAIN k2.queue = 1..2
           /\ k2.queue[1] = [op |-> a, by |-> r]
           /\ k2.queue[2] = [op |-> b, by |-> r]
<1>1. DOMAIN k2.queue = 1..Len(k2.queue)
  BY LenProperties DEF ConnectionStates, Sends
<1>2. Len(<<a, b>>) = 2 /\ <<a, b>>[1] = a /\ <<a, b>>[2] = b
  OBVIOUS
<1>3. /\ Len(k2.queue) = 0 + Len(<<a, b>>)
      /\ \A i \in 1..Len(<<a, b>>) :
            k2.queue[0 + i] = [op |-> <<a, b>>[i], by |-> r]
  BY DEF Sends, Follows
<1>4. 0 + 1 = 1 /\ 0 + 2 = 2 /\ 1 \in 1..2 /\ 2 \in 1..2
  OBVIOUS
<1>5. /\ Len(k2.queue) = 2
      /\ k2.queue[1] = [op |-> a, by |-> r]
      /\ k2.queue[2] = [op |-> b, by |-> r]
  BY <1>2, <1>3, <1>4
<1> QED BY <1>1, <1>5 DEF ConnectionStates, Sends

\* ... when the workspace has been resolved ...
LEMMA ServeResolved ==
    ASSUME RequestAssumption,
           NEW r, NEW q, NEW k, NEW D, NEW ok, NEW k1, NEW D2,
           Serving(r, q, k, D, ok, k1, D2), q.fin = "none",
           Op(k, 1) = "resolve",
           NEW accepted, WellAnswered(Op(k, 1), ok, accepted),
           NEW next, next = Answered(q, r, Op(k, 1), accepted),
           NEW k2, k2 = After(k1, r, q, next)
    PROVE  Preserved(r, q, k, D, next.q, k2, D2)
<1>0. /\ Queued(r, q, k) /\ Opened(r, q, k) /\ Wrote(r, q, k, D)
      /\ Keeps(r, q, k)
  BY DEF Serving, Running, Held
<1>1. /\ r \in Requests /\ q \in RequestStates /\ k \in ConnectionStates
      /\ k1 \in ConnectionStates /\ ~q.released /\ q.pc # "waiting"
      /\ k1.holder = r /\ ~k.broken /\ ~k1.broken
      /\ q.reply = "none" /\ D2 = D
  BY <1>0 DEF Serving, Running, Ran, Holding, CanSucceed, Wrote, RequestStates,
     ConnectionStates, WellAnswered, Commits
<1>2. k1.tx = k.tx /\ k1.pending = k.pending
  BY DEF Serving, Ran, WellAnswered, TxControl, Commits, Begins
<1>3. /\ Len(k1.queue) = 0 /\ q.pc = "resolve" /\ q.phase = "bootstrap"
  <2>1. Len(k.queue) = 1 /\ q.pc = "resolve" /\ q.phase = "bootstrap"
    BY <1>0, ServingQueue DEF Queued, BootstrapOps
  <2> QED BY <2>1, ServingQueue
<1>4. D2 \in SUBSET Effects /\ D \subseteq D2 /\ D2 \subseteq D \cup k.pending
  BY ServingQueue
<1>5. /\ next.q = [q EXCEPT !.accessRecordIssued = TRUE, !.pc = "record"]
      /\ next.issue = <<"scope_bootstrap", "record">>
  <2> DEFINE x == [q EXCEPT !.accessRecordIssued = TRUE]
  <2>1. x.fin = "none" /\ ~x.released
    BY <1>1 DEF RequestStates
  <2>2. next = Issue(x, "record", <<"scope_bootstrap", "record">>)
    BY <1>0 DEF Answered, WellAnswered, Wrote, Queued, Opened
  <2> HIDE DEF x
  <2>3. next = Then([x EXCEPT !.pc = "record"], <<"scope_bootstrap", "record">>)
    BY <2>1, <2>2 DEF Issue, Live
  <2>4. next = [q |-> [x EXCEPT !.pc = "record"],
                issue |-> <<"scope_bootstrap", "record">>]
    BY <2>3 DEF Then
  <2> QED BY <2>4 DEF x
<1>6. /\ next.q \in RequestStates /\ next.q.pc = "record"
      /\ next.q.conn = q.conn /\ next.q.fin = "none" /\ ~next.q.released
      /\ next.q.reply = "none" /\ next.q.phase = "bootstrap"
      /\ next.q.work = q.work /\ next.q.accessRecordIssued
  BY <1>1, <1>3, <1>5 DEF RequestStates, PCs, BootstrapOps
<1>7. <<"scope_bootstrap", "record">> \in Seq(Ops)
  BY DEF Ops, ScopeSetters
<1>8. Sends(k1, k2, <<"scope_bootstrap", "record">>, r)
  BY <1>1, <1>5, <1>6, <1>7, AfterIssue
<1>9. /\ k2.holder = r /\ k2.tx = k.tx /\ k2.pending = k.pending
      /\ ~k2.broken /\ Len(k2.queue) = 2 /\ DOMAIN k2.queue = 1..2
      /\ Op(k2, 1) = "scope_bootstrap" /\ Op(k2, 2) = "record"
      /\ k2.queue[1].by = r /\ k2.queue[2].by = r
      /\ k2 \in ConnectionStates
  <2>1. /\ k2.holder = k1.holder /\ k2.tx = k1.tx
        /\ k2.pending = k1.pending /\ k2.broken = k1.broken
        /\ Len(k2.queue) = 2 /\ DOMAIN k2.queue = 1..2
        /\ k2.queue[1] = [op |-> "scope_bootstrap", by |-> r]
        /\ k2.queue[2] = [op |-> "record", by |-> r]
    BY <1>1, <1>3, <1>8, SendsTwo
  <2> QED BY <1>1, <1>2, <1>8, <2>1 DEF Op, Sends
<1>10. \A i \in 1..2 : i = 1 \/ i = 2
  OBVIOUS
<1>11. Queued(r, next.q, k2)
  BY <1>6, <1>9, <1>10 DEF Queued, BootstrapOps
<1>12. k.tx = "T" /\ ~AccessOf(r, k.pending)
  BY <1>0, <1>1, <1>3 DEF Opened, Keeps, Recording, Begins
<1>13. Opened(r, next.q, k2)
  BY <1>6, <1>9, <1>12 DEF Opened
<1>14. Wrote(r, next.q, k2, D2)
  BY <1>0, <1>1, <1>3, <1>6, <1>9, <1>10 DEF Wrote, RouteOps
<1>15. Keeps(r, next.q, k2)
  BY <1>6, <1>9, <1>12 DEF Keeps
<1> QED BY <1>4, <1>6, <1>9, <1>11, <1>13, <1>14, <1>15
        DEF Preserved, Held

\* ... and the first of them has been answered.
LEMMA ServeScoped ==
    ASSUME RequestAssumption,
           NEW r, NEW q, NEW k, NEW D, NEW ok, NEW k1, NEW D2,
           Serving(r, q, k, D, ok, k1, D2), q.fin = "none",
           Op(k, 1) = "scope_bootstrap",
           NEW accepted, WellAnswered(Op(k, 1), ok, accepted),
           NEW next, next = Answered(q, r, Op(k, 1), accepted),
           NEW k2, k2 = After(k1, r, q, next)
    PROVE  Preserved(r, q, k, D, next.q, k2, D2)
<1>0. /\ Queued(r, q, k) /\ Opened(r, q, k) /\ Wrote(r, q, k, D)
      /\ Keeps(r, q, k)
  BY DEF Serving, Running, Held
<1>1. /\ r \in Requests /\ q \in RequestStates /\ k \in ConnectionStates
      /\ k1 \in ConnectionStates /\ ~q.released /\ q.pc # "waiting"
      /\ k1.holder = r /\ ~k.broken /\ ~k1.broken /\ D2 = D
  BY DEF Serving, Running, Ran, Holding, CanSucceed, WellAnswered, Commits
<1>2. k1.tx = k.tx /\ k1.pending = k.pending /\ k1.scope = TenantOf[r]
  BY DEF Serving, Ran, WellAnswered, TxControl, Commits, Begins, ScopeSetters
<1>3. /\ Len(k.queue) = 2 /\ Op(k, 2) = "record"
      /\ q.pc = "record" /\ q.phase = "bootstrap"
  BY <1>0, ServingQueue DEF Queued, BootstrapOps, RouteOps
<1>4. D2 \in SUBSET Effects /\ D \subseteq D2 /\ D2 \subseteq D \cup k.pending
  BY ServingQueue
<1>5. Len(k1.queue) = 1 /\ Op(k1, 1) = "record" /\ k1.queue[1].by = r
  <2>1. /\ Len(k1.queue) = Len(k.queue) - 1
        /\ \A i \in 1..Len(k1.queue) : k1.queue[i] = k.queue[i + 1]
        /\ \A i \in 1..Len(k.queue) : k.queue[i].by = r
    BY ServingQueue
  <2>2. Len(k1.queue) = 1
    BY <1>3, <2>1
  <2>3. k1.queue[1] = k.queue[2] /\ k.queue[2].by = r
    BY <1>3, <2>1, <2>2
  <2> QED BY <1>3, <2>2, <2>3 DEF Op
<1>6. next.q = q /\ next.issue = << >>
  BY DEF Answered, Then
<1>7. Sends(k1, k2, << >>, r)
  <2>1. << >> \in Seq(Ops)
    BY EmptySeq
  <2> QED BY <1>1, <1>6, <2>1, AfterIssue
<1>8. /\ k2.holder = r /\ k2.tx = k.tx /\ k2.pending = k.pending
      /\ k2.scope = TenantOf[r] /\ ~k2.broken
      /\ Len(k2.queue) = 1 /\ DOMAIN k2.queue = {1}
      /\ Op(k2, 1) = "record" /\ k2.queue[1].by = r
      /\ k2 \in ConnectionStates
  <2>1. /\ k2.holder = k1.holder /\ k2.tx = k1.tx /\ k2.scope = k1.scope
        /\ k2.pending = k1.pending /\ k2.broken = k1.broken
        /\ Len(k2.queue) = Len(k1.queue)
        /\ DOMAIN k2.queue = 1..Len(k2.queue)
        /\ \A i \in 1..Len(k1.queue) : k2.queue[i] = k1.queue[i]
    BY <1>1, <1>7, SendsNothing
  <2>2. k2.queue[1] = k1.queue[1] /\ DOMAIN k2.queue = {1}
    BY <1>5, <2>1
  <2> QED BY <1>1, <1>2, <1>5, <1>7, <2>1, <2>2 DEF Op, Sends
<1>9. ~AccessOf(r, k.pending) /\ q.accessRecordIssued
  <2>1. 2 \in DOMAIN k.queue
    BY <1>3, ServingQueue
  <2> QED BY <1>0, <1>3, <2>1 DEF Keeps, Recording
<1>10. k.tx = "T"
  BY <1>0, <1>1, <1>3 DEF Opened, Begins
<1>11. Queued(r, q, k2)
  BY <1>3, <1>8 DEF Queued, BootstrapOps
<1>12. Opened(r, q, k2)
  BY <1>8, <1>10 DEF Opened
<1>13. Wrote(r, q, k2, D2)
  BY <1>0, <1>1, <1>3, <1>8 DEF Wrote, RouteOps
<1>14. Keeps(r, q, k2)
  BY <1>3, <1>8, <1>9 DEF Keeps
<1> QED BY <1>1, <1>4, <1>6, <1>8, <1>11, <1>12, <1>13, <1>14
        DEF Preserved, Held

\* A statement of a request's connection is executed, and the flow that waits
\* for it goes on.
LEMMA ServePair ==
    ASSUME RequestAssumption,
           NEW r, NEW q, NEW k, NEW D, NEW ok, NEW k1, NEW D2,
           Serving(r, q, k, D, ok, k1, D2), NEW accepted \in BOOLEAN,
           NEW next, next = Continue(q, r, Op(k, 1), ok, accepted),
           NEW k2, k2 = After(k1, r, q, next)
    PROVE  Preserved(r, q, k, D, next.q, k2, D2)
<1> DEFINE op == Op(k, 1)
<1>1. /\ r \in Requests /\ q \in RequestStates /\ k1 \in ConnectionStates
      /\ ok \in BOOLEAN /\ Queued(r, q, k) /\ ~q.released
  BY DEF Serving, Running, Held, Ran, Holding
<1>2. op \in HandlerOps \cup EndOps
  <2>1. op \in Ops
    BY ServingQueue
  <2> QED BY <2>1 DEF Ops, HandlerOps, EndOps, BootstrapOps, RouteOps,
             TxControl, Commits, Begins, ScopeSetters
<1>3. CASE op \in EndOps
  <2>1. next = Finalized(q, op, ok)
    BY <1>3 DEF Continue, EndOps
  <2> QED BY <1>3, <2>1, ServeFinalization
<1>4. CASE op \in HandlerOps /\ q.fin # "none"
  <2>1. next.issue = << >> /\ Fenced(q, next.q, op)
    BY <1>1, <1>4, FencedContinue
  <2>2. << >> \in Seq(Ops) /\ ~next.q.released
    BY <1>1, <2>1, EmptySeq DEF Fenced
  <2>3. Sends(k1, k2, << >>, r)
    BY <1>1, <2>1, <2>2, AfterIssue
  <2> QED BY <1>4, <2>1, <2>3, ServeFenced
<1>5. CASE op \in HandlerOps /\ q.fin = "none"
  <2>1. /\ q.pc = IF op = "scope_bootstrap" THEN "record" ELSE op
        /\ op \notin EndOps
    BY <1>1, <1>5, ServingQueue
    DEF Queued, HandlerOps, EndOps, BootstrapOps, RouteOps
  <2>2. CASE ~ok
    <3> DEFINE x == [q EXCEPT !.poisoned = @ \/ op \in TxControl]
    <3>1. next = Throw(x)
      BY <2>1, <2>2 DEF Continue, EndOps
    <3>2. SameButPoisoned(q, x)
      BY <1>1 DEF SameButPoisoned, RequestStates
    <3> HIDE DEF x
    <3> QED BY <1>5, <2>2, <3>1, <3>2, ServeThrows
  <2>3. CASE ok /\ ~WellAnswered(op, ok, accepted)
    <3>1. next = Throw(q) /\ op \in {"authenticate", "resolve", "membership"}
      BY <2>1, <2>3 DEF Continue, EndOps, Answered, WellAnswered
    <3>2. SameButPoisoned(q, q)
      BY <1>1 DEF SameButPoisoned
    <3> QED BY <1>5, <3>1, <3>2, ServeThrows
  <2>4. CASE WellAnswered(op, ok, accepted)
    <3>1. next = Answered(q, r, op, accepted)
      BY <2>1, <2>4 DEF Continue, EndOps, WellAnswered
    <3>2. CASE op = "resolve"
      BY <1>5, <2>4, <3>1, <3>2, ServeResolved
    <3>3. CASE op = "scope_bootstrap"
      BY <1>5, <2>4, <3>1, <3>3, ServeScoped
    <3>4. CASE op \notin {"scope_bootstrap", "resolve"}
      BY <1>5, <2>4, <3>1, <3>4, ServeAnswered
    <3> QED BY <3>2, <3>3, <3>4
  <2>5. ok \/ ~ok
    OBVIOUS
  <2> QED BY <2>2, <2>3, <2>4, <2>5
<1> QED BY <1>2, <1>3, <1>4, <1>5

-----------------------------------------------------------------------------
\* The other steps of a request that holds a connection

\* A step that issues nothing leaves the connection itself unchanged.
LEMMA SendsNothingAtAll ==
    ASSUME NEW r \in Requests, NEW k \in ConnectionStates, NEW k2,
           Sends(k, k2, << >>, r)
    PROVE  k2 = k
<1>1. k.queue \in Seq(Statements) /\ k2.queue \in Seq(Statements)
  BY DEF Sends, ConnectionStates
<1>2. /\ Len(k2.queue) = Len(k.queue)
      /\ \A i \in 1..Len(k.queue) : k2.queue[i] = k.queue[i]
  BY SendsNothing
<1>3. k2.queue = k.queue
  BY <1>1, <1>2, SeqEqual
<1>4. k2 = [k EXCEPT !.queue = k.queue]
  BY <1>3 DEF Sends
<1> QED BY <1>4 DEF ConnectionStates

\* After the finalization has begun nothing more is sent.
LEMMA FinalizedStays ==
    ASSUME RequestAssumption,
           NEW r, NEW q, NEW k, NEW D, Running(r, q, k, D), q.fin # "none",
           NEW next, next.issue = << >>,
           NEW k2, k2 = After(k, r, q, next),
           NEW p, p = next.q, p \in RequestStates,
           p.conn = q.conn, p.fin = q.fin, p.released = q.released,
           p.reply = q.reply,
           \/ p.pc = q.pc /\ p.phase = q.phase /\ p.work = q.work
              /\ (p.alive => q.alive)
           \/ /\ q.pc = "handler" /\ p.pc \in {"replying", "failing"}
              /\ p.alive = q.alive
    PROVE  Preserved(r, q, k, D, p, k2, D)
<1>1. /\ Queued(r, q, k) /\ Opened(r, q, k) /\ Wrote(r, q, k, D)
      /\ Keeps(r, q, k) /\ r \in Requests /\ k \in ConnectionStates
      /\ D \in SUBSET Effects /\ k.holder = r
      /\ ~q.released /\ q.pc # "waiting"
  BY DEF Running, Held, Holding
<1>2. k2 = k
  <2>1. << >> \in Seq(Ops)
    BY EmptySeq
  <2>2. Sends(k, k2, << >>, r)
    BY <1>1, <2>1, AfterIssue
  <2> QED BY <1>1, <2>2, SendsNothingAtAll
<1>3. q.fin \in {"committing", "rolling_back"} /\ p.pc # "waiting"
  BY <1>1 DEF Queued
<1>4. Queued(r, p, k)
  <2>1. CASE p.pc = q.pc /\ p.phase = q.phase /\ (p.alive => q.alive)
    BY <1>1, <1>3, <2>1 DEF Queued
  <2>2. CASE /\ q.pc = "handler" /\ p.pc \in {"replying", "failing"}
             /\ p.alive = q.alive
    BY <1>1, <1>3, <2>2 DEF Queued
  <2> QED BY <2>1, <2>2
<1>5. Opened(r, p, k)
  BY <1>1, <1>3 DEF Opened
<1>6. Wrote(r, p, k, D)
  <2>1. q.fin = "committing" => p.work = q.work
    BY <1>1 DEF Queued
  <2> QED BY <1>1, <1>3, <2>1 DEF Wrote
<1>7. Keeps(r, p, k)
  BY <1>1, <1>3 DEF Keeps
<1> QED BY <1>1, <1>2, <1>3, <1>4, <1>5, <1>6, <1>7 DEF Preserved, Held

\* The steps that are not answers: the route issues a statement ...
LEMMA QueryPair ==
    ASSUME RequestAssumption,
           NEW r, NEW q, NEW k, NEW D, Running(r, q, k, D), q.pc = "handler",
           NEW next,
           next = Issue([q EXCEPT !.work = @ + 1], "work", <<"work">>),
           NEW k2, k2 = After(k, r, q, next)
    PROVE  Preserved(r, q, k, D, next.q, k2, D)
<1> DEFINE x == [q EXCEPT !.work = @ + 1]
<1>1. /\ Queued(r, q, k) /\ Opened(r, q, k) /\ Wrote(r, q, k, D)
      /\ Keeps(r, q, k) /\ r \in Requests /\ k \in ConnectionStates
      /\ D \in SUBSET Effects /\ k.holder = r /\ q.work \in Nat
      /\ ~q.released /\ q \in RequestStates
  BY DEF Running, Held, Holding, RequestStates
<1>2. /\ x \in RequestStates /\ x.pc = q.pc /\ x.conn = q.conn
      /\ x.phase = q.phase /\ x.fin = q.fin /\ x.released = q.released
      /\ x.reply = q.reply /\ x.alive = q.alive /\ x.work = q.work + 1
  BY <1>1 DEF RequestStates
<1> HIDE DEF x
<1>3. CASE q.fin = "none"
  <2>1. next = Then([x EXCEPT !.pc = "work"], <<"work">>)
    BY <1>1, <1>2, <1>3 DEF Issue, Live, x
  <2>2. next.q = [x EXCEPT !.pc = "work"] /\ next.issue = <<"work">>
    BY <2>1 DEF Then
  <2>3. /\ next.q \in RequestStates /\ next.q.pc = "work"
        /\ next.q.conn = q.conn /\ next.q.fin = "none" /\ ~next.q.released
        /\ next.q.reply = "none" /\ next.q.phase = q.phase
        /\ next.q.work = q.work + 1
    BY <1>1, <1>2, <1>3, <2>2 DEF RequestStates, PCs, RouteOps, Wrote
  <2>4. Len(k.queue) = 0 /\ q.phase = "route" /\ ~AccessOf(r, k.pending)
    BY <1>1, <1>3
    DEF Queued, Keeps, Recording, BootstrapOps, RouteOps
  <2>5. ~k.broken => k.tx = "T" /\ k.scope = TenantOf[r]
    BY <1>1, <1>3 DEF Opened, Begins
  <2>6. q.work + 1 > 0 /\ (q.work + 1) - 1 = q.work
    BY <1>1
  <2>7. ~k.broken => WorkOf(r, next.q.work - 1, k.pending) /\ next.q.work > 0
    BY <1>1, <1>3, <2>3, <2>6 DEF Wrote
  <2>8. /\ \A e \in k.pending : e.by = r /\ e.scope = TenantOf[r]
        /\ r \in Staff => AccessOf(r, D)
    BY <1>1, <1>3 DEF Wrote
  <2>9. GoesOn(r, next.q, k, D)
    BY <1>1, <2>3, <2>4, <2>5, <2>7, <2>8
    DEF GoesOn, RouteOps, BootstrapOps, Begins
  <2>10. <<"work">> \in Seq(Ops)
    BY DEF Ops
  <2>11. Sends(k, k2, <<"work">>, r)
    BY <1>1, <2>2, <2>3, <2>10, AfterIssue
  <2> DEFINE p == next.q
  <2>12. k2 \in ConnectionStates /\ k2.holder = r /\ Held(r, p, k2, D)
    <3>1. p.pc = "work" /\ GoesOn(r, p, k, D)
      BY <2>3, <2>9
    <3>2. <<"work">> = IF p.pc = "handler" THEN << >> ELSE <<p.pc>>
      BY <3>1
    <3> HIDE DEF p
    <3> QED BY ONLY <1>1, <2>11, <3>1, <3>2, GoingOn
  <2> QED BY <1>1, <2>3, <2>12 DEF Preserved
<1>4. CASE q.fin # "none"
  <2>1. next = Throw(x)
    BY <1>1, <1>2, <1>4 DEF Issue, Live, x
  <2>2. next.q = [x EXCEPT !.pc = "failing"] /\ next.issue = << >>
    BY <1>2, <1>4, <2>1, ThrowFenced
  <2>3. /\ next.q \in RequestStates /\ next.q.pc = "failing"
        /\ next.q.conn = q.conn /\ next.q.fin = q.fin
        /\ next.q.released = q.released /\ next.q.reply = q.reply
        /\ next.q.alive = q.alive
    BY <1>2, <2>2 DEF RequestStates, PCs
  <2> QED BY <1>4, <2>2, <2>3, FinalizedStays
<1> QED BY <1>3, <1>4

\* ... returns ...
LEMMA ReturnsPair ==
    ASSUME RequestAssumption,
           NEW r, NEW q, NEW k, NEW D, Running(r, q, k, D), q.pc = "handler",
           NEW next, next = Finalize([q EXCEPT !.pc = "replying"], "commit"),
           NEW k2, k2 = After(k, r, q, next)
    PROVE  Preserved(r, q, k, D, next.q, k2, D)
<1> DEFINE x == [q EXCEPT !.pc = "replying"]
<1>1. /\ Queued(r, q, k) /\ Opened(r, q, k) /\ Wrote(r, q, k, D)
      /\ Keeps(r, q, k) /\ r \in Requests /\ k \in ConnectionStates
      /\ D \in SUBSET Effects /\ k.holder = r
      /\ ~q.released /\ q \in RequestStates
  BY DEF Running, Held, Holding
<1>2. /\ x \in RequestStates /\ x.pc = "replying" /\ x.conn = q.conn
      /\ x.phase = q.phase /\ x.fin = q.fin /\ x.released = q.released
      /\ x.reply = q.reply /\ x.alive = q.alive /\ x.work = q.work
  BY <1>1 DEF RequestStates, PCs
<1> HIDE DEF x
<1>3. CASE q.fin = "none"
  <2>1. Len(k.queue) = 0 /\ q.phase = "route" /\ ~AccessOf(r, k.pending)
    BY <1>1, <1>3 DEF Queued, Keeps, Recording, BootstrapOps, RouteOps
  <2>2. next = Then([x EXCEPT !.fin = "committing"], <<"final_commit">>)
    BY <1>2, <1>3, <2>1 DEF Finalize, x
  <2>3. next.q = [x EXCEPT !.fin = "committing"]
        /\ next.issue = <<"final_commit">>
    BY <2>2 DEF Then
  <2>4. /\ next.q \in RequestStates /\ next.q.pc = "replying"
        /\ next.q.conn = q.conn /\ next.q.fin = "committing"
        /\ ~next.q.released /\ next.q.reply = q.reply
        /\ next.q.phase = "route" /\ next.q.work = q.work
    BY <1>1, <1>2, <2>1, <2>3 DEF RequestStates
  <2>5. <<"final_commit">> \in Seq(Ops)
    BY DEF Ops, TxControl, Commits
  <2>6. Sends(k, k2, <<"final_commit">>, r)
    BY <1>1, <2>3, <2>4, <2>5, AfterIssue
  <2>7. /\ k2.holder = r /\ k2.tx = k.tx /\ k2.scope = k.scope
        /\ k2.pending = k.pending /\ k2.broken = k.broken
        /\ Len(k2.queue) = 1 /\ DOMAIN k2.queue = {1}
        /\ k2.queue[1].by = r /\ Op(k2, 1) = "final_commit"
        /\ k2 \in ConnectionStates
    <3>1. /\ k2.holder = k.holder /\ k2.tx = k.tx /\ k2.scope = k.scope
          /\ k2.pending = k.pending /\ k2.broken = k.broken
          /\ Len(k2.queue) = Len(k.queue) + 1
          /\ DOMAIN k2.queue = 1..Len(k2.queue)
          /\ k2.queue[Len(k.queue) + 1] = [op |-> "final_commit", by |-> r]
      BY <1>1, <2>6, SendsOne
    <3>2. /\ Len(k2.queue) = 1 /\ DOMAIN k2.queue = {1}
          /\ k2.queue[1] = [op |-> "final_commit", by |-> r]
      BY <2>1, <3>1
    <3> QED BY <1>1, <2>6, <3>1, <3>2 DEF Op, Sends
  <2>8. Queued(r, next.q, k2)
    BY <2>4, <2>7 DEF Queued
  <2>9. Opened(r, next.q, k2)
    BY <2>4, <2>7 DEF Opened, HandlerOps, BootstrapOps, RouteOps
  <2>10. Wrote(r, next.q, k2, D)
    <3>1. ~k.broken => k.tx = "T" /\ WorkOf(r, q.work, k.pending)
      BY <1>1, <1>3 DEF Opened, Wrote, Begins
    <3> QED BY <1>1, <1>3, <2>4, <2>7, <3>1 DEF Wrote, RouteOps
  <2>11. Keeps(r, next.q, k2)
    BY <2>1, <2>4, <2>7 DEF Keeps, Recording
  <2> QED BY <1>1, <2>4, <2>7, <2>8, <2>9, <2>10, <2>11 DEF Preserved, Held
<1>4. CASE q.fin # "none"
  <2>1. next.q = x /\ next.issue = << >>
    BY <1>2, <1>4 DEF Finalize, Then, x
  <2> QED BY <1>2, <1>4, <2>1, FinalizedStays
<1> QED BY <1>3, <1>4

\* ... or throws, ...
LEMMA ThrowsPair ==
    ASSUME RequestAssumption,
           NEW r, NEW q, NEW k, NEW D, Running(r, q, k, D), q.pc = "handler",
           NEW next, next = Throw(q),
           NEW k2, k2 = After(k, r, q, next)
    PROVE  Preserved(r, q, k, D, next.q, k2, D)
<1>1. q \in RequestStates /\ Queued(r, q, k)
  BY DEF Running, Held
<1>2. CASE q.fin = "none"
  <2>1. Len(k.queue) = 0
    BY <1>1, <1>2 DEF Queued, BootstrapOps, RouteOps
  <2>2. Remains(r, q, k, k)
    BY <1>2, RemainsItself
  <2>3. SameButPoisoned(q, q)
    BY <1>1 DEF SameButPoisoned
  <2> QED BY <1>2, <2>1, <2>2, <2>3, ThrowsFrom
<1>3. CASE q.fin # "none"
  <2>1. next.q = [q EXCEPT !.pc = "failing"] /\ next.issue = << >>
    BY <1>1, <1>3, ThrowFenced
  <2>2. /\ next.q \in RequestStates /\ next.q.pc = "failing"
        /\ next.q.conn = q.conn /\ next.q.fin = q.fin
        /\ next.q.released = q.released /\ next.q.reply = q.reply
        /\ next.q.alive = q.alive
    BY <1>1, <2>1 DEF RequestStates, PCs
  <2> QED BY <1>3, <2>1, <2>2, FinalizedStays
<1> QED BY <1>2, <1>3

\* ... the client goes away ...
LEMMA GonePair ==
    ASSUME RequestAssumption,
           NEW r, NEW q, NEW k, NEW D, Running(r, q, k, D),
           NEW next, next = Finalize([q EXCEPT !.alive = FALSE], "rollback"),
           NEW k2, k2 = After(k, r, q, next)
    PROVE  Preserved(r, q, k, D, next.q, k2, D)
<1> DEFINE x == [q EXCEPT !.alive = FALSE]
<1>1. /\ Queued(r, q, k) /\ r \in Requests /\ k \in ConnectionStates
      /\ ~q.released /\ q \in RequestStates /\ q.pc # "waiting"
  BY DEF Running, Held, Holding
<1>2. /\ x \in RequestStates /\ x.pc = q.pc /\ x.conn = q.conn
      /\ x.phase = q.phase /\ x.fin = q.fin /\ x.released = q.released
      /\ x.reply = q.reply /\ ~x.alive /\ x.work = q.work
      /\ x.accessRecordIssued = q.accessRecordIssued
  BY <1>1 DEF RequestStates
<1> HIDE DEF x
<1>3. CASE q.fin = "none"
  <2>1. q.phase \in {"bootstrap", "route"} /\ q.pc \notin {"waiting", "done"}
    BY <1>1, <1>3 DEF Queued, BootstrapOps, RouteOps
  <2>2. next = Then([x EXCEPT !.fin = "rolling_back"], <<RollbackOp(x)>>)
    BY <1>2, <1>3, <2>1 DEF Finalize, x
  <2>3. RollbackOp(x) = RollbackOp(q)
    BY <1>2 DEF RollbackOp
  <2>4. next.q = [x EXCEPT !.fin = "rolling_back"]
        /\ next.issue = <<RollbackOp(q)>>
    <3> DEFINE y == [x EXCEPT !.fin = "rolling_back"]
               o == RollbackOp(x)
    <3>1. next = [q |-> y, issue |-> <<o>>]
      BY <2>2 DEF Then
    <3> HIDE DEF y, o
    <3>2. next.q = y /\ next.issue = <<o>>
      BY ONLY <3>1
    <3> QED BY <3>2, <2>3 DEF y, o
  <2>5. /\ next.q \in RequestStates /\ next.q.pc = q.pc
        /\ next.q.conn = q.conn /\ next.q.fin = "rolling_back"
        /\ ~next.q.released /\ next.q.reply = q.reply /\ ~next.q.alive
    BY <1>1, <1>2, <2>4 DEF RequestStates
  <2>6. <<RollbackOp(q)>> \in Seq(Ops)
    BY DEF RollbackOp, Ops, TxControl, Commits
  <2>7. Sends(k, k2, <<RollbackOp(q)>>, r)
    BY <1>1, <2>4, <2>5, <2>6, AfterIssue
  <2>8. Remains(r, q, k, k)
    BY <1>3, RemainsItself
  <2> QED BY <1>3, <2>1, <2>5, <2>7, <2>8, RollsBack
<1>4. CASE q.fin # "none"
  <2>1. next.q = x /\ next.issue = << >>
    BY <1>2, <1>4 DEF Finalize, Then, x
  <2> QED BY <1>2, <1>4, <2>1, FinalizedStays
<1> QED BY <1>3, <1>4

\* ... or the connection is lost.
LEMMA LostPair ==
    ASSUME RequestAssumption,
           NEW r, NEW q, NEW k, NEW D, Running(r, q, k, D),
           NEW q2, q2 = [q EXCEPT !.poisoned = TRUE],
           NEW k2, k2 = [k EXCEPT !.broken = TRUE, !.tx = "I",
                                  !.scope = NoScope, !.pending = {}],
           NEW D2, D2 = D \/ D2 = D \cup k.pending
    PROVE  Preserved(r, q, k, D, q2, k2, D2)
<1>1. /\ Queued(r, q, k) /\ Wrote(r, q, k, D) /\ Keeps(r, q, k)
      /\ r \in Requests /\ k \in ConnectionStates /\ D \in SUBSET Effects
      /\ k.holder = r /\ ~q.released /\ q \in RequestStates
      /\ q.pc # "waiting" /\ k.pending \in SUBSET Effects
  BY DEF Running, Held, Holding, ConnectionStates
<1>2. /\ q2 \in RequestStates /\ q2.pc = q.pc /\ q2.conn = q.conn
      /\ q2.phase = q.phase /\ q2.fin = q.fin /\ q2.released = q.released
      /\ q2.reply = q.reply /\ q2.alive = q.alive /\ q2.work = q.work
      /\ q2.accessRecordIssued = q.accessRecordIssued
  BY <1>1 DEF RequestStates
<1>3. /\ k2 \in ConnectionStates /\ k2.holder = r /\ k2.broken
      /\ k2.queue = k.queue /\ k2.pending = {} /\ k2.tx = "I"
  BY <1>1 DEF ConnectionStates
<1>4. Queued(r, q2, k2)
  BY <1>1, <1>2, <1>3 DEF Queued, Op
<1>5. Opened(r, q2, k2)
  BY <1>3 DEF Opened
<1>6. AccessOf(r, D) => AccessOf(r, D2)
  BY DEF AccessOf
<1>7. Wrote(r, q2, k2, D2)
  BY <1>1, <1>2, <1>3, <1>6 DEF Wrote, Op
<1>8. Keeps(r, q2, k2)
  BY <1>1, <1>2, <1>3 DEF Keeps, Recording, AccessOf, Op
<1> QED BY <1>1, <1>2, <1>3, <1>4, <1>5, <1>7, <1>8 DEF Preserved, Held

-----------------------------------------------------------------------------
\* The steps

\* A request that holds a connection runs on it.
LEMMA HolderRuns ==
    ASSUME Inv, NEW r \in Requests, Holding(req[r])
    PROVE  /\ req[r].conn \in Connections
           /\ Running(r, req[r], conn[req[r].conn], durable)
<1>1. /\ req[r].conn \in Connections /\ conn[req[r].conn].holder = r
      /\ Held(r, req[r], conn[req[r].conn], durable)
  BY DEF Inv, Paired
<1>2. /\ req[r] \in RequestStates /\ conn[req[r].conn] \in ConnectionStates
      /\ durable \in SUBSET Effects
  BY <1>1 DEF Inv, Typed
<1> QED BY <1>1, <1>2 DEF Running

\* PairStep, for what the lemmas about pairs show.
LEMMA PreservedStep ==
    ASSUME RequestAssumption, Inv,
           NEW r \in Requests, Holding(req[r]),
           NEW q2, NEW k2, NEW c, c = req[r].conn,
           req' = [req EXCEPT ![r] = q2],
           conn' = [conn EXCEPT ![c] = k2],
           Preserved(r, req[r], conn[c], durable, q2, k2, durable')
    PROVE  Inv'
<1>1. /\ q2 \in RequestStates /\ k2 \in ConnectionStates
      /\ durable' \in SUBSET Effects
      /\ q2.conn = c /\ q2.pc # "waiting"
      /\ durable \subseteq durable'
      /\ durable' \subseteq durable \cup conn[c].pending
  BY DEF Preserved
<1>2. q2.released => k2.holder = Pool /\ Clean(k2) /\ Let(r, q2, durable')
  BY DEF Preserved
<1>3. ~q2.released => k2.holder = r /\ Held(r, q2, k2, durable')
  BY DEF Preserved
<1> QED BY <1>1, <1>2, <1>3, PairStep

\* A step of the code that a request with a connection performs ...
LEMMA PerformStep ==
    ASSUME RequestAssumption, Inv,
           NEW r \in Requests, Holding(req[r]),
           NEW next, Perform(r, next), durable' = durable,
           NEW k2, k2 = After(conn[req[r].conn], r, req[r], next),
           Preserved(r, req[r], conn[req[r].conn], durable, next.q, k2,
                     durable)
    PROVE  Inv'
<1> DEFINE c == req[r].conn
<1>1. req' = [req EXCEPT ![r] = next.q]
  BY DEF Perform
<1>2. conn' = [conn EXCEPT ![c] = k2]
  BY DEF Perform
<1>3. Preserved(r, req[r], conn[c], durable, next.q, k2, durable')
  OBVIOUS
<1> HIDE DEF c
<1>4. c = req[r].conn
  BY DEF c
<1> QED BY <1>1, <1>2, <1>3, <1>4, PreservedStep

\* ... and one that a request without a connection performs, which leaves the
\* connections alone.
LEMMA NothingSent ==
    ASSUME Inv, NEW r \in Requests, req[r].released,
           NEW next, Perform(r, next), next.issue = << >>
    PROVE  conn' = conn
<1> DEFINE c == req[r].conn
<1>1. conn' = [conn EXCEPT ![c] = After(conn[c], r, req[r], next)]
  BY DEF Perform
<1>2. c \in Connections => After(conn[c], r, req[r], next) = conn[c]
  <2> SUFFICES ASSUME c \in Connections
               PROVE  After(conn[c], r, req[r], next) = conn[c]
    OBVIOUS
  <2> DEFINE s == conn[c].queue
             m == [i \in DOMAIN next.issue |->
                      [op |-> next.issue[i], by |-> r]]
  <2>1. conn[c] \in ConnectionStates /\ s \in Seq(Statements)
    BY DEF Inv, Typed, ConnectionStates
  <2>2. m = << >>
    OBVIOUS
  <2>3. s \o m = s
    BY <2>1, <2>2, ConcatEmptySeq
  <2>4. After(conn[c], r, req[r], next) = [conn[c] EXCEPT !.queue = s \o m]
    BY DEF After
  <2> HIDE DEF m
  <2> QED BY <2>1, <2>3, <2>4 DEF ConnectionStates
<1>3. conn \in [Connections -> ConnectionStates]
  BY DEF Inv, Typed
<1> QED BY <1>1, <1>2, <1>3

LEMMA PerformLet ==
    ASSUME Inv, NEW r \in Requests, req[r].released,
           NEW next, Perform(r, next), durable' = durable,
           next.q \in RequestStates, next.issue = << >>,
           next.q.pc # "waiting", next.q.released, Let(r, next.q, durable)
    PROVE  Inv'
<1>1. conn' = conn
  BY NothingSent
<1>2. req' = [req EXCEPT ![r] = next.q]
  BY DEF Perform
<1>3. ~Holding(req[r]) /\ ~Holding(next.q) /\ Fresh(next.q)
  BY DEF Holding, Fresh
<1> QED BY <1>1, <1>2, <1>3, LetStep

\* Each action preserves the invariant.
LEMMA ServeStep ==
    ASSUME RequestAssumption, Inv, NEW c \in Connections, Serve(c)
    PROVE  Inv'
<1> DEFINE k  == conn[c]
           st == Head(k.queue)
<1>1. /\ k \in ConnectionStates /\ k.queue \in Seq(Statements)
      /\ k.queue # << >> /\ req \in [Requests -> RequestStates]
      /\ durable \in SUBSET Effects
  BY DEF Inv, Typed, ConnectionStates, Serve
<1>2. k.holder # Pool
  BY <1>1 DEF Inv, Clean
<1>3. k.holder \in Requests
  BY <1>1, <1>2 DEF ConnectionStates
<1>4. Holding(req[k.holder]) /\ req[k.holder].conn = c
  BY <1>2 DEF Inv, Paired
<1> DEFINE r == k.holder
<1>5. Running(r, req[r], k, durable)
  BY <1>3, <1>4, HolderRuns
<1>6. st = k.queue[1] /\ st \in Statements /\ 1 \in DOMAIN k.queue
  BY <1>1, HeadTailProperties, EmptySeq
<1>7. st.by = r
  BY <1>5, <1>6 DEF Running, Held, Queued
<1>8. PICK ok \in BOOLEAN, accepted \in BOOLEAN :
         LET k1   == Executed(k, st, ok)
             next == Continue(req[r], r, st.op, ok, accepted)
         IN  /\ IF ok THEN CanSucceed(k, st.op) ELSE CanFail(k, st.op)
             /\ req' = [req EXCEPT ![r] = next.q]
             /\ conn' = [conn EXCEPT ![c] = After(k1, r, req[r], next)]
             /\ durable' = IF ok /\ st.op \in Commits /\ k.tx = "T"
                           THEN durable \cup k.pending ELSE durable
  BY <1>7 DEF Serve
<1> DEFINE k1   == Executed(k, st, ok)
           next == Continue(req[r], r, st.op, ok, accepted)
           k2   == After(k1, r, req[r], next)
<1>9. Op(k, 1) = st.op
  BY <1>6 DEF Op
<1>10. Ran(r, req[r], k, Op(k, 1), ok, k1)
  BY <1>1, <1>7, <1>9, ExecutedRan
<1> HIDE DEF k1
<1>11. Serving(r, req[r], k, durable, ok, k1, durable')
  BY <1>1, <1>5, <1>8, <1>9, <1>10 DEF Serving
<1>12. /\ req' = [req EXCEPT ![r] = next.q]
       /\ conn' = [conn EXCEPT ![c] = k2]
  BY <1>8 DEF k1
<1>13. next = Continue(req[r], r, Op(k, 1), ok, accepted)
  BY <1>9
<1> HIDE DEF next
<1>14. k2 = After(k1, r, req[r], next)
  OBVIOUS
<1> HIDE DEF k2
<1>15. Preserved(r, req[r], k, durable, next.q, k2, durable')
  BY <1>11, <1>13, <1>14, ServePair
<1> QED BY <1>3, <1>4, <1>12, <1>15, PreservedStep

LEMMA RouteQueryStep ==
    ASSUME RequestAssumption, Inv, NEW r \in Requests, RouteQuery(r)
    PROVE  Inv'
<1> DEFINE q    == req[r]
           x    == [q EXCEPT !.work = @ + 1]
           next == Issue(x, "work", <<"work">>)
<1>1. q \in RequestStates /\ q.pc = "handler" /\ q.work \in Nat
  BY DEF Inv, Typed, RouteQuery, RequestStates
<1>2. /\ x \in RequestStates /\ x.pc = q.pc /\ x.fin = q.fin
      /\ x.released = q.released /\ x.alive = q.alive /\ x.reply = q.reply
  BY <1>1 DEF RequestStates
<1>3. Perform(r, next) /\ durable' = durable
  BY DEF RouteQuery
<1>4. CASE ~q.released
  <2>1. Holding(q)
    BY <1>1, <1>4 DEF Holding
  <2>2. Running(r, q, conn[q.conn], durable)
    BY <2>1, HolderRuns
  <2>3. next = Issue([q EXCEPT !.work = @ + 1], "work", <<"work">>)
    OBVIOUS
  <2> HIDE DEF next
  <2> DEFINE k2 == After(conn[q.conn], r, q, next)
  <2>4. Preserved(r, q, conn[q.conn], durable, next.q, k2, durable)
    BY <1>1, <2>2, <2>3, QueryPair
  <2> QED BY <1>3, <2>1, <2>4, PerformStep
<1>5. CASE q.released
  <2>1. Let(r, q, durable)
    BY <1>5 DEF Inv, Holding
  <2>2. q.fin # "none" /\ q.reply # "ok"
    BY <1>1, <2>1 DEF Let
  <2> HIDE DEF x
  <2>3. next.q = [x EXCEPT !.pc = "failing"] /\ next.issue = << >>
    BY <1>2, <2>2 DEF Issue, Live, Throw, Finalize, Then, RequestStates
  <2>4. /\ next.q \in RequestStates /\ next.q.pc = "failing"
        /\ next.q.released /\ next.q.fin = q.fin /\ next.q.reply = q.reply
        /\ next.q.alive = q.alive
    BY <1>2, <1>5, <2>3 DEF RequestStates, PCs
  <2>5. Let(r, next.q, durable)
    BY <2>1, <2>2, <2>4 DEF Let
  <2> HIDE DEF next
  <2> QED BY <1>3, <1>5, <2>3, <2>4, <2>5, PerformLet
<1> QED BY <1>1, <1>4, <1>5 DEF RequestStates

LEMMA RouteReturnsStep ==
    ASSUME RequestAssumption, Inv, NEW r \in Requests, RouteReturns(r)
    PROVE  Inv'
<1> DEFINE q    == req[r]
           x    == [q EXCEPT !.pc = "replying"]
           next == Finalize(x, "commit")
<1>1. q \in RequestStates /\ q.pc = "handler"
  BY DEF Inv, Typed, RouteReturns
<1>2. Perform(r, next) /\ durable' = durable
  BY DEF RouteReturns
<1>3. /\ x \in RequestStates /\ x.pc = "replying" /\ x.fin = q.fin
      /\ x.released = q.released /\ x.alive = q.alive /\ x.reply = q.reply
  BY <1>1 DEF RequestStates, PCs
<1>4. CASE ~q.released
  <2>1. Holding(q)
    BY <1>1, <1>4 DEF Holding
  <2>2. Running(r, q, conn[q.conn], durable)
    BY <2>1, HolderRuns
  <2>3. next = Finalize([q EXCEPT !.pc = "replying"], "commit")
    OBVIOUS
  <2> HIDE DEF next
  <2> DEFINE k2 == After(conn[q.conn], r, q, next)
  <2>4. Preserved(r, q, conn[q.conn], durable, next.q, k2, durable)
    BY <1>1, <2>2, <2>3, ReturnsPair
  <2> QED BY <1>2, <2>1, <2>4, PerformStep
<1>5. CASE q.released
  <2>1. Let(r, q, durable)
    BY <1>5 DEF Inv, Holding
  <2>2. /\ q.fin # "none" /\ q.reply # "ok"
        /\ ~(q.alive /\ q.fin = "settled")
    BY <1>1, <2>1 DEF Let
  <2> HIDE DEF x
  <2>3. next.q = x /\ next.issue = << >>
    BY <1>3, <2>2 DEF Finalize, Then
  <2> HIDE DEF next
  <2>4. Let(r, next.q, durable)
    BY <2>1, <2>2, <1>3, <2>3 DEF Let
  <2> QED BY <1>2, <1>3, <1>5, <2>3, <2>4, PerformLet
<1> QED BY <1>1, <1>4, <1>5 DEF RequestStates

LEMMA RouteThrowsStep ==
    ASSUME RequestAssumption, Inv, NEW r \in Requests, RouteThrows(r)
    PROVE  Inv'
<1> DEFINE q    == req[r]
           x    == [q EXCEPT !.pc = "failing"]
           next == Throw(q)
<1>1. q \in RequestStates /\ q.pc = "handler"
  BY DEF Inv, Typed, RouteThrows
<1>2. Perform(r, next) /\ durable' = durable
  BY DEF RouteThrows
<1>3. /\ x \in RequestStates /\ x.pc = "failing" /\ x.fin = q.fin
      /\ x.released = q.released /\ x.alive = q.alive /\ x.reply = q.reply
  BY <1>1 DEF RequestStates, PCs
<1>4. CASE ~q.released
  <2>1. Holding(q)
    BY <1>1, <1>4 DEF Holding
  <2>2. Running(r, q, conn[q.conn], durable)
    BY <2>1, HolderRuns
  <2>3. next = Throw(q)
    OBVIOUS
  <2> HIDE DEF next
  <2> DEFINE k2 == After(conn[q.conn], r, q, next)
  <2>4. Preserved(r, q, conn[q.conn], durable, next.q, k2, durable)
    BY <1>1, <2>2, <2>3, ThrowsPair
  <2> QED BY <1>2, <2>1, <2>4, PerformStep
<1>5. CASE q.released
  <2>1. Let(r, q, durable)
    BY <1>5 DEF Inv, Holding
  <2>2. q.fin # "none" /\ q.reply # "ok"
    BY <1>1, <2>1 DEF Let
  <2>3. next.q = x /\ next.issue = << >>
    BY <1>1, <2>2, ThrowFenced
  <2> HIDE DEF next, x
  <2>4. Let(r, next.q, durable)
    BY <2>1, <2>2, <1>3, <2>3 DEF Let
  <2> QED BY <1>2, <1>3, <1>5, <2>3, <2>4, PerformLet
<1> QED BY <1>1, <1>4, <1>5 DEF RequestStates

LEMMA ClientGoneStep ==
    ASSUME RequestAssumption, Inv, NEW r \in Requests, ClientGone(r)
    PROVE  Inv'
<1> DEFINE q    == req[r]
           x    == [q EXCEPT !.alive = FALSE]
           next == Finalize(x, "rollback")
<1>1. q \in RequestStates /\ q.pc # "done"
  BY DEF Inv, Typed, ClientGone
<1>2. durable' = durable
  BY DEF ClientGone
<1>3. CASE Holding(q)
  <2>1. Perform(r, next)
    BY <1>3 DEF ClientGone, Holding
  <2>2. Running(r, q, conn[q.conn], durable)
    BY <1>3, HolderRuns
  <2>3. next = Finalize([q EXCEPT !.alive = FALSE], "rollback")
    OBVIOUS
  <2> HIDE DEF next
  <2> DEFINE k2 == After(conn[q.conn], r, q, next)
  <2>4. Preserved(r, q, conn[q.conn], durable, next.q, k2, durable)
    BY <2>2, <2>3, GonePair
  <2> QED BY <1>2, <1>3, <2>1, <2>4, PerformStep
<1>4. CASE ~Holding(q)
  <2>1. conn' = conn /\ req' = [req EXCEPT ![r] = x]
    BY <1>4 DEF ClientGone, Holding
  <2>2. /\ x \in RequestStates /\ x.pc = q.pc /\ x.fin = q.fin
        /\ x.released = q.released /\ ~x.alive /\ x.reply = q.reply
        /\ x.work = q.work
    BY <1>1 DEF RequestStates
  <2>3. Let(r, q, durable) /\ Fresh(q)
    BY <1>4 DEF Inv
  <2> HIDE DEF x
  <2>4. Let(r, x, durable) /\ Fresh(x) /\ ~Holding(x)
    BY <1>4, <2>2, <2>3 DEF Let, Fresh, Holding
  <2> QED BY <1>2, <1>4, <2>1, <2>2, <2>4, LetStep
<1> QED BY <1>3, <1>4

LEMMA RespondStep ==
    ASSUME RequestAssumption, Inv, NEW r \in Requests, Respond(r)
    PROVE  Inv'
<1> DEFINE q == req[r]
           v == IF ~q.alive THEN "none"
                ELSE IF q.pc = "replying" /\ q.fin = "settled"
                THEN "ok" ELSE "error"
           x == [q EXCEPT !.pc = "done", !.reply = v]
<1>1. /\ q \in RequestStates /\ q.pc \in {"replying", "failing"}
      /\ q.fin \in {"settled", "rejected"}
      /\ conn' = conn /\ durable' = durable
      /\ req' = [req EXCEPT ![r] = x]
  BY DEF Inv, Typed, Respond
<1>2. ~Holding(q)
  <2> SUFFICES ASSUME Holding(q) PROVE FALSE
    OBVIOUS
  <2>1. Running(r, q, conn[q.conn], durable)
    BY HolderRuns
  <2> QED BY <1>1, <2>1 DEF Running, Held, Queued
<1>3. Let(r, q, durable) /\ q.released
  BY <1>1, <1>2 DEF Inv, Holding
<1>4. v \in {"none", "ok", "error"} /\ (v = "ok" => WorkOf(r, q.work, durable))
  BY <1>3 DEF Let
<1> HIDE DEF v
<1>5. /\ x \in RequestStates /\ x.pc = "done" /\ x.reply = v
      /\ x.released = q.released /\ x.fin = q.fin /\ x.work = q.work
      /\ x.alive = q.alive
  BY <1>1, <1>4 DEF RequestStates, PCs
<1> HIDE DEF x
<1>6. ~Holding(x) /\ Fresh(x)
  BY <1>3, <1>5 DEF Holding, Fresh
<1>7. Let(r, x, durable)
  BY <1>1, <1>4, <1>5 DEF Let
<1> QED BY <1>1, <1>2, <1>5, <1>6, <1>7, LetStep

LEMMA ConnectionLostStep ==
    ASSUME RequestAssumption, Inv, NEW c \in Connections, ConnectionLost(c)
    PROVE  Inv'
<1> DEFINE k  == conn[c]
           r  == k.holder
           q2 == [req[r] EXCEPT !.poisoned = TRUE]
           k2 == [k EXCEPT !.broken = TRUE, !.tx = "I", !.scope = NoScope,
                           !.pending = {}]
<1>1. r \in Requests
  BY DEF Inv, Typed, ConnectionStates, ConnectionLost
<1>2. Holding(req[r]) /\ req[r].conn = c
  BY DEF Inv, Paired, ConnectionLost
<1>3. Running(r, req[r], k, durable)
  BY <1>1, <1>2, HolderRuns
<1>4. /\ req' = [req EXCEPT ![r] = q2] /\ conn' = [conn EXCEPT ![c] = k2]
      /\ durable' = durable \/ durable' = durable \cup k.pending
  BY DEF ConnectionLost
<1>5. /\ q2 = [req[r] EXCEPT !.poisoned = TRUE]
      /\ k2 = [k EXCEPT !.broken = TRUE, !.tx = "I", !.scope = NoScope,
                        !.pending = {}]
  OBVIOUS
<1> HIDE DEF q2, k2
<1>6. Preserved(r, req[r], k, durable, q2, k2, durable')
  BY <1>3, <1>4, <1>5, LostPair
<1> QED BY <1>1, <1>2, <1>4, <1>6, PreservedStep

\* A request is given a connection.
LEMMA ConnectStep ==
    ASSUME RequestAssumption, Inv,
           NEW r \in Requests, NEW c \in Connections, Connect(r, c)
    PROVE  Inv'
<1> DEFINE q == req[r]
           k == conn[c]
<1>1. /\ q \in RequestStates /\ k \in ConnectionStates
      /\ q.pc = "waiting" /\ k.holder = Pool /\ durable' = durable
  BY DEF Inv, Typed, Connect
<1>2. Let(r, q, durable) /\ Fresh(q) /\ Clean(k) /\ ~Holding(q)
  BY <1>1 DEF Inv, Holding
<1>3. CASE ~q.alive
  <2> DEFINE x == [q EXCEPT !.pc = "done", !.released = TRUE]
  <2>1. req' = [req EXCEPT ![r] = x] /\ conn' = conn
    BY <1>3 DEF Connect
  <2>2. /\ x \in RequestStates /\ x.pc = "done" /\ x.released
        /\ x.fin = q.fin /\ x.reply = q.reply /\ x.work = q.work
    BY <1>1 DEF RequestStates, PCs
  <2> HIDE DEF x
  <2>3. ~Holding(x) /\ Fresh(x)
    BY <2>2 DEF Holding, Fresh
  <2>4. Let(r, x, durable)
    BY <1>1, <1>2, <2>2 DEF Let, Fresh
  <2> QED BY <1>1, <1>2, <2>1, <2>2, <2>3, <2>4, LetStep
<1>4. CASE q.alive
  <2> DEFINE x  == [q EXCEPT !.pc = "begin_bootstrap", !.conn = c,
                             !.phase = "bootstrap"]
             st == [op |-> "begin_bootstrap", by |-> r]
             t  == Append(k.queue, st)
             k2 == [k EXCEPT !.holder = r, !.queue = t]
  <2>1. req' = [req EXCEPT ![r] = x] /\ conn' = [conn EXCEPT ![c] = k2]
    BY <1>4 DEF Connect
  <2>2. /\ x \in RequestStates /\ x.pc = "begin_bootstrap" /\ x.conn = c
        /\ x.phase = "bootstrap" /\ ~x.released /\ x.reply = "none"
        /\ x.fin = "none" /\ x.work = 0 /\ x.alive = q.alive
    BY <1>1, <1>2 DEF RequestStates, PCs, BootstrapOps, Fresh
  <2>3. st \in Statements
    BY DEF Statements, TxControl, Begins
  <2>4. k.queue = << >> /\ k.queue \in Seq(Statements)
    BY <1>1, <1>2 DEF Clean, ConnectionStates
  <2>5. t \in Seq(Statements) /\ Len(t) = 1 /\ t[1] = st /\ DOMAIN t = {1}
    BY <2>3, <2>4
  <2> HIDE DEF t, st
  <2>6. /\ k2 \in ConnectionStates /\ k2.holder = r /\ k2.queue = t
        /\ k2.tx = "I" /\ k2.scope = NoScope /\ k2.pending = {}
        /\ ~k2.broken
    BY <1>1, <1>2, <2>5 DEF ConnectionStates, Clean
  <2>7. st.op = "begin_bootstrap" /\ st.by = r
    BY DEF st
  <2> HIDE DEF x, k2
  <2>8. Op(k2, 1) = "begin_bootstrap"
    BY <2>5, <2>6, <2>7 DEF Op
  <2>9. Queued(r, x, k2)
    BY <2>2, <2>5, <2>6, <2>7, <2>8 DEF Queued, BootstrapOps
  <2>10. Opened(r, x, k2)
    BY <2>2, <2>8 DEF Opened, Begins
  <2>11. Wrote(r, x, k2, durable)
    BY <2>2, <2>5, <2>6, <2>8 DEF Wrote, Op, RouteOps
  <2>12. Keeps(r, x, k2)
    <3>1. ~AccessOf(r, k2.pending) /\ ~Recording(r, k2)
      BY <2>5, <2>6, <2>7 DEF AccessOf, Recording, Op
    <3> QED BY <3>1 DEF Keeps
  <2>13. Held(r, x, k2, durable)
    BY <2>9, <2>10, <2>11, <2>12 DEF Held
  <2>14. /\ req'[r] = x /\ conn'[c] = k2
         /\ \A o \in Requests \ {r} : req'[o] = req[o]
         /\ \A d \in Connections \ {c} : conn'[d] = conn[d]
    BY <2>1 DEF Inv, Typed
  <2>15. Typed'
    BY <1>1, <2>1, <2>2, <2>6 DEF Inv, Typed
  <2>16. Holding(x)
    BY <2>2 DEF Holding
  <2>17. \A o \in Requests \ {r} : Holding(req[o]) =>
             req[o].conn \in Connections \ {c} /\ conn[req[o].conn].holder = o
    BY <1>1 DEF Inv, Paired, RequestAssumption
  <2>18. Paired'
    <3>1. \A o \in Requests : Holding(req'[o]) =>
              req'[o].conn \in Connections /\ conn'[req'[o].conn].holder = o
      BY <2>2, <2>6, <2>14, <2>17
    <3>2. ASSUME NEW d \in Connections, conn'[d].holder # Pool
          PROVE  /\ Holding(req'[conn'[d].holder])
                 /\ req'[conn'[d].holder].conn = d
      <4>1. CASE d = c
        BY <2>2, <2>6, <2>14, <2>16, <4>1
      <4>2. CASE d # c
        <5>1. conn'[d] = conn[d]
          BY <2>14, <4>2
        <5>2. conn[d].holder \in Requests
          BY <3>2, <5>1 DEF Inv, Typed, ConnectionStates
        <5>3. Holding(req[conn[d].holder]) /\ req[conn[d].holder].conn = d
          BY <3>2, <5>1 DEF Inv, Paired
        <5>4. conn[d].holder # r
          BY <1>2, <5>3
        <5> QED BY <2>14, <5>1, <5>2, <5>3, <5>4
      <4> QED BY <4>1, <4>2
    <3> QED BY <3>1, <3>2 DEF Paired
  <2>19. ASSUME NEW o \in Requests, Holding(req'[o])
         PROVE  Held(o, req'[o], conn'[req'[o].conn], durable')
    <3>1. CASE o = r
      BY <1>1, <2>2, <2>13, <2>14, <3>1
    <3>2. CASE o # r
      <4>1. /\ Holding(req[o]) /\ req'[o] = req[o]
            /\ conn'[req[o].conn] = conn[req[o].conn]
        BY <2>14, <2>17, <2>19, <3>2
      <4> QED BY <1>1, <4>1 DEF Inv
    <3> QED BY <3>1, <3>2
  <2>20. ASSUME NEW o \in Requests, ~Holding(req'[o])
         PROVE  Let(o, req'[o], durable')
    BY <1>1, <2>14, <2>16, <2>20 DEF Inv
  <2>21. \A o \in Requests : Fresh(req'[o])
    <3>1. Fresh(x)
      BY <2>2 DEF Fresh
    <3> QED BY <2>14, <3>1 DEF Inv
  <2>22. \A d \in Connections : conn'[d].holder = Pool => Clean(conn'[d])
    <3>1. k2.holder # Pool
      BY <2>6 DEF RequestAssumption
    <3> QED BY <2>14, <3>1 DEF Inv
  <2>23. \A e \in durable' : /\ e.scope = TenantOf[e.by]
                             /\ e.kind = "work" /\ e.by \in Staff =>
                                   AccessOf(e.by, durable')
    BY <1>1 DEF Inv
  <2> QED BY <2>15, <2>18, <2>19, <2>20, <2>21, <2>22, <2>23 DEF Inv
<1> QED BY <1>1, <1>3, <1>4 DEF RequestStates

\* The invariant is inductive ...
LEMMA StepPreservesInv ==
    ASSUME RequestAssumption, Inv, [Next]_vars
    PROVE  Inv'
<1>1. ASSUME NEW c \in Connections, Serve(c) PROVE Inv'
  BY <1>1, ServeStep
<1>2. ASSUME NEW c \in Connections, ConnectionLost(c) PROVE Inv'
  BY <1>2, ConnectionLostStep
<1>3. ASSUME NEW r \in Requests, NEW c \in Connections, Connect(r, c)
      PROVE  Inv'
  BY <1>3, ConnectStep
<1>4. ASSUME NEW r \in Requests, RouteQuery(r) PROVE Inv'
  BY <1>4, RouteQueryStep
<1>5. ASSUME NEW r \in Requests, RouteReturns(r) PROVE Inv'
  BY <1>5, RouteReturnsStep
<1>6. ASSUME NEW r \in Requests, RouteThrows(r) PROVE Inv'
  BY <1>6, RouteThrowsStep
<1>7. ASSUME NEW r \in Requests, Respond(r) PROVE Inv'
  BY <1>7, RespondStep
<1>8. ASSUME NEW r \in Requests, ClientGone(r) PROVE Inv'
  BY <1>8, ClientGoneStep
<1>9. CASE UNCHANGED vars
  <2>1. conn' = conn /\ req' = req /\ durable' = durable
    BY <1>9 DEF vars
  <2>2. Typed' /\ Paired'
    BY <2>1 DEF Inv, Typed, Paired
  <2>3. \A r \in Requests : Holding(req'[r]) =>
            Held(r, req'[r], conn'[req'[r].conn], durable')
    BY <2>1 DEF Inv
  <2>4. \A r \in Requests : ~Holding(req'[r]) => Let(r, req'[r], durable')
    BY <2>1 DEF Inv
  <2>5. \A e \in durable' : /\ e.scope = TenantOf[e.by]
                            /\ e.kind = "work" /\ e.by \in Staff =>
                                  AccessOf(e.by, durable')
    BY <2>1 DEF Inv
  <2>6. /\ \A r \in Requests : Fresh(req'[r])
        /\ \A c \in Connections : conn'[c].holder = Pool => Clean(conn'[c])
    BY <2>1 DEF Inv
  <2> QED BY <2>2, <2>3, <2>4, <2>5, <2>6 DEF Inv
<1> QED BY <1>1, <1>2, <1>3, <1>4, <1>5, <1>6, <1>7, <1>8, <1>9 DEF Next

\* ... holds at the start ...
LEMMA InitInv == RequestAssumption /\ Init => Inv
<1> SUFFICES ASSUME RequestAssumption, Init PROVE Inv
  OBVIOUS
<1> DEFINE q0 == [pc |-> "waiting", conn |-> Pool, phase |-> "none",
                  fin |-> "none", accessRecordIssued |-> FALSE,
                  poisoned |-> FALSE, released |-> FALSE, alive |-> TRUE,
                  work |-> 0, reply |-> "none"]
<1>1. q0 \in RequestStates
  BY DEF RequestStates, PCs
<1>2. FreshConnection \in ConnectionStates /\ FreshConnection.holder = Pool
      /\ Clean(FreshConnection)
  BY EmptySeq DEF FreshConnection, ConnectionStates, Clean
<1>3. /\ q0.pc = "waiting" /\ q0.fin = "none" /\ q0.reply = "none"
      /\ ~q0.released /\ q0.work = 0
  OBVIOUS
<1> HIDE DEF q0
<1>4. /\ conn = [c \in Connections |-> FreshConnection]
      /\ req = [r \in Requests |-> q0]
      /\ durable = {}
  BY DEF Init, q0
<1>5. Typed
  BY <1>1, <1>2, <1>4 DEF Typed
<1>6. \A r \in Requests : req[r] = q0
  BY <1>4
<1>7. ~Holding(q0) /\ Fresh(q0)
  BY <1>3 DEF Holding, Fresh
<1>8. \A r : Let(r, q0, durable)
  BY <1>3 DEF Let
<1>9. Paired
  BY <1>2, <1>4, <1>6, <1>7 DEF Paired
<1> QED BY <1>2, <1>4, <1>5, <1>6, <1>7, <1>8, <1>9 DEF Inv

\* ... and so in every reachable state.
LEMMA InvHolds == RequestAssumption /\ Spec => []Inv
<1>1. RequestAssumption /\ Inv /\ [Next]_vars => Inv'
  BY StepPreservesInv
<1> QED BY <1>1, InitInv, RequestAssumption, PTL DEF Spec

\* What is under way on a connection is its holder's.
LEMMA PendingOfHolder ==
    ASSUME RequestAssumption, Inv,
           NEW c \in Connections, NEW e \in conn[c].pending
    PROVE  /\ e.by \in Requests /\ conn[c].holder = e.by
           /\ Holding(req[e.by]) /\ req[e.by].conn = c
           /\ Running(e.by, req[e.by], conn[c], durable)
<1> DEFINE r == conn[c].holder
<1>1. r # Pool
  BY DEF Inv, Clean
<1>2. r \in Requests
  BY <1>1 DEF Inv, Typed, ConnectionStates
<1>3. Holding(req[r]) /\ req[r].conn = c
  BY <1>1 DEF Inv, Paired
<1>4. Running(r, req[r], conn[c], durable)
  BY <1>2, <1>3, HolderRuns
<1>5. e.by = r
  BY <1>4 DEF Running, Held, Wrote
<1> QED BY <1>2, <1>3, <1>4, <1>5

-----------------------------------------------------------------------------
\* The theorems

\* Every variable keeps its type.
THEOREM TypeCorrect == Spec => []TypeOK
<1>1. Inv => TypeOK
  BY DEF Inv, Typed, TypeOK, ConnectionStates, RequestStates
<1> QED BY <1>1, InvHolds, RequestAssumption, PTL

\* A connection carries statements of its holder only, however many requests
\* share it: nothing a finalized request still runs reaches the next holder.
THEOREM HolderSpeaks == Spec => []OnlyTheHolderSpeaks
<1>1. RequestAssumption /\ Inv => OnlyTheHolderSpeaks
  <2> SUFFICES ASSUME RequestAssumption, Inv,
                      NEW c \in Connections, NEW i \in DOMAIN conn[c].queue
               PROVE  conn[c].queue[i].by = conn[c].holder
    BY DEF OnlyTheHolderSpeaks
  <2>1. conn[c].holder # Pool
    <3> SUFFICES ASSUME conn[c].holder = Pool PROVE FALSE
      OBVIOUS
    <3>1. conn[c].queue = << >>
      BY DEF Inv, Clean
    <3> QED BY <3>1
  <2>2. conn[c].holder \in Requests
    BY <2>1 DEF Inv, Typed, ConnectionStates
  <2>3. Holding(req[conn[c].holder]) /\ req[conn[c].holder].conn = c
    BY <2>1 DEF Inv, Paired
  <2>4. Running(conn[c].holder, req[conn[c].holder], conn[c], durable)
    BY <2>2, <2>3, HolderRuns
  <2> QED BY <2>4 DEF Running, Held, Queued
<1> QED BY <1>1, InvHolds, RequestAssumption, PTL

\* A connection in the pool has no transaction and no scope left on it.
THEOREM PoolIsClean == Spec => []PooledIsClean
<1>1. Inv => PooledIsClean
  BY DEF Inv, PooledIsClean, Clean
<1> QED BY <1>1, InvHolds, RequestAssumption, PTL

\* Whatever a request writes, it writes under its own tenant's scope.
THEOREM EffectsAreScoped == Spec => []WorkIsScoped
<1>1. RequestAssumption /\ Inv => WorkIsScoped
  <2> SUFFICES ASSUME RequestAssumption, Inv,
                      NEW e \in durable \cup
                                UNION {conn[c].pending : c \in Connections}
               PROVE  e.scope = TenantOf[e.by]
    BY DEF WorkIsScoped
  <2>1. CASE e \in durable
    BY <2>1 DEF Inv
  <2>2. ASSUME NEW c \in Connections, e \in conn[c].pending
        PROVE  e.scope = TenantOf[e.by]
    BY <2>2, PendingOfHolder DEF Running, Held, Wrote
  <2> QED BY <2>1, <2>2
<1> QED BY <1>1, InvHolds, RequestAssumption, PTL

\* A staff request writes nothing before its access record is durable.
THEOREM AccessFirst == Spec => []AccessBeforeRoute
<1>1. RequestAssumption /\ Inv => AccessBeforeRoute
  <2> SUFFICES ASSUME RequestAssumption, Inv,
                      NEW e \in durable \cup
                                UNION {conn[c].pending : c \in Connections},
                      e.kind = "work", e.by \in Staff
               PROVE  AccessOf(e.by, durable)
    BY DEF AccessBeforeRoute, AccessOf
  <2>1. CASE e \in durable
    BY <2>1 DEF Inv
  <2>2. ASSUME NEW c \in Connections, e \in conn[c].pending
        PROVE  AccessOf(e.by, durable)
    <3>1. Wrote(e.by, req[e.by], conn[c], durable)
      BY <2>2, PendingOfHolder DEF Running, Held
    <3> QED BY <2>2, <3>1 DEF Wrote
  <2> QED BY <2>1, <2>2
<1> QED BY <1>1, InvHolds, RequestAssumption, PTL

\* A client that was answered "ok" finds the work of its request committed.
THEOREM OkMeansCommitted == Spec => []SuccessIsCommitted
<1>1. RequestAssumption /\ Inv => SuccessIsCommitted
  <2> SUFFICES ASSUME RequestAssumption, Inv,
                      NEW r \in Requests, req[r].reply = "ok"
               PROVE  WorkOf(r, req[r].work, durable)
    BY DEF SuccessIsCommitted, WorkOf
  <2>1. ~Holding(req[r])
    BY HolderRuns DEF Running, Held, Wrote
  <2> QED BY <2>1 DEF Inv, Let
<1> QED BY <1>1, InvHolds, RequestAssumption, PTL

\* A step that gives no connection back, or a good one, loses nothing written.
LEMMA AfterKeeps ==
    ASSUME NEW k \in ConnectionStates, NEW r, NEW q, NEW next, NEW k2,
           k2 = After(k, r, q, next)
    PROVE  \/ k2.pending = k.pending
           \/ next.q.released /\ ~q.released /\ next.q.poisoned
<1>1. CASE ~(next.q.released /\ ~q.released)
  BY <1>1 DEF After, ConnectionStates
<1>2. CASE next.q.released /\ ~q.released /\ ~next.q.poisoned
  BY <1>2 DEF After, ConnectionStates
<1> QED BY <1>1, <1>2

\* A request whose COMMIT of the bootstrap transaction failed is poisoned.
LEMMA FailedCommitPoisons ==
    ASSUME NEW r, NEW q \in RequestStates, q.pc = "commit_bootstrap",
           NEW accepted, NEW next,
           next = Continue(q, r, "commit_bootstrap", FALSE, accepted)
    PROVE  next.q.poisoned
<1> DEFINE x == [q EXCEPT !.poisoned = @ \/ "commit_bootstrap" \in TxControl]
           y == [x EXCEPT !.pc = "failing"]
<1>1. x \in RequestStates /\ x.poisoned
  BY DEF RequestStates, TxControl, Commits
<1> HIDE DEF x
<1>2. y \in RequestStates /\ y.poisoned
  BY <1>1 DEF RequestStates, PCs
<1>3. next = Finalize(y, "rollback")
  BY DEF Continue, Throw, x
<1> HIDE DEF y
<1>4. CASE y.fin # "none"
  <2>1. next = Then(y, << >>)
    BY <1>3, <1>4 DEF Finalize
  <2>2. next = [q |-> y, issue |-> << >>]
    BY <2>1 DEF Then
  <2>3. next.q = y
    BY ONLY <2>2
  <2> QED BY <1>2, <2>3
<1>5. CASE y.fin = "none" /\ y.phase \in {"bootstrap", "route"}
  <2> DEFINE z == [y EXCEPT !.fin = "rolling_back"]
  <2>1. next = Then(z, <<RollbackOp(y)>>)
    BY <1>3, <1>5 DEF Finalize
  <2>2. z.poisoned
    BY <1>2 DEF RequestStates
  <2> HIDE DEF z
  <2> DEFINE o == RollbackOp(y)
  <2>3. next = [q |-> z, issue |-> <<o>>]
    BY <2>1 DEF Then
  <2> HIDE DEF o
  <2>4. next.q = z
    BY ONLY <2>3
  <2> QED BY <2>2, <2>4
<1>6. CASE y.fin = "none" /\ y.phase \notin {"bootstrap", "route"}
  <2> DEFINE z == [y EXCEPT !.fin = "settled"]
             w == [z EXCEPT !.released = TRUE]
  <2>1. next = Release(z)
    BY <1>3, <1>6 DEF Finalize
  <2>2. w.poisoned
    BY <1>2 DEF RequestStates
  <2>3. next = Then(w, << >>)
    BY <2>1 DEF Release
  <2> HIDE DEF w
  <2>4. next = [q |-> w, issue |-> << >>]
    BY <2>3 DEF Then
  <2>5. next.q = w
    BY ONLY <2>4
  <2> QED BY <2>2, <2>5
<1> QED BY <1>4, <1>5, <1>6

\* The server executes a statement on a connection with a written access
\* record: the record is kept, committed, or taken away with the connection.
LEMMA ServeKeepsAccess ==
    ASSUME RequestAssumption,
           NEW r, NEW q, NEW k, NEW D, NEW ok, NEW k1, NEW D2,
           Serving(r, q, k, D, ok, k1, D2), NEW accepted \in BOOLEAN,
           NEW next, next = Continue(q, r, Op(k, 1), ok, accepted),
           NEW k2, k2 = After(k1, r, q, next),
           NEW e \in k.pending, e.kind = "access", e \notin k2.pending
    PROVE  e \in D2 \/ next.q.poisoned
<1> DEFINE op == Op(k, 1)
<1>1. /\ q \in RequestStates /\ k1 \in ConnectionStates /\ ok \in BOOLEAN
      /\ Queued(r, q, k) /\ Wrote(r, q, k, D) /\ Keeps(r, q, k)
  BY DEF Serving, Running, Held, Ran
<1>2. AccessOf(r, k.pending)
  BY <1>1 DEF Wrote, AccessOf
<1>3. k.tx = "T" /\ Recording(r, k)
  BY <1>1, <1>2 DEF Keeps, Recording
<1>4. CASE op \notin Commits \cup {"rollback"}
  <2>1. e \in k1.pending
    BY <1>1, <1>4 DEF Serving, Ran, TxControl
  <2>2. \/ k2.pending = k1.pending
        \/ next.q.poisoned
    BY <1>1, AfterKeeps
  <2> QED BY <2>1, <2>2
<1>5. CASE op \in Commits \cup {"rollback"}
  <2>1. CASE op \in EndOps
    <3>1. Len(k.queue) = 1 /\ q.fin = "rolling_back"
      BY <1>1, <1>3, <2>1, ServingQueue
      DEF Queued, Keeps, EndOps, HandlerOps, BootstrapOps, RouteOps
    <3>2. op = "access_commit"
      BY <1>1, <1>3, <3>1 DEF Keeps
    <3>3. CASE ok
      BY <1>3, <3>2, <3>3 DEF Serving, Commits
    <3>4. CASE ~ok
      <4>1. next = Finalized(q, "access_commit", ok)
        BY <3>2 DEF Continue
      <4>2. next.q = [q EXCEPT !.fin = "rejected", !.poisoned = TRUE,
                              !.released = TRUE]
        BY <3>4, <4>1 DEF Finalized, RollbackFailed, Release, Then
      <4> QED BY <1>1, <4>2 DEF RequestStates
    <3> QED BY <3>3, <3>4
  <2>2. CASE op = "commit_bootstrap"
    <3>1. CASE ok
      BY <1>3, <2>2, <3>1 DEF Serving, Commits
    <3>2. CASE ~ok
      <4>1. q.pc = "commit_bootstrap"
        BY <1>1, <2>2, ServingQueue DEF Queued, BootstrapOps, RouteOps
      <4>2. ok = FALSE
        BY <1>1, <3>2
      <4> QED BY <1>1, <2>2, <4>1, <4>2, FailedCommitPoisons
    <3> QED BY <3>1, <3>2
  <2> QED BY <1>5, <2>1, <2>2 DEF Commits, EndOps
<1> QED BY <1>4, <1>5

\* An access record that was written and not committed is not rolled back:
\* what takes it away is a failed connection, which its request then destroys.
THEOREM AccessIsNotRolledBack == Spec => AccessRecordSurvives
<1> DEFINE Kept == \A c \in Connections : \A e \in conn[c].pending :
                      e.kind = "access" /\ e \notin conn'[c].pending =>
                          e \in durable' \/ req'[e.by].poisoned
<1>1. RequestAssumption /\ Inv /\ [Next]_vars => Kept
  <2> SUFFICES ASSUME RequestAssumption, Inv, [Next]_vars,
                      NEW c \in Connections, NEW e \in conn[c].pending,
                      e.kind = "access", e \notin conn'[c].pending
               PROVE  e \in durable' \/ req'[e.by].poisoned
    OBVIOUS
  <2> DEFINE r == e.by
             q == req[r]
             k == conn[c]
  <2>1. /\ r \in Requests /\ k.holder = r /\ Holding(q) /\ q.conn = c
        /\ Running(r, q, k, durable)
    BY PendingOfHolder
  <2>2. /\ conn \in [Connections -> ConnectionStates]
        /\ req \in [Requests -> RequestStates]
        /\ k \in ConnectionStates /\ q \in RequestStates
    BY <2>1 DEF Inv, Typed
  <2> HIDE DEF r
  <2>3. ASSUME NEW d \in Connections, Serve(d)
        PROVE  e \in durable' \/ req'[r].poisoned
    <3>1. d = c
      BY <2>2, <2>3 DEF Serve
    <3> DEFINE st == Head(k.queue)
    <3>2. k.queue \in Seq(Statements) /\ k.queue # << >>
      BY <2>2, <2>3, <3>1 DEF ConnectionStates, Serve
    <3>3. st = k.queue[1] /\ st \in Statements /\ 1 \in DOMAIN k.queue
      BY <3>2, HeadTailProperties, EmptySeq
    <3>4. st.by = r /\ Op(k, 1) = st.op
      BY <2>1, <3>3 DEF Running, Held, Queued, Op
    <3>5. PICK ok \in BOOLEAN, accepted \in BOOLEAN :
             LET k1   == Executed(k, st, ok)
                 next == Continue(q, r, st.op, ok, accepted)
             IN  /\ IF ok THEN CanSucceed(k, st.op) ELSE CanFail(k, st.op)
                 /\ req' = [req EXCEPT ![r] = next.q]
                 /\ conn' = [conn EXCEPT ![c] = After(k1, r, q, next)]
                 /\ durable' = IF ok /\ st.op \in Commits /\ k.tx = "T"
                               THEN durable \cup k.pending ELSE durable
      BY <2>3, <3>1, <3>4 DEF Serve
    <3> DEFINE k1   == Executed(k, st, ok)
               next == Continue(q, r, st.op, ok, accepted)
               k2   == After(k1, r, q, next)
    <3>6. Ran(r, q, k, Op(k, 1), ok, k1)
      BY <2>2, <3>2, <3>4, ExecutedRan
    <3> HIDE DEF k1
    <3>7. Serving(r, q, k, durable, ok, k1, durable')
      BY <2>1, <3>2, <3>4, <3>5, <3>6 DEF Serving
    <3>8. next = Continue(q, r, Op(k, 1), ok, accepted)
      BY <3>4
    <3>9. /\ req' = [req EXCEPT ![r] = next.q]
          /\ conn' = [conn EXCEPT ![c] = k2]
      BY <3>5 DEF k1
    <3> HIDE DEF next
    <3>10. k2 = After(k1, r, q, next)
      OBVIOUS
    <3> HIDE DEF k2
    <3>11. conn'[c] = k2 /\ req'[r] = next.q
      BY <2>1, <2>2, <3>9
    <3>12. e \in durable' \/ next.q.poisoned
      BY <3>7, <3>8, <3>10, <3>11, ServeKeepsAccess
    <3> QED BY <3>11, <3>12
  <2>4. ASSUME NEW d \in Connections, ConnectionLost(d)
        PROVE  e \in durable' \/ req'[r].poisoned
    <3>1. d = c
      BY <2>2, <2>4 DEF ConnectionLost
    <3>2. req' = [req EXCEPT ![r].poisoned = TRUE]
      BY <2>1, <2>4, <3>1 DEF ConnectionLost
    <3> QED BY <2>1, <2>2, <3>2 DEF RequestStates
  <2>5. ASSUME NEW o \in Requests, NEW d \in Connections, Connect(o, d)
        PROVE  FALSE
    <3>1. conn'[c].pending = conn[c].pending
      <4>1. CASE req[o].alive
        <5> DEFINE k2 == [conn[d] EXCEPT !.holder = o,
                             !.queue = Append(@, [op |-> "begin_bootstrap",
                                                  by |-> o])]
        <5>1. conn' = [conn EXCEPT ![d] = k2]
          BY <2>5, <4>1 DEF Connect
        <5>2. k2.pending = conn[d].pending
          BY <2>2 DEF ConnectionStates
        <5> HIDE DEF k2
        <5> QED BY <2>2, <5>1, <5>2
      <4>2. CASE ~req[o].alive
        BY <2>5, <4>2 DEF Connect
      <4> QED BY <4>1, <4>2
    <3> QED BY <3>1
  <2>6. ASSUME NEW o \in Requests, NEW next, Perform(o, next),
               req[o].pc # "waiting"
        PROVE  e \in durable' \/ req'[r].poisoned
    <3>1. CASE req[o].conn # c
      <4>1. conn'[c] = conn[c]
        BY <2>2, <2>6, <3>1 DEF Perform
      <4> QED BY <4>1
    <3>2. CASE req[o].conn = c
      <4> DEFINE k2 == After(k, o, req[o], next)
      <4>1. conn'[c] = k2 /\ req'[o] = next.q
        BY <2>2, <2>6, <3>2 DEF Perform
      <4>2. k2.pending # k.pending
        BY <4>1
      <4>3. ~req[o].released /\ next.q.poisoned
        BY <2>2, <4>2, AfterKeeps
      <4>4. CASE o = r
        BY <4>1, <4>3, <4>4
      <4>5. CASE o # r
        <5>1. Holding(req[o])
          BY <2>6, <4>3 DEF Holding
        <5>2. conn[c].holder = o
          BY <3>2, <5>1 DEF Inv, Paired
        <5> QED BY <2>1, <4>5, <5>2
      <4> QED BY <4>4, <4>5
    <3> QED BY <3>1, <3>2
  <2>7. ASSUME NEW o \in Requests,
               \/ RouteQuery(o) \/ RouteReturns(o) \/ RouteThrows(o)
               \/ ClientGone(o) /\ Holding(req[o])
        PROVE  e \in durable' \/ req'[r].poisoned
    <3>1. CASE RouteQuery(o)
      BY <2>6, <3>1 DEF RouteQuery
    <3>2. CASE RouteReturns(o)
      BY <2>6, <3>2 DEF RouteReturns
    <3>3. CASE RouteThrows(o)
      BY <2>6, <3>3 DEF RouteThrows
    <3>4. CASE ClientGone(o) /\ Holding(req[o])
      BY <2>6, <3>4 DEF ClientGone, Holding
    <3> QED BY <2>7, <3>1, <3>2, <3>3, <3>4
  <2>8. CASE UNCHANGED vars
    <3>1. conn' = conn
      BY <2>8 DEF vars
    <3> QED BY <3>1
  <2>9. CASE \E d \in Connections : Serve(d) \/ ConnectionLost(d)
    BY <2>3, <2>4, <2>9 DEF r
  <2>10. CASE \E o \in Requests : \/ \E d \in Connections : Connect(o, d)
                                  \/ RouteQuery(o) \/ RouteReturns(o)
                                  \/ RouteThrows(o) \/ Respond(o)
                                  \/ ClientGone(o)
    <3>1. PICK o \in Requests : \/ \E d \in Connections : Connect(o, d)
                                \/ RouteQuery(o) \/ RouteReturns(o)
                                \/ RouteThrows(o) \/ Respond(o)
                                \/ ClientGone(o)
      BY <2>10
    <3>2. e \in durable' \/ req'[r].poisoned
      <4>1. CASE \E d \in Connections : Connect(o, d)
        BY <2>5, <4>1
      <4>2. CASE RouteQuery(o) \/ RouteReturns(o) \/ RouteThrows(o)
        BY <2>7, <4>2
      <4>3. CASE Respond(o)
        <5>1. conn' = conn
          BY <4>3 DEF Respond
        <5> QED BY <5>1
      <4>4. CASE ClientGone(o) /\ Holding(req[o])
        BY <2>7, <4>4
      <4>5. CASE ClientGone(o) /\ ~Holding(req[o])
        <5>1. conn' = conn
          BY <4>5 DEF ClientGone, Holding
        <5> QED BY <5>1
      <4> QED BY <3>1, <4>1, <4>2, <4>3, <4>4, <4>5
    <3> QED BY <3>2 DEF r
  <2> QED BY <2>8, <2>9, <2>10 DEF Next
<1> QED BY <1>1, InvHolds, RequestAssumption, PTL
   DEF Spec, AccessRecordSurvives

-----------------------------------------------------------------------------
\* What the bootstrap transaction sends, and of that, for staff only.
EarlyOps == BootstrapOps \cup {"scope_bootstrap", "access_commit"}
StaffOps == {"resolve", "scope_bootstrap", "record"}

\* Nothing of the route is under way on a connection.
NoRoute(k) ==
    /\ \A e \in k.pending : e.kind = "access"
    /\ \A i \in DOMAIN k.queue : Op(k, i) \notin RouteOps

\* What the two transactions of a request have written, and may write yet.
Whole(r, q, k) ==
    /\ k.broken => k.pending = {}
    /\ \A e \in k.pending : IF e.kind = "access" THEN r \in Staff
                                                 ELSE e.n \in 1..q.work
    /\ \A i \in DOMAIN k.queue : /\ Op(k, i) \in StaffOps => r \in Staff
                                 /\ Op(k, i) = "work" => q.work > 0
    /\ (\E i \in DOMAIN k.queue : Op(k, i) \in EarlyOps) => NoRoute(k)

\* What r may send on the connection k.
Sendable(r, p, k, ops) ==
    /\ ops \in Seq(Ops)
    /\ (\E i \in DOMAIN ops : ops[i] \in EarlyOps) =>
          NoRoute(k) /\ \A i \in DOMAIN ops : ops[i] \notin RouteOps
    /\ (\E i \in DOMAIN ops : ops[i] \in RouteOps) => Len(k.queue) = 0
    /\ \A i \in DOMAIN ops : /\ ops[i] \in StaffOps => r \in Staff
                             /\ ops[i] = "work" => p.work > 0

LEMMA NothingIsSendable ==
    ASSUME NEW r, NEW p, NEW k
    PROVE  Sendable(r, p, k, << >>)
BY EmptySeq DEF Sendable

LEMMA WholeSends ==
    ASSUME NEW r \in Requests, NEW q, NEW k \in ConnectionStates,
           Whole(r, q, k), q.work \in Nat,
           NEW p, p.work \in Nat, p.work >= q.work,
           NEW ops, Sendable(r, p, k, ops), NEW k2, Sends(k, k2, ops, r)
    PROVE  Whole(r, p, k2)
<1>1. /\ k2.pending = k.pending /\ k2.broken = k.broken
      /\ Len(k.queue) \in Nat /\ Len(ops) \in Nat
      /\ DOMAIN k.queue = 1..Len(k.queue)
      /\ DOMAIN ops = 1..Len(ops)
      /\ DOMAIN k2.queue = 1..(Len(k.queue) + Len(ops))
  BY LenProperties DEF ConnectionStates, Sends, Sendable, Follows
<1>2. ASSUME NEW j \in DOMAIN k2.queue
      PROVE  \/ j \in DOMAIN k.queue /\ Op(k2, j) = Op(k, j)
             \/ \E i \in DOMAIN ops : Op(k2, j) = ops[i]
  <2>1. CASE j \in 1..Len(k.queue)
    BY <1>1, <2>1 DEF Sends, Follows, Op
  <2>2. CASE j \notin 1..Len(k.queue)
    <3> DEFINE i == j - Len(k.queue)
    <3>1. i \in 1..Len(ops) /\ j = Len(k.queue) + i
      BY <1>1, <2>2
    <3> HIDE DEF i
    <3>2. k2.queue[j] = [op |-> ops[i], by |-> r]
      BY <3>1 DEF Sends, Follows
    <3>3. Op(k2, j) = ops[i]
      BY <3>2 DEF Op
    <3> QED BY <1>1, <3>1, <3>3
  <2> QED BY <2>1, <2>2
<1>3. ASSUME NEW e \in k2.pending
      PROVE  IF e.kind = "access" THEN r \in Staff ELSE e.n \in 1..p.work
  <2>1. IF e.kind = "access" THEN r \in Staff ELSE e.n \in 1..q.work
    BY <1>1, <1>3 DEF Whole
  <2> QED BY <2>1
<1>4. ASSUME NEW j \in DOMAIN k2.queue
      PROVE  /\ Op(k2, j) \in StaffOps => r \in Staff
             /\ Op(k2, j) = "work" => p.work > 0
  <2>1. CASE j \in DOMAIN k.queue /\ Op(k2, j) = Op(k, j)
    BY <2>1 DEF Whole
  <2>2. CASE \E i \in DOMAIN ops : Op(k2, j) = ops[i]
    BY <2>2 DEF Sendable
  <2> QED BY <1>2, <2>1, <2>2
<1>5. ASSUME NEW j \in DOMAIN k2.queue, Op(k2, j) \in EarlyOps
      PROVE  NoRoute(k2)
  <2>1. NoRoute(k) /\ \A i \in DOMAIN ops : ops[i] \notin RouteOps
    <3>1. CASE j \in DOMAIN k.queue /\ Op(k2, j) = Op(k, j)
      <4>1. NoRoute(k) /\ Len(k.queue) # 0
        BY <1>1, <1>5, <3>1 DEF Whole
      <4> QED BY <4>1 DEF Sendable
    <3>2. CASE \E i \in DOMAIN ops : Op(k2, j) = ops[i]
      BY <1>5, <3>2 DEF Sendable
    <3> QED BY <1>2, <3>1, <3>2
  <2> QED BY <1>1, <1>2, <2>1 DEF NoRoute
<1> QED BY <1>1, <1>3, <1>4, <1>5 DEF Whole

\* The server has executed a statement: nothing else has changed.
LEMMA RunsWhole ==
    ASSUME NEW r, NEW q, NEW k, NEW D, NEW ok, NEW k1, NEW D2,
           Serving(r, q, k, D, ok, k1, D2), Whole(r, q, k)
    PROVE  /\ Whole(r, q, k1)
           /\ NoRoute(k) => NoRoute(k1)
<1> DEFINE op == Op(k, 1)
<1>1. /\ q.work \in Nat /\ ok \in BOOLEAN /\ 1 \in DOMAIN k.queue
      /\ op \in Ops /\ k1.broken = k.broken
  <2>1. 1 \in DOMAIN k.queue /\ op \in Ops
    BY ServingQueue
  <2>2. q \in RequestStates /\ ok \in BOOLEAN
    BY DEF Serving, Running
  <2>3. k1.broken = k.broken
    BY DEF Serving, Ran
  <2> QED BY <2>1, <2>2, <2>3 DEF RequestStates
<1>2. ASSUME NEW i \in DOMAIN k1.queue
      PROVE  i + 1 \in DOMAIN k.queue /\ Op(k1, i) = Op(k, i + 1)
  <2>1. /\ Len(k.queue) \in 1..3 /\ DOMAIN k.queue = 1..Len(k.queue)
        /\ DOMAIN k1.queue = 1..Len(k1.queue)
        /\ Len(k1.queue) = Len(k.queue) - 1
        /\ \A j \in 1..Len(k1.queue) : k1.queue[j] = k.queue[j + 1]
    BY ServingQueue
  <2>2. i \in 1..(Len(k.queue) - 1)
    BY <1>2, <2>1
  <2>3. i + 1 \in 1..Len(k.queue)
    BY <2>1, <2>2
  <2> QED BY <1>2, <2>1, <2>3 DEF Op
<1>3. ASSUME NEW e \in k1.pending
      PROVE  \/ e \in k.pending
             \/ e.kind = "access" /\ op = "record"
             \/ e.kind = "work" /\ op = "work" /\ e.n = q.work
  <2>1. CASE op \in TxControl
    BY <1>3, <2>1 DEF Serving, Ran, TxControl
  <2>2. CASE op \notin TxControl /\ ~ok
    BY <1>3, <2>2 DEF Serving, Ran
  <2>3. CASE op \notin TxControl /\ ok
    BY <1>3, <2>3 DEF Serving, Ran
  <2> QED BY <1>1, <2>1, <2>2, <2>3
<1>4. k.broken => k1.pending = {}
  <2> SUFFICES ASSUME k.broken PROVE k1.pending = {}
    OBVIOUS
  <2>1. ~ok /\ k.pending = {}
    BY DEF Serving, CanSucceed, Whole
  <2> QED BY <1>1, <2>1 DEF Serving, Ran, TxControl
<1>5. ASSUME NEW e \in k1.pending
      PROVE  IF e.kind = "access" THEN r \in Staff ELSE e.n \in 1..q.work
  <2>1. CASE e \in k.pending
    BY <2>1 DEF Whole
  <2>2. CASE e.kind = "access" /\ op = "record"
    BY <1>1, <2>2 DEF Whole, StaffOps
  <2>3. CASE e.kind = "work" /\ op = "work" /\ e.n = q.work
    <3>1. q.work > 0
      BY <1>1, <2>3 DEF Whole
    <3> QED BY <1>1, <2>3, <3>1
  <2> QED BY <1>3, <2>1, <2>2, <2>3
<1>6. ASSUME NoRoute(k) PROVE NoRoute(k1)
  <2>1. op # "work"
    BY <1>1, <1>6 DEF NoRoute, RouteOps
  <2> QED BY <1>2, <1>3, <1>6, <2>1 DEF NoRoute
<1>7. \A i \in DOMAIN k1.queue : /\ Op(k1, i) \in StaffOps => r \in Staff
                                 /\ Op(k1, i) = "work" => q.work > 0
  BY <1>2 DEF Whole
<1>8. (\E i \in DOMAIN k1.queue : Op(k1, i) \in EarlyOps) => NoRoute(k1)
  BY <1>2, <1>6 DEF Whole
<1>9. Whole(r, q, k1)
  BY <1>1, <1>4, <1>5, <1>7, <1>8 DEF Whole
<1> QED BY <1>6, <1>9

\* A request q that has become p, of which the response is not out.
Onward(q, p) ==
    /\ p.work = q.work /\ p.reply = q.reply
    /\ p.pc # q.pc => /\ q.pc \in HandlerOps \cup {"handler"}
                      /\ p.pc \in HandlerOps \cup {"handler", "failing"}

\* The finalization changes neither the route's place nor its work.
LEMMA FinalizeOnward ==
    ASSUME NEW x \in RequestStates, NEW outcome, NEW next,
           next = Finalize(x, outcome)
    PROVE  /\ next.q.pc = x.pc /\ next.q.work = x.work
           /\ next.q.reply = x.reply
<1>1. CASE x.fin # "none"
  BY <1>1 DEF Finalize, Then
<1>2. CASE x.fin = "none" /\ outcome = "commit" /\ x.phase = "route"
  BY <1>2 DEF Finalize, Then, RequestStates
<1>3. CASE /\ x.fin = "none" /\ ~(outcome = "commit" /\ x.phase = "route")
           /\ x.phase \in {"bootstrap", "route"}
  <2> DEFINE z == [x EXCEPT !.fin = "rolling_back"]
             o == RollbackOp(x)
  <2>1. next = [q |-> z, issue |-> <<o>>]
    BY <1>3 DEF Finalize, Then
  <2>2. z.pc = x.pc /\ z.work = x.work /\ z.reply = x.reply
    BY DEF RequestStates
  <2> HIDE DEF z, o
  <2>3. next.q = z
    BY ONLY <2>1
  <2> QED BY <2>2, <2>3
<1>4. CASE x.fin = "none" /\ x.phase \notin {"bootstrap", "route"}
  <2> DEFINE z == [x EXCEPT !.fin = "settled", !.released = TRUE]
  <2>1. next = [q |-> z, issue |-> << >>]
    BY <1>4 DEF Finalize, Release, Then
  <2>2. z.pc = x.pc /\ z.work = x.work /\ z.reply = x.reply
    BY DEF RequestStates
  <2> HIDE DEF z
  <2>3. next.q = z
    BY ONLY <2>1
  <2> QED BY <2>2, <2>3
<1> QED BY <1>1, <1>2, <1>3, <1>4

LEMMA ThrowOnward ==
    ASSUME NEW q, q.pc \in HandlerOps \cup {"handler"},
           NEW x \in RequestStates, x.pc = q.pc, x.work = q.work,
           x.reply = q.reply
    PROVE  Onward(q, Throw(x).q)
<1> DEFINE y == [x EXCEPT !.pc = "failing"]
<1>1. /\ y \in RequestStates /\ y.pc = "failing" /\ y.work = x.work
      /\ y.reply = x.reply
  BY DEF RequestStates, PCs
<1>2. Throw(x) = Finalize(y, "rollback")
  BY DEF Throw
<1> HIDE DEF y
<1> QED BY <1>1, <1>2, FinalizeOnward DEF Onward

\* What an open request sends when an answer is accepted.
AnswerSends(r, op, ops) ==
    \/ ops = << >>
    \/ op = "begin_bootstrap" /\ ops = <<"authenticate">>
    \/ op = "authenticate" /\ r \in Staff /\ ops = <<"resolve">>
    \/ op = "authenticate" /\ r \notin Staff /\ ops = <<"commit_bootstrap">>
    \/ op = "resolve" /\ ops = <<"scope_bootstrap", "record">>
    \/ op = "record" /\ ops = <<"commit_bootstrap">>
    \/ op = "commit_bootstrap" /\ ops = <<"begin_route">>
    \/ op = "begin_route" /\ ops = <<"scope_route">>
    \/ op = "scope_route" /\ r \notin Staff /\ ops = <<"membership">>

LEMMA AnsweredSends ==
    ASSUME NEW r, NEW q \in RequestStates, q.fin = "none", ~q.released,
           NEW op \in HandlerOps,
           q.pc = IF op = "scope_bootstrap" THEN "record" ELSE op,
           NEW ok, NEW accepted, WellAnswered(op, ok, accepted),
           NEW next, next = Answered(q, r, op, accepted)
    PROVE  Onward(q, next.q) /\ AnswerSends(r, op, next.issue)
<1>1. q.pc \in HandlerOps
  BY DEF HandlerOps, BootstrapOps
<1>2. ASSUME NEW x \in RequestStates, x.fin = "none", ~x.released,
             x.work = q.work, x.reply = q.reply,
             NEW pc \in HandlerOps \cup {"handler"}, NEW ops,
             next = Then([x EXCEPT !.pc = pc], ops)
      PROVE  Onward(q, next.q) /\ next.issue = ops
  <2> DEFINE z == [x EXCEPT !.pc = pc]
  <2>1. z.pc = pc /\ z.work = x.work /\ z.reply = x.reply
    BY DEF RequestStates
  <2>2. next = [q |-> z, issue |-> ops]
    BY <1>2 DEF Then
  <2> HIDE DEF z
  <2>3. next.q = z /\ next.issue = ops
    BY ONLY <2>2
  <2> QED BY <1>1, <1>2, <2>1, <2>3 DEF Onward
<1>3. \A x, pc, ops : x.fin = "none" /\ ~x.released =>
          Issue(x, pc, ops) = Then([x EXCEPT !.pc = pc], ops)
  BY DEF Issue, Live
<1>4. BootstrapOps \cup RouteOps \subseteq HandlerOps
  BY DEF HandlerOps
<1>5. CASE op = "begin_bootstrap"
  <2>1. next = Then([q EXCEPT !.pc = "authenticate"], <<"authenticate">>)
    BY <1>3, <1>5 DEF Answered
  <2> QED BY <1>2, <1>4, <1>5, <2>1 DEF AnswerSends, BootstrapOps
<1>6. CASE op = "authenticate"
  <2>1. CASE r \in Staff
    <3>1. next = Then([q EXCEPT !.pc = "resolve"], <<"resolve">>)
      BY <1>3, <1>6, <2>1 DEF Answered, WellAnswered
    <3> QED BY <1>2, <1>4, <1>6, <2>1, <3>1 DEF AnswerSends, BootstrapOps
  <2>2. CASE r \notin Staff
    <3>1. next = Then([q EXCEPT !.pc = "commit_bootstrap"],
                      <<"commit_bootstrap">>)
      BY <1>3, <1>6, <2>2 DEF Answered, WellAnswered
    <3> QED BY <1>2, <1>4, <1>6, <2>2, <3>1 DEF AnswerSends, BootstrapOps
  <2> QED BY <2>1, <2>2
<1>7. CASE op = "resolve"
  <2> DEFINE x == [q EXCEPT !.accessRecordIssued = TRUE]
  <2>1. /\ x \in RequestStates /\ x.fin = "none" /\ ~x.released
        /\ x.work = q.work /\ x.reply = q.reply
    BY DEF RequestStates
  <2>2. next = Issue(x, "record", <<"scope_bootstrap", "record">>)
    BY <1>7 DEF Answered, WellAnswered
  <2> HIDE DEF x
  <2>3. next = Then([x EXCEPT !.pc = "record"],
                    <<"scope_bootstrap", "record">>)
    BY <1>3, <2>1, <2>2
  <2> QED BY <1>2, <1>4, <1>7, <2>1, <2>3 DEF AnswerSends, BootstrapOps
<1>8. CASE op = "record"
  <2>1. next = Then([q EXCEPT !.pc = "commit_bootstrap"],
                    <<"commit_bootstrap">>)
    BY <1>3, <1>8 DEF Answered, AfterRecord
  <2> QED BY <1>2, <1>4, <1>8, <2>1 DEF AnswerSends, BootstrapOps
<1>9. CASE op = "commit_bootstrap"
  <2> DEFINE x == [q EXCEPT !.phase = "none", !.accessRecordIssued = FALSE]
             y == [x EXCEPT !.phase = PhaseOfRoute(x)]
  <2>1. /\ x \in RequestStates /\ x.fin = "none" /\ ~x.released
        /\ x.work = q.work /\ x.reply = q.reply
    BY DEF RequestStates
  <2>2. next = BeginTenantTransaction(x)
    BY <1>9 DEF Answered
  <2> HIDE DEF x
  <2>3. /\ y \in RequestStates /\ y.fin = "none" /\ ~y.released
        /\ y.work = q.work /\ y.reply = q.reply
    BY <2>1 DEF RequestStates, PhaseOfRoute
  <2>4. next = Issue(y, "begin_route", <<"begin_route">>)
    BY <2>1, <2>2 DEF BeginTenantTransaction, Live
  <2> HIDE DEF y
  <2>5. next = Then([y EXCEPT !.pc = "begin_route"], <<"begin_route">>)
    BY <1>3, <2>3, <2>4
  <2> QED BY <1>2, <1>4, <1>9, <2>3, <2>5 DEF AnswerSends, RouteOps
<1>10. CASE op = "begin_route"
  <2>1. next = Then([q EXCEPT !.pc = "scope_route"], <<"scope_route">>)
    BY <1>3, <1>10 DEF Answered, AfterBegin
  <2> QED BY <1>2, <1>4, <1>10, <2>1 DEF AnswerSends, RouteOps
<1>11. CASE op = "scope_route"
  <2>1. CASE r \in Staff
    <3>1. next = Then([q EXCEPT !.pc = "handler"], << >>)
      BY <1>11, <2>1 DEF Answered
    <3> QED BY <1>2, <3>1 DEF AnswerSends
  <2>2. CASE r \notin Staff
    <3>1. next = Then([q EXCEPT !.pc = "membership"], <<"membership">>)
      BY <1>3, <1>11, <2>2 DEF Answered
    <3> QED BY <1>2, <1>4, <1>11, <2>2, <3>1 DEF AnswerSends, RouteOps
  <2> QED BY <2>1, <2>2
<1>12. CASE op \in {"membership", "work"}
  <2>1. next = Then([q EXCEPT !.pc = "handler"], << >>)
    BY <1>12 DEF Answered, WellAnswered
  <2> QED BY <1>2, <2>1 DEF AnswerSends
<1>13. CASE op = "scope_bootstrap"
  <2>1. next.q = q /\ next.issue = << >>
    BY <1>13 DEF Answered, Then
  <2> QED BY <2>1 DEF Onward, AnswerSends
<1> QED BY <1>5, <1>6, <1>7, <1>8, <1>9, <1>10, <1>11, <1>12, <1>13
        DEF HandlerOps, BootstrapOps, RouteOps

\* What the finalization does of its own accord: it may begin a rollback.
LEMMA FinalizedOnward ==
    ASSUME NEW q \in RequestStates, NEW op, NEW ok \in BOOLEAN,
           NEW next, next = Finalized(q, op, ok)
    PROVE  Onward(q, next.q) /\ next.issue \in {<< >>, <<"rollback">>}
<1>1. ASSUME NEW z \in RequestStates, NEW ops, next = Then(z, ops),
             z.pc = q.pc, z.work = q.work, z.reply = q.reply
      PROVE  Onward(q, next.q) /\ next.issue = ops
  <2>1. next = [q |-> z, issue |-> ops]
    BY <1>1 DEF Then
  <2>2. next.q = z /\ next.issue = ops
    BY ONLY <2>1
  <2> QED BY <1>1, <2>2 DEF Onward
<1>2. CASE op = "final_commit" /\ ok
  <2> DEFINE x == [q EXCEPT !.phase = "committed", !.fin = "settled"]
             z == [x EXCEPT !.released = TRUE]
  <2>1. /\ z \in RequestStates /\ z.pc = q.pc /\ z.work = q.work
        /\ z.reply = q.reply
    BY DEF RequestStates
  <2>2. next = Release(x)
    BY <1>2 DEF Finalized
  <2>3. next = Then(z, << >>)
    BY <2>2 DEF Release
  <2> HIDE DEF z
  <2> QED BY <1>1, <2>1, <2>3
<1>3. CASE op = "final_commit" /\ ~ok
  <2> DEFINE z == [q EXCEPT !.poisoned = TRUE]
  <2>1. /\ z \in RequestStates /\ z.pc = q.pc /\ z.work = q.work
        /\ z.reply = q.reply
    BY DEF RequestStates
  <2>2. next = Then(z, <<"rollback">>)
    BY <1>3 DEF Finalized
  <2> HIDE DEF z
  <2> QED BY <1>1, <2>1, <2>2
<1>4. CASE op # "final_commit" /\ ok
  <2> DEFINE x == [q EXCEPT
                     !.phase = IF op = "rollback" THEN "rolled_back"
                                                  ELSE "committed",
                     !.fin = AfterRollback(q)]
             z == [x EXCEPT !.released = TRUE]
  <2>1. /\ z \in RequestStates /\ z.pc = q.pc /\ z.work = q.work
        /\ z.reply = q.reply
    BY DEF RequestStates, AfterRollback
  <2>2. next = Release(x)
    BY <1>4 DEF Finalized
  <2>3. next = Then(z, << >>)
    BY <2>2 DEF Release
  <2> HIDE DEF z
  <2> QED BY <1>1, <2>1, <2>3
<1>5. CASE op # "final_commit" /\ ~ok
  <2> DEFINE x == [q EXCEPT !.fin = "rejected", !.poisoned = TRUE]
             z == [x EXCEPT !.released = TRUE]
  <2>1. /\ z \in RequestStates /\ z.pc = q.pc /\ z.work = q.work
        /\ z.reply = q.reply
    BY DEF RequestStates
  <2>2. next = Release(x)
    BY <1>5 DEF Finalized, RollbackFailed
  <2>3. next = Then(z, << >>)
    BY <2>2 DEF Release
  <2> HIDE DEF z
  <2> QED BY <1>1, <2>1, <2>3
<1> QED BY <1>2, <1>3, <1>4, <1>5

\* A request that goes on sends what it may.
LEMMA ContinueSends ==
    ASSUME RequestAssumption,
           NEW r, NEW q, NEW k, NEW D, NEW ok, NEW k1, NEW D2,
           Serving(r, q, k, D, ok, k1, D2), Whole(r, q, k),
           NEW accepted \in BOOLEAN,
           NEW next, next = Continue(q, r, Op(k, 1), ok, accepted)
    PROVE  Onward(q, next.q) /\ Sendable(r, q, k1, next.issue)
<1> DEFINE op == Op(k, 1)
<1>1. /\ r \in Requests /\ q \in RequestStates /\ k1 \in ConnectionStates
      /\ ok \in BOOLEAN /\ Queued(r, q, k) /\ ~q.released
  BY DEF Serving, Running, Held, Ran, Holding
<1>2. /\ Len(k.queue) \in 1..3 /\ 1 \in DOMAIN k.queue /\ op \in Ops
      /\ Len(k1.queue) = Len(k.queue) - 1
  BY ServingQueue
<1>3. op \in HandlerOps \cup EndOps
  BY <1>2 DEF Ops, HandlerOps, EndOps, BootstrapOps, RouteOps, TxControl,
     Commits, Begins, ScopeSetters
<1>4. Sendable(r, q, k1, << >>)
  BY NothingIsSendable
<1>5. ASSUME NEW o \in Ops, o \in EarlyOps => NoRoute(k1),
             o \in RouteOps => Len(k1.queue) = 0,
             o \in StaffOps => r \in Staff, o # "work"
      PROVE  Sendable(r, q, k1, <<o>>)
  <2>1. <<o>> \in Seq(Ops) /\ DOMAIN <<o>> = {1} /\ <<o>>[1] = o
    OBVIOUS
  <2>2. EarlyOps \cap RouteOps = {}
    BY DEF EarlyOps, BootstrapOps, RouteOps
  <2> QED BY <1>5, <2>1, <2>2 DEF Sendable
<1>6. op \in EarlyOps => NoRoute(k1)
  BY <1>2, RunsWhole DEF Whole
<1>7. CASE op \in EndOps
  <2>1. next = Finalized(q, op, ok)
    BY <1>7 DEF Continue, EndOps
  <2>2. Onward(q, next.q) /\ next.issue \in {<< >>, <<"rollback">>}
    BY <1>1, <2>1, FinalizedOnward
  <2>3. Sendable(r, q, k1, <<"rollback">>)
    BY <1>5 DEF Ops, TxControl, EarlyOps, BootstrapOps, RouteOps, StaffOps
  <2> QED BY <1>4, <2>2, <2>3
<1>8. CASE op \in HandlerOps /\ q.fin # "none"
  <2>1. next.issue = << >> /\ Fenced(q, next.q, op)
    BY <1>1, <1>8, FencedContinue
  <2> QED BY <1>4, <2>1 DEF Fenced, Onward
<1>9. CASE op \in HandlerOps /\ q.fin = "none"
  <2>1. /\ q.pc = IF op = "scope_bootstrap" THEN "record" ELSE op
        /\ op \notin EndOps
    BY <1>1, <1>2, <1>9
    DEF Queued, HandlerOps, EndOps, BootstrapOps, RouteOps
  <2>2. q.pc \in HandlerOps
    BY <1>9, <2>1 DEF HandlerOps, BootstrapOps
  <2>3. ASSUME NEW x, SameButPoisoned(q, x), next = Throw(x)
        PROVE  Onward(q, next.q) /\ Sendable(r, q, k1, next.issue)
    <3>1. /\ x \in RequestStates /\ x.pc = q.pc /\ x.work = q.work
          /\ x.reply = q.reply /\ x.phase = q.phase /\ x.fin = "none"
      BY <1>9, <2>3 DEF SameButPoisoned
    <3>2. Onward(q, next.q)
      BY <2>2, <2>3, <3>1, ThrowOnward
    <3>3. q.phase = IF q.pc \in BootstrapOps THEN "bootstrap" ELSE "route"
      BY <1>1, <1>9 DEF Queued
    <3>4. next.issue = <<RollbackOp(x)>>
      BY <2>3, <3>1, <3>3, ThrowOpen
    <3>5. \/ RollbackOp(x) = "rollback"
          \/ RollbackOp(x) = "access_commit" /\ op \in EarlyOps
      BY <2>1, <3>1, <3>3 DEF RollbackOp, EarlyOps
    <3>6. Sendable(r, q, k1, <<RollbackOp(x)>>)
      BY <1>5, <1>6, <3>5
      DEF Ops, TxControl, Commits, EarlyOps, BootstrapOps, RouteOps, StaffOps
    <3> QED BY <3>2, <3>4, <3>6
  <2>4. CASE ~ok
    <3> DEFINE x == [q EXCEPT !.poisoned = @ \/ op \in TxControl]
    <3>1. next = Throw(x)
      BY <2>1, <2>4 DEF Continue, EndOps
    <3>2. SameButPoisoned(q, x)
      BY <1>1 DEF SameButPoisoned, RequestStates
    <3> HIDE DEF x
    <3> QED BY <2>3, <3>1, <3>2
  <2>5. CASE ok /\ ~WellAnswered(op, ok, accepted)
    <3>1. next = Throw(q)
      BY <2>1, <2>5 DEF Continue, EndOps, Answered, WellAnswered
    <3>2. SameButPoisoned(q, q)
      BY <1>1 DEF SameButPoisoned
    <3> QED BY <2>3, <3>1, <3>2
  <2>6. CASE WellAnswered(op, ok, accepted)
    <3>1. next = Answered(q, r, op, accepted)
      BY <2>1, <2>6 DEF Continue, EndOps, WellAnswered
    <3>2. Onward(q, next.q) /\ AnswerSends(r, op, next.issue)
      BY <1>1, <1>9, <2>1, <2>6, <3>1, AnsweredSends
    <3>3. op # "scope_bootstrap" => Len(k1.queue) = 0
      BY <1>1, <1>2, <1>9 DEF Queued
    <3>4. CASE next.issue = <<"scope_bootstrap", "record">> /\ op = "resolve"
      <4>1. r \in Staff
        BY <1>2, <3>4 DEF Whole, StaffOps
      <4>2. NoRoute(k1)
        BY <1>6, <3>4 DEF EarlyOps, BootstrapOps
      <4> DEFINE ops == <<"scope_bootstrap", "record">>
      <4>3. ops \in Seq(Ops) /\ \A i \in DOMAIN ops :
                ops[i] \in {"scope_bootstrap", "record"}
        BY DEF Ops, ScopeSetters
      <4> HIDE DEF ops
      <4>4. Sendable(r, q, k1, ops)
        BY <4>1, <4>2, <4>3 DEF Sendable, RouteOps
      <4> QED BY <3>2, <3>4, <4>4 DEF ops
    <3>5. CASE next.issue = << >>
      BY <1>4, <3>2, <3>5
    <3>6. CASE \E o \in {"authenticate", "resolve", "commit_bootstrap"} :
                  /\ next.issue = <<o>> /\ op \in BootstrapOps
                  /\ o = "resolve" => r \in Staff
      <4>1. PICK o \in {"authenticate", "resolve", "commit_bootstrap"} :
                  /\ next.issue = <<o>> /\ op \in BootstrapOps
                  /\ o = "resolve" => r \in Staff
        BY <3>6
      <4>2. o \in Ops /\ o \notin RouteOps /\ o # "work"
        BY DEF Ops, TxControl, Commits, RouteOps
      <4>3. o \in StaffOps => r \in Staff
        BY <4>1 DEF StaffOps
      <4>4. NoRoute(k1)
        BY <1>6, <4>1 DEF EarlyOps
      <4> QED BY <1>5, <3>2, <4>1, <4>2, <4>3, <4>4
    <3>7. CASE \E o \in {"begin_route", "scope_route", "membership"} :
                  next.issue = <<o>> /\ op # "scope_bootstrap"
      <4>1. PICK o \in {"begin_route", "scope_route", "membership"} :
                  next.issue = <<o>> /\ op # "scope_bootstrap"
        BY <3>7
      <4>2. /\ o \in Ops /\ o \notin EarlyOps /\ o # "work"
            /\ o \notin StaffOps
        BY DEF Ops, TxControl, Begins, ScopeSetters, EarlyOps, BootstrapOps,
           StaffOps
      <4> QED BY <1>5, <3>2, <3>3, <4>1, <4>2
    <3>8. \/ next.issue = << >>
          \/ next.issue = <<"scope_bootstrap", "record">> /\ op = "resolve"
          \/ \E o \in {"authenticate", "resolve", "commit_bootstrap"} :
                  /\ next.issue = <<o>> /\ op \in BootstrapOps
                  /\ o = "resolve" => r \in Staff
          \/ \E o \in {"begin_route", "scope_route", "membership"} :
                  next.issue = <<o>> /\ op # "scope_bootstrap"
      BY <3>2 DEF AnswerSends, BootstrapOps
    <3> QED BY <3>4, <3>5, <3>6, <3>7, <3>8
  <2> QED BY <1>1, <2>4, <2>5, <2>6
<1> QED BY <1>3, <1>7, <1>8, <1>9

LEMMA ServeWhole ==
    ASSUME RequestAssumption,
           NEW r, NEW q, NEW k, NEW D, NEW ok, NEW k1, NEW D2,
           Serving(r, q, k, D, ok, k1, D2), Whole(r, q, k),
           NEW accepted \in BOOLEAN,
           NEW next, next = Continue(q, r, Op(k, 1), ok, accepted),
           NEW k2, k2 = After(k1, r, q, next)
    PROVE  /\ Onward(q, next.q)
           /\ ~next.q.released => Whole(r, next.q, k2)
<1>1. Onward(q, next.q) /\ Sendable(r, q, k1, next.issue)
  BY ContinueSends
<1>2. /\ r \in Requests /\ q \in RequestStates /\ k1 \in ConnectionStates
      /\ q.work \in Nat
  BY DEF Serving, Running, Ran, RequestStates
<1>3. Whole(r, q, k1)
  BY RunsWhole
<1>4. ASSUME ~next.q.released PROVE Whole(r, next.q, k2)
  <2> DEFINE ops == next.issue
             p   == next.q
  <2>1. ops \in Seq(Ops) /\ p.work = q.work
    BY <1>1 DEF Sendable, Onward
  <2>2. Sends(k1, k2, ops, r)
    BY <1>2, <1>4, <2>1, AfterIssue
  <2>3. Sendable(r, p, k1, ops)
    BY <1>1, <2>1 DEF Sendable
  <2> HIDE DEF ops, p
  <2>4. Whole(r, p, k2)
    BY <1>2, <1>3, <2>1, <2>2, <2>3, WholeSends
  <2> QED BY <2>4 DEF p
<1> QED BY <1>1, <1>4

-----------------------------------------------------------------------------
\* What AtomicRequests sees of a request.

DoneBy(r, D) == {e.n : e \in {f \in D : f.kind = "work" /\ f.by = r}}

ToldBy(q) == IF q.pc = "done" /\ q.reply = "none" THEN "gone" ELSE q.reply

\* What is durable of a request: work only after its route has returned, and
\* then nothing more is written, the connection being lost or given back.
Accounted(r, q, k, D) ==
    \A e \in D : e.by = r =>
        IF e.kind = "access" THEN r \in Staff
        ELSE /\ e.n \in 1..q.work
             /\ q.pc \in {"replying", "done"}
             /\ Holding(q) => k.broken

AtomicInv ==
    /\ \A r \in Requests :
          Holding(req[r]) => Whole(r, req[r], conn[req[r].conn])
    /\ \A r \in Requests :
          Accounted(r, req[r], conn[req[r].conn], durable)
    /\ \A r \in Requests : req[r].reply # "none" => req[r].pc = "done"

\* A step of r, as AtomicRequests sees it.
SameWork(q, q2) == q2.work = q.work
SameTold(q, q2) == ToldBy(q2) = ToldBy(q)
SameDone(r, D, D2) == DoneBy(r, D2) = DoneBy(r, D)
SameAccess(r, D, D2) == AccessOf(r, D2) <=> AccessOf(r, D)

Seen(r, q, D, q2, D2) ==
    \/ /\ SameWork(q, q2) /\ SameTold(q, q2) /\ SameDone(r, D, D2)
       /\ SameAccess(r, D, D2)
    \/ /\ r \in Staff /\ ToldBy(q) = "none" /\ DoneBy(r, D) = {}
       /\ AccessOf(r, D2)
       /\ SameWork(q, q2) /\ SameTold(q, q2) /\ SameDone(r, D, D2)
    \/ /\ ToldBy(q) = "none" /\ DoneBy(r, D) = {} /\ q.work < MaxWork
       /\ q2.work = q.work + 1
       /\ SameTold(q, q2) /\ SameDone(r, D, D2) /\ SameAccess(r, D, D2)
    \/ /\ ToldBy(q) = "none" /\ DoneBy(r, D) = {}
       /\ r \in Staff => AccessOf(r, D)
       /\ DoneBy(r, D2) = 1..q.work
       /\ SameWork(q, q2) /\ SameTold(q, q2) /\ SameAccess(r, D, D2)
    \/ /\ ToldBy(q) = "none" /\ ToldBy(q2) \in {"ok", "error", "gone"}
       /\ ToldBy(q2) = "ok" => DoneBy(r, D) = 1..q.work
       /\ SameWork(q, q2) /\ SameDone(r, D, D2) /\ SameAccess(r, D, D2)

\* From one request to all of them.
LEMMA AtomicStep ==
    ASSUME RequestAssumption, Inv, AtomicInv,
           NEW r \in Requests, NEW q2 \in RequestStates,
           req' = [req EXCEPT ![r] = q2],
           \A d \in Connections :
               conn'[d] = conn[d] \/ conn[d].holder \in {r, Pool},
           durable \subseteq durable',
           \A e \in durable' \ durable : e.by = r,
           Holding(q2) => Whole(r, q2, conn'[q2.conn]),
           Accounted(r, q2, conn'[q2.conn], durable'),
           q2.reply # "none" => q2.pc = "done",
           Seen(r, req[r], durable, q2, durable')
    PROVE  AtomicInv' /\ [Atomic!AtomicNext]_(Atomic!atomicVars)
<1> DEFINE q == req[r]
<1>1. /\ req'[r] = q2
      /\ \A o \in Requests \ {r} : req'[o] = req[o]
  BY DEF Inv, Typed
<1>2. ASSUME NEW o \in Requests \ {r}, Holding(req[o])
      PROVE  conn'[req[o].conn] = conn[req[o].conn]
  BY <1>2 DEF Inv, Paired, RequestAssumption
<1>3. AtomicInv'
  <2>1. ASSUME NEW o \in Requests, Holding(req'[o])
        PROVE  Whole(o, req'[o], conn'[req'[o].conn])
    <3>1. CASE o = r
      BY <1>1, <2>1, <3>1
    <3>2. CASE o # r
      BY <1>1, <1>2, <2>1, <3>2 DEF AtomicInv
    <3> QED BY <3>1, <3>2
  <2>2. ASSUME NEW o \in Requests
        PROVE  Accounted(o, req'[o], conn'[req'[o].conn], durable')
    <3>1. CASE o = r
      BY <1>1, <3>1
    <3>2. CASE o # r
      <4>1. Accounted(o, req[o], conn[req[o].conn], durable)
        BY DEF AtomicInv
      <4>2. \A e \in durable' : e.by = o => e \in durable
        BY <3>2
      <4> QED BY <1>1, <1>2, <3>2, <4>1, <4>2 DEF Accounted
    <3> QED BY <3>1, <3>2
  <2>3. \A o \in Requests : req'[o].reply # "none" => req'[o].pc = "done"
    BY <1>1 DEF AtomicInv
  <2> QED BY <2>1, <2>2, <2>3 DEF AtomicInv
<1>4. /\ Asked = [o \in Requests |-> req[o].work]
      /\ Asked' = [o \in Requests |-> req'[o].work]
      /\ Done = [o \in Requests |-> DoneBy(o, durable)]
      /\ Done' = [o \in Requests |-> DoneBy(o, durable')]
      /\ Told = [o \in Requests |-> ToldBy(req[o])]
      /\ Told' = [o \in Requests |-> ToldBy(req'[o])]
      /\ Recorded = {o \in Requests : AccessOf(o, durable)}
      /\ Recorded' = {o \in Requests : AccessOf(o, durable')}
  BY DEF Asked, Done, Told, Recorded, DoneBy, ToldBy, AccessOf
<1>5. ASSUME NEW o \in Requests \ {r}
      PROVE  /\ DoneBy(o, durable') = DoneBy(o, durable)
             /\ AccessOf(o, durable') <=> AccessOf(o, durable)
  <2>1. \A e \in durable' : e.by = o <=> e \in durable /\ e.by = o
    BY <1>5
  <2>2. {f \in durable' : f.kind = "work" /\ f.by = o}
            = {f \in durable : f.kind = "work" /\ f.by = o}
    BY <2>1
  <2> QED BY <2>1, <2>2 DEF DoneBy, AccessOf
<1>6. /\ Asked' = [Asked EXCEPT ![r] = q2.work]
      /\ Done' = [Done EXCEPT ![r] = DoneBy(r, durable')]
      /\ Told' = [Told EXCEPT ![r] = ToldBy(q2)]
  <2>1. Asked' = [Asked EXCEPT ![r] = q2.work]
    BY <1>1, <1>4
  <2>2. Done' = [Done EXCEPT ![r] = DoneBy(r, durable')]
    BY <1>4, <1>5
  <2>3. Told' = [Told EXCEPT ![r] = ToldBy(q2)]
    BY <1>1, <1>4
  <2> QED BY <2>1, <2>2, <2>3
<1>7. AccessOf(r, durable) => AccessOf(r, durable')
  BY DEF AccessOf
<1>8. Recorded' = IF AccessOf(r, durable') THEN Recorded \cup {r}
                                           ELSE Recorded
  BY <1>4, <1>5, <1>7
<1>9. /\ Asked[r] = q.work /\ Done[r] = DoneBy(r, durable)
      /\ Told[r] = ToldBy(q) /\ (r \in Recorded <=> AccessOf(r, durable))
  BY <1>4
<1>10. SameWork(q, q2) => Asked' = Asked
  BY <1>4, <1>6, <1>9 DEF SameWork
<1>11. SameTold(q, q2) => Told' = Told
  BY <1>4, <1>6, <1>9 DEF SameTold
<1>12. SameDone(r, durable, durable') => Done' = Done
  BY <1>4, <1>6, <1>9 DEF SameDone
<1>13. SameAccess(r, durable, durable') => Recorded' = Recorded
  BY <1>8, <1>9 DEF SameAccess
<1>14. [Atomic!AtomicNext]_(Atomic!atomicVars)
  <2>1. CASE /\ SameWork(q, q2) /\ SameTold(q, q2)
             /\ SameDone(r, durable, durable')
             /\ SameAccess(r, durable, durable')
    BY <2>1, <1>10, <1>11, <1>12, <1>13 DEF Atomic!atomicVars
  <2>2. CASE /\ r \in Staff /\ ToldBy(q) = "none" /\ DoneBy(r, durable) = {}
             /\ AccessOf(r, durable')
             /\ SameWork(q, q2) /\ SameTold(q, q2)
             /\ SameDone(r, durable, durable')
    <3>1. Atomic!RecordAccess(r)
      BY <2>2, <1>8, <1>9, <1>10, <1>11, <1>12 DEF Atomic!RecordAccess
    <3> QED BY <3>1 DEF Atomic!AtomicNext
  <2>3. CASE /\ ToldBy(q) = "none" /\ DoneBy(r, durable) = {}
             /\ q.work < MaxWork /\ q2.work = q.work + 1
             /\ SameTold(q, q2) /\ SameDone(r, durable, durable')
             /\ SameAccess(r, durable, durable')
    <3>1. Atomic!Ask(r)
      BY <2>3, <1>6, <1>9, <1>11, <1>12, <1>13 DEF Atomic!Ask
    <3> QED BY <3>1 DEF Atomic!AtomicNext
  <2>4. CASE /\ ToldBy(q) = "none" /\ DoneBy(r, durable) = {}
             /\ r \in Staff => AccessOf(r, durable)
             /\ DoneBy(r, durable') = 1..q.work
             /\ SameWork(q, q2) /\ SameTold(q, q2)
             /\ SameAccess(r, durable, durable')
    <3>1. Atomic!TakeEffect(r)
      BY <2>4, <1>6, <1>9, <1>10, <1>11, <1>13 DEF Atomic!TakeEffect
    <3> QED BY <3>1 DEF Atomic!AtomicNext
  <2>5. CASE /\ ToldBy(q) = "none" /\ ToldBy(q2) \in {"ok", "error", "gone"}
             /\ ToldBy(q2) = "ok" => DoneBy(r, durable) = 1..q.work
             /\ SameWork(q, q2) /\ SameDone(r, durable, durable')
             /\ SameAccess(r, durable, durable')
    <3>1. Atomic!Tell(r, ToldBy(q2))
      BY <2>5, <1>6, <1>9, <1>10, <1>12, <1>13 DEF Atomic!Tell
    <3>2. ToldBy(q2) \in Atomic!Endings
      BY <2>5 DEF Atomic!Endings
    <3> QED BY <3>1, <3>2 DEF Atomic!AtomicNext
  <2> QED BY <2>1, <2>2, <2>3, <2>4, <2>5 DEF Seen
<1> QED BY <1>3, <1>14

\* A COMMIT makes nothing durable, the access record, or all of the work.
CommitsWhole(r, q, k, D, D2) ==
    /\ \A e \in k.pending : e.kind = "work" =>
          q.fin = "committing" /\ Op(k, 1) = "final_commit"
    /\ \/ SameDone(r, D, D2) /\ SameAccess(r, D, D2)
       \/ /\ r \in Staff /\ DoneBy(r, D) = {} /\ SameDone(r, D, D2)
          /\ AccessOf(r, D2)
       \/ /\ DoneBy(r, D) = {} /\ (r \in Staff => AccessOf(r, D))
          /\ DoneBy(r, D2) = 1..q.work /\ SameAccess(r, D, D2)

LEMMA CommitSeen ==
    ASSUME NEW r, NEW q, NEW k, NEW D, NEW D2, Running(r, q, k, D),
           Whole(r, q, k), Accounted(r, q, k, D),
           k.queue # << >>, Op(k, 1) \in Commits, k.tx = "T", ~k.broken,
           D2 = D \cup k.pending
    PROVE  CommitsWhole(r, q, k, D, D2)
<1> USE DEF CommitsWhole
<1>1. /\ Queued(r, q, k) /\ Wrote(r, q, k, D) /\ Keeps(r, q, k)
      /\ k.queue \in Seq(Statements) /\ k.pending \in SUBSET Effects
      /\ Holding(q)
  BY DEF Running, Held, ConnectionStates
<1>2. 1 \in DOMAIN k.queue
  <2>1. DOMAIN k.queue = 1..Len(k.queue) /\ Len(k.queue) \in Nat
    BY <1>1, LenProperties
  <2>2. Len(k.queue) # 0
    BY <1>1, EmptySeq
  <2> QED BY <2>1, <2>2
<1>3. \A e \in k.pending : e.by = r /\ e.kind \in {"access", "work"}
  BY <1>1 DEF Wrote, Effects
<1>4. ASSUME NEW e \in k.pending, e.kind = "work"
      PROVE  q.fin = "committing" /\ Op(k, 1) = "final_commit"
  <2>1. Op(k, 1) \notin EarlyOps
    BY <1>2, <1>4 DEF Whole, NoRoute
  <2>2. Op(k, 1) = "final_commit"
    BY <2>1 DEF Commits, EarlyOps, BootstrapOps
  <2> QED BY <1>1, <2>2 DEF Queued, HandlerOps, BootstrapOps, RouteOps
<1>5. ASSUME k.pending # {}
      PROVE  DoneBy(r, D) = {}
  BY <1>1 DEF DoneBy, Accounted
<1>6. CASE k.pending = {}
  BY <1>4, <1>6 DEF SameDone, SameAccess
<1>7. CASE k.pending # {} /\ \A e \in k.pending : e.kind = "access"
  <2>1. r \in Staff /\ AccessOf(r, D2)
    BY <1>3, <1>7 DEF Whole, AccessOf
  <2>2. {f \in D2 : f.kind = "work" /\ f.by = r}
            = {f \in D : f.kind = "work" /\ f.by = r}
    BY <1>7
  <2>3. SameDone(r, D, D2)
    BY <2>2 DEF SameDone, DoneBy
  <2> QED BY <1>4, <1>5, <1>7, <2>1, <2>3
<1>8. CASE \E e \in k.pending : e.kind = "work"
  <2>1. q.fin = "committing" /\ Op(k, 1) = "final_commit"
    BY <1>4, <1>8
  <2>2. /\ WorkOf(r, q.work, k.pending)
        /\ r \in Staff => AccessOf(r, D)
    BY <1>1, <1>8, <2>1 DEF Wrote
  <2>3. \A e \in k.pending : e.kind = "work"
    BY <1>1, <1>3, <2>1 DEF Keeps, Recording, AccessOf
  <2>4. SameAccess(r, D, D2)
    BY <2>3 DEF SameAccess, AccessOf
  <2>5. DoneBy(r, D) = {}
    BY <1>5, <1>8
  <2>6. DoneBy(r, D2) = 1..q.work
    <3>1. ASSUME NEW n \in DoneBy(r, D2) PROVE n \in 1..q.work
      <4>1. PICK e \in D2 : e.kind = "work" /\ e.by = r /\ e.n = n
        BY <3>1 DEF DoneBy
      <4>2. e \in k.pending
        <5>1. e \notin D
          <6> SUFFICES ASSUME e \in D PROVE FALSE
            OBVIOUS
          <6>1. e.n \in DoneBy(r, D)
            BY <4>1 DEF DoneBy
          <6> QED BY <2>5, <6>1
        <5> QED BY <4>1, <5>1
      <4> QED BY <4>1, <4>2 DEF Whole
    <3>2. ASSUME NEW n \in 1..q.work PROVE n \in DoneBy(r, D2)
      <4>1. PICK e \in k.pending : e.kind = "work" /\ e.by = r /\ e.n = n
        BY <2>2 DEF WorkOf
      <4> QED BY <4>1 DEF DoneBy
    <3> QED BY <3>1, <3>2
  <2> QED BY <1>4, <2>2, <2>4, <2>5, <2>6
<1> QED BY <1>3, <1>6, <1>7, <1>8

\* A statement of a request's connection is executed.
LEMMA ServeAtomic ==
    ASSUME RequestAssumption, Inv, AtomicInv,
           NEW c \in Connections, Serve(c)
    PROVE  AtomicInv' /\ [Atomic!AtomicNext]_(Atomic!atomicVars)
<1> DEFINE k  == conn[c]
           st == Head(k.queue)
           r  == k.holder
           q  == req[r]
<1>1. /\ k \in ConnectionStates /\ k.queue \in Seq(Statements)
      /\ k.queue # << >> /\ req \in [Requests -> RequestStates]
      /\ conn \in [Connections -> ConnectionStates]
      /\ durable \in SUBSET Effects
  BY DEF Inv, Typed, ConnectionStates, Serve
<1>2. r # Pool
  BY <1>1 DEF Inv, Clean
<1>3. r \in Requests
  BY <1>1, <1>2 DEF ConnectionStates
<1>4. Holding(q) /\ q.conn = c
  BY <1>2 DEF Inv, Paired
<1>5. Running(r, q, k, durable)
  BY <1>3, <1>4, HolderRuns
<1>6. st = k.queue[1] /\ st \in Statements /\ 1 \in DOMAIN k.queue
  BY <1>1, HeadTailProperties, EmptySeq
<1>7. st.by = r
  BY <1>5, <1>6 DEF Running, Held, Queued
<1>8. PICK ok \in BOOLEAN, accepted \in BOOLEAN :
         LET k1   == Executed(k, st, ok)
             next == Continue(q, r, st.op, ok, accepted)
         IN  /\ IF ok THEN CanSucceed(k, st.op) ELSE CanFail(k, st.op)
             /\ req' = [req EXCEPT ![r] = next.q]
             /\ conn' = [conn EXCEPT ![c] = After(k1, r, q, next)]
             /\ durable' = IF ok /\ st.op \in Commits /\ k.tx = "T"
                           THEN durable \cup k.pending ELSE durable
  BY <1>7 DEF Serve
<1> DEFINE k1   == Executed(k, st, ok)
           next == Continue(q, r, st.op, ok, accepted)
           k2   == After(k1, r, q, next)
<1>9. Op(k, 1) = st.op
  BY <1>6 DEF Op
<1>10. Ran(r, q, k, Op(k, 1), ok, k1)
  BY <1>1, <1>7, <1>9, ExecutedRan
<1> HIDE DEF k1
<1>11. Serving(r, q, k, durable, ok, k1, durable')
  BY <1>1, <1>5, <1>8, <1>9, <1>10 DEF Serving
<1>12. /\ req' = [req EXCEPT ![r] = next.q]
       /\ conn' = [conn EXCEPT ![c] = k2]
  BY <1>8 DEF k1
<1>13. next = Continue(q, r, Op(k, 1), ok, accepted)
  BY <1>9
<1> HIDE DEF next
<1>14. k2 = After(k1, r, q, next)
  OBVIOUS
<1> HIDE DEF k2
<1>15. Preserved(r, q, k, durable, next.q, k2, durable')
  BY <1>11, <1>13, <1>14, ServePair
<1>16. Whole(r, q, k) /\ Accounted(r, q, k, durable)
  BY <1>3, <1>4 DEF AtomicInv
<1>17. /\ Onward(q, next.q)
       /\ ~next.q.released => Whole(r, next.q, k2)
  BY <1>11, <1>13, <1>14, <1>16, ServeWhole
<1>18. /\ next.q \in RequestStates /\ next.q.conn = c
       /\ durable \subseteq durable' /\ durable' \subseteq durable \cup k.pending
       /\ conn'[c] = k2 /\ \A d \in Connections \ {c} : conn'[d] = conn[d]
  BY <1>1, <1>4, <1>12, <1>15 DEF Preserved
<1>19. /\ q.reply = "none" /\ q.pc # "done"
       /\ \A e \in k.pending : e.by = r /\ e.kind \in {"access", "work"}
  BY <1>1, <1>5
  DEF Running, Held, Wrote, Queued, BootstrapOps, RouteOps, ConnectionStates,
      Effects
<1>20. /\ next.q.work = q.work /\ next.q.reply = "none"
       /\ next.q.pc # "done" /\ (q.pc = "replying" => next.q.pc = "replying")
  BY <1>17, <1>19 DEF Onward, HandlerOps, BootstrapOps, RouteOps
<1>21. SameWork(q, next.q) /\ SameTold(q, next.q) /\ ToldBy(q) = "none"
  BY <1>19, <1>20 DEF SameWork, SameTold, ToldBy
<1>22. ~next.q.released => k2.broken = k.broken
  BY <1>11, <1>14 DEF After, Serving, Ran, ConnectionStates
<1>23. /\ \A e \in k.pending : e.kind = "work" /\ e \notin durable
                /\ e \in durable' =>
             q.pc = "replying" /\ next.q.released
       /\ Seen(r, q, durable, next.q, durable')
  <2>1. CASE ok /\ Op(k, 1) \in Commits /\ k.tx = "T"
    <3>1. durable' = durable \cup k.pending /\ ~k.broken
      BY <1>8, <1>9, <2>1 DEF CanSucceed
    <3>2. CommitsWhole(r, q, k, durable, durable')
      BY <1>1, <1>5, <1>16, <2>1, <3>1, CommitSeen
    <3>3. Seen(r, q, durable, next.q, durable')
      BY <1>21, <3>2 DEF Seen, CommitsWhole
    <3>4. q.fin = "committing" => q.pc = "replying"
      BY <1>5 DEF Running, Held, Queued
    <3>5. Op(k, 1) = "final_commit" => next.q.released
      <4> SUFFICES ASSUME Op(k, 1) = "final_commit" PROVE next.q.released
        OBVIOUS
      <4> DEFINE x == [q EXCEPT !.phase = "committed", !.fin = "settled"]
                 z == [x EXCEPT !.released = TRUE]
      <4>1. next = Finalized(q, "final_commit", ok)
        BY <1>13 DEF Continue
      <4>2. next = Release(x)
        BY <2>1, <4>1 DEF Finalized
      <4>3. next = [q |-> z, issue |-> << >>]
        BY <4>2 DEF Release, Then
      <4>4. z.released
        BY <1>1, <1>3 DEF RequestStates
      <4> HIDE DEF z
      <4>5. next.q = z
        BY ONLY <4>3
      <4> QED BY <4>4, <4>5
    <3> QED BY <3>2, <3>3, <3>4, <3>5 DEF CommitsWhole
  <2>2. CASE ~(ok /\ Op(k, 1) \in Commits /\ k.tx = "T")
    <3>1. durable' = durable
      BY <1>8, <1>9, <2>2
    <3>2. Seen(r, q, durable, next.q, durable')
      BY <1>21, <3>1 DEF Seen, SameDone, SameAccess
    <3> QED BY <3>1, <3>2
  <2> QED BY <2>1, <2>2
<1>24. Accounted(r, next.q, k2, durable')
  <2> SUFFICES ASSUME NEW e \in durable', e.by = r
               PROVE  IF e.kind = "access" THEN r \in Staff
                      ELSE /\ e.n \in 1..next.q.work
                           /\ next.q.pc \in {"replying", "done"}
                           /\ Holding(next.q) => k2.broken
    BY DEF Accounted
  <2>1. CASE e \in durable
    <3>1. IF e.kind = "access" THEN r \in Staff
          ELSE /\ e.n \in 1..q.work
               /\ q.pc \in {"replying", "done"}
               /\ Holding(q) => k.broken
      BY <1>16, <2>1 DEF Accounted
    <3> QED BY <1>4, <1>19, <1>20, <1>22, <3>1 DEF Holding
  <2>2. CASE e \notin durable
    <3>1. e \in k.pending
      BY <1>18, <2>2
    <3>2. IF e.kind = "access" THEN r \in Staff ELSE e.n \in 1..q.work
      BY <1>16, <3>1 DEF Whole
    <3> QED BY <1>19, <1>20, <1>23, <2>2, <3>1, <3>2 DEF Holding
  <2> QED BY <2>1, <2>2
<1>25. /\ \A d \in Connections :
               conn'[d] = conn[d] \/ conn[d].holder \in {r, Pool}
       /\ \A e \in durable' \ durable : e.by = r
       /\ Holding(next.q) => Whole(r, next.q, conn'[next.q.conn])
       /\ Accounted(r, next.q, conn'[next.q.conn], durable')
       /\ next.q.reply # "none" => next.q.pc = "done"
  BY <1>17, <1>18, <1>19, <1>20, <1>24 DEF Holding
<1> QED BY <1>3, <1>12, <1>18, <1>23, <1>25, AtomicStep

\* The connection of a request is lost.
LEMMA LostAtomic ==
    ASSUME RequestAssumption, Inv, AtomicInv,
           NEW c \in Connections, ConnectionLost(c)
    PROVE  AtomicInv' /\ [Atomic!AtomicNext]_(Atomic!atomicVars)
<1> DEFINE k  == conn[c]
           r  == k.holder
           q  == req[r]
           q2 == [q EXCEPT !.poisoned = TRUE]
           k2 == [k EXCEPT !.broken = TRUE, !.tx = "I", !.scope = NoScope,
                           !.pending = {}]
<1>1. /\ k \in ConnectionStates /\ req \in [Requests -> RequestStates]
      /\ conn \in [Connections -> ConnectionStates] /\ ~k.broken
      /\ r \in Requests
  BY DEF Inv, Typed, ConnectionStates, ConnectionLost
<1>2. Holding(q) /\ q.conn = c
  BY DEF Inv, Paired, ConnectionLost
<1>3. Running(r, q, k, durable)
  BY <1>1, <1>2, HolderRuns
<1>4. Whole(r, q, k) /\ Accounted(r, q, k, durable)
  BY <1>1, <1>2 DEF AtomicInv
<1>5. /\ req' = [req EXCEPT ![r] = q2] /\ conn' = [conn EXCEPT ![c] = k2]
  BY DEF ConnectionLost
<1>6. /\ q2 \in RequestStates /\ q2.conn = c /\ q2.pc = q.pc
      /\ q2.work = q.work /\ q2.reply = q.reply
  <2>1. q \in RequestStates /\ q.conn = c
    BY <1>1, <1>2
  <2> HIDE DEF q
  <2> QED BY <2>1 DEF RequestStates
<1>7. k2.broken /\ k2.pending = {} /\ k2.queue = k.queue
  BY <1>1 DEF ConnectionStates
<1> HIDE DEF q2, k2
<1>8. conn'[c] = k2 /\ \A d \in Connections \ {c} : conn'[d] = conn[d]
  BY <1>1, <1>5
<1>9. Whole(r, q2, k2)
  BY <1>4, <1>6, <1>7 DEF Whole, NoRoute, Op
<1>10. /\ q.reply = "none" /\ q.pc # "done"
       /\ q.fin = "committing" => q.pc = "replying"
       /\ \A e \in k.pending : e.by = r /\ e.kind \in {"access", "work"}
  BY <1>1, <1>3
  DEF Running, Held, Wrote, Queued, BootstrapOps, RouteOps, ConnectionStates,
      Effects
<1>11. SameWork(q, q2) /\ SameTold(q, q2) /\ ToldBy(q) = "none"
  BY <1>6, <1>10 DEF SameWork, SameTold, ToldBy
<1>12. /\ durable \subseteq durable' /\ durable' \subseteq durable \cup k.pending
       /\ \A e \in k.pending : e.kind = "work" /\ e \notin durable
                /\ e \in durable' => q.pc = "replying"
       /\ Seen(r, q, durable, q2, durable')
  <2>1. CASE durable' = durable
    BY <1>11, <2>1 DEF Seen, SameDone, SameAccess
  <2>2. CASE /\ k.queue # << >> /\ Head(k.queue).op \in Commits
             /\ k.tx = "T" /\ durable' = durable \cup k.pending
    <3>1. k.queue \in Seq(Statements)
      BY <1>1 DEF ConnectionStates
    <3>2. Op(k, 1) \in Commits
      BY <2>2, <3>1, HeadTailProperties DEF Op
    <3>3. CommitsWhole(r, q, k, durable, durable')
      BY <1>1, <1>3, <1>4, <2>2, <3>2, CommitSeen
    <3> QED BY <1>10, <1>11, <2>2, <3>3 DEF CommitsWhole, Seen
  <2> QED BY <2>1, <2>2 DEF ConnectionLost
<1>13. Accounted(r, q2, k2, durable')
  <2> SUFFICES ASSUME NEW e \in durable', e.by = r
               PROVE  IF e.kind = "access" THEN r \in Staff
                      ELSE /\ e.n \in 1..q2.work
                           /\ q2.pc \in {"replying", "done"}
                           /\ Holding(q2) => k2.broken
    BY DEF Accounted
  <2>1. CASE e \in durable
    BY <1>4, <1>6, <1>7, <2>1 DEF Accounted
  <2>2. CASE e \notin durable
    <3>1. e \in k.pending
      BY <1>12, <2>2
    <3>2. IF e.kind = "access" THEN r \in Staff ELSE e.n \in 1..q.work
      BY <1>4, <3>1 DEF Whole
    <3> QED BY <1>6, <1>7, <1>10, <1>12, <2>2, <3>1, <3>2
  <2> QED BY <2>1, <2>2
<1>14. /\ \A d \in Connections :
               conn'[d] = conn[d] \/ conn[d].holder \in {r, Pool}
       /\ \A e \in durable' \ durable : e.by = r
       /\ Holding(q2) => Whole(r, q2, conn'[q2.conn])
       /\ Accounted(r, q2, conn'[q2.conn], durable')
       /\ q2.reply # "none" => q2.pc = "done"
  BY <1>6, <1>8, <1>9, <1>10, <1>12, <1>13
<1> QED BY <1>1, <1>5, <1>6, <1>12, <1>14, AtomicStep

\* What is durable of a request is accounted for as long as it holds on to
\* its connection, and then whatever becomes of it.
LEMMA AccountedStays ==
    ASSUME NEW r, NEW q, NEW k, NEW q2, NEW k2, NEW D, Accounted(r, q, k, D),
           q.work \in Nat, q2.work \in Nat, q2.work >= q.work,
           q.pc \in {"replying", "done"} => q2.pc \in {"replying", "done"},
           Holding(q2) => Holding(q) /\ k2.broken = k.broken
    PROVE  Accounted(r, q2, k2, D)
BY DEF Accounted

\* A request performs a step of its own.
LEMMA PerformAtomic ==
    ASSUME RequestAssumption, Inv, AtomicInv,
           NEW r \in Requests, NEW q, q = req[r],
           q.pc \notin {"waiting", "done"},
           NEW next, Perform(r, next), durable' = durable,
           NEW p, p = next.q, p \in RequestStates, p.conn = q.conn,
           p.pc \notin {"waiting", "done"}, p.reply = q.reply,
           q.pc = "replying" => p.pc = "replying",
           \/ p.work = q.work
           \/ p.work = q.work + 1 /\ q.work < MaxWork /\ q.pc = "handler",
           p.released = q.released,
           q.released => next.issue = << >>,
           ~q.released => Sendable(r, p, conn[q.conn], next.issue)
    PROVE  AtomicInv' /\ [Atomic!AtomicNext]_(Atomic!atomicVars)
<1> DEFINE c == q.conn
           k == conn[c]
<1>1. /\ q \in RequestStates /\ conn \in [Connections -> ConnectionStates]
      /\ q.work \in Nat /\ p.work \in Nat /\ p.work >= q.work
      /\ MaxWork \in Nat
  BY DEF Inv, Typed, RequestStates, RequestAssumption
<1>2. Accounted(r, q, k, durable) /\ q.reply = "none"
  BY DEF AtomicInv
<1>3. ToldBy(q) = "none" /\ SameTold(q, p)
  BY <1>2 DEF ToldBy, SameTold
<1>4. SameDone(r, durable, durable') /\ SameAccess(r, durable, durable')
  BY DEF SameDone, SameAccess
<1>5. Seen(r, q, durable, p, durable')
  <2>1. CASE p.work = q.work
    BY <1>3, <1>4, <2>1 DEF Seen, SameWork
  <2>2. CASE p.work = q.work + 1 /\ q.work < MaxWork /\ q.pc = "handler"
    <3>1. DoneBy(r, durable) = {}
      BY <1>2, <2>2 DEF Accounted, DoneBy
    <3> QED BY <1>3, <1>4, <2>2, <3>1 DEF Seen
  <2> QED BY <2>1, <2>2
<1>6. /\ req' = [req EXCEPT ![r] = p]
      /\ conn' = [conn EXCEPT ![c] = After(k, r, q, next)]
  BY DEF Perform
<1>7. CASE ~q.released
  <2> DEFINE k2 == After(k, r, q, next)
  <2>1. Holding(q) /\ c \in Connections /\ k.holder = r
    BY <1>7 DEF Holding, Inv, Paired
  <2>2. /\ Whole(r, q, k) /\ k \in ConnectionStates
    BY <1>1, <2>1 DEF AtomicInv
  <2> DEFINE ops == next.issue
  <2>3. Sendable(r, p, k, ops) /\ ops \in Seq(Ops) /\ ~next.q.released
    BY <1>7 DEF Sendable
  <2>4. Sends(k, k2, ops, r)
    BY <2>2, <2>3, AfterIssue
  <2>5. conn'[c] = k2 /\ \A d \in Connections \ {c} : conn'[d] = conn[d]
    BY <1>1, <1>6, <2>1
  <2> HIDE DEF k2, ops
  <2>6. Whole(r, p, k2)
    BY <1>1, <2>2, <2>3, <2>4, WholeSends
  <2>7. k2.broken = k.broken
    BY <2>2, <2>4 DEF Sends, ConnectionStates
  <2>8. Accounted(r, p, k2, durable)
    BY <1>1, <1>2, <2>1, <2>7, AccountedStays
  <2>9. /\ \A d \in Connections :
                conn'[d] = conn[d] \/ conn[d].holder \in {r, Pool}
        /\ Holding(p) => Whole(r, p, conn'[p.conn])
        /\ Accounted(r, p, conn'[p.conn], durable')
        /\ p.reply = "none"
    BY <1>2, <2>1, <2>5, <2>6, <2>8
  <2> QED BY <1>5, <1>6, <2>9, AtomicStep
<1>8. CASE q.released
  <2>1. conn' = conn
    BY <1>8, NothingSent
  <2>2. ~Holding(p)
    BY <1>8 DEF Holding
  <2>3. Accounted(r, p, conn'[p.conn], durable')
    BY <1>1, <1>2, <2>1, <2>2, AccountedStays
  <2> QED BY <1>2, <1>5, <1>6, <2>1, <2>2, <2>3, AtomicStep
<1> QED BY <1>1, <1>7, <1>8 DEF RequestStates

\* A request whose finalization has not begun holds its connection.
LEMMA OpenHolds ==
    ASSUME Inv, NEW r \in Requests, req[r].fin = "none",
           req[r].pc \notin {"waiting", "done"}
    PROVE  /\ Holding(req[r])
           /\ Running(r, req[r], conn[req[r].conn], durable)
           /\ ~req[r].released
<1>1. Holding(req[r])
  BY DEF Inv, Let
<1> QED BY <1>1, HolderRuns DEF Holding

LEMMA QueryAtomic ==
    ASSUME RequestAssumption, Inv, AtomicInv, NEW r \in Requests, RouteQuery(r)
    PROVE  AtomicInv' /\ [Atomic!AtomicNext]_(Atomic!atomicVars)
<1> DEFINE q    == req[r]
           x    == [q EXCEPT !.work = @ + 1]
           next == Issue(x, "work", <<"work">>)
<1>1. /\ q \in RequestStates /\ q.pc = "handler" /\ q.work \in Nat
      /\ q.work < MaxWork /\ Perform(r, next) /\ durable' = durable
  BY DEF Inv, Typed, RouteQuery, RequestStates
<1>2. /\ x \in RequestStates /\ x.pc = q.pc /\ x.fin = q.fin
      /\ x.conn = q.conn /\ x.work = q.work + 1
      /\ x.released = q.released /\ x.reply = q.reply
  BY <1>1 DEF RequestStates
<1> HIDE DEF x
<1>3. next = Issue(x, "work", <<"work">>)
  OBVIOUS
<1>4. CASE q.fin = "none"
  <2>1. Running(r, q, conn[q.conn], durable) /\ ~q.released
    BY <1>1, <1>4, OpenHolds
  <2>2. Len(conn[q.conn].queue) = 0
    BY <1>1, <1>4, <2>1 DEF Running, Held, Queued, BootstrapOps, RouteOps
  <2> DEFINE p == [x EXCEPT !.pc = "work"]
  <2>3. next = [q |-> p, issue |-> <<"work">>]
    BY <1>2, <1>4, <2>1 DEF Issue, Live, Then
  <2>4. /\ p \in RequestStates /\ p.conn = q.conn /\ p.pc = "work"
        /\ p.reply = q.reply /\ p.work = q.work + 1
        /\ p.released = q.released
    BY <1>2 DEF RequestStates, PCs, RouteOps
  <2> HIDE DEF p, next
  <2>5. p = next.q /\ next.issue = <<"work">>
    BY ONLY <2>3
  <2> DEFINE ops == <<"work">>
  <2>6. ops \in Seq(Ops) /\ \A i \in DOMAIN ops : ops[i] = "work"
    BY DEF Ops
  <2> HIDE DEF ops
  <2>7. Sendable(r, p, conn[q.conn], ops)
    BY <1>1, <2>2, <2>4, <2>6
    DEF Sendable, EarlyOps, BootstrapOps, StaffOps
  <2>8. Sendable(r, p, conn[q.conn], next.issue)
    BY <2>5, <2>7 DEF ops
  <2> HIDE DEF q
  <2>9. q = req[r]
    BY DEF q
  <2> QED BY <1>1, <2>1, <2>4, <2>5, <2>8, <2>9, PerformAtomic
<1>5. CASE q.fin # "none"
  <2> DEFINE p == [x EXCEPT !.pc = "failing"]
  <2>1. next = Throw(x)
    BY <1>2, <1>5 DEF Issue, Live
  <2>2. next.q = p /\ next.issue = << >>
    BY <1>2, <1>5, <2>1, ThrowFenced
  <2>3. /\ p \in RequestStates /\ p.conn = q.conn /\ p.pc = "failing"
        /\ p.reply = q.reply /\ p.work = q.work + 1
        /\ p.released = q.released
    BY <1>2 DEF RequestStates, PCs
  <2> HIDE DEF p, next, q
  <2>4. Sendable(r, p, conn[q.conn], next.issue)
    BY <2>2, NothingIsSendable
  <2>5. q = req[r]
    BY DEF q
  <2> QED BY <1>1, <2>2, <2>3, <2>4, <2>5, PerformAtomic
<1> QED BY <1>4, <1>5

\* A finalization that another one has preceded leaves everything alone.
LEMMA FencedAtomic ==
    ASSUME RequestAssumption, Inv, AtomicInv,
           NEW r \in Requests, NEW q, q = req[r],
           q.pc \notin {"waiting", "done"}, q.fin # "none",
           NEW next, Perform(r, next), durable' = durable,
           NEW p, next.q = p, next.issue = << >>,
           p \in RequestStates, p.conn = q.conn, p.reply = q.reply,
           p.work = q.work, p.released = q.released,
           \/ p.pc = q.pc
           \/ q.pc = "handler" /\ p.pc \in {"replying", "failing"}
    PROVE  AtomicInv' /\ [Atomic!AtomicNext]_(Atomic!atomicVars)
<1>1. Sendable(r, p, conn[q.conn], next.issue)
  BY NothingIsSendable
<1>2. p.pc \notin {"waiting", "done"} /\ (q.pc = "replying" => p.pc = "replying")
  OBVIOUS
<1> QED BY <1>1, <1>2, PerformAtomic

\* A request that sends the statement that ends its transaction.
LEMMA EndingAtomic ==
    ASSUME RequestAssumption, Inv, AtomicInv,
           NEW r \in Requests, NEW q, q = req[r],
           q.pc \notin {"waiting", "done"}, q.fin = "none",
           NEW next, Perform(r, next), durable' = durable,
           NEW p, next.q = p, NEW o, next.issue = <<o>>,
           o \in {"final_commit", "rollback", RollbackOp(q)},
           p \in RequestStates, p.conn = q.conn, p.reply = q.reply,
           p.work = q.work, p.released = q.released,
           \/ p.pc = q.pc
           \/ q.pc = "handler" /\ p.pc \in {"replying", "failing"}
    PROVE  AtomicInv' /\ [Atomic!AtomicNext]_(Atomic!atomicVars)
<1> DEFINE k   == conn[q.conn]
           ops == <<o>>
<1>1. /\ Running(r, q, k, durable) /\ ~q.released /\ Holding(q)
      /\ Whole(r, q, k)
  BY OpenHolds DEF AtomicInv
<1>2. /\ Queued(r, q, k) /\ k.queue \in Seq(Statements)
  BY <1>1 DEF Running, Held, ConnectionStates
<1>3. o \in {"final_commit", "rollback", "access_commit"}
  BY DEF RollbackOp
<1>4. o = "access_commit" => NoRoute(k)
  <2> SUFFICES ASSUME o = "access_commit" PROVE NoRoute(k)
    OBVIOUS
  <2>1. q.phase = "bootstrap"
    BY DEF RollbackOp
  <2>2. q.pc \in BootstrapOps
    BY <1>2, <2>1 DEF Queued
  <2>3. /\ Len(k.queue) \in {1, 2}
        /\ Op(k, 1) \in BootstrapOps \cup {"scope_bootstrap"}
    BY <1>2, <2>2 DEF Queued, BootstrapOps
  <2>4. 1 \in DOMAIN k.queue
    BY <1>2, <2>3, LenProperties
  <2> QED BY <1>1, <2>3, <2>4 DEF Whole, EarlyOps
<1>5. ops \in Seq(Ops) /\ \A i \in DOMAIN ops : ops[i] = o
  BY <1>3 DEF Ops, TxControl, Commits
<1> HIDE DEF ops
<1>6. Sendable(r, p, k, ops)
  BY <1>3, <1>4, <1>5
  DEF Sendable, EarlyOps, BootstrapOps, RouteOps, StaffOps
<1>7. Sendable(r, p, conn[q.conn], next.issue)
  BY <1>6 DEF ops
<1>8. p.pc \notin {"waiting", "done"} /\ (q.pc = "replying" => p.pc = "replying")
  OBVIOUS
<1> QED BY <1>1, <1>7, <1>8, PerformAtomic

LEMMA ReturnsAtomic ==
    ASSUME RequestAssumption, Inv, AtomicInv,
           NEW r \in Requests, RouteReturns(r)
    PROVE  AtomicInv' /\ [Atomic!AtomicNext]_(Atomic!atomicVars)
<1> DEFINE q    == req[r]
           x    == [q EXCEPT !.pc = "replying"]
           next == Finalize(x, "commit")
<1>1. /\ q \in RequestStates /\ q.pc = "handler"
      /\ Perform(r, next) /\ durable' = durable
  BY DEF Inv, Typed, RouteReturns
<1>2. /\ x \in RequestStates /\ x.pc = "replying" /\ x.fin = q.fin
      /\ x.conn = q.conn /\ x.work = q.work /\ x.phase = q.phase
      /\ x.released = q.released /\ x.reply = q.reply
  BY <1>1 DEF RequestStates, PCs
<1> HIDE DEF x
<1>3. CASE q.fin = "none"
  <2>1. Running(r, q, conn[q.conn], durable) /\ ~q.released
    BY <1>1, <1>3, OpenHolds
  <2>2. q.phase = "route"
    BY <1>1, <1>3, <2>1 DEF Running, Held, Queued, BootstrapOps
  <2> DEFINE p == [x EXCEPT !.fin = "committing"]
  <2>3. next = [q |-> p, issue |-> <<"final_commit">>]
    BY <1>2, <1>3, <2>2 DEF Finalize, Then
  <2>4. /\ p \in RequestStates /\ p.conn = q.conn /\ p.pc = "replying"
        /\ p.reply = q.reply /\ p.work = q.work
        /\ p.released = q.released
    BY <1>2 DEF RequestStates
  <2> HIDE DEF p, next
  <2>5. next.q = p /\ next.issue = <<"final_commit">>
    BY ONLY <2>3
  <2> HIDE DEF q
  <2>6. q = req[r]
    BY DEF q
  <2> QED BY <1>1, <1>3, <2>4, <2>5, <2>6, EndingAtomic
<1>4. CASE q.fin # "none"
  <2>1. next.q = x /\ next.issue = << >>
    BY <1>2, <1>4 DEF Finalize, Then
  <2> HIDE DEF next, q
  <2>2. q = req[r]
    BY DEF q
  <2> QED BY <1>1, <1>2, <1>4, <2>1, <2>2, FencedAtomic
<1> QED BY <1>3, <1>4

LEMMA ThrowsAtomic ==
    ASSUME RequestAssumption, Inv, AtomicInv,
           NEW r \in Requests, RouteThrows(r)
    PROVE  AtomicInv' /\ [Atomic!AtomicNext]_(Atomic!atomicVars)
<1> DEFINE q    == req[r]
           next == Throw(q)
<1>1. /\ q \in RequestStates /\ q.pc = "handler"
      /\ Perform(r, next) /\ durable' = durable
  BY DEF Inv, Typed, RouteThrows
<1>2. CASE q.fin = "none"
  <2>1. Running(r, q, conn[q.conn], durable) /\ ~q.released
    BY <1>1, <1>2, OpenHolds
  <2>2. q.phase = "route"
    BY <1>1, <1>2, <2>1 DEF Running, Held, Queued, BootstrapOps
  <2> DEFINE p == [q EXCEPT !.pc = "failing", !.fin = "rolling_back"]
  <2>3. next.q = p /\ next.issue = <<RollbackOp(q)>>
    BY <1>1, <1>2, <2>2, ThrowOpen
  <2>4. /\ p \in RequestStates /\ p.conn = q.conn /\ p.pc = "failing"
        /\ p.reply = q.reply /\ p.work = q.work
        /\ p.released = q.released
    BY <1>1 DEF RequestStates, PCs
  <2> HIDE DEF p, next, q
  <2>5. q = req[r]
    BY DEF q
  <2> QED BY <1>1, <1>2, <2>3, <2>4, <2>5, EndingAtomic
<1>3. CASE q.fin # "none"
  <2> DEFINE p == [q EXCEPT !.pc = "failing"]
  <2>1. next.q = p /\ next.issue = << >>
    BY <1>1, <1>3, ThrowFenced
  <2>2. /\ p \in RequestStates /\ p.conn = q.conn /\ p.pc = "failing"
        /\ p.reply = q.reply /\ p.work = q.work
        /\ p.released = q.released
    BY <1>1 DEF RequestStates, PCs
  <2> HIDE DEF p, next, q
  <2>3. q = req[r]
    BY DEF q
  <2> QED BY <1>1, <1>3, <2>1, <2>2, <2>3, FencedAtomic
<1> QED BY <1>2, <1>3

\* A request without a connection changes nothing but its own state.
LEMMA AloneAtomic ==
    ASSUME RequestAssumption, Inv, AtomicInv,
           NEW r \in Requests, NEW q, q = req[r],
           NEW p, p \in RequestStates, req' = [req EXCEPT ![r] = p],
           conn' = conn, durable' = durable, ~Holding(p),
           p.work = q.work,
           q.pc \in {"replying", "done"} => p.pc \in {"replying", "done"},
           p.reply # "none" => p.pc = "done",
           Seen(r, q, durable, p, durable)
    PROVE  AtomicInv' /\ [Atomic!AtomicNext]_(Atomic!atomicVars)
<1>1. q \in RequestStates /\ q.work \in Nat
  BY DEF Inv, Typed, RequestStates
<1>2. Accounted(r, q, conn[q.conn], durable)
  BY DEF AtomicInv
<1>3. Accounted(r, p, conn'[p.conn], durable')
  BY <1>1, <1>2, AccountedStays
<1> QED BY <1>3, AtomicStep

LEMMA GoneAtomic ==
    ASSUME RequestAssumption, Inv, AtomicInv, NEW r \in Requests, ClientGone(r)
    PROVE  AtomicInv' /\ [Atomic!AtomicNext]_(Atomic!atomicVars)
<1> DEFINE q    == req[r]
           x    == [q EXCEPT !.alive = FALSE]
           next == Finalize(x, "rollback")
<1>1. q \in RequestStates /\ q.pc # "done" /\ durable' = durable
  BY DEF Inv, Typed, ClientGone
<1>2. /\ x \in RequestStates /\ x.pc = q.pc /\ x.fin = q.fin
      /\ x.conn = q.conn /\ x.work = q.work /\ x.phase = q.phase
      /\ x.released = q.released /\ x.reply = q.reply
      /\ x.accessRecordIssued = q.accessRecordIssued
  BY <1>1 DEF RequestStates
<1>3. CASE ~Holding(q)
  <2>1. conn' = conn /\ req' = [req EXCEPT ![r] = x]
    BY <1>3 DEF ClientGone, Holding
  <2> HIDE DEF x
  <2>2. Seen(r, q, durable, x, durable)
    BY <1>2 DEF Seen, SameWork, SameTold, ToldBy, SameDone, SameAccess
  <2>3. ~Holding(x) /\ (x.reply # "none" => x.pc = "done")
    BY <1>2, <1>3 DEF Holding, AtomicInv
  <2>4. /\ q.pc \in {"replying", "done"} => x.pc \in {"replying", "done"}
        /\ x.work = q.work /\ x \in RequestStates
    BY <1>2
  <2> HIDE DEF q
  <2>5. q = req[r]
    BY DEF q
  <2> QED BY <1>1, <2>1, <2>2, <2>3, <2>4, <2>5, AloneAtomic
<1>4. CASE Holding(q)
  <2>1. Perform(r, next) /\ q.pc # "waiting"
    BY <1>4 DEF ClientGone, Holding
  <2> HIDE DEF x
  <2>2. CASE q.fin = "none"
    <3>1. Running(r, q, conn[q.conn], durable)
      BY <1>1, <2>1, <2>2, OpenHolds
    <3>2. q.phase \in {"bootstrap", "route"}
      BY <2>2, <3>1 DEF Running, Held, Queued
    <3> DEFINE p == [x EXCEPT !.fin = "rolling_back"]
               o == RollbackOp(q)
    <3>3. next = [q |-> p, issue |-> <<o>>]
      BY <1>2, <2>2, <3>2 DEF Finalize, Then, RollbackOp
    <3>4. /\ p \in RequestStates /\ p.conn = q.conn /\ p.pc = q.pc
          /\ p.reply = q.reply /\ p.work = q.work
          /\ p.released = q.released
      BY <1>2 DEF RequestStates
    <3>5. o = RollbackOp(q)
      OBVIOUS
    <3> HIDE DEF p, next, o
    <3>6. next.q = p /\ next.issue = <<o>>
      BY ONLY <3>3
    <3> HIDE DEF q
    <3>7. q = req[r]
      BY DEF q
    <3> QED BY <1>1, <2>1, <2>2, <3>4, <3>5, <3>6, <3>7, EndingAtomic
  <2>3. CASE q.fin # "none"
    <3>1. next.q = x /\ next.issue = << >>
      BY <1>2, <2>3 DEF Finalize, Then
    <3> HIDE DEF next, q
    <3>2. q = req[r]
      BY DEF q
    <3> QED BY <1>1, <1>2, <2>1, <2>3, <3>1, <3>2, FencedAtomic
  <2> QED BY <2>2, <2>3
<1> QED BY <1>3, <1>4

LEMMA RespondAtomic ==
    ASSUME RequestAssumption, Inv, AtomicInv, NEW r \in Requests, Respond(r)
    PROVE  AtomicInv' /\ [Atomic!AtomicNext]_(Atomic!atomicVars)
<1> DEFINE q == req[r]
           v == IF ~q.alive THEN "none"
                ELSE IF q.pc = "replying" /\ q.fin = "settled"
                THEN "ok" ELSE "error"
           x == [q EXCEPT !.pc = "done", !.reply = v]
<1>1. /\ q \in RequestStates /\ q.pc \in {"replying", "failing"}
      /\ q.fin \in {"settled", "rejected"}
      /\ conn' = conn /\ durable' = durable
      /\ req' = [req EXCEPT ![r] = x]
  BY DEF Inv, Typed, Respond
<1>2. ~Holding(q)
  <2> SUFFICES ASSUME Holding(q) PROVE FALSE
    OBVIOUS
  <2>1. Running(r, q, conn[q.conn], durable)
    BY HolderRuns
  <2> QED BY <1>1, <2>1 DEF Running, Held, Queued
<1>3. Let(r, q, durable) /\ q.released
  BY <1>1, <1>2 DEF Inv, Holding
<1>4. v \in {"none", "ok", "error"} /\ (v = "ok" => WorkOf(r, q.work, durable))
  BY <1>3 DEF Let
<1> HIDE DEF v
<1>5. /\ x \in RequestStates /\ x.pc = "done" /\ x.reply = v
      /\ x.released = q.released /\ x.work = q.work
  BY <1>1, <1>4 DEF RequestStates, PCs
<1> HIDE DEF x
<1>6. Accounted(r, q, conn[q.conn], durable) /\ q.reply = "none"
  BY <1>1 DEF AtomicInv
<1>7. WorkOf(r, q.work, durable) => DoneBy(r, durable) = 1..q.work
  <2> SUFFICES ASSUME WorkOf(r, q.work, durable)
               PROVE  DoneBy(r, durable) = 1..q.work
    OBVIOUS
  <2>1. ASSUME NEW n \in DoneBy(r, durable) PROVE n \in 1..q.work
    BY <1>6, <2>1 DEF DoneBy, Accounted
  <2>2. ASSUME NEW n \in 1..q.work PROVE n \in DoneBy(r, durable)
    <3>1. PICK e \in durable : e.kind = "work" /\ e.by = r /\ e.n = n
      BY DEF WorkOf
    <3> QED BY <3>1 DEF DoneBy
  <2> QED BY <2>1, <2>2
<1>8. /\ ToldBy(q) = "none" /\ ToldBy(x) \in {"ok", "error", "gone"}
      /\ ToldBy(x) = "ok" => v = "ok"
  BY <1>1, <1>4, <1>5, <1>6 DEF ToldBy
<1>9. Seen(r, q, durable, x, durable)
  BY <1>4, <1>5, <1>7, <1>8 DEF Seen, SameWork, SameDone, SameAccess
<1>10. ~Holding(x)
  BY <1>3, <1>5 DEF Holding
<1> HIDE DEF q
<1>11. q = req[r]
  BY DEF q
<1> QED BY <1>1, <1>5, <1>9, <1>10, <1>11, AloneAtomic

LEMMA ConnectAtomic ==
    ASSUME RequestAssumption, Inv, AtomicInv,
           NEW r \in Requests, NEW c \in Connections, Connect(r, c)
    PROVE  AtomicInv' /\ [Atomic!AtomicNext]_(Atomic!atomicVars)
<1> DEFINE q == req[r]
           k == conn[c]
<1>1. /\ q \in RequestStates /\ k \in ConnectionStates
      /\ q.pc = "waiting" /\ k.holder = Pool /\ durable' = durable
      /\ conn \in [Connections -> ConnectionStates]
  BY DEF Inv, Typed, Connect
<1>2. /\ Fresh(q) /\ Clean(k) /\ ~Holding(q)
      /\ q.reply = "none" /\ q.work = 0
  BY <1>1 DEF Inv, Holding, Fresh
<1>3. Accounted(r, q, conn[q.conn], durable)
  BY DEF AtomicInv
<1>4. ASSUME ~q.alive
      PROVE  AtomicInv' /\ [Atomic!AtomicNext]_(Atomic!atomicVars)
  <2> DEFINE x == [q EXCEPT !.pc = "done", !.released = TRUE]
  <2>1. req' = [req EXCEPT ![r] = x] /\ conn' = conn
    BY <1>4 DEF Connect
  <2>2. /\ x \in RequestStates /\ x.pc = "done" /\ x.released
        /\ x.reply = q.reply /\ x.work = q.work
    BY <1>1 DEF RequestStates, PCs
  <2> HIDE DEF x
  <2>3. Seen(r, q, durable, x, durable)
    BY <1>1, <1>2, <2>2
    DEF Seen, SameWork, SameDone, SameAccess, ToldBy
  <2>4. ~Holding(x)
    BY <2>2 DEF Holding
  <2> HIDE DEF q
  <2>5. q = req[r]
    BY DEF q
  <2> QED BY <1>1, <1>2, <2>1, <2>2, <2>3, <2>4, <2>5, AloneAtomic
<1>5. ASSUME q.alive
      PROVE  AtomicInv' /\ [Atomic!AtomicNext]_(Atomic!atomicVars)
  <2> DEFINE x  == [q EXCEPT !.pc = "begin_bootstrap", !.conn = c,
                             !.phase = "bootstrap"]
             st == [op |-> "begin_bootstrap", by |-> r]
             t  == Append(k.queue, st)
             k2 == [k EXCEPT !.holder = r, !.queue = t]
  <2>1. req' = [req EXCEPT ![r] = x] /\ conn' = [conn EXCEPT ![c] = k2]
    BY <1>5 DEF Connect
  <2>2. /\ x \in RequestStates /\ x.pc = "begin_bootstrap" /\ x.conn = c
        /\ x.reply = "none" /\ x.work = q.work
    BY <1>1, <1>2 DEF RequestStates, PCs, BootstrapOps
  <2>3. st \in Statements /\ st.op = "begin_bootstrap"
    BY DEF Statements, TxControl, Begins
  <2>4. k.queue = << >>
    BY <1>2 DEF Clean
  <2>5. DOMAIN t = {1} /\ t[1] = st
    BY <2>3, <2>4
  <2> HIDE DEF t, st
  <2>6. k2.queue = t /\ k2.pending = {}
    BY <1>1, <1>2 DEF ConnectionStates, Clean
  <2> HIDE DEF x, k2
  <2>7. \A i \in DOMAIN k2.queue : Op(k2, i) = "begin_bootstrap"
    BY <2>3, <2>5, <2>6 DEF Op
  <2>8. Whole(r, x, k2)
    BY <2>6, <2>7 DEF Whole, NoRoute, StaffOps, RouteOps
  <2>9. conn'[c] = k2 /\ \A d \in Connections \ {c} : conn'[d] = conn[d]
    BY <1>1, <2>1
  <2>10. Accounted(r, x, k2, durable)
    BY <1>1, <1>3 DEF Accounted
  <2>11. Seen(r, q, durable, x, durable')
    BY <1>1, <1>2, <2>2
    DEF Seen, SameWork, SameTold, SameDone, SameAccess, ToldBy
  <2>12. /\ \A d \in Connections :
                conn'[d] = conn[d] \/ conn[d].holder \in {r, Pool}
         /\ Whole(r, x, conn'[x.conn])
         /\ Accounted(r, x, conn'[x.conn], durable')
    BY <1>1, <2>2, <2>8, <2>9, <2>10
  <2> QED BY <1>1, <2>1, <2>2, <2>11, <2>12, AtomicStep
<1>6. q.alive \/ ~q.alive
  OBVIOUS
<1> QED BY <1>4, <1>5, <1>6

\* Each step keeps the account, and is a step of AtomicRequests or none.
LEMMA StepAtomic ==
    ASSUME RequestAssumption, Inv, AtomicInv, [Next]_vars
    PROVE  AtomicInv' /\ [Atomic!AtomicNext]_(Atomic!atomicVars)
<1>1. CASE UNCHANGED vars
  <2>1. conn' = conn /\ req' = req /\ durable' = durable
    BY <1>1 DEF vars
  <2>2. AtomicInv'
    BY <2>1 DEF AtomicInv
  <2>3. UNCHANGED Atomic!atomicVars
    BY <2>1 DEF Atomic!atomicVars, Asked, Recorded, Done, Told
  <2> QED BY <2>2, <2>3
<1>2. ASSUME NEW c \in Connections, Serve(c) \/ ConnectionLost(c)
      PROVE  AtomicInv' /\ [Atomic!AtomicNext]_(Atomic!atomicVars)
  BY <1>2, ServeAtomic, LostAtomic
<1>3. ASSUME NEW r \in Requests, NEW c \in Connections, Connect(r, c)
      PROVE  AtomicInv' /\ [Atomic!AtomicNext]_(Atomic!atomicVars)
  BY <1>3, ConnectAtomic
<1>4. ASSUME NEW r \in Requests,
             \/ RouteQuery(r) \/ RouteReturns(r) \/ RouteThrows(r)
             \/ Respond(r) \/ ClientGone(r)
      PROVE  AtomicInv' /\ [Atomic!AtomicNext]_(Atomic!atomicVars)
  BY <1>4, QueryAtomic, ReturnsAtomic, ThrowsAtomic, RespondAtomic, GoneAtomic
<1> QED BY <1>1, <1>2, <1>3, <1>4 DEF Next

LEMMA InitAtomic ==
    ASSUME RequestAssumption, Init
    PROVE  AtomicInv /\ Atomic!AtomicInit
<1>1. /\ durable = {}
      /\ \A r \in Requests : /\ req[r].pc = "waiting" /\ req[r].work = 0
                             /\ req[r].reply = "none"
  BY DEF Init
<1>2. AtomicInv
  BY <1>1 DEF AtomicInv, Holding, Accounted
<1>3. /\ Asked = [r \in Requests |-> 0]
      /\ Recorded = {}
      /\ Done = [r \in Requests |-> {}]
      /\ Told = [r \in Requests |-> "none"]
  BY <1>1 DEF Asked, Recorded, Done, Told
<1> QED BY <1>2, <1>3 DEF Atomic!AtomicInit

\* A request is, for whoever looks at the database and at the answers, the one
\* atomic step of AtomicRequests: nothing of its work or all of it, once,
\* behind the access record and before the answer.
THEOREM AtomicImplemented == Spec => ImplementsAtomic
<1>1. RequestAssumption /\ Init => AtomicInv /\ Atomic!AtomicInit
  BY InitAtomic
<1>2. RequestAssumption /\ Inv /\ AtomicInv /\ [Next]_vars
          => AtomicInv' /\ [Atomic!AtomicNext]_(Atomic!atomicVars)
  BY StepAtomic
<1> QED BY <1>1, <1>2, InvHolds, RequestAssumption, PTL
        DEF Spec, ImplementsAtomic, Atomic!AtomicSpec

-----------------------------------------------------------------------------
\* How a request ends

\* The statements a handler waits for.
Awaiting == BootstrapOps \cup RouteOps

\* What the handler waits for is on its way.
Awaited(q, k) ==
    q.pc \in Awaiting => \E i \in DOMAIN k.queue : Op(k, i) = q.pc

\* The connections are used by those who go on, who get what they wait for:
\* a handler the answer to its statement, and a response the end of the
\* transaction.
NobodyWaitsInVain ==
    /\ \A r \in Requests : req[r].pc \in Awaiting =>
          /\ Holding(req[r])
          /\ \E i \in DOMAIN conn[req[r].conn].queue :
                conn[req[r].conn].queue[i] = [op |-> req[r].pc, by |-> r]
    /\ \A r \in Requests : req[r].pc \in {"replying", "failing"} =>
          \/ req[r].fin \in {"settled", "rejected"}
          \/ /\ Holding(req[r])
             /\ \E i \in DOMAIN conn[req[r].conn].queue :
                   /\ conn[req[r].conn].queue[i].op \in EndOps
                   /\ conn[req[r].conn].queue[i].by = r
    /\ \A c \in Connections : conn[c].holder # Pool =>
          req[conn[c].holder].pc \notin {"waiting", "done"}

\* How far a request is from its end, by where it is.
Far == [waiting |-> 12, begin_bootstrap |-> 10, authenticate |-> 9,
        resolve |-> 8, record |-> 7, commit_bootstrap |-> 6,
        begin_route |-> 5, scope_route |-> 4, membership |-> 3, work |-> 3,
        handler |-> 2, replying |-> 1, failing |-> 1, done |-> 0]

\* ... and by the statements that the route may issue yet.
Ahead(q) ==
    Far[q.pc] + (IF q.pc \in {"replying", "failing", "done"} THEN 0
                 ELSE 2 * (MaxWork - q.work))

\* What may happen on a connection that is held: its statements are answered,
\* a COMMIT that fails is followed by a rollback, and it may be lost.
Load(k) ==
    Len(k.queue)
    + (IF \E i \in DOMAIN k.queue : Op(k, i) = "final_commit" THEN 1 ELSE 0)
    + (IF k.broken THEN 0 ELSE 1)

Undecided(q)  == IF q.fin = "none" THEN 2 ELSE 0
Present(q)    == IF q.alive THEN 1 ELSE 0
Carried(q, k) == IF Holding(q) THEN Load(k) ELSE 0

\* The steps that the request q, with the connection k if it holds one, has
\* left at most: its own, the answers to its statements, its client's leaving
\* and its connection's loss.
LeftOf(q, k) == 2 * Ahead(q) + Undecided(q) + Present(q) + Carried(q, k)

StepsLeft(r) == LeftOf(req[r], conn[req[r].conn])

\* No request makes more than 27 steps and four for each statement its route
\* may issue.
BoundedSteps == \A r \in Requests : StepsLeft(r) \in 0..(27 + 4 * MaxWork)

\* Every step takes away from one request, and adds to none.
StepsRunOut ==
    [][\E r \in Requests :
          /\ LeftOf(req'[r], conn'[req'[r].conn]) < StepsLeft(r)
          /\ \A o \in Requests \ {r} :
                LeftOf(req'[o], conn'[req'[o].conn]) = StepsLeft(o)]_vars

\* What every step keeps of a request: no more statements than MaxWork, and
\* what it waits for on its way.
Attends(q, k) ==
    /\ q.work \in 0..MaxWork
    /\ IF Holding(q) THEN Awaited(q, k) ELSE q.pc \notin Awaiting

Attended == \A r \in Requests : Attends(req[r], conn[req[r].conn])

\* A step from q and k to q2 and k2 keeps it, and takes one step away.
Forward(q, k, q2, k2) ==
    /\ Attends(q2, k2)
    /\ LeftOf(q2, k2) \in Nat
    /\ LeftOf(q2, k2) < LeftOf(q, k)

-----------------------------------------------------------------------------
LEMMA FarIs ==
    ASSUME NEW pc \in PCs
    PROVE  /\ Far[pc] \in 0..12
           /\ pc \in Awaiting => Far[pc] \in 3..10
BY DEF PCs, BootstrapOps, RouteOps, Awaiting, Far

LEMMA AheadIs ==
    ASSUME RequestAssumption, NEW q \in RequestStates, q.work \in 0..MaxWork
    PROVE  /\ Ahead(q) \in Nat
           /\ Ahead(q) <= Far[q.pc] + 2 * MaxWork
<1>1. MaxWork \in Nat /\ q.pc \in PCs /\ Far[q.pc] \in Nat
  BY FarIs DEF RequestAssumption, RequestStates
<1>2. MaxWork - q.work \in 0..MaxWork
  BY <1>1
<1> DEFINE m == MaxWork - q.work
<1>3. Ahead(q) = Far[q.pc] + (IF q.pc \in {"replying", "failing", "done"}
                              THEN 0 ELSE 2 * m)
  BY DEF Ahead
<1> HIDE DEF m
<1>4. m \in 0..MaxWork
  BY <1>2 DEF m
<1> QED BY <1>1, <1>3, <1>4

LEMMA LoadIs ==
    ASSUME NEW k \in ConnectionStates
    PROVE  /\ Load(k) \in Nat /\ Len(k.queue) \in Nat
           /\ Load(k) >= Len(k.queue)
           /\ Load(k) <= Len(k.queue) + 2
           /\ ~k.broken => Load(k) > 0
<1>1. Len(k.queue) \in Nat
  BY LenProperties DEF ConnectionStates
<1> DEFINE a == IF \E i \in DOMAIN k.queue : Op(k, i) = "final_commit"
                THEN 1 ELSE 0
           b == IF k.broken THEN 0 ELSE 1
<1>2. a \in 0..1 /\ b \in 0..1 /\ (~k.broken => b = 1)
  OBVIOUS
<1>3. Load(k) = Len(k.queue) + a + b
  BY DEF Load
<1> HIDE DEF a, b
<1> QED BY <1>1, <1>2, <1>3

LEMMA PartsAre ==
    ASSUME NEW q, NEW k \in ConnectionStates
    PROVE  /\ Undecided(q) \in 0..2 /\ Present(q) \in 0..1
           /\ Carried(q, k) \in Nat
BY LoadIs DEF Undecided, Present, Carried

\* A step that comes n nearer to the end may leave more to do by 2 n.
LEMMA Shrinks ==
    ASSUME RequestAssumption,
           NEW q \in RequestStates, q.work \in 0..MaxWork,
           NEW q2 \in RequestStates, q2.work \in 0..MaxWork,
           NEW k, NEW k2 \in ConnectionStates,
           Carried(q, k) \in Nat,
           NEW n \in Nat, Ahead(q2) + n <= Ahead(q),
           q2.alive => q.alive,
           Undecided(q2) + Carried(q2, k2) + Present(q2)
             < Undecided(q) + Carried(q, k) + Present(q) + 2 * n
    PROVE  /\ LeftOf(q2, k2) \in Nat
           /\ LeftOf(q2, k2) < LeftOf(q, k)
<1>1. /\ Undecided(q) \in Nat /\ Present(q) \in Nat
      /\ Undecided(q2) \in Nat /\ Present(q2) \in Nat
      /\ Carried(q2, k2) \in Nat
      /\ Ahead(q) \in Nat /\ Ahead(q2) \in Nat
  BY PartsAre, AheadIs DEF Undecided, Present
<1>2. ASSUME NEW a \in Nat, NEW a2 \in Nat, NEW u \in Nat, NEW u2 \in Nat,
             NEW p \in Nat, NEW p2 \in Nat, NEW c \in Nat, NEW c2 \in Nat,
             a2 + n <= a, u2 + c2 + p2 < u + c + p + 2 * n
      PROVE  /\ 2 * a2 + u2 + p2 + c2 \in Nat
             /\ 2 * a2 + u2 + p2 + c2 < 2 * a + u + p + c
  BY <1>2
<1>3. /\ 2 * Ahead(q2) + Undecided(q2) + Present(q2) + Carried(q2, k2) \in Nat
      /\ 2 * Ahead(q2) + Undecided(q2) + Present(q2) + Carried(q2, k2)
           < 2 * Ahead(q) + Undecided(q) + Present(q) + Carried(q, k)
  BY ONLY <1>1, <1>2, Undecided(q2) + Carried(q2, k2) + Present(q2)
             < Undecided(q) + Carried(q, k) + Present(q) + 2 * n,
          Ahead(q2) + n <= Ahead(q), Carried(q, k) \in Nat, Zenon
<1> QED BY <1>3 DEF LeftOf

\* What is sent adds to the load, and takes nothing away from the queue.
LEMMA LoadSends ==
    ASSUME NEW r \in Requests, NEW k \in ConnectionStates, NEW k2,
           NEW ops \in Seq(Ops), Sends(k, k2, ops, r)
    PROVE  /\ Load(k2) <= Load(k) + Len(ops)
                 + (IF \E i \in DOMAIN ops : ops[i] = "final_commit"
                    THEN 1 ELSE 0)
           /\ \A i \in DOMAIN k.queue :
                 i \in DOMAIN k2.queue /\ Op(k2, i) = Op(k, i)
           /\ \A i \in DOMAIN ops :
                 \E j \in DOMAIN k2.queue : Op(k2, j) = ops[i]
<1>1. /\ k2 \in ConnectionStates /\ k2.broken = k.broken
      /\ Len(k.queue) \in Nat /\ Len(ops) \in Nat
      /\ DOMAIN k.queue = 1..Len(k.queue)
      /\ DOMAIN ops = 1..Len(ops)
      /\ DOMAIN k2.queue = 1..(Len(k.queue) + Len(ops))
      /\ Len(k2.queue) = Len(k.queue) + Len(ops)
  BY LenProperties DEF ConnectionStates, Sends, Follows
<1>2. ASSUME NEW i \in DOMAIN k.queue
      PROVE  i \in DOMAIN k2.queue /\ Op(k2, i) = Op(k, i)
  BY <1>1, <1>2 DEF Sends, Follows, Op
<1>3. ASSUME NEW i \in DOMAIN ops
      PROVE  \E j \in DOMAIN k2.queue : Op(k2, j) = ops[i]
  <2>1. Len(k.queue) + i \in DOMAIN k2.queue
    BY <1>1, <1>3
  <2>2. k2.queue[Len(k.queue) + i] = [op |-> ops[i], by |-> r]
    BY <1>1, <1>3 DEF Sends, Follows
  <2>3. Op(k2, Len(k.queue) + i) = ops[i]
    BY <2>2 DEF Op
  <2> QED BY <2>1, <2>3
<1>4. ASSUME NEW j \in DOMAIN k2.queue
      PROVE  \/ j \in DOMAIN k.queue /\ Op(k2, j) = Op(k, j)
             \/ \E i \in DOMAIN ops : Op(k2, j) = ops[i]
  <2>1. CASE j \in 1..Len(k.queue)
    BY <1>1, <1>2, <2>1
  <2>2. CASE j \notin 1..Len(k.queue)
    <3> DEFINE i == j - Len(k.queue)
    <3>1. i \in 1..Len(ops) /\ j = Len(k.queue) + i
      BY <1>1, <2>2
    <3> HIDE DEF i
    <3>2. k2.queue[j] = [op |-> ops[i], by |-> r]
      BY <3>1 DEF Sends, Follows
    <3>3. Op(k2, j) = ops[i]
      BY <3>2 DEF Op
    <3> QED BY <1>1, <3>1, <3>3
  <2> QED BY <2>1, <2>2
<1> DEFINE a  == IF \E i \in DOMAIN k.queue : Op(k, i) = "final_commit"
                 THEN 1 ELSE 0
           a2 == IF \E i \in DOMAIN k2.queue : Op(k2, i) = "final_commit"
                 THEN 1 ELSE 0
           o  == IF \E i \in DOMAIN ops : ops[i] = "final_commit"
                 THEN 1 ELSE 0
           b  == IF k.broken THEN 0 ELSE 1
<1>5. a2 <= a + o /\ a \in 0..1 /\ a2 \in 0..1 /\ o \in 0..1 /\ b \in 0..1
  BY <1>4
<1>6. /\ Load(k) = Len(k.queue) + a + b
      /\ Load(k2) = Len(k2.queue) + a2 + b
  BY <1>1 DEF Load
<1> HIDE DEF a, a2, o, b
<1>7. Load(k2) <= Load(k) + Len(ops) + o
  <2>1. ASSUME NEW m \in Nat, NEW n \in Nat, NEW x, x = m + a + b,
               NEW y, y = (m + n) + a2 + b
        PROVE  y <= x + n + o
    BY <1>5, <2>1
  <2>2. /\ Len(k.queue) \in Nat /\ Len(ops) \in Nat
        /\ Load(k2) = (Len(k.queue) + Len(ops)) + a2 + b
    BY <1>1, <1>6
  <2> QED BY ONLY <1>6, <2>1, <2>2, Zenon
<1> QED BY <1>2, <1>3, <1>7 DEF o

\* An answer takes from the load, the one to a COMMIT by more than one.
LEMMA LoadRuns ==
    ASSUME NEW r, NEW q, NEW k, NEW D, NEW ok, NEW k1, NEW D2,
           Serving(r, q, k, D, ok, k1, D2)
    PROVE  /\ Load(k) \in Nat /\ Load(k1) \in Nat
           /\ Load(k1) + 1 <= Load(k)
           /\ Op(k, 1) = "final_commit" => Load(k1) + 2 <= Load(k)
           /\ \A i \in DOMAIN k.queue : i # 1 =>
                 \E j \in DOMAIN k1.queue : Op(k1, j) = Op(k, i)
<1>1. /\ k \in ConnectionStates /\ k1 \in ConnectionStates
      /\ k1.broken = k.broken /\ Queued(r, q, k)
  BY DEF Serving, Running, Ran, Held
<1>2. /\ Len(k.queue) \in 1..3 /\ DOMAIN k.queue = 1..Len(k.queue)
      /\ DOMAIN k1.queue = 1..Len(k1.queue)
      /\ Len(k1.queue) = Len(k.queue) - 1
      /\ \A i \in 1..Len(k1.queue) : k1.queue[i] = k.queue[i + 1]
  BY ServingQueue
<1>3. ASSUME NEW i \in DOMAIN k1.queue
      PROVE  i + 1 \in DOMAIN k.queue /\ Op(k1, i) = Op(k, i + 1)
  BY <1>2, <1>3 DEF Op
<1>4. ASSUME NEW i \in DOMAIN k.queue, i # 1
      PROVE  \E j \in DOMAIN k1.queue : Op(k1, j) = Op(k, i)
  <2>1. i - 1 \in DOMAIN k1.queue /\ (i - 1) + 1 = i
    BY <1>2, <1>4
  <2>2. Op(k1, i - 1) = Op(k, i)
    BY <1>3, <2>1
  <2> QED BY <2>1, <2>2
<1> DEFINE a  == IF \E i \in DOMAIN k.queue : Op(k, i) = "final_commit"
                 THEN 1 ELSE 0
           a1 == IF \E i \in DOMAIN k1.queue : Op(k1, i) = "final_commit"
                 THEN 1 ELSE 0
           b  == IF k.broken THEN 0 ELSE 1
<1>5. a1 <= a /\ a \in 0..1 /\ a1 \in 0..1 /\ b \in 0..1
  BY <1>3
<1>6. ASSUME Op(k, 1) = "final_commit" PROVE a = 1 /\ a1 = 0
  <2>1. Len(k.queue) = 1
    BY <1>1, <1>2, <1>6
    DEF Queued, HandlerOps, BootstrapOps, RouteOps
  <2>2. DOMAIN k1.queue = {} /\ 1 \in DOMAIN k.queue
    BY <1>2, <2>1
  <2> QED BY <1>6, <2>2
<1>7. /\ Load(k) = Len(k.queue) + a + b
      /\ Load(k1) = Len(k1.queue) + a1 + b
  BY <1>1 DEF Load
<1> HIDE DEF a, a1, b
<1>8. /\ Load(k) \in Nat /\ Load(k1) \in Nat /\ Load(k1) + 1 <= Load(k)
      /\ Op(k, 1) = "final_commit" => Load(k1) + 2 <= Load(k)
  BY <1>2, <1>5, <1>6, <1>7
<1> QED BY <1>4, <1>8

-----------------------------------------------------------------------------
\* An answer reaches a request q, which becomes p and sends ops.  Nobody has
\* waited for it but the finalization, ...
Stays(q, p, op, ops) ==
    /\ p.pc = q.pc /\ q.pc # op /\ p.work = q.work /\ p.alive = q.alive
    /\ p.fin = "none" => q.fin = "none"
    /\ p.released => op \in EndOps
    /\ \/ ops = << >>
       \/ ops = <<"rollback">> /\ op = "final_commit" /\ ~p.released

\* ... or the handler fails, ...
Fails(q, p, ops) ==
    /\ q.pc \in Awaiting /\ p.pc = "failing"
    /\ p.work = q.work /\ p.alive = q.alive /\ p.fin # "none"
    /\ ~p.released
    /\ ops \in {<< >>, <<"rollback">>, <<"access_commit">>}

\* ... or comes nearer to its end, and sends what it waits for next.
Advances(q, p, ops) ==
    /\ q.pc \in Awaiting /\ p.pc \in Awaiting \cup {"handler"}
    /\ Far[p.pc] < Far[q.pc]
    /\ p.work = q.work /\ p.alive = q.alive /\ p.fin = q.fin
    /\ ~p.released
    /\ ops \in Seq(Ops) /\ Len(ops) \in 0..2
    /\ \A i \in DOMAIN ops : ops[i] # "final_commit"
    /\ p.pc \in Awaiting => \E i \in DOMAIN ops : ops[i] = p.pc

LEMMA FinalizedGoes ==
    ASSUME NEW q \in RequestStates, ~q.released, NEW op \in EndOps,
           NEW ok \in BOOLEAN, NEW next, next = Finalized(q, op, ok)
    PROVE  Stays(q, next.q, op, next.issue)
<1>1. q.pc # op
  BY DEF RequestStates, PCs, BootstrapOps, RouteOps, EndOps
<1>2. ASSUME NEW z \in RequestStates, NEW ops, next = Then(z, ops),
             z.pc = q.pc, z.work = q.work, z.alive = q.alive,
             z.fin = "none" => q.fin = "none",
             \/ ops = << >>
             \/ ops = <<"rollback">> /\ op = "final_commit" /\ ~z.released
      PROVE  Stays(q, next.q, op, next.issue)
  <2>1. next = [q |-> z, issue |-> ops]
    BY <1>2 DEF Then
  <2>2. next.q = z /\ next.issue = ops
    BY ONLY <2>1
  <2> QED BY <1>1, <1>2, <2>2 DEF Stays
<1>3. CASE op = "final_commit" /\ ok
  <2> DEFINE x == [q EXCEPT !.phase = "committed", !.fin = "settled"]
             z == [x EXCEPT !.released = TRUE]
  <2>1. /\ z \in RequestStates /\ z.pc = q.pc /\ z.work = q.work
        /\ z.alive = q.alive /\ z.fin = "settled"
    BY DEF RequestStates
  <2>2. next = Release(x)
    BY <1>3 DEF Finalized
  <2>3. next = Then(z, << >>)
    BY <2>2 DEF Release
  <2> HIDE DEF z
  <2> QED BY <1>2, <2>1, <2>3
<1>4. CASE op = "final_commit" /\ ~ok
  <2> DEFINE z == [q EXCEPT !.poisoned = TRUE]
  <2>1. /\ z \in RequestStates /\ z.pc = q.pc /\ z.work = q.work
        /\ z.alive = q.alive /\ z.fin = q.fin /\ ~z.released
    BY DEF RequestStates
  <2>2. next = Then(z, <<"rollback">>)
    BY <1>4 DEF Finalized
  <2> HIDE DEF z
  <2> QED BY <1>2, <1>4, <2>1, <2>2
<1>5. CASE op # "final_commit" /\ ok
  <2> DEFINE x == [q EXCEPT
                     !.phase = IF op = "rollback" THEN "rolled_back"
                                                  ELSE "committed",
                     !.fin = AfterRollback(q)]
             z == [x EXCEPT !.released = TRUE]
  <2>1. /\ z \in RequestStates /\ z.pc = q.pc /\ z.work = q.work
        /\ z.alive = q.alive /\ z.fin \in {"settled", "rejected"}
    BY DEF RequestStates, AfterRollback
  <2>2. next = Release(x)
    BY <1>5 DEF Finalized
  <2>3. next = Then(z, << >>)
    BY <2>2 DEF Release
  <2> HIDE DEF z
  <2> QED BY <1>2, <2>1, <2>3
<1>6. CASE op # "final_commit" /\ ~ok
  <2> DEFINE x == [q EXCEPT !.fin = "rejected", !.poisoned = TRUE]
             z == [x EXCEPT !.released = TRUE]
  <2>1. /\ z \in RequestStates /\ z.pc = q.pc /\ z.work = q.work
        /\ z.alive = q.alive /\ z.fin = "rejected"
    BY DEF RequestStates
  <2>2. next = Release(x)
    BY <1>6 DEF Finalized, RollbackFailed
  <2>3. next = Then(z, << >>)
    BY <2>2 DEF Release
  <2> HIDE DEF z
  <2> QED BY <1>2, <2>1, <2>3
<1> QED BY <1>3, <1>4, <1>5, <1>6

\* A handler that throws, whether or not the finalization has begun.
LEMMA ThrowGoes ==
    ASSUME NEW q \in RequestStates, q.pc \in Awaiting, ~q.released,
           q.fin = "none" => q.phase \in {"bootstrap", "route"},
           NEW x, SameButPoisoned(q, x), NEW next, next = Throw(x)
    PROVE  Fails(q, next.q, next.issue)
<1>1. /\ x \in RequestStates /\ x.work = q.work /\ x.alive = q.alive
      /\ x.fin = q.fin /\ x.phase = q.phase /\ x.released = q.released
  BY DEF SameButPoisoned
<1>2. CASE q.fin = "none"
  <2> DEFINE p == [x EXCEPT !.pc = "failing", !.fin = "rolling_back"]
             o == RollbackOp(x)
  <2>1. next.q = p /\ next.issue = <<o>>
    BY <1>1, <1>2, ThrowOpen
  <2>2. /\ p.pc = "failing" /\ p.work = x.work /\ p.alive = x.alive
        /\ p.fin = "rolling_back" /\ p.released = x.released
    BY <1>1 DEF RequestStates
  <2>3. o \in {"rollback", "access_commit"}
    BY DEF RollbackOp
  <2> HIDE DEF p, o
  <2> QED BY <1>1, <2>1, <2>2, <2>3 DEF Fails
<1>3. CASE q.fin # "none"
  <2> DEFINE p == [x EXCEPT !.pc = "failing"]
  <2>1. next.q = p /\ next.issue = << >>
    BY <1>1, <1>3, ThrowFenced
  <2>2. /\ p.pc = "failing" /\ p.work = x.work /\ p.alive = x.alive
        /\ p.fin = x.fin /\ p.released = x.released
    BY <1>1 DEF RequestStates
  <2> HIDE DEF p
  <2> QED BY <1>1, <1>3, <2>1, <2>2 DEF Fails
<1> QED BY <1>2, <1>3

\* An open request whose handler accepts the answer.
LEMMA AnsweredGoes ==
    ASSUME NEW r, NEW q \in RequestStates, q.fin = "none", ~q.released,
           NEW op \in Awaiting, q.pc = op,
           NEW ok, NEW accepted, WellAnswered(op, ok, accepted),
           NEW next, next = Answered(q, r, op, accepted)
    PROVE  Advances(q, next.q, next.issue)
<1>1. ASSUME NEW x \in RequestStates, x.fin = "none", ~x.released,
             x.work = q.work, x.alive = q.alive,
             NEW pc \in Awaiting \cup {"handler"}, Far[pc] < Far[q.pc],
             NEW ops, next = Then([x EXCEPT !.pc = pc], ops),
             ops \in Seq(Ops), Len(ops) \in 0..2,
             \A i \in DOMAIN ops : ops[i] # "final_commit",
             pc \in Awaiting => \E i \in DOMAIN ops : ops[i] = pc
      PROVE  Advances(q, next.q, next.issue)
  <2> DEFINE z == [x EXCEPT !.pc = pc]
  <2>1. /\ z.pc = pc /\ z.work = x.work /\ z.alive = x.alive
        /\ z.fin = x.fin /\ z.released = x.released
    BY DEF RequestStates
  <2>2. next = [q |-> z, issue |-> ops]
    BY <1>1 DEF Then
  <2> HIDE DEF z
  <2>3. next.q = z /\ next.issue = ops
    BY ONLY <2>2
  <2> QED BY <1>1, <2>1, <2>3 DEF Advances
<1>2. ASSUME NEW x \in RequestStates, x.fin = "none", ~x.released,
             x.work = q.work, x.alive = q.alive,
             NEW pc \in Awaiting, Far[pc] < Far[q.pc],
             next = Issue(x, pc, <<pc>>)
      PROVE  Advances(q, next.q, next.issue)
  <2> DEFINE ops == <<pc>>
  <2>1. next = Then([x EXCEPT !.pc = pc], ops)
    BY <1>2 DEF Issue, Live
  <2>2. /\ ops \in Seq(Ops) /\ Len(ops) = 1 /\ DOMAIN ops = {1}
        /\ ops[1] = pc /\ pc # "final_commit"
    BY <1>2 DEF Awaiting, BootstrapOps, RouteOps, Ops, TxControl, Commits,
       Begins, ScopeSetters
  <2> HIDE DEF ops
  <2>3. /\ pc \in Awaiting \cup {"handler"} /\ Len(ops) \in 0..2
        /\ \A i \in DOMAIN ops : ops[i] # "final_commit"
        /\ pc \in Awaiting => \E i \in DOMAIN ops : ops[i] = pc
    BY <2>2
  <2> QED BY ONLY <1>1, <1>2, <2>1, <2>2, <2>3, Zenon
<1>3. ASSUME next = Then([q EXCEPT !.pc = "handler"], << >>)
      PROVE  Advances(q, next.q, next.issue)
  <2> DEFINE ops == << >>
  <2>1. ops \in Seq(Ops) /\ Len(ops) = 0 /\ DOMAIN ops = {}
    OBVIOUS
  <2>2. next = Then([q EXCEPT !.pc = "handler"], ops)
    BY <1>3
  <2> HIDE DEF ops
  <2>3. Far["handler"] < Far[q.pc] /\ "handler" \notin Awaiting
    BY DEF Far, Awaiting, BootstrapOps, RouteOps
  <2>4. /\ "handler" \in Awaiting \cup {"handler"} /\ Len(ops) \in 0..2
        /\ \A i \in DOMAIN ops : ops[i] # "final_commit"
        /\ "handler" \in Awaiting => \E i \in DOMAIN ops : ops[i] = "handler"
    BY <2>1, <2>3
  <2>5. /\ q \in RequestStates /\ q.fin = "none" /\ ~q.released
        /\ q.work = q.work /\ q.alive = q.alive
    OBVIOUS
  <2> QED BY ONLY <1>1, <2>1, <2>2, <2>3, <2>4, <2>5, Zenon
<1>4. CASE op = "begin_bootstrap"
  <2>1. next = Issue(q, "authenticate", <<"authenticate">>)
    BY <1>4 DEF Answered
  <2>2. "authenticate" \in Awaiting /\ Far["authenticate"] < Far[q.pc]
    BY <1>4 DEF Awaiting, BootstrapOps, Far
  <2> QED BY <1>2, <2>1, <2>2
<1>5. CASE op = "authenticate" /\ r \in Staff
  <2>1. next = Issue(q, "resolve", <<"resolve">>)
    BY <1>5 DEF Answered, WellAnswered
  <2>2. "resolve" \in Awaiting /\ Far["resolve"] < Far[q.pc]
    BY <1>5 DEF Awaiting, BootstrapOps, Far
  <2> QED BY <1>2, <2>1, <2>2
<1>6. CASE op = "authenticate" /\ r \notin Staff
  <2>1. next = Issue(q, "commit_bootstrap", <<"commit_bootstrap">>)
    BY <1>6 DEF Answered, WellAnswered
  <2>2. "commit_bootstrap" \in Awaiting /\ Far["commit_bootstrap"] < Far[q.pc]
    BY <1>6 DEF Awaiting, BootstrapOps, Far
  <2> QED BY <1>2, <2>1, <2>2
<1>7. CASE op = "resolve"
  <2> DEFINE x   == [q EXCEPT !.accessRecordIssued = TRUE]
             ops == <<"scope_bootstrap", "record">>
  <2>1. /\ x \in RequestStates /\ x.fin = "none" /\ ~x.released
        /\ x.work = q.work /\ x.alive = q.alive
    BY DEF RequestStates
  <2>2. next = Issue(x, "record", ops)
    BY <1>7 DEF Answered, WellAnswered
  <2>3. /\ ops \in Seq(Ops) /\ Len(ops) = 2 /\ DOMAIN ops = 1..2
        /\ ops[1] = "scope_bootstrap" /\ ops[2] = "record"
    BY DEF Ops, ScopeSetters
  <2>4. "record" \in Awaiting /\ Far["record"] < Far[q.pc]
    BY <1>7 DEF Awaiting, BootstrapOps, Far
  <2> HIDE DEF x, ops
  <2>5. next = Then([x EXCEPT !.pc = "record"], ops)
    BY <2>1, <2>2 DEF Issue, Live
  <2>6. /\ Len(ops) \in 0..2
        /\ \A i \in DOMAIN ops : ops[i] # "final_commit"
        /\ \E i \in DOMAIN ops : ops[i] = "record"
    BY <2>3
  <2>7. /\ "record" \in Awaiting \cup {"handler"}
        /\ "record" \in Awaiting => \E i \in DOMAIN ops : ops[i] = "record"
    BY <2>4, <2>6
  <2> DEFINE z == [x EXCEPT !.pc = "record"]
  <2>8. /\ z.pc = "record" /\ z.work = q.work /\ z.alive = q.alive
        /\ z.fin = q.fin /\ ~z.released
    BY <2>1 DEF RequestStates
  <2>9. next = [q |-> z, issue |-> ops]
    BY <2>5 DEF Then
  <2> HIDE DEF z
  <2>10. next.q = z /\ next.issue = ops
    BY ONLY <2>9
  <2> QED BY <1>7, <2>3, <2>4, <2>6, <2>7, <2>8, <2>10 DEF Advances
<1>8. CASE op = "record"
  <2>1. next = Issue(q, "commit_bootstrap", <<"commit_bootstrap">>)
    BY <1>8 DEF Answered, AfterRecord
  <2>2. "commit_bootstrap" \in Awaiting /\ Far["commit_bootstrap"] < Far[q.pc]
    BY <1>8 DEF Awaiting, BootstrapOps, Far
  <2> QED BY <1>2, <2>1, <2>2
<1>9. CASE op = "commit_bootstrap"
  <2> DEFINE x == [q EXCEPT !.phase = "none", !.accessRecordIssued = FALSE]
             y == [x EXCEPT !.phase = PhaseOfRoute(x)]
  <2>1. /\ x \in RequestStates /\ x.fin = "none" /\ ~x.released
        /\ x.work = q.work /\ x.alive = q.alive
    BY DEF RequestStates
  <2>2. next = BeginTenantTransaction(x)
    BY <1>9 DEF Answered
  <2> HIDE DEF x
  <2>3. /\ y \in RequestStates /\ y.fin = "none" /\ ~y.released
        /\ y.work = q.work /\ y.alive = q.alive
    BY <2>1 DEF RequestStates, PhaseOfRoute
  <2>4. next = Issue(y, "begin_route", <<"begin_route">>)
    BY <2>1, <2>2 DEF BeginTenantTransaction, Live
  <2>5. "begin_route" \in Awaiting /\ Far["begin_route"] < Far[q.pc]
    BY <1>9 DEF Awaiting, RouteOps, Far
  <2> HIDE DEF y
  <2> QED BY <1>2, <2>3, <2>4, <2>5
<1>10. CASE op = "begin_route"
  <2>1. next = Issue(q, "scope_route", <<"scope_route">>)
    BY <1>10 DEF Answered, AfterBegin
  <2>2. "scope_route" \in Awaiting /\ Far["scope_route"] < Far[q.pc]
    BY <1>10 DEF Awaiting, RouteOps, Far
  <2> QED BY <1>2, <2>1, <2>2
<1>11. CASE op = "scope_route" /\ r \in Staff
  <2>1. next = Then([q EXCEPT !.pc = "handler"], << >>)
    BY <1>11 DEF Answered
  <2> QED BY <1>3, <2>1
<1>12. CASE op = "scope_route" /\ r \notin Staff
  <2>1. next = Issue(q, "membership", <<"membership">>)
    BY <1>12 DEF Answered
  <2>2. "membership" \in Awaiting /\ Far["membership"] < Far[q.pc]
    BY <1>12 DEF Awaiting, RouteOps, Far
  <2> QED BY <1>2, <2>1, <2>2
<1>13. CASE op \in {"membership", "work"}
  <2>1. next = Then([q EXCEPT !.pc = "handler"], << >>)
    BY <1>13 DEF Answered, WellAnswered
  <2> QED BY <1>3, <2>1
<1> QED BY <1>4, <1>5, <1>6, <1>7, <1>8, <1>9, <1>10, <1>11, <1>12, <1>13
        DEF Awaiting, BootstrapOps, RouteOps

\* A handler that was fenced off does not stay where it is either.
LEMMA FencedMoves ==
    ASSUME NEW r, NEW q \in RequestStates, q.fin # "none",
           NEW op \in Awaiting, q.pc = op, NEW ok, NEW accepted,
           NEW next, next = Continue(q, r, op, ok, accepted)
    PROVE  next.q.pc # q.pc
<1>1. q.pc \notin {"failing", "handler"} /\ op \notin EndOps
      /\ op # "scope_bootstrap"
  BY DEF Awaiting, BootstrapOps, RouteOps, EndOps
<1>2. ASSUME NEW x \in RequestStates, x.fin # "none", next = Throw(x)
      PROVE  next.q.pc # q.pc
  <2>1. next.q = [x EXCEPT !.pc = "failing"]
    BY <1>2, ThrowFenced
  <2>2. next.q.pc = "failing"
    BY <1>2, <2>1 DEF RequestStates
  <2> QED BY <1>1, <2>2
<1>3. ASSUME NEW x \in RequestStates, x.fin # "none", NEW pc, NEW ops,
             next = Issue(x, pc, ops)
      PROVE  next.q.pc # q.pc
  BY <1>2, <1>3 DEF Issue, Live
<1>4. ASSUME next = Then([q EXCEPT !.pc = "handler"], << >>)
      PROVE  next.q.pc # q.pc
  BY <1>1, <1>4 DEF Then, RequestStates
<1>5. CASE ~ok
  <2> DEFINE x == [q EXCEPT !.poisoned = @ \/ op \in TxControl]
  <2>1. next = Throw(x)
    BY <1>1, <1>5 DEF Continue, EndOps
  <2>2. x \in RequestStates /\ x.fin = q.fin
    BY DEF RequestStates
  <2> HIDE DEF x
  <2> QED BY <1>2, <2>1, <2>2
<1>6. CASE ok
  <2>1. next = Answered(q, r, op, accepted)
    BY <1>1, <1>6 DEF Continue, EndOps
  <2>2. CASE op \in {"begin_bootstrap", "authenticate", "record",
                     "begin_route", "scope_route", "membership", "work"}
    <3>1. CASE op \in {"begin_bootstrap", "record", "begin_route"}
      <4>1. \E pc, ops : next = Issue(q, pc, ops)
        BY <2>1, <3>1 DEF Answered, AfterRecord, AfterBegin
      <4> QED BY <1>3, <4>1
    <3>2. CASE op = "authenticate"
      <4>1. next = Throw(q) \/ \E pc, ops : next = Issue(q, pc, ops)
        BY <2>1, <3>2 DEF Answered
      <4> QED BY <1>2, <1>3, <4>1
    <3>3. CASE op = "scope_route"
      <4>1. \/ next = Then([q EXCEPT !.pc = "handler"], << >>)
            \/ \E pc, ops : next = Issue(q, pc, ops)
        BY <2>1, <3>3 DEF Answered
      <4> QED BY <1>3, <1>4, <4>1
    <3>4. CASE op \in {"membership", "work"}
      <4>1. \/ next = Then([q EXCEPT !.pc = "handler"], << >>)
            \/ next = Throw(q)
        BY <2>1, <3>4 DEF Answered
      <4> QED BY <1>2, <1>4, <4>1
    <3> QED BY <2>2, <3>1, <3>2, <3>3, <3>4
  <2>3. CASE op = "resolve"
    <3> DEFINE x == [q EXCEPT !.accessRecordIssued = TRUE]
    <3>1. next = Throw(q) \/
          next = Issue(x, "record", <<"scope_bootstrap", "record">>)
      BY <2>1, <2>3 DEF Answered
    <3>2. x \in RequestStates /\ x.fin = q.fin
      BY DEF RequestStates
    <3> HIDE DEF x
    <3> QED BY <1>2, <1>3, <3>1, <3>2
  <2>4. CASE op = "commit_bootstrap"
    <3> DEFINE x == [q EXCEPT !.phase = "none", !.accessRecordIssued = FALSE]
    <3>1. next = BeginTenantTransaction(x)
      BY <2>1, <2>4 DEF Answered
    <3>2. x \in RequestStates /\ x.fin = q.fin
      BY DEF RequestStates
    <3> HIDE DEF x
    <3>3. next = Throw(x)
      BY <3>1, <3>2 DEF BeginTenantTransaction, Live
    <3> QED BY <1>2, <3>2, <3>3
  <2> QED BY <2>2, <2>3, <2>4 DEF Awaiting, BootstrapOps, RouteOps
<1> QED BY <1>5, <1>6

\* An answer comes to nothing, to an error, or brings the request nearer.
LEMMA ContinueGoes ==
    ASSUME NEW r, NEW q, NEW k, NEW D, NEW ok, NEW k1, NEW D2,
           Serving(r, q, k, D, ok, k1, D2), NEW accepted \in BOOLEAN,
           NEW next, next = Continue(q, r, Op(k, 1), ok, accepted)
    PROVE  \/ Stays(q, next.q, Op(k, 1), next.issue)
           \/ Op(k, 1) \in HandlerOps /\ Fails(q, next.q, next.issue)
           \/ Op(k, 1) \in HandlerOps /\ Advances(q, next.q, next.issue)
<1> DEFINE op == Op(k, 1)
<1>1. /\ r \in Requests /\ q \in RequestStates /\ k1 \in ConnectionStates
      /\ ok \in BOOLEAN /\ Queued(r, q, k) /\ ~q.released
  BY DEF Serving, Running, Held, Ran, Holding
<1>2. op \in HandlerOps \cup EndOps
  <2>1. op \in Ops
    BY ServingQueue
  <2> QED BY <2>1 DEF Ops, HandlerOps, EndOps, BootstrapOps, RouteOps,
             TxControl, Commits, Begins, ScopeSetters
<1>3. next = Continue(q, r, op, ok, accepted)
  OBVIOUS
<1> HIDE DEF op
<1>4. CASE op \in EndOps
  <2>1. next = Finalized(q, op, ok)
    BY <1>3, <1>4 DEF Continue, EndOps
  <2> QED BY <1>1, <1>4, <2>1, FinalizedGoes DEF op
<1> DEFINE expected == IF op = "scope_bootstrap" THEN "record" ELSE op
<1>5. CASE op \in HandlerOps \ EndOps /\ q.pc # expected
  <2>1. next.q = q /\ next.issue = << >>
    BY <1>3, <1>5 DEF Continue, EndOps, Then
  <2>2. q.pc # op
    BY <1>1, <1>5 DEF RequestStates, PCs, BootstrapOps, RouteOps
  <2>3. Stays(q, next.q, op, next.issue)
    BY <1>1, <2>1, <2>2 DEF Stays
  <2> QED BY <2>3 DEF op
<1>6. CASE op = "scope_bootstrap" /\ q.pc = "record"
  <2>1. op \in HandlerOps /\ op \notin EndOps /\ q.pc \in Awaiting
    BY <1>6 DEF HandlerOps, EndOps, Awaiting, BootstrapOps
  <2>2. q.fin = "none" => q.phase \in {"bootstrap", "route"}
    BY <1>1 DEF Queued
  <2>3. CASE ~ok
    <3> DEFINE x == [q EXCEPT !.poisoned = @ \/ op \in TxControl]
    <3>1. next = Throw(x)
      BY <1>3, <1>6, <2>1, <2>3 DEF Continue, EndOps
    <3>2. SameButPoisoned(q, x)
      BY <1>1 DEF SameButPoisoned, RequestStates
    <3> HIDE DEF x
    <3>3. Fails(q, next.q, next.issue)
      BY <1>1, <2>1, <2>2, <3>1, <3>2, ThrowGoes
    <3> QED BY <2>1, <3>3 DEF op
  <2>4. CASE ok
    <3>1. next.q = q /\ next.issue = << >>
      <4>1. next = Answered(q, r, op, accepted)
        BY <1>3, <1>6, <2>1, <2>4 DEF Continue, EndOps
      <4>2. next = Then(q, << >>)
        BY <1>6, <4>1 DEF Answered
      <4> QED BY <4>2 DEF Then
    <3>2. Stays(q, next.q, op, next.issue)
      BY <1>1, <1>6, <3>1 DEF Stays
    <3> QED BY <3>2 DEF op
  <2> QED BY <2>3, <2>4
<1>7. CASE op \in HandlerOps \ EndOps /\ op # "scope_bootstrap" /\ q.pc = op
  <2>1. op \in Awaiting /\ op # "scope_bootstrap" /\ q.pc \in HandlerOps
    BY <1>1, <1>7 DEF RequestStates, PCs, HandlerOps, Awaiting, BootstrapOps,
       RouteOps
  <2>2. q.fin = "none" => q.phase \in {"bootstrap", "route"}
    BY <1>1 DEF Queued
  <2>3. ASSUME NEW x, SameButPoisoned(q, x), next = Throw(x)
        PROVE  Fails(q, next.q, next.issue)
    BY <1>1, <1>7, <2>1, <2>2, <2>3, ThrowGoes
  <2>4. CASE q.fin # "none"
    <3>1. next.issue = << >> /\ Fenced(q, next.q, op)
      BY <1>1, <1>3, <1>7, <2>4, FencedContinue
    <3>2. next.q.pc # q.pc
      BY <1>1, <1>3, <1>7, <2>1, <2>4, FencedMoves
    <3>3. /\ next.q.work = q.work /\ next.q.alive = q.alive
          /\ next.q.fin = q.fin /\ next.q.released = q.released
          /\ next.q.pc \in {"handler", "failing"}
      BY <3>1, <3>2 DEF Fenced
    <3>4. CASE next.q.pc = "failing"
      <4>1. Fails(q, next.q, next.issue)
        BY <1>1, <1>7, <2>1, <2>4, <3>1, <3>3, <3>4 DEF Fails
      <4> QED BY <1>7, <4>1 DEF op
    <3>5. CASE next.q.pc = "handler"
      <4> DEFINE ops == << >>
      <4>1. ops \in Seq(Ops) /\ Len(ops) = 0 /\ DOMAIN ops = {}
        OBVIOUS
      <4>2. next.issue = ops
        BY <3>1
      <4> HIDE DEF ops
      <4>3. Far["handler"] < Far[q.pc] /\ "handler" \notin Awaiting
        BY <1>7, <2>1 DEF Far, Awaiting, BootstrapOps, RouteOps
      <4>4. Advances(q, next.q, next.issue)
        <5>1. /\ ops \in Seq(Ops) /\ Len(ops) \in 0..2
              /\ \A i \in DOMAIN ops : ops[i] # "final_commit"
              /\ next.q.pc \notin Awaiting
              /\ next.q.pc \in Awaiting \cup {"handler"}
              /\ Far[next.q.pc] < Far[q.pc]
          BY <3>5, <4>1, <4>3
        <5> QED BY <1>1, <1>7, <2>1, <3>3, <4>2, <5>1 DEF Advances
      <4> QED BY <1>7, <4>4 DEF op
    <3> QED BY <3>3, <3>4, <3>5
  <2>5. CASE q.fin = "none" /\ ~ok
    <3> DEFINE x == [q EXCEPT !.poisoned = @ \/ op \in TxControl]
    <3>1. next = Throw(x)
      BY <1>3, <1>7, <2>1, <2>5 DEF Continue, EndOps
    <3>2. SameButPoisoned(q, x)
      BY <1>1 DEF SameButPoisoned, RequestStates
    <3> HIDE DEF x
    <3>3. Fails(q, next.q, next.issue)
      BY <2>3, <3>1, <3>2
    <3> QED BY <1>7, <3>3 DEF op
  <2>6. CASE q.fin = "none" /\ ok /\ ~WellAnswered(op, ok, accepted)
    <3>1. next = Throw(q)
      BY <1>3, <1>7, <2>1, <2>6 DEF Continue, EndOps, Answered, WellAnswered
    <3>2. SameButPoisoned(q, q)
      BY <1>1 DEF SameButPoisoned
    <3>3. Fails(q, next.q, next.issue)
      BY <2>3, <3>1, <3>2
    <3> QED BY <1>7, <3>3 DEF op
  <2>7. CASE q.fin = "none" /\ WellAnswered(op, ok, accepted)
    <3>1. next = Answered(q, r, op, accepted)
      BY <1>3, <1>7, <2>1, <2>7 DEF Continue, EndOps, WellAnswered
    <3>2. Advances(q, next.q, next.issue)
      BY <1>1, <1>7, <2>1, <2>7, <3>1, AnsweredGoes
    <3> QED BY <1>7, <3>2 DEF op
  <2> QED BY <1>1, <2>4, <2>5, <2>6, <2>7
<1> QED BY <1>2, <1>4, <1>5, <1>6, <1>7

-----------------------------------------------------------------------------
\* How far from its end a request is, before and after.
LEMMA AheadFalls ==
    ASSUME RequestAssumption,
           NEW q \in RequestStates, q.work \in 0..MaxWork,
           NEW p \in RequestStates, p.work = q.work
    PROVE  /\ p.pc = q.pc => Ahead(p) + 0 <= Ahead(q)
           /\ /\ Far[p.pc] < Far[q.pc]
              /\ q.pc \notin {"replying", "failing", "done"}
              => Ahead(p) + 1 <= Ahead(q)
<1>1. /\ MaxWork \in Nat /\ q.pc \in PCs /\ p.pc \in PCs
      /\ Far[q.pc] \in Nat /\ Far[p.pc] \in Nat /\ Ahead(q) \in Nat
  BY FarIs, AheadIs DEF RequestAssumption, RequestStates
<1> DEFINE m == MaxWork - q.work
           x == IF q.pc \in {"replying", "failing", "done"} THEN 0 ELSE 2 * m
           y == IF p.pc \in {"replying", "failing", "done"} THEN 0 ELSE 2 * m
<1>2. m \in Nat
  BY <1>1
<1>3. Ahead(q) = Far[q.pc] + x /\ Ahead(p) = Far[p.pc] + y
  BY DEF Ahead
<1> HIDE DEF m
<1>4. x \in Nat /\ y \in Nat
  BY <1>2
<1>5. CASE p.pc = q.pc
  <2>1. Ahead(p) = Ahead(q)
    BY <1>3, <1>5
  <2> QED BY <1>1, <1>5, <2>1
<1>6. CASE p.pc # q.pc
  <2> SUFFICES ASSUME Far[p.pc] < Far[q.pc],
                      q.pc \notin {"replying", "failing", "done"}
               PROVE  Ahead(p) + 1 <= Ahead(q)
    BY <1>6
  <2>1. y <= x
    BY <1>2
  <2> HIDE DEF x, y
  <2> QED BY <1>1, <1>3, <1>4, <2>1
<1> QED BY <1>5, <1>6

\* What is awaited is not what ends a transaction.
LEMMA EndIsNotAwaited ==
    ASSUME NEW r, NEW q \in RequestStates, NEW k \in ConnectionStates,
           Queued(r, q, k), Awaited(q, k), k.queue # << >>,
           Op(k, 1) \in EndOps
    PROVE  q.pc \notin Awaiting
<1> SUFFICES ASSUME q.pc \in Awaiting PROVE FALSE
  OBVIOUS
<1>1. PICK i \in DOMAIN k.queue : Op(k, i) = q.pc
  BY DEF Awaited
<1>2. DOMAIN k.queue = 1..Len(k.queue) /\ Len(k.queue) \in Nat
  BY LenProperties DEF ConnectionStates
<1>3. EndOps \cap (HandlerOps \cup Awaiting) = {} /\ Awaiting \subseteq HandlerOps
      /\ "scope_bootstrap" \in HandlerOps
  BY DEF EndOps, HandlerOps, Awaiting, BootstrapOps, RouteOps
<1>4. q.pc \notin {"handler", "replying"}
  BY DEF Awaiting, BootstrapOps, RouteOps
<1>5. q.fin = "rolling_back" /\ Len(k.queue) = 1
  BY <1>3, <1>4 DEF Queued
<1>6. i = 1
  BY <1>2, <1>5
<1> QED BY <1>1, <1>3, <1>6

\* An answer that reaches a request takes it a step forward.
LEMMA ServeForward ==
    ASSUME RequestAssumption,
           NEW r, NEW q, NEW k, NEW D, NEW ok, NEW k1, NEW D2,
           Serving(r, q, k, D, ok, k1, D2), NEW accepted \in BOOLEAN,
           Attends(q, k),
           NEW next, next = Continue(q, r, Op(k, 1), ok, accepted),
           NEW k2, k2 = After(k1, r, q, next)
    PROVE  Forward(q, k, next.q, k2)
<1> DEFINE p   == next.q
           op  == Op(k, 1)
           ops == next.issue
<1>1. /\ r \in Requests /\ q \in RequestStates /\ k \in ConnectionStates
      /\ k1 \in ConnectionStates /\ Queued(r, q, k) /\ Holding(q)
      /\ k.queue # << >> /\ ~q.released
  BY DEF Serving, Running, Held, Ran, Holding
<1>2. p \in RequestStates /\ k2 \in ConnectionStates /\ p.pc # "waiting"
  BY ServePair DEF Preserved
<1>3. q.work \in 0..MaxWork /\ Awaited(q, k)
  BY <1>1 DEF Attends
<1>4. /\ Load(k) \in Nat /\ Load(k1) \in Nat /\ Load(k1) + 1 <= Load(k)
      /\ op = "final_commit" => Load(k1) + 2 <= Load(k)
      /\ \A i \in DOMAIN k.queue : i # 1 =>
            \E j \in DOMAIN k1.queue : Op(k1, j) = Op(k, i)
  BY LoadRuns
<1>5. /\ Carried(q, k) = Load(k)
      /\ Carried(p, k2) = IF p.released THEN 0 ELSE Load(k2)
      /\ Holding(p) <=> ~p.released
  BY <1>1, <1>2 DEF Carried, Holding
<1>6. Load(k2) \in Nat
  BY <1>2, LoadIs
<1>7. \/ Stays(q, p, op, ops)
      \/ Fails(q, p, ops)
      \/ Advances(q, p, ops)
  BY ContinueGoes
<1>8. ASSUME ops \in Seq(Ops), ~p.released
      PROVE  Sends(k1, k2, ops, r)
  BY <1>1, <1>8, AfterIssue
<1> HIDE DEF p, op, ops
\* The number of steps, from the parts that change.
<1>9. ASSUME NEW n \in Nat, Ahead(p) + n <= Ahead(q), p.work = q.work,
             p.alive = q.alive, p.fin = "none" => q.fin = "none",
             Carried(p, k2) < Load(k) + 2 * n
      PROVE  LeftOf(p, k2) \in Nat /\ LeftOf(p, k2) < LeftOf(q, k)
  <2>1. /\ Undecided(p) \in Nat /\ Undecided(q) \in Nat
        /\ Undecided(p) <= Undecided(q)
        /\ Present(p) = Present(q) /\ Present(q) \in Nat
    BY <1>9 DEF Undecided, Present
  <2>2. Carried(p, k2) \in Nat /\ Carried(q, k) \in Nat
    BY <1>4, <1>5, <1>6
  <2>3. Undecided(p) + Carried(p, k2) + Present(p)
          < Undecided(q) + Carried(q, k) + Present(q) + 2 * n
    BY <1>4, <1>5, <1>9, <2>1, <2>2
  <2>4. p.work \in 0..MaxWork /\ (p.alive => q.alive)
    BY <1>3, <1>9
  <2> QED BY ONLY RequestAssumption, <1>1, <1>2, <1>3, <1>9, <2>2, <2>3, <2>4,
          Shrinks
<1>10. CASE Stays(q, p, op, ops)
  <2>1. /\ p.pc = q.pc /\ q.pc # op /\ p.work = q.work /\ p.alive = q.alive
        /\ p.fin = "none" => q.fin = "none"
    BY <1>10 DEF Stays
  <2>2. Ahead(p) + 0 <= Ahead(q)
    BY <1>1, <1>2, <1>3, <2>1, AheadFalls
  <2>3. CASE p.released
    <3>1. Carried(p, k2) < Load(k) + 2 * 0
      BY <1>4, <1>5, <2>3
    <3>2. q.pc \notin Awaiting
      BY <1>1, <1>3, <1>10, <2>3, EndIsNotAwaited DEF Stays, op
    <3>3. Attends(p, k2)
      BY <1>3, <1>5, <2>1, <2>3, <3>2 DEF Attends
    <3>4. LeftOf(p, k2) \in Nat /\ LeftOf(p, k2) < LeftOf(q, k)
      BY <1>9, <2>1, <2>2, <3>1
    <3> QED BY <3>3, <3>4 DEF Forward, p
  <2>4. CASE ~p.released
    <3>1. \/ ops = << >>
          \/ ops = <<"rollback">> /\ op = "final_commit"
      BY <1>10 DEF Stays
    <3>2. << >> \in Seq(Ops) /\ <<"rollback">> \in Seq(Ops)
      BY DEF Ops, TxControl
    <3>3. ops \in Seq(Ops)
      BY <3>1, <3>2
    <3>4. Sends(k1, k2, ops, r)
      BY <1>8, <2>4, <3>3
    <3>5. /\ Load(k2) <= Load(k1) + Len(ops)
                + (IF \E i \in DOMAIN ops : ops[i] = "final_commit"
                   THEN 1 ELSE 0)
          /\ \A i \in DOMAIN k1.queue :
                i \in DOMAIN k2.queue /\ Op(k2, i) = Op(k1, i)
      BY <1>1, <3>3, <3>4, LoadSends
    <3>6. Load(k2) < Load(k)
      <4>1. CASE ops = << >>
        <5>1. Load(k2) <= Load(k1) + 0 + 0
          BY <3>5, <4>1
        <5> QED BY <1>4, <1>6, <5>1
      <4>2. CASE ops = <<"rollback">> /\ op = "final_commit"
        <5>1. /\ Len(ops) = 1 /\ \A i \in DOMAIN ops : ops[i] # "final_commit"
          BY <4>2
        <5>2. Load(k2) <= Load(k1) + 1 + 0
          BY <3>5, <5>1
        <5> QED BY <1>4, <1>6, <4>2, <5>2
      <4> QED BY <3>1, <4>1, <4>2
    <3>7. Carried(p, k2) < Load(k) + 2 * 0
      BY <1>4, <1>5, <1>6, <2>4, <3>6
    <3>8. Awaited(p, k2)
      <4> SUFFICES ASSUME q.pc \in Awaiting
                   PROVE  \E i \in DOMAIN k2.queue : Op(k2, i) = q.pc
        BY <2>1 DEF Awaited
      <4>1. PICK i \in DOMAIN k.queue : Op(k, i) = q.pc
        BY <1>3 DEF Awaited
      <4>2. i # 1
        BY <2>1, <4>1 DEF op
      <4>3. PICK j \in DOMAIN k1.queue : Op(k1, j) = q.pc
        BY <1>4, <4>1, <4>2
      <4> QED BY <3>5, <4>3
    <3>9. Attends(p, k2)
      BY <1>3, <1>5, <2>1, <2>4, <3>8 DEF Attends
    <3>10. LeftOf(p, k2) \in Nat /\ LeftOf(p, k2) < LeftOf(q, k)
      BY <1>9, <2>1, <2>2, <3>7
    <3> QED BY <3>9, <3>10 DEF Forward, p
  <2> QED BY <2>3, <2>4
<1>11. CASE Fails(q, p, ops)
  <2>1. /\ q.pc \in Awaiting /\ p.pc = "failing" /\ p.work = q.work
        /\ p.alive = q.alive /\ p.fin # "none" /\ ~p.released
    BY <1>11 DEF Fails
  <2>2. /\ Far[p.pc] < Far[q.pc]
        /\ q.pc \notin {"replying", "failing", "done"}
        /\ p.pc \notin Awaiting
    BY <2>1 DEF Awaiting, BootstrapOps, RouteOps, Far
  <2>3. Ahead(p) + 1 <= Ahead(q)
    BY <1>1, <1>2, <1>3, <2>1, <2>2, AheadFalls
  <2>4. /\ ops \in Seq(Ops) /\ Len(ops) \in 0..1
        /\ \A i \in DOMAIN ops : ops[i] # "final_commit"
    <3>1. CASE ops = << >>
      <4>1. << >> \in Seq(Ops) /\ Len(<< >>) = 0 /\ DOMAIN << >> = {}
        OBVIOUS
      <4> QED BY <3>1, <4>1
    <3>2. ASSUME NEW o \in {"rollback", "access_commit"}, ops = <<o>>
          PROVE  /\ ops \in Seq(Ops) /\ Len(ops) \in 0..1
                 /\ \A i \in DOMAIN ops : ops[i] # "final_commit"
      <4>1. o \in Ops /\ o # "final_commit"
        BY DEF Ops, TxControl, Commits
      <4>2. <<o>> \in Seq(Ops) /\ Len(<<o>>) = 1 /\ DOMAIN <<o>> = {1}
            /\ <<o>>[1] = o
        BY <4>1
      <4> QED BY <3>2, <4>1, <4>2
    <3> QED BY <1>11, <3>1, <3>2 DEF Fails
  <2>5. Sends(k1, k2, ops, r)
    BY <1>8, <2>1, <2>4
  <2>6. Load(k2) <= Load(k1) + Len(ops) + 0
    BY <1>1, <2>4, <2>5, LoadSends
  <2>7. Carried(p, k2) < Load(k) + 2 * 1
    <3>1. Carried(p, k2) = Load(k2) /\ Len(ops) \in 0..2
      BY <1>5, <2>1, <2>4
    <3>2. Load(k2) <= Load(k1) + Len(ops) + 0
      BY <2>6
    <3>3. Load(k2) < Load(k) + 2 * 1
      <4>1. /\ Load(k1) \in Nat /\ Load(k) \in Nat /\ Load(k1) + 1 <= Load(k)
        BY <1>4
      <4>2. ASSUME NEW a \in Nat, NEW b \in Nat, NEW c \in Nat,
                   NEW n \in 0..2, a <= b + n + 0, b + 1 <= c
            PROVE  a < c + 2 * 1
        BY <4>2
      <4> QED BY ONLY <1>6, <3>1, <3>2, <4>1, <4>2, Zenon
    <3> QED BY ONLY <3>1, <3>3
  <2>8. Attends(p, k2)
    BY <1>3, <1>5, <2>1, <2>2 DEF Attends, Awaited
  <2>9. LeftOf(p, k2) \in Nat /\ LeftOf(p, k2) < LeftOf(q, k)
    BY <1>9, <2>1, <2>3, <2>7
  <2> QED BY <2>8, <2>9 DEF Forward, p
<1>12. CASE Advances(q, p, ops)
  <2>1. /\ q.pc \in Awaiting /\ Far[p.pc] < Far[q.pc] /\ p.work = q.work
        /\ p.alive = q.alive /\ p.fin = q.fin /\ ~p.released
        /\ ops \in Seq(Ops) /\ Len(ops) \in 0..2
        /\ \A i \in DOMAIN ops : ops[i] # "final_commit"
        /\ p.pc \in Awaiting => \E i \in DOMAIN ops : ops[i] = p.pc
    BY <1>12 DEF Advances
  <2>2. q.pc \notin {"replying", "failing", "done"}
    BY <2>1 DEF Awaiting, BootstrapOps, RouteOps
  <2>3. Ahead(p) + 1 <= Ahead(q)
    BY <1>1, <1>2, <1>3, <2>1, <2>2, AheadFalls
  <2>4. Sends(k1, k2, ops, r)
    BY <1>8, <2>1
  <2>5. /\ Load(k2) <= Load(k1) + Len(ops) + 0
        /\ \A i \in DOMAIN ops :
              \E j \in DOMAIN k2.queue : Op(k2, j) = ops[i]
    BY <1>1, <2>1, <2>4, LoadSends
  <2>6. Carried(p, k2) < Load(k) + 2 * 1
    <3>1. Carried(p, k2) = Load(k2) /\ Len(ops) \in 0..2
      BY <1>5, <2>1
    <3>2. Load(k2) <= Load(k1) + Len(ops) + 0
      BY <2>5
    <3>3. Load(k2) < Load(k) + 2 * 1
      <4>1. /\ Load(k1) \in Nat /\ Load(k) \in Nat /\ Load(k1) + 1 <= Load(k)
        BY <1>4
      <4>2. ASSUME NEW a \in Nat, NEW b \in Nat, NEW c \in Nat,
                   NEW n \in 0..2, a <= b + n + 0, b + 1 <= c
            PROVE  a < c + 2 * 1
        BY <4>2
      <4> QED BY ONLY <1>6, <3>1, <3>2, <4>1, <4>2, Zenon
    <3> QED BY ONLY <3>1, <3>3
  <2>7. Awaited(p, k2)
    BY <2>1, <2>5 DEF Awaited
  <2>8. Attends(p, k2)
    BY <1>3, <1>5, <2>1, <2>7 DEF Attends
  <2>9. LeftOf(p, k2) \in Nat /\ LeftOf(p, k2) < LeftOf(q, k)
    BY <1>9, <2>1, <2>3, <2>6
  <2> QED BY <2>8, <2>9 DEF Forward, p
<1> QED BY <1>7, <1>10, <1>11, <1>12

-----------------------------------------------------------------------------
\* The request r makes a step: no other request's way is longer or shorter.
Moved(r) ==
    /\ LeftOf(req'[r], conn'[req'[r].conn]) \in Nat
    /\ LeftOf(req'[r], conn'[req'[r].conn]) < StepsLeft(r)
    /\ \A o \in Requests \ {r} :
          LeftOf(req'[o], conn'[req'[o].conn]) = StepsLeft(o)

\* A connection matters to a request that holds it only.
LEMMA AloneLeft ==
    ASSUME NEW q, ~Holding(q), NEW k, NEW k2
    PROVE  /\ LeftOf(q, k2) = LeftOf(q, k)
           /\ Attends(q, k) => Attends(q, k2)
BY DEF LeftOf, Carried, Attends

\* A step of the request r, on the connection c that no other one holds.
LEMMA PairMoves ==
    ASSUME Inv, Attended, NEW r \in Requests, NEW q2, NEW c, NEW k2,
           req' = [req EXCEPT ![r] = q2],
           \/ /\ conn' = [conn EXCEPT ![c] = k2]
              /\ c \in Connections /\ q2.conn = c
              /\ \A o \in Requests \ {r} :
                    Holding(req[o]) => req[o].conn # c
           \/ conn' = conn /\ ~Holding(q2),
           Forward(req[r], conn[req[r].conn], q2, k2)
    PROVE  Attended' /\ Moved(r)
<1>1. /\ req'[r] = q2 /\ \A o \in Requests \ {r} : req'[o] = req[o]
      /\ \A o \in Requests \ {r} : Holding(req[o]) =>
            conn'[req[o].conn] = conn[req[o].conn]
  BY DEF Inv, Typed, Paired
<1>2. /\ LeftOf(q2, conn'[q2.conn]) = LeftOf(q2, k2)
      /\ Attends(q2, k2) => Attends(q2, conn'[q2.conn])
  <2>1. CASE conn' = [conn EXCEPT ![c] = k2] /\ c \in Connections /\ q2.conn = c
    <3>1. conn'[q2.conn] = k2
      BY <2>1 DEF Inv, Typed
    <3> QED BY <3>1
  <2>2. CASE ~Holding(q2)
    BY <2>2, AloneLeft
  <2> QED BY <2>1, <2>2
<1>3. ASSUME NEW o \in Requests \ {r}
      PROVE  /\ LeftOf(req'[o], conn'[req'[o].conn]) = StepsLeft(o)
             /\ Attends(req'[o], conn'[req'[o].conn])
  <2>1. req'[o] = req[o] /\ Attends(req[o], conn[req[o].conn])
    BY <1>1 DEF Attended
  <2>2. CASE Holding(req[o])
    <3>1. conn'[req[o].conn] = conn[req[o].conn]
      BY <1>1, <2>2
    <3> QED BY <2>1, <3>1 DEF StepsLeft
  <2>3. CASE ~Holding(req[o])
    BY <2>1, <2>3, AloneLeft DEF StepsLeft
  <2> QED BY <2>2, <2>3
<1>4. /\ Attends(q2, k2) /\ LeftOf(q2, k2) \in Nat
      /\ LeftOf(q2, k2) < StepsLeft(r)
  BY DEF Forward, StepsLeft
<1>5. Moved(r)
  BY <1>1, <1>2, <1>3, <1>4 DEF Moved
<1>6. \A o \in Requests : Attends(req'[o], conn'[req'[o].conn])
  BY <1>1, <1>2, <1>3, <1>4
<1> QED BY <1>5, <1>6 DEF Attended

\* No other request holds the connection of a request.
LEMMA HeldOnce ==
    ASSUME Inv, NEW r \in Requests, Holding(req[r])
    PROVE  /\ req[r].conn \in Connections
           /\ \A o \in Requests \ {r} :
                 Holding(req[o]) => req[o].conn # req[r].conn
BY DEF Inv, Paired

\* An answer is a step of the request that gets it.
LEMMA ServeMoves ==
    ASSUME RequestAssumption, Inv, Attended, NEW c \in Connections, Serve(c)
    PROVE  Attended' /\ \E r \in Requests : Moved(r)
<1> DEFINE k  == conn[c]
           st == Head(k.queue)
<1>1. /\ k \in ConnectionStates /\ k.queue \in Seq(Statements)
      /\ k.queue # << >> /\ req \in [Requests -> RequestStates]
      /\ durable \in SUBSET Effects
  BY DEF Inv, Typed, ConnectionStates, Serve
<1>2. k.holder # Pool
  BY <1>1 DEF Inv, Clean
<1>3. k.holder \in Requests
  BY <1>1, <1>2 DEF ConnectionStates
<1>4. Holding(req[k.holder]) /\ req[k.holder].conn = c
  BY <1>2 DEF Inv, Paired
<1> DEFINE r == k.holder
<1>5. Running(r, req[r], k, durable)
  BY <1>3, <1>4, HolderRuns
<1>6. st = k.queue[1] /\ st \in Statements /\ 1 \in DOMAIN k.queue
  BY <1>1, HeadTailProperties, EmptySeq
<1>7. st.by = r
  BY <1>5, <1>6 DEF Running, Held, Queued
<1>8. PICK ok \in BOOLEAN, accepted \in BOOLEAN :
         LET k1   == Executed(k, st, ok)
             next == Continue(req[r], r, st.op, ok, accepted)
         IN  /\ IF ok THEN CanSucceed(k, st.op) ELSE CanFail(k, st.op)
             /\ req' = [req EXCEPT ![r] = next.q]
             /\ conn' = [conn EXCEPT ![c] = After(k1, r, req[r], next)]
             /\ durable' = IF ok /\ st.op \in Commits /\ k.tx = "T"
                           THEN durable \cup k.pending ELSE durable
  BY <1>7 DEF Serve
<1> DEFINE k1   == Executed(k, st, ok)
           next == Continue(req[r], r, st.op, ok, accepted)
           k2   == After(k1, r, req[r], next)
<1>9. Op(k, 1) = st.op
  BY <1>6 DEF Op
<1>10. Ran(r, req[r], k, Op(k, 1), ok, k1)
  BY <1>1, <1>7, <1>9, ExecutedRan
<1> HIDE DEF k1
<1>11. Serving(r, req[r], k, durable, ok, k1, durable')
  BY <1>1, <1>5, <1>8, <1>9, <1>10 DEF Serving
<1>12. /\ req' = [req EXCEPT ![r] = next.q]
       /\ conn' = [conn EXCEPT ![c] = k2]
  BY <1>8 DEF k1
<1>13. next = Continue(req[r], r, Op(k, 1), ok, accepted)
  BY <1>9
<1> HIDE DEF next
<1>14. k2 = After(k1, r, req[r], next)
  OBVIOUS
<1> HIDE DEF k2
<1>15. Attends(req[r], k)
  BY <1>3, <1>4 DEF Attended
<1>16. Forward(req[r], k, next.q, k2)
  BY <1>11, <1>13, <1>14, <1>15, ServeForward
<1>17. next.q.conn = c
  <2>1. Preserved(r, req[r], k, durable, next.q, k2, durable')
    BY <1>11, <1>13, <1>14, ServePair
  <2> QED BY <1>4, <2>1 DEF Preserved
<1>18. r \in Requests /\ Holding(req[r]) /\ req[r].conn = c
       /\ Forward(req[r], conn[req[r].conn], next.q, k2)
  BY <1>3, <1>4, <1>16
<1> HIDE DEF r, k
<1>19. \A o \in Requests \ {r} : Holding(req[o]) => req[o].conn # c
  BY <1>18, HeldOnce
<1>20. Attended' /\ Moved(r)
  BY <1>12, <1>17, <1>18, <1>19, PairMoves
<1> QED BY <1>18, <1>20

LEMMA LostMoves ==
    ASSUME RequestAssumption, Inv, Attended,
           NEW c \in Connections, ConnectionLost(c)
    PROVE  Attended' /\ \E r \in Requests : Moved(r)
<1> DEFINE k  == conn[c]
           r  == k.holder
           q  == req[r]
           q2 == [q EXCEPT !.poisoned = TRUE]
           k2 == [k EXCEPT !.broken = TRUE, !.tx = "I", !.scope = NoScope,
                           !.pending = {}]
<1>1. /\ r \in Requests /\ k \in ConnectionStates /\ ~k.broken
      /\ req' = [req EXCEPT ![r] = q2] /\ conn' = [conn EXCEPT ![c] = k2]
  BY DEF Inv, Typed, ConnectionStates, ConnectionLost
<1>2. Holding(q) /\ q.conn = c /\ q \in RequestStates
  BY <1>1 DEF Inv, Typed, Paired, ConnectionLost
<1>3. /\ q2 \in RequestStates /\ q2.pc = q.pc /\ q2.conn = q.conn
      /\ q2.fin = q.fin /\ q2.released = q.released
      /\ q2.alive = q.alive /\ q2.work = q.work
  BY <1>2 DEF RequestStates
<1>4. /\ k2 \in ConnectionStates /\ k2.broken /\ k2.queue = k.queue
  BY <1>1 DEF ConnectionStates
<1>5. r = conn[c].holder /\ q = req[r] /\ k = conn[c]
  OBVIOUS
<1> HIDE DEF q2, k2, q, r, k
<1>6. Attends(q, k)
  BY <1>1, <1>2, <1>5 DEF Attended
<1>7. Attends(q2, k2)
  BY <1>2, <1>3, <1>4, <1>6 DEF Attends, Awaited, Holding, Op
<1>8. /\ Load(k2) \in Nat /\ Load(k) \in Nat /\ Load(k2) < Load(k)
  <2> DEFINE a == IF \E i \in DOMAIN k.queue : Op(k, i) = "final_commit"
                  THEN 1 ELSE 0
  <2>1. Len(k.queue) \in Nat /\ a \in Nat
    BY <1>1, LoadIs
  <2>2. Load(k) = Len(k.queue) + a + 1
    BY <1>1 DEF Load
  <2>3. Load(k2) = Len(k.queue) + a + 0
    BY <1>4 DEF Load, Op
  <2> HIDE DEF a
  <2> QED BY <2>1, <2>2, <2>3
<1>9. /\ Carried(q, k) = Load(k) /\ Carried(q2, k2) = Load(k2)
      /\ Undecided(q2) = Undecided(q) /\ Present(q2) = Present(q)
      /\ Undecided(q) \in Nat /\ Present(q) \in Nat
  BY <1>2, <1>3 DEF Carried, Holding, Undecided, Present
<1>10. q.work \in 0..MaxWork
  BY <1>6 DEF Attends
<1>11. Ahead(q2) + 0 <= Ahead(q)
  BY <1>2, <1>3, <1>10, AheadFalls
<1>12. Undecided(q2) + Carried(q2, k2) + Present(q2)
          < Undecided(q) + Carried(q, k) + Present(q) + 2 * 0
  BY <1>8, <1>9
<1>13. LeftOf(q2, k2) \in Nat /\ LeftOf(q2, k2) < LeftOf(q, k)
  BY <1>2, <1>3, <1>4, <1>8, <1>9, <1>10, <1>11, <1>12, Shrinks
<1>14. Forward(req[r], conn[req[r].conn], q2, k2)
  BY <1>2, <1>5, <1>7, <1>13 DEF Forward
<1>15. \A o \in Requests \ {r} : Holding(req[o]) => req[o].conn # c
  BY <1>1, <1>2, <1>5, HeldOnce
<1>16. Attended' /\ Moved(r)
  BY <1>1, <1>2, <1>3, <1>14, <1>15, PairMoves
<1> QED BY <1>1, <1>16

\* A request that holds a connection sends ops and comes n nearer to its end.
LEMMA SendsForward ==
    ASSUME RequestAssumption, Inv, Attended,
           NEW r \in Requests, NEW q, q = req[r], Holding(q),
           NEW k, k = conn[q.conn],
           NEW next, Perform(r, next), NEW p, p = next.q,
           p \in RequestStates, p.conn = q.conn, ~p.released,
           p.pc # "waiting", p.work \in 0..MaxWork, p.alive => q.alive,
           NEW ops \in Seq(Ops), next.issue = ops,
           p.pc \in Awaiting => \/ \E i \in DOMAIN ops : ops[i] = p.pc
                                \/ p.pc = q.pc,
           NEW n \in Nat, Ahead(p) + n <= Ahead(q),
           Undecided(p) + Present(p) + Len(ops)
               + (IF \E i \in DOMAIN ops : ops[i] = "final_commit"
                  THEN 1 ELSE 0)
             < Undecided(q) + Present(q) + 2 * n
    PROVE  Attended' /\ Moved(r)
<1> DEFINE k2 == After(k, r, q, next)
           o  == IF \E i \in DOMAIN ops : ops[i] = "final_commit"
                 THEN 1 ELSE 0
<1>1. /\ q \in RequestStates /\ q.conn \in Connections
      /\ k \in ConnectionStates
  BY DEF Inv, Typed, Paired
<1>2. /\ req' = [req EXCEPT ![r] = p]
      /\ conn' = [conn EXCEPT ![q.conn] = k2]
  BY DEF Perform
<1>3. Sends(k, k2, ops, r)
  BY <1>1, AfterIssue
<1> HIDE DEF k2
<1>4. k2 \in ConnectionStates
  BY <1>3 DEF Sends
<1>5. /\ Load(k2) <= Load(k) + Len(ops) + o
      /\ \A i \in DOMAIN k.queue :
            i \in DOMAIN k2.queue /\ Op(k2, i) = Op(k, i)
      /\ \A i \in DOMAIN ops : \E j \in DOMAIN k2.queue : Op(k2, j) = ops[i]
  BY <1>1, <1>3, LoadSends
<1>6. o \in Nat /\ Len(ops) \in Nat
      /\ Undecided(p) + Present(p) + Len(ops) + o
            < Undecided(q) + Present(q) + 2 * n
  BY LenProperties
<1> HIDE DEF o
<1>7. q.work \in 0..MaxWork /\ Awaited(q, k)
  BY DEF Attended, Attends
<1>8. Holding(p) /\ Attends(p, k2)
  <2>1. Awaited(p, k2)
    BY <1>5, <1>7 DEF Awaited
  <2> QED BY <2>1 DEF Attends, Holding
<1>9. /\ Carried(q, k) = Load(k) /\ Carried(p, k2) = Load(k2)
      /\ Load(k) \in Nat /\ Load(k2) \in Nat
      /\ Undecided(q) \in Nat /\ Undecided(p) \in Nat
      /\ Present(q) \in Nat /\ Present(p) \in Nat
  BY <1>1, <1>4, <1>8, LoadIs DEF Carried, Undecided, Present
<1>10. Undecided(p) + Carried(p, k2) + Present(p)
          < Undecided(q) + Carried(q, k) + Present(q) + 2 * n
  <2>1. ASSUME NEW u \in Nat, NEW u2 \in Nat, NEW a \in Nat, NEW a2 \in Nat,
               NEW l \in Nat, NEW l2 \in Nat, NEW m \in Nat, NEW e \in Nat,
               l2 <= l + m + e, u2 + a2 + m + e < u + a + 2 * n
        PROVE  u2 + l2 + a2 < u + l + a + 2 * n
    BY <2>1
  <2> QED BY ONLY <1>5, <1>6, <1>9, <2>1, Zenon
<1>11. LeftOf(p, k2) \in Nat /\ LeftOf(p, k2) < LeftOf(q, k)
  BY <1>1, <1>4, <1>7, <1>9, <1>10, Shrinks
<1>12. Forward(req[r], conn[req[r].conn], p, k2)
  BY <1>8, <1>11 DEF Forward
<1>13. \A s \in Requests \ {r} : Holding(req[s]) => req[s].conn # q.conn
  BY HeldOnce
<1> QED BY <1>1, <1>2, <1>12, <1>13, PairMoves

\* A request that holds no connection comes n nearer to its end.
LEMMA AloneMoves ==
    ASSUME RequestAssumption, Inv, Attended,
           NEW r \in Requests, NEW q, q = req[r], ~Holding(q),
           NEW p \in RequestStates, req' = [req EXCEPT ![r] = p], conn' = conn,
           ~Holding(p), p.pc \notin Awaiting, p.work \in 0..MaxWork,
           p.alive => q.alive,
           NEW n \in Nat, Ahead(p) + n <= Ahead(q),
           Undecided(p) + Present(p) < Undecided(q) + Present(q) + 2 * n
    PROVE  Attended' /\ Moved(r)
<1> DEFINE k  == conn[q.conn]
           k2 == FreshConnection
<1>1. q \in RequestStates /\ q.work \in 0..MaxWork
  BY DEF Inv, Typed, Attended, Attends
<1>2. k2 \in ConnectionStates
  BY EmptySeq DEF FreshConnection, ConnectionStates
<1> HIDE DEF k2
<1>3. /\ Carried(q, k) = 0 /\ Carried(p, k2) = 0
      /\ Undecided(q) \in Nat /\ Undecided(p) \in Nat
      /\ Present(q) \in Nat /\ Present(p) \in Nat
  BY DEF Carried, Undecided, Present
<1>4. Undecided(p) + Carried(p, k2) + Present(p)
         < Undecided(q) + Carried(q, k) + Present(q) + 2 * n
  BY <1>3
<1> HIDE DEF k
<1>5. LeftOf(p, k2) \in Nat /\ LeftOf(p, k2) < LeftOf(q, k)
  <2>1. Carried(q, k) \in Nat
    BY <1>3
  <2> QED BY <1>1, <1>2, <1>4, <2>1, Shrinks
<1>6. Attends(p, k2)
  BY DEF Attends
<1>7. Forward(req[r], conn[req[r].conn], p, k2)
  BY <1>5, <1>6 DEF Forward, k
<1> QED BY <1>7, PairMoves

\* A finalization that another one has preceded sends nothing.
LEMMA FinalizedMoves ==
    ASSUME RequestAssumption, Inv, Attended,
           NEW r \in Requests, NEW q, q = req[r], q.pc # "waiting",
           NEW next, Perform(r, next), next.issue = << >>,
           NEW p, p = next.q,
           p \in RequestStates, p.conn = q.conn, p.fin = q.fin,
           p.released = q.released, p.pc # "waiting",
           p.work \in 0..MaxWork, p.alive => q.alive,
           p.pc \in Awaiting => p.pc = q.pc,
           NEW n \in Nat, Ahead(p) + n <= Ahead(q),
           Present(p) < Present(q) + 2 * n
    PROVE  Attended' /\ Moved(r)
<1>1. /\ Undecided(p) = Undecided(q) /\ Undecided(q) \in Nat
      /\ Present(p) \in Nat /\ Present(q) \in Nat
  BY DEF Undecided, Present
<1>2. CASE ~q.released
  <2> DEFINE ops == << >>
             k   == conn[q.conn]
  <2>1. /\ ops \in Seq(Ops) /\ Len(ops) = 0 /\ DOMAIN ops = {}
        /\ next.issue = ops
    OBVIOUS
  <2> HIDE DEF ops
  <2>2. Undecided(p) + Present(p) + Len(ops)
            + (IF \E i \in DOMAIN ops : ops[i] = "final_commit"
               THEN 1 ELSE 0)
          < Undecided(q) + Present(q) + 2 * n
    BY <1>1, <2>1
  <2>3. Holding(q) /\ ~p.released
    BY <1>2 DEF Holding
  <2>4. k = conn[q.conn]
    OBVIOUS
  <2>5. p.pc \in Awaiting => \/ \E i \in DOMAIN ops : ops[i] = p.pc
                             \/ p.pc = q.pc
    OBVIOUS
  <2> HIDE DEF k
  <2> QED BY <2>1, <2>2, <2>3, <2>4, <2>5, SendsForward
<1>3. CASE q.released
  <2>1. conn' = conn
    BY <1>3, NothingSent
  <2>2. req' = [req EXCEPT ![r] = p]
    BY DEF Perform
  <2>3. ~Holding(q) /\ ~Holding(p)
    BY <1>3 DEF Holding
  <2>4. p.pc \notin Awaiting
    BY <2>3 DEF Attended, Attends
  <2>5. Undecided(p) + Present(p) < Undecided(q) + Present(q) + 2 * n
    BY <1>1
  <2> QED BY <2>1, <2>2, <2>3, <2>4, <2>5, AloneMoves
<1>4. q.released \in BOOLEAN
  BY DEF Inv, Typed, RequestStates
<1> QED BY <1>2, <1>3, <1>4

\* A request that begins its finalization sends one statement and comes
\* nearer to its end, or its client has gone.
LEMMA EndingMoves ==
    ASSUME RequestAssumption, Inv, Attended,
           NEW r \in Requests, NEW q, q = req[r], q.fin = "none",
           q.pc \notin {"waiting", "done"},
           NEW next, Perform(r, next), NEW p, p = next.q,
           NEW o \in EndOps, next.issue = <<o>>,
           p \in RequestStates, p.conn = q.conn, p.fin # "none",
           p.released = q.released, p.pc # "waiting", p.work = q.work,
           p.pc \in Awaiting => p.pc = q.pc,
           \/ Ahead(p) + 1 <= Ahead(q) /\ p.alive = q.alive
           \/ Ahead(p) + 0 <= Ahead(q) /\ ~p.alive /\ (o # "final_commit")
    PROVE  Attended' /\ Moved(r)
<1> DEFINE ops == <<o>>
           k   == conn[q.conn]
           f   == IF \E i \in DOMAIN ops : ops[i] = "final_commit"
                  THEN 1 ELSE 0
<1>1. Holding(q) /\ ~q.released
  BY OpenHolds
<1>2. /\ ops \in Seq(Ops) /\ Len(ops) = 1 /\ DOMAIN ops = {1}
      /\ ops[1] = o
  BY DEF EndOps, Ops, TxControl, Commits
<1>3. next.issue = ops /\ k = conn[q.conn]
  OBVIOUS
<1> HIDE DEF ops, k
<1>4. f \in 0..1 /\ (o # "final_commit" => f = 0)
  BY <1>2
<1>5. /\ Undecided(p) = 0 /\ Undecided(q) = 2
      /\ Present(p) \in 0..1 /\ Present(q) \in 0..1
      /\ p.alive = q.alive => Present(p) = Present(q)
      /\ ~p.alive => Present(p) = 0
  BY DEF Undecided, Present
<1> HIDE DEF f
<1>6. \E n \in 0..1 :
         /\ Ahead(p) + n <= Ahead(q)
         /\ Undecided(p) + Present(p) + Len(ops) + f
              < Undecided(q) + Present(q) + 2 * n
  <2>1. CASE Ahead(p) + 1 <= Ahead(q) /\ p.alive = q.alive
    <3>1. Undecided(p) + Present(p) + Len(ops) + f
            < Undecided(q) + Present(q) + 2 * 1
      BY <1>2, <1>4, <1>5, <2>1
    <3> QED BY <2>1, <3>1
  <2>2. CASE Ahead(p) + 0 <= Ahead(q) /\ ~p.alive /\ (o # "final_commit")
    <3>1. Undecided(p) + Present(p) + Len(ops) + f
            < Undecided(q) + Present(q) + 2 * 0
      BY <1>2, <1>4, <1>5, <2>2
    <3> QED BY <2>2, <3>1
  <2> QED BY <2>1, <2>2
<1>7. q.work \in 0..MaxWork /\ (p.alive => q.alive)
  BY DEF Attended, Attends
<1>8. p.pc \in Awaiting => \/ \E i \in DOMAIN ops : ops[i] = p.pc
                           \/ p.pc = q.pc
  OBVIOUS
<1>9. PICK n \in 0..1 :
         /\ Ahead(p) + n <= Ahead(q)
         /\ Undecided(p) + Present(p) + Len(ops) + f
              < Undecided(q) + Present(q) + 2 * n
  BY <1>6
<1>10. Undecided(p) + Present(p) + Len(ops)
           + (IF \E i \in DOMAIN ops : ops[i] = "final_commit"
              THEN 1 ELSE 0)
         < Undecided(q) + Present(q) + 2 * n
  BY <1>9 DEF f
<1>11. /\ n \in Nat /\ ~p.released /\ p.work \in 0..MaxWork
       /\ Ahead(p) + n <= Ahead(q)
  BY <1>1, <1>7, <1>9
<1> QED BY <1>1, <1>2, <1>3, <1>7, <1>8, <1>10, <1>11, SendsForward

LEMMA QueryMoves ==
    ASSUME RequestAssumption, Inv, Attended, NEW r \in Requests, RouteQuery(r)
    PROVE  Attended' /\ Moved(r)
<1> DEFINE q    == req[r]
           x    == [q EXCEPT !.work = @ + 1]
           next == Issue(x, "work", <<"work">>)
<1>1. /\ q \in RequestStates /\ q.pc = "handler" /\ q.work \in Nat
      /\ q.work < MaxWork /\ Perform(r, next) /\ MaxWork \in Nat
  BY DEF Inv, Typed, RouteQuery, RequestStates, RequestAssumption
<1>2. /\ x \in RequestStates /\ x.pc = q.pc /\ x.fin = q.fin
      /\ x.conn = q.conn /\ x.work = q.work + 1 /\ x.alive = q.alive
      /\ x.released = q.released
  BY <1>1 DEF RequestStates
<1> HIDE DEF x
<1>3. next = Issue(x, "work", <<"work">>) /\ q = req[r]
  OBVIOUS
<1>4. "handler" \notin Awaiting /\ "failing" \notin Awaiting
  BY DEF Awaiting, BootstrapOps, RouteOps
<1>5. q.work + 1 \in 0..MaxWork
  BY <1>1
<1>6. ASSUME NEW p \in RequestStates, p.pc \in {"work", "failing"},
             p.work = q.work + 1
      PROVE  Ahead(p) + 1 <= Ahead(q)
  <2> DEFINE m == MaxWork - (q.work + 1)
  <2>1. m \in Nat /\ MaxWork - q.work = m + 1 /\ MaxWork - p.work = m
    BY <1>1, <1>6
  <2>2. Ahead(q) = 2 + 2 * (m + 1)
    BY <1>1, <2>1 DEF Ahead, Far
  <2>3. Ahead(p) = 3 + 2 * m \/ Ahead(p) = 1 + 0
    BY <1>6, <2>1 DEF Ahead, Far
  <2> HIDE DEF m
  <2> QED BY <2>1, <2>2, <2>3
<1>7. CASE q.fin = "none"
  <2> DEFINE p   == [x EXCEPT !.pc = "work"]
             ops == <<"work">>
             k   == conn[q.conn]
  <2>1. Holding(q) /\ ~q.released
    BY <1>1, <1>7, OpenHolds
  <2>2. next = [q |-> p, issue |-> ops]
    BY <1>2, <1>7, <2>1 DEF Issue, Live, Then
  <2>3. /\ p \in RequestStates /\ p.conn = q.conn /\ p.pc = "work"
        /\ p.work = q.work + 1 /\ p.released = q.released
        /\ p.alive = q.alive /\ p.fin = q.fin
    BY <1>2 DEF RequestStates, PCs, RouteOps
  <2>4. /\ ops \in Seq(Ops) /\ Len(ops) = 1 /\ DOMAIN ops = {1}
        /\ ops[1] = "work"
    BY DEF Ops
  <2>5. k = conn[q.conn]
    OBVIOUS
  <2> HIDE DEF p, ops, next, k
  <2>6. p = next.q /\ next.issue = ops
    BY ONLY <2>2
  <2>7. Ahead(p) + 1 <= Ahead(q)
    BY <1>6, <2>3
  <2>8. /\ Undecided(p) = Undecided(q) /\ Present(p) = Present(q)
        /\ Undecided(q) \in Nat /\ Present(q) \in Nat
    BY <2>3 DEF Undecided, Present
  <2>9. Undecided(p) + Present(p) + Len(ops)
            + (IF \E i \in DOMAIN ops : ops[i] = "final_commit"
               THEN 1 ELSE 0)
          < Undecided(q) + Present(q) + 2 * 1
    <3>1. ~(\E i \in DOMAIN ops : ops[i] = "final_commit")
      BY <2>4
    <3> QED BY <2>4, <2>8, <3>1
  <2>10. p.pc \in Awaiting => \/ \E i \in DOMAIN ops : ops[i] = p.pc
                              \/ p.pc = q.pc
    BY <2>3, <2>4
  <2>11. /\ ~p.released /\ p.pc # "waiting" /\ p.work \in 0..MaxWork
         /\ p.alive => q.alive
    BY <1>5, <2>1, <2>3
  <2> HIDE DEF q
  <2> QED BY <1>1, <1>3, <2>1, <2>3, <2>4, <2>5, <2>6, <2>7, <2>9, <2>10,
             <2>11, SendsForward
<1>8. CASE q.fin # "none"
  <2> DEFINE p == [x EXCEPT !.pc = "failing"]
  <2>1. next = Throw(x)
    BY <1>2, <1>8 DEF Issue, Live
  <2>2. next.q = p /\ next.issue = << >>
    BY <1>2, <1>8, <2>1, ThrowFenced
  <2>3. /\ p \in RequestStates /\ p.conn = q.conn /\ p.pc = "failing"
        /\ p.work = q.work + 1 /\ p.fin = q.fin /\ p.alive = q.alive
        /\ p.released = q.released
    BY <1>2 DEF RequestStates, PCs
  <2> HIDE DEF p, next
  <2>4. Ahead(p) + 1 <= Ahead(q)
    BY <1>6, <2>3
  <2>5. Present(p) < Present(q) + 2 * 1
    BY <2>3 DEF Present
  <2>6. p.pc \notin Awaiting /\ p.work \in 0..MaxWork /\ p.pc # "waiting"
    BY <1>4, <1>5, <2>3
  <2> HIDE DEF q
  <2> QED BY <1>1, <1>3, <2>2, <2>3, <2>4, <2>5, <2>6, FinalizedMoves
<1> QED BY <1>7, <1>8

\* A route that ends, by returning or by throwing.
LEMMA RouteEnds ==
    ASSUME RequestAssumption, Inv, Attended,
           NEW r \in Requests, RouteReturns(r) \/ RouteThrows(r)
    PROVE  Attended' /\ Moved(r)
<1> DEFINE q == req[r]
<1>1. q \in RequestStates /\ q.pc = "handler" /\ q.work \in 0..MaxWork
  BY DEF Inv, Typed, RouteReturns, RouteThrows, Attended, Attends
<1>2. q.fin = "none" => q.phase = "route"
  <2> SUFFICES ASSUME q.fin = "none" PROVE q.phase = "route"
    OBVIOUS
  <2>1. Running(r, q, conn[q.conn], durable)
    BY <1>1, OpenHolds
  <2> QED BY <1>1, <2>1 DEF Running, Held, Queued, BootstrapOps
<1>3. {"replying", "failing"} \cap Awaiting = {}
  BY DEF Awaiting, BootstrapOps, RouteOps
<1>4. q = req[r]
  OBVIOUS
<1> HIDE DEF q
<1>5. ASSUME NEW p \in RequestStates, p.pc \in {"replying", "failing"},
             p.work = q.work
      PROVE  Ahead(p) + 1 <= Ahead(q)
  <2>1. Far[p.pc] < Far[q.pc]
    BY <1>1, <1>5 DEF Far
  <2> QED BY <1>1, <1>5, <2>1, AheadFalls
<1>6. ASSUME NEW x \in RequestStates, x.pc \in {"replying", "failing"},
             x.fin = q.fin, x.conn = q.conn, x.work = q.work,
             x.released = q.released, x.alive = q.alive,
             NEW next, Perform(r, next),
             IF q.fin = "none"
             THEN \E f \in {"committing", "rolling_back"}, o \in EndOps :
                     next.q = [x EXCEPT !.fin = f] /\ next.issue = <<o>>
             ELSE next.q = x /\ next.issue = << >>
      PROVE  Attended' /\ Moved(r)
  <2>1. CASE q.fin = "none"
    <3>1. PICK f \in {"committing", "rolling_back"}, o \in EndOps :
                     next.q = [x EXCEPT !.fin = f] /\ next.issue = <<o>>
      BY <1>6, <2>1
    <3> DEFINE p == next.q
    <3>2. /\ p \in RequestStates /\ p.pc = x.pc /\ p.conn = q.conn
          /\ p.fin = f /\ p.released = q.released /\ p.work = q.work
          /\ p.alive = q.alive
      BY <1>6, <3>1 DEF RequestStates
    <3>3. p = next.q
      OBVIOUS
    <3> HIDE DEF p
    <3>4. Ahead(p) + 1 <= Ahead(q)
      BY <1>5, <1>6, <3>2
    <3>5. /\ p.fin # "none" /\ p.pc # "waiting" /\ p.pc \notin Awaiting
          /\ q.pc \notin {"waiting", "done"}
      BY <1>1, <1>3, <1>6, <3>2
    <3>6. Perform(r, next) /\ next.issue = <<o>>
      BY <1>6, <3>1
    <3>7. p.pc \in Awaiting => p.pc = q.pc
      BY <3>5
    <3> QED BY <1>4, <2>1, <3>2, <3>3, <3>4, <3>5, <3>6, <3>7, EndingMoves
  <2>2. CASE q.fin # "none"
    <3>1. Ahead(x) + 1 <= Ahead(q)
      BY <1>5, <1>6
    <3>2. Present(x) < Present(q) + 2 * 1
      BY <1>6 DEF Present
    <3>3. /\ x.pc # "waiting" /\ x.pc \notin Awaiting
          /\ x.work \in 0..MaxWork /\ q.pc # "waiting"
      BY <1>1, <1>3, <1>6
    <3>4. next.q = x /\ next.issue = << >>
      BY <1>6, <2>2
    <3> QED BY <1>4, <1>6, <3>1, <3>2, <3>3, <3>4, FinalizedMoves
  <2> QED BY <2>1, <2>2
<1>7. CASE RouteReturns(r)
  <2> DEFINE x    == [q EXCEPT !.pc = "replying"]
             next == Finalize(x, "commit")
  <2>1. Perform(r, next)
    BY <1>4, <1>7 DEF RouteReturns
  <2>2. /\ x \in RequestStates /\ x.pc = "replying" /\ x.fin = q.fin
        /\ x.conn = q.conn /\ x.work = q.work /\ x.phase = q.phase
        /\ x.released = q.released /\ x.alive = q.alive
    BY <1>1 DEF RequestStates, PCs
  <2> HIDE DEF x
  <2>3. CASE q.fin = "none"
    <3>1. next.q = [x EXCEPT !.fin = "committing"]
          /\ next.issue = <<"final_commit">>
      BY <1>2, <2>2, <2>3 DEF Finalize, Then
    <3>2. "final_commit" \in EndOps
      BY DEF EndOps
    <3> HIDE DEF next
    <3>3. \E f \in {"committing", "rolling_back"}, o \in EndOps :
             next.q = [x EXCEPT !.fin = f] /\ next.issue = <<o>>
      BY <3>1, <3>2
    <3> QED BY <1>6, <2>1, <2>2, <2>3, <3>3
  <2>4. CASE q.fin # "none"
    <3>1. next.q = x /\ next.issue = << >>
      BY <2>2, <2>4 DEF Finalize, Then
    <3> HIDE DEF next
    <3> QED BY <1>6, <2>1, <2>2, <2>4, <3>1
  <2> QED BY <2>3, <2>4
<1>8. CASE RouteThrows(r)
  <2> DEFINE x    == [q EXCEPT !.pc = "failing"]
             next == Throw(q)
  <2>1. Perform(r, next)
    BY <1>4, <1>8 DEF RouteThrows
  <2>2. /\ x \in RequestStates /\ x.pc = "failing" /\ x.fin = q.fin
        /\ x.conn = q.conn /\ x.work = q.work
        /\ x.released = q.released /\ x.alive = q.alive
    BY <1>1 DEF RequestStates, PCs
  <2>3. CASE q.fin = "none"
    <3>1. next.q = [x EXCEPT !.fin = "rolling_back"]
          /\ next.issue = <<RollbackOp(q)>>
      BY <1>1, <1>2, <2>3, ThrowOpen
    <3>2. RollbackOp(q) \in EndOps
      BY DEF EndOps, RollbackOp
    <3> HIDE DEF next, x
    <3>3. \E f \in {"committing", "rolling_back"}, o \in EndOps :
             next.q = [x EXCEPT !.fin = f] /\ next.issue = <<o>>
      BY <3>1, <3>2
    <3> QED BY <1>6, <2>1, <2>2, <2>3, <3>3
  <2>4. CASE q.fin # "none"
    <3>1. next.q = x /\ next.issue = << >>
      BY <1>1, <2>4, ThrowFenced
    <3> HIDE DEF next, x
    <3> QED BY <1>6, <2>1, <2>2, <2>4, <3>1
  <2> QED BY <2>3, <2>4
<1> QED BY <1>7, <1>8

LEMMA GoneMoves ==
    ASSUME RequestAssumption, Inv, Attended, NEW r \in Requests, ClientGone(r)
    PROVE  Attended' /\ Moved(r)
<1> DEFINE q    == req[r]
           x    == [q EXCEPT !.alive = FALSE]
           next == Finalize(x, "rollback")
<1>1. /\ q \in RequestStates /\ q.pc # "done" /\ q.alive
      /\ q.work \in 0..MaxWork
  BY DEF Inv, Typed, ClientGone, Attended, Attends
<1>2. /\ x \in RequestStates /\ x.pc = q.pc /\ x.fin = q.fin
      /\ x.conn = q.conn /\ x.work = q.work /\ x.phase = q.phase
      /\ x.released = q.released /\ ~x.alive
  BY <1>1 DEF RequestStates
<1>3. q = req[r] /\ x = [q EXCEPT !.alive = FALSE]
      /\ next = Finalize(x, "rollback")
  OBVIOUS
<1>4. CASE Holding(q)
  <2>1. Perform(r, next)
    BY <1>4 DEF ClientGone, Holding
  <2> HIDE DEF q, x, next
  <2>2. q.pc # "waiting" /\ ~q.released
    BY <1>4 DEF Holding
  <2>3. CASE q.fin = "none"
    <3> DEFINE p == [x EXCEPT !.fin = "rolling_back"]
               o == RollbackOp(x)
    <3>1. Queued(r, q, conn[q.conn])
      BY <1>3, <1>4 DEF Inv, Held
    <3>2. q.phase \in {"bootstrap", "route"}
      BY <2>3, <3>1 DEF Queued
    <3>3. next = [q |-> p, issue |-> <<o>>]
      BY <1>2, <1>3, <2>3, <3>2 DEF Finalize, Then
    <3>4. /\ p \in RequestStates /\ p.pc = q.pc /\ p.conn = q.conn
          /\ p.fin # "none" /\ p.work = q.work /\ ~p.alive
          /\ p.released = q.released
      BY <1>2 DEF RequestStates
    <3>5. o \in EndOps /\ o # "final_commit"
      BY DEF RollbackOp, EndOps
    <3> HIDE DEF p, o
    <3>6. p = next.q /\ next.issue = <<o>>
      BY ONLY <3>3
    <3>7. Ahead(p) + 0 <= Ahead(q)
      BY <1>1, <3>4, AheadFalls
    <3>8. /\ q.pc \notin {"waiting", "done"} /\ p.pc # "waiting"
          /\ p.pc \in Awaiting => p.pc = q.pc
      BY <1>1, <2>2, <3>4
    <3>9. \/ Ahead(p) + 1 <= Ahead(q) /\ p.alive = q.alive
          \/ Ahead(p) + 0 <= Ahead(q) /\ ~p.alive /\ (o # "final_commit")
      BY <3>4, <3>5, <3>7
    <3>10. q = req[r]
      BY <1>3
    <3> QED BY <2>1, <2>3, <3>4, <3>5, <3>6, <3>8, <3>9, <3>10, EndingMoves
  <2>4. CASE q.fin # "none"
    <3>1. next.q = x /\ next.issue = << >>
      BY <1>2, <1>3, <2>4 DEF Finalize, Then
    <3>2. Ahead(x) + 0 <= Ahead(q)
      BY <1>1, <1>2, AheadFalls
    <3>3. Present(x) < Present(q) + 2 * 0
      BY <1>1, <1>2 DEF Present
    <3>4. /\ x.pc # "waiting" /\ x.work \in 0..MaxWork
          /\ x.pc \in Awaiting => x.pc = q.pc
          /\ x.alive => q.alive
          /\ q = req[r] /\ 0 \in Nat
      BY <1>1, <1>2, <1>3, <2>2
    <3> QED BY <1>2, <2>1, <2>2, <3>1, <3>2, <3>3, <3>4, FinalizedMoves
  <2> QED BY <2>3, <2>4
<1>5. CASE ~Holding(q)
  <2>1. conn' = conn /\ req' = [req EXCEPT ![r] = x]
    BY <1>5 DEF ClientGone, Holding
  <2>2. q.pc \notin Awaiting
    BY <1>5 DEF Attended, Attends
  <2> HIDE DEF q, x
  <2>3. ~Holding(x) /\ x.pc \notin Awaiting /\ x.work \in 0..MaxWork
    BY <1>1, <1>2, <1>5, <2>2 DEF Holding
  <2>4. Ahead(x) + 0 <= Ahead(q)
    BY <1>1, <1>2, AheadFalls
  <2>5. Undecided(x) + Present(x) < Undecided(q) + Present(q) + 2 * 0
    <3>1. /\ Undecided(x) = Undecided(q) /\ Undecided(q) \in Nat
          /\ Present(x) = 0 /\ Present(q) = 1
      BY <1>1, <1>2 DEF Undecided, Present
    <3> QED BY <3>1
  <2> QED BY <1>1, <1>2, <1>3, <1>5, <2>1, <2>3, <2>4, <2>5, AloneMoves
<1> QED BY <1>4, <1>5

LEMMA RespondMoves ==
    ASSUME RequestAssumption, Inv, Attended, NEW r \in Requests, Respond(r)
    PROVE  Attended' /\ Moved(r)
<1> DEFINE q == req[r]
           v == IF ~q.alive THEN "none"
                ELSE IF q.pc = "replying" /\ q.fin = "settled"
                THEN "ok" ELSE "error"
           x == [q EXCEPT !.pc = "done", !.reply = v]
<1>1. /\ q \in RequestStates /\ q.pc \in {"replying", "failing"}
      /\ q.fin \in {"settled", "rejected"}
      /\ conn' = conn /\ req' = [req EXCEPT ![r] = x]
      /\ q.work \in 0..MaxWork
  BY DEF Inv, Typed, Respond, Attended, Attends
<1>2. ~Holding(q)
  <2> SUFFICES ASSUME Holding(q) PROVE FALSE
    OBVIOUS
  <2>1. Running(r, q, conn[q.conn], durable)
    BY HolderRuns
  <2> QED BY <1>1, <2>1 DEF Running, Held, Queued
<1>3. q = req[r] /\ v \in {"none", "ok", "error"}
  OBVIOUS
<1> HIDE DEF v
<1>4. /\ x \in RequestStates /\ x.pc = "done" /\ x.released = q.released
      /\ x.fin = q.fin /\ x.work = q.work /\ x.alive = q.alive
  BY <1>1, <1>3 DEF RequestStates, PCs
<1> HIDE DEF x, q
<1>5. ~Holding(x) /\ x.pc \notin Awaiting
  BY <1>1, <1>2, <1>4 DEF Holding, Awaiting, BootstrapOps, RouteOps
<1>6. Ahead(x) + 1 <= Ahead(q)
  <2>1. Ahead(q) = 1 + 0 /\ Ahead(x) = 0 + 0
    BY <1>1, <1>4 DEF Ahead, Far
  <2> QED BY <2>1
<1>7. Undecided(x) + Present(x) < Undecided(q) + Present(q) + 2 * 1
  <2>1. /\ Undecided(x) = Undecided(q) /\ Undecided(q) \in Nat
        /\ Present(x) = Present(q) /\ Present(q) \in Nat
    BY <1>4 DEF Undecided, Present
  <2> QED BY <2>1
<1>8. x.work \in 0..MaxWork /\ (x.alive => q.alive)
  BY <1>1, <1>4
<1> QED BY <1>1, <1>2, <1>3, <1>4, <1>5, <1>6, <1>7, <1>8, AloneMoves

LEMMA ConnectMoves ==
    ASSUME RequestAssumption, Inv, Attended,
           NEW r \in Requests, NEW c \in Connections, Connect(r, c)
    PROVE  Attended' /\ Moved(r)
<1> DEFINE q == req[r]
           k == conn[c]
           m == MaxWork - q.work
<1>1. /\ q \in RequestStates /\ k \in ConnectionStates
      /\ q.pc = "waiting" /\ k.holder = Pool /\ q.work \in 0..MaxWork
      /\ MaxWork \in Nat
  BY DEF Inv, Typed, Connect, Attended, Attends, RequestAssumption
<1>2. Fresh(q) /\ Clean(k) /\ ~Holding(q)
  BY <1>1 DEF Inv, Holding
<1>3. q = req[r] /\ k = conn[c]
  OBVIOUS
<1>4. m \in Nat /\ Ahead(q) = 12 + 2 * m
  BY <1>1 DEF Ahead, Far
<1>5. CASE ~q.alive
  <2> DEFINE x == [q EXCEPT !.pc = "done", !.released = TRUE]
  <2>1. req' = [req EXCEPT ![r] = x] /\ conn' = conn
    BY <1>5 DEF Connect
  <2>2. /\ x \in RequestStates /\ x.pc = "done" /\ x.released
        /\ x.fin = q.fin /\ x.work = q.work /\ x.alive = q.alive
    BY <1>1 DEF RequestStates, PCs
  <2> HIDE DEF x, q, k
  <2>3. ~Holding(x) /\ x.pc \notin Awaiting
    BY <2>2 DEF Holding, Awaiting, BootstrapOps, RouteOps
  <2>4. Ahead(x) = 0 + 0
    BY <2>2 DEF Ahead, Far
  <2> HIDE DEF m
  <2>5. Ahead(x) + 12 <= Ahead(q)
    BY <1>4, <2>4
  <2>6. /\ Undecided(x) = Undecided(q) /\ Undecided(q) \in Nat
        /\ Present(x) = Present(q) /\ Present(q) \in Nat
    BY <2>2 DEF Undecided, Present
  <2>7. Undecided(x) + Present(x) < Undecided(q) + Present(q) + 2 * 12
    BY <2>6
  <2>8. x.work \in 0..MaxWork /\ (x.alive => q.alive) /\ 12 \in Nat
    BY <1>1, <2>2
  <2> QED BY <1>2, <1>3, <2>1, <2>2, <2>3, <2>5, <2>7, <2>8, AloneMoves
<1>6. CASE q.alive
  <2> DEFINE x  == [q EXCEPT !.pc = "begin_bootstrap", !.conn = c,
                             !.phase = "bootstrap"]
             st == [op |-> "begin_bootstrap", by |-> r]
             t  == Append(k.queue, st)
             k2 == [k EXCEPT !.holder = r, !.queue = t]
  <2>1. req' = [req EXCEPT ![r] = x] /\ conn' = [conn EXCEPT ![c] = k2]
    BY <1>6 DEF Connect
  <2>2. /\ x \in RequestStates /\ x.pc = "begin_bootstrap" /\ x.conn = c
        /\ ~x.released /\ x.fin = q.fin /\ x.work = q.work
        /\ x.alive = q.alive
    BY <1>1, <1>2 DEF RequestStates, PCs, BootstrapOps, Fresh
  <2>3. st \in Statements
    BY DEF Statements, TxControl, Begins
  <2>4. k.queue = << >> /\ k.queue \in Seq(Statements)
    BY <1>1, <1>2 DEF Clean, ConnectionStates
  <2>5. t \in Seq(Statements) /\ Len(t) = 1 /\ t[1] = st /\ DOMAIN t = {1}
    BY <2>3, <2>4
  <2> HIDE DEF t, st
  <2>6. k2 \in ConnectionStates /\ k2.queue = t
    BY <1>1, <2>5 DEF ConnectionStates
  <2>7. st.op = "begin_bootstrap"
    BY DEF st
  <2> HIDE DEF x, k2, q, k
  <2>8. Op(k2, 1) = "begin_bootstrap"
    BY <2>5, <2>6, <2>7 DEF Op
  <2>9. Attends(x, k2)
    <3>1. Awaited(x, k2)
      BY <2>2, <2>5, <2>6, <2>8 DEF Awaited
    <3> QED BY <1>1, <2>2, <3>1 DEF Attends, Holding
  <2>10. Ahead(x) = 10 + 2 * (MaxWork - x.work)
    BY <2>2 DEF Ahead, Far
  <2>11. Ahead(x) = 10 + 2 * m
    BY <2>2, <2>10
  <2> HIDE DEF m
  <2>12. Ahead(x) + 2 <= Ahead(q)
    BY <1>4, <2>11
  <2>13. /\ Undecided(x) = Undecided(q) /\ Undecided(q) \in Nat
         /\ Present(x) = Present(q) /\ Present(q) \in Nat
         /\ Carried(q, conn[q.conn]) = 0
    BY <1>2, <2>2 DEF Undecided, Present, Carried
  <2>14. Carried(x, k2) \in Nat /\ Carried(x, k2) <= 3
    <3>1. Carried(x, k2) = Load(k2)
      BY <2>2 DEF Carried, Holding
    <3>2. Load(k2) \in Nat /\ Load(k2) <= Len(k2.queue) + 2
      BY <2>6, LoadIs
    <3>3. Len(k2.queue) = 1
      BY <2>5, <2>6
    <3> QED BY <3>1, <3>2, <3>3
  <2>15. Undecided(x) + Carried(x, k2) + Present(x)
           < Undecided(q) + Carried(q, conn[q.conn]) + Present(q) + 2 * 2
    BY <2>13, <2>14
  <2>16. Carried(q, conn[q.conn]) \in Nat /\ 2 \in Nat
         /\ (x.alive => q.alive) /\ x.work \in 0..MaxWork
    BY <1>1, <2>2, <2>13
  <2>17. /\ LeftOf(x, k2) \in Nat
         /\ LeftOf(x, k2) < LeftOf(q, conn[q.conn])
    BY <1>1, <2>2, <2>6, <2>12, <2>15, <2>16, Shrinks
  <2>18. Forward(req[r], conn[req[r].conn], x, k2)
    BY <1>3, <2>9, <2>17 DEF Forward
  <2>19. \A o \in Requests \ {r} : Holding(req[o]) => req[o].conn # c
    BY <1>1, <1>3 DEF Inv, Paired, RequestAssumption
  <2> QED BY <2>1, <2>2, <2>18, <2>19, PairMoves
<1>7. q.alive \in BOOLEAN
  BY <1>1 DEF RequestStates
<1> QED BY <1>5, <1>6, <1>7

\* Every step that is one is a step of one request.
LEMMA NextMoves ==
    ASSUME RequestAssumption, Inv, Attended, Next
    PROVE  Attended' /\ \E r \in Requests : Moved(r)
<1>1. ASSUME NEW c \in Connections, Serve(c)
      PROVE  Attended' /\ \E r \in Requests : Moved(r)
  BY <1>1, ServeMoves
<1>2. ASSUME NEW c \in Connections, ConnectionLost(c)
      PROVE  Attended' /\ \E r \in Requests : Moved(r)
  BY <1>2, LostMoves
<1>3. ASSUME NEW r \in Requests, NEW c \in Connections, Connect(r, c)
      PROVE  Attended' /\ Moved(r)
  BY <1>3, ConnectMoves
<1>4. ASSUME NEW r \in Requests, RouteQuery(r) PROVE Attended' /\ Moved(r)
  BY <1>4, QueryMoves
<1>5. ASSUME NEW r \in Requests, RouteReturns(r) \/ RouteThrows(r)
      PROVE  Attended' /\ Moved(r)
  BY <1>5, RouteEnds
<1>6. ASSUME NEW r \in Requests, Respond(r) PROVE Attended' /\ Moved(r)
  BY <1>6, RespondMoves
<1>7. ASSUME NEW r \in Requests, ClientGone(r) PROVE Attended' /\ Moved(r)
  BY <1>7, GoneMoves
<1> QED BY <1>1, <1>2, <1>3, <1>4, <1>5, <1>6, <1>7 DEF Next

\* A step that changes nothing leaves what is ahead.
LEMMA StutterStays ==
    ASSUME Attended, UNCHANGED vars
    PROVE  Attended' /\ (BoundedSteps => BoundedSteps')
<1>1. conn' = conn /\ req' = req
  BY DEF vars
<1>2. \A r \in Requests : Attends(req'[r], conn'[req'[r].conn])
  BY <1>1 DEF Attended
<1>3. \A r \in Requests : LeftOf(req'[r], conn'[req'[r].conn]) = StepsLeft(r)
  BY <1>1 DEF StepsLeft
<1> QED BY <1>2, <1>3 DEF Attended, BoundedSteps, StepsLeft

LEMMA MovedIsBounded ==
    ASSUME RequestAssumption, BoundedSteps, NEW r \in Requests, Moved(r)
    PROVE  BoundedSteps'
<1>1. MaxWork \in Nat
  BY DEF RequestAssumption
<1>2. ASSUME NEW o \in Requests
      PROVE  LeftOf(req'[o], conn'[req'[o].conn]) \in 0..(27 + 4 * MaxWork)
  <2>1. StepsLeft(o) \in 0..(27 + 4 * MaxWork)
    BY DEF BoundedSteps
  <2>2. CASE o = r
    <3>1. /\ LeftOf(req'[o], conn'[req'[o].conn]) \in Nat
          /\ LeftOf(req'[o], conn'[req'[o].conn]) < StepsLeft(o)
      BY <2>2 DEF Moved
    <3> QED BY <1>1, <2>1, <3>1
  <2>3. CASE o # r
    BY <2>1, <2>3 DEF Moved
  <2> QED BY <2>2, <2>3
<1> QED BY <1>2 DEF BoundedSteps, StepsLeft

\* At the start nobody waits for an answer, and all is ahead.
LEMMA InitMoves ==
    ASSUME RequestAssumption, Init
    PROVE  Attended /\ BoundedSteps
<1>1. ASSUME NEW r \in Requests
      PROVE  /\ req[r].pc = "waiting" /\ req[r].work = 0 /\ req[r].alive
             /\ req[r].fin = "none" /\ MaxWork \in Nat
  BY DEF Init, RequestAssumption
<1>2. ASSUME NEW r \in Requests
      PROVE  /\ Attends(req[r], conn[req[r].conn])
             /\ StepsLeft(r) \in 0..(27 + 4 * MaxWork)
  <2> DEFINE q == req[r]
             k == conn[q.conn]
  <2>1. ~Holding(q) /\ q.pc \notin Awaiting /\ q.work \in 0..MaxWork
    BY <1>1 DEF Holding, Awaiting, BootstrapOps, RouteOps
  <2>2. Ahead(q) = 12 + 2 * (MaxWork - 0)
    BY <1>1 DEF Ahead, Far
  <2>3. Undecided(q) = 2 /\ Present(q) = 1 /\ Carried(q, k) = 0
    BY <1>1, <2>1 DEF Undecided, Present, Carried
  <2>4. LeftOf(q, k) = 2 * Ahead(q) + 2 + 1 + 0
    BY <2>3 DEF LeftOf
  <2>5. LeftOf(q, k) \in 0..(27 + 4 * MaxWork)
    BY <1>1, <2>2, <2>4
  <2> QED BY <2>1, <2>5 DEF Attends, StepsLeft
<1> QED BY <1>2 DEF Attended, BoundedSteps

LEMMA AttendedHolds == Spec => [](Attended /\ BoundedSteps)
<1>1. RequestAssumption /\ Init => Attended /\ BoundedSteps
  BY InitMoves
<1>2. RequestAssumption /\ Inv /\ (Attended /\ BoundedSteps) /\ [Next]_vars
          => (Attended /\ BoundedSteps)'
  <2>1. ASSUME RequestAssumption, Inv, Attended, BoundedSteps, Next
        PROVE  Attended' /\ BoundedSteps'
    BY <2>1, NextMoves, MovedIsBounded
  <2>2. ASSUME Attended, BoundedSteps, UNCHANGED vars
        PROVE  Attended' /\ BoundedSteps'
    BY <2>2, StutterStays
  <2> QED BY <2>1, <2>2
<1> QED BY <1>1, <1>2, InvHolds, RequestAssumption, PTL DEF Spec

\* Whatever the client, the route and the database do, a request is over after
\* a bounded number of steps: each step takes one away from one request, and
\* adds none to any, not even the ones it shares connections with.
THEOREM RequestsAreBounded == Spec => []BoundedSteps /\ StepsRunOut
<1> DEFINE Less ==
        \E r \in Requests :
           /\ LeftOf(req'[r], conn'[req'[r].conn]) < StepsLeft(r)
           /\ \A o \in Requests \ {r} :
                 LeftOf(req'[o], conn'[req'[o].conn]) = StepsLeft(o)
<1>1. RequestAssumption /\ Inv /\ Attended /\ [Next]_vars => [Less]_vars
  <2> SUFFICES ASSUME RequestAssumption, Inv, Attended, Next PROVE Less
    OBVIOUS
  <2>1. PICK r \in Requests : Moved(r)
    BY NextMoves
  <2> QED BY <2>1 DEF Moved
<1> QED
  BY <1>1, AttendedHolds, InvHolds, RequestAssumption, PTL
  DEF Spec, StepsRunOut

\* No flow of a request is forgotten: a handler that waits for the answer to a
\* statement has it on its connection, a response that waits for the
\* finalization has its COMMIT or its rollback there, and a request that is
\* over, or has not begun, keeps no connection from the others.
THEOREM WaitersAreServed == Spec => []NobodyWaitsInVain
<1>1. RequestAssumption /\ Inv /\ Attended => NobodyWaitsInVain
  <2> SUFFICES ASSUME RequestAssumption, Inv, Attended
               PROVE  NobodyWaitsInVain
    OBVIOUS
  <2>1. ASSUME NEW r \in Requests, req[r].pc \in Awaiting
        PROVE  /\ Holding(req[r])
               /\ \E i \in DOMAIN conn[req[r].conn].queue :
                     conn[req[r].conn].queue[i] = [op |-> req[r].pc, by |-> r]
    <3> DEFINE q == req[r]
               k == conn[q.conn]
    <3>1. Holding(q) /\ Awaited(q, k)
      BY <2>1 DEF Attended, Attends
    <3>2. Running(r, q, k, durable)
      BY <3>1, HolderRuns
    <3>3. PICK i \in DOMAIN k.queue : Op(k, i) = q.pc
      BY <2>1, <3>1 DEF Awaited
    <3>4. k.queue[i].by = r /\ k.queue[i] \in Statements
      BY <3>2, <3>3, ElementOfSeq
      DEF Running, Held, Queued, ConnectionStates
    <3>5. k.queue[i] = [op |-> q.pc, by |-> r]
      BY <3>3, <3>4 DEF Op, Statements
    <3> QED BY <3>1, <3>3, <3>5
  <2>2. ASSUME NEW r \in Requests, req[r].pc \in {"replying", "failing"},
               req[r].fin \notin {"settled", "rejected"}
        PROVE  /\ Holding(req[r])
               /\ \E i \in DOMAIN conn[req[r].conn].queue :
                     /\ conn[req[r].conn].queue[i].op \in EndOps
                     /\ conn[req[r].conn].queue[i].by = r
    <3> DEFINE q == req[r]
               k == conn[q.conn]
    <3>1. Holding(q)
      <4>1. CASE q.fin = "none"
        BY <2>2, <4>1, OpenHolds
      <4>2. CASE q.fin # "none"
        <5> SUFFICES ASSUME ~Holding(q) PROVE FALSE
          OBVIOUS
        <5>1. q.fin \in {"none", "settled", "rejected"}
          BY DEF Inv, Let
        <5> QED BY <2>2, <4>2, <5>1
      <4> QED BY <4>1, <4>2
    <3>2. Running(r, q, k, durable)
      BY <3>1, HolderRuns
    <3>3. /\ Queued(r, q, k) /\ k.queue \in Seq(Statements)
          /\ Len(k.queue) \in Nat /\ DOMAIN k.queue = 1..Len(k.queue)
      BY <3>2, LenProperties DEF Running, Held, ConnectionStates
    <3>4. /\ q.pc \in {"replying", "failing"}
          /\ q.fin \notin {"settled", "rejected"}
      BY <2>2
    <3> HIDE DEF q, k
    <3>5. q.fin \in {"committing", "rolling_back"}
      BY <3>3, <3>4 DEF Queued, BootstrapOps, RouteOps
    <3>6. Len(k.queue) \in 1..3 /\ Op(k, Len(k.queue)) \in EndOps
      <4>1. CASE q.fin = "committing"
        <5>1. Len(k.queue) = 1 /\ Op(k, 1) \in {"final_commit", "rollback"}
          BY <3>3, <4>1 DEF Queued
        <5> QED BY <5>1 DEF EndOps
      <4>2. CASE q.fin = "rolling_back"
        <5>1. /\ Len(k.queue) = 1 \/ Len(k.queue) = 2 \/ Len(k.queue) = 3
              /\ Op(k, Len(k.queue)) \in {"rollback", "access_commit"}
          BY <3>3, <4>2 DEF Queued
        <5> QED BY <5>1 DEF EndOps
      <4> QED BY <3>5, <4>1, <4>2
    <3>7. /\ Len(k.queue) \in DOMAIN k.queue
          /\ k.queue[Len(k.queue)].op \in EndOps
          /\ k.queue[Len(k.queue)].by = r
      BY <3>3, <3>6 DEF Queued, Op
    <3> QED BY <3>1, <3>7 DEF q, k
  <2>3. ASSUME NEW c \in Connections, conn[c].holder # Pool
        PROVE  req[conn[c].holder].pc \notin {"waiting", "done"}
    <3> DEFINE r == conn[c].holder
    <3>1. r \in Requests
      BY <2>3 DEF Inv, Typed, ConnectionStates
    <3>2. Holding(req[r]) /\ req[r].conn = c
      BY <2>3 DEF Inv, Paired
    <3>3. Running(r, req[r], conn[c], durable)
      BY <3>1, <3>2, HolderRuns
    <3> QED BY <3>2, <3>3
            DEF Running, Held, Queued, Holding, BootstrapOps, RouteOps
  <2> QED BY <2>1, <2>2, <2>3 DEF NobodyWaitsInVain
<1> QED BY <1>1, AttendedHolds, InvHolds, RequestAssumption, PTL
=============================================================================
