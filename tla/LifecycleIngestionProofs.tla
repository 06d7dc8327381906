---------------------- MODULE LifecycleIngestionProofs ----------------------
(***************************************************************************)
(* Proofs about LifecycleIngestion, for any number of runs, feeds, tenants *)
(* and tickets.  The invariants come in layers, each proved on top of the  *)
(* ones before it.                                                         *)
(***************************************************************************)
EXTENDS LifecycleIngestion, TLAPS

LifecycleChanges == StatusChanges \cup PriorityChanges

LifecycleRows ==
    [tenant_id : Tenants, ticket_id : TicketIds, event_id : EventIds,
     ticket_sequence : Nat \ {0}, event : LifecycleChanges,
     occurred_at : Times]

LifecycleAuditRows ==
    [tenant_id : Tenants, target_id : TicketIds, event_id : EventIds,
     ticket_sequence : Nat \ {0}]

AtAnItem == {"check", "record", "read", "write"}

\* A run inside applyEvent is at an item of its feed that was parsed and
\* routed to a tenant.
ItemIsRouted ==
    \A r \in Runs : pc[r] \in AtAnItem =>
        /\ pos[r] \in 1..Len(feed[r])
        /\ Current(r) \in ProviderEvents
        /\ TenantOf(Current(r)) \in Tenants

Typed == TypeOK /\ ItemIsRouted

-----------------------------------------------------------------------------
\* What the operators return.

\* The rows that record an event have the types of their tables.
LEMMA RowTypes ==
    ASSUME NEW e \in ProviderEvents, TenantOf(e) \in Tenants
    PROVE  /\ EventRow(e) \in LifecycleRows
           /\ AuditRow(e) \in LifecycleAuditRows
           /\ e.ticket_id \in TicketIds
           /\ e.event_id \in EventIds
           /\ e.event \in LifecycleChanges
BY DEF ProviderEvents, EventRow, AuditRow, LifecycleRows, LifecycleAuditRows,
       LifecycleChanges

\* A due time is a number for every priority and creation time.
LEMMA SlaDueAtType ==
    ASSUME NEW p \in TicketPriorities, NEW c \in Nat
    PROVE  SlaDueAt(p, c) \in Nat
BY DEF SlaDueAt, SlaHours, TicketPriorities

\* A change of status yields SLA columns.
LEMMA DeriveType ==
    ASSUME NEW t \in TicketRows, NEW c \in Nat, NEW s \in TicketStatuses,
           NEW p \in TicketPriorities, NEW at \in Nat
    PROVE  DeriveStatusChange(t, c, s, p, at) \in
               [sla_due_at : SlaDueTimes, sla_breached : BOOLEAN]
<1>1. SlaDueAt(p, c) \in Nat
  BY SlaDueAtType
<1>2. IsBreached(s, SlaDueAt(p, c), at) \in BOOLEAN
  BY DEF IsBreached
<1> QED
  BY <1>1, <1>2 DEF DeriveStatusChange, TicketRows, SlaDueTimes

\* Applying an event to a ticket row yields a ticket row.
LEMMA ChangedTicketType ==
    ASSUME NEW t \in TicketRows, NEW e \in ProviderEvents, NEW at \in Nat
    PROVE  ChangedTicket(t, e, at) \in TicketRows
<1> DEFINE c == CreatedAt[e.ticket_id]
<1>1. e.ticket_id \in TicketIds /\ e.event \in LifecycleChanges
  BY DEF ProviderEvents, LifecycleChanges
<1>2. c \in Nat
  BY <1>1, TicketAssumption
<1>3. CASE e.event \in StatusChanges
  <2>1. /\ e.event.kind = "status_changed"
        /\ e.event.target_status \in TicketStatuses
        /\ t.priority \in TicketPriorities
    BY <1>3 DEF StatusChanges, TicketRows
  <2>2. DeriveStatusChange(t, c, e.event.target_status, t.priority, at) \in
            [sla_due_at : SlaDueTimes, sla_breached : BOOLEAN]
    BY <1>2, <2>1, DeriveType
  <2> QED
    BY <2>1, <2>2 DEF ChangedTicket, TicketRows
<1>4. CASE e.event \in PriorityChanges
  <2>1. /\ e.event.kind # "status_changed"
        /\ e.event.target_priority \in TicketPriorities
    BY <1>4 DEF PriorityChanges
  <2>2. SlaDueAt(e.event.target_priority, c) \in SlaDueTimes
    BY <1>2, <2>1, SlaDueAtType DEF SlaDueTimes
  <2> QED
    BY <2>1, <2>2 DEF ChangedTicket, TicketRows
<1> QED
  BY <1>1, <1>3, <1>4 DEF LifecycleChanges

-----------------------------------------------------------------------------
\* First layer: types, and where a run stands in its feed.

\* The types hold at the start.
LEMMA InitTyped == Init => Typed
<1> SUFFICES ASSUME Init PROVE Typed
  OBVIOUS
<1>1. tickets \in [TicketIds -> TicketRows]
  <2>1. ASSUME NEW p \in TicketPriorities, NEW c \in Nat
        PROVE  NewTicket(p, c) \in TicketRows
    BY SlaDueAtType DEF NewTicket, TicketRows, TicketStatuses, SlaDueTimes
  <2> QED
    BY <2>1, TicketAssumption DEF Init
<1>2. snapshot \in [Runs -> TicketRows]
  <2>1. NewTicket("normal", 0) \in TicketRows
    BY SlaDueAtType
       DEF NewTicket, TicketRows, TicketStatuses, TicketPriorities, SlaDueTimes
  <2> QED
    BY <2>1 DEF Init
<1>3. feed \in [Runs -> Seq(FeedItems)] /\ processed \in [Runs -> Seq(EventIds)]
  BY DEF Init
<1>4. ItemIsRouted
  BY DEF Init, ItemIsRouted, AtAnItem
<1> QED
  BY <1>1, <1>2, <1>3, <1>4 DEF Init, Typed, TypeOK

\* At the item a run has before it, either parsing or routing fails, or it is
\* an event of a known tenant.
LEMMA RoutedItem ==
    ASSUME TypeOK, NEW r \in Runs, pos[r] <= Len(feed[r]),
           Current(r) # Malformed, TenantOf(Current(r)) \in Tenants
    PROVE  /\ pos[r] \in 1..Len(feed[r])
           /\ Current(r) \in ProviderEvents
<1>1. feed[r] \in Seq(FeedItems) /\ pos[r] \in Nat \ {0}
  BY DEF TypeOK
<1>2. pos[r] \in 1..Len(feed[r])
  BY <1>1
<1>3. Current(r) \in FeedItems
  BY <1>1, <1>2 DEF Current
<1> QED
  BY <1>2, <1>3 DEF FeedItems

\* Leaving an item, counted as failed or as processed, keeps the first layer.
LEMMA LeaveItemTyped ==
    ASSUME Typed, NEW r \in Runs, pc[r] \in AtAnItem \cup {"next"},
           Failed(r) \/ (pc[r] \in AtAnItem /\ Processed(r)),
           UNCHANGED feed
    PROVE  /\ pc' \in [Runs -> {"idle"} \cup InFlight \cup Finished]
           /\ pos' \in [Runs -> Nat \ {0}]
           /\ processed' \in [Runs -> Seq(EventIds)]
           /\ failures' \in [Runs -> Nat]
           /\ ItemIsRouted'
<1>1. CASE Failed(r)
  <2>1. /\ pc' \in [Runs -> {"idle"} \cup InFlight \cup Finished]
        /\ pos' \in [Runs -> Nat \ {0}]
        /\ processed' \in [Runs -> Seq(EventIds)]
        /\ failures' \in [Runs -> Nat]
    <3>1. /\ pos[r] + 1 \in Nat \ {0} /\ failures[r] + 1 \in Nat
          /\ "next" \in InFlight
      BY DEF Typed, TypeOK, InFlight
    <3>2. /\ pc' = [pc EXCEPT ![r] = "next"]
          /\ pos' = [pos EXCEPT ![r] = pos[r] + 1]
          /\ failures' = [failures EXCEPT ![r] = failures[r] + 1]
          /\ processed' = processed
      BY <1>1 DEF Failed
    <3> QED
      BY <3>1, <3>2 DEF Typed, TypeOK
  <2>2. \A q \in Runs : pc'[q] \in AtAnItem => pc'[q] = pc[q] /\ pos'[q] = pos[q]
    BY <1>1 DEF Typed, TypeOK, Failed, AtAnItem
  <2>3. ItemIsRouted'
    BY <2>2 DEF Typed, ItemIsRouted, Current
  <2> QED
    BY <2>1, <2>3
<1>2. CASE pc[r] \in AtAnItem /\ Processed(r)
  <2>1. Current(r).event_id \in EventIds
    BY <1>2, RowTypes DEF Typed, ItemIsRouted
  <2>2. processed' \in [Runs -> Seq(EventIds)]
    BY <1>2, <2>1 DEF Typed, TypeOK, Processed
  <2>3. /\ pc' \in [Runs -> {"idle"} \cup InFlight \cup Finished]
        /\ pos' \in [Runs -> Nat \ {0}]
        /\ failures' \in [Runs -> Nat]
    <3>1. pos[r] + 1 \in Nat \ {0} /\ "next" \in InFlight
      BY DEF Typed, TypeOK, InFlight
    <3>2. /\ pc' = [pc EXCEPT ![r] = "next"]
          /\ pos' = [pos EXCEPT ![r] = pos[r] + 1]
          /\ failures' = failures
      BY <1>2 DEF Processed
    <3> QED
      BY <3>1, <3>2 DEF Typed, TypeOK
  <2>4. ItemIsRouted'
    BY <1>2
       DEF Typed, TypeOK, ItemIsRouted, Processed, Current, AtAnItem, InFlight
  <2> QED
    BY <2>2, <2>3, <2>4
<1> QED
  BY <1>1, <1>2

\* So does going on with the same item, or leaving the feed.
LEMMA GoToTyped ==
    ASSUME Typed, NEW r \in Runs, NEW label \in AtAnItem \cup Finished,
           GoTo(r, label), UNCHANGED feed,
           label \in AtAnItem => /\ pos[r] \in 1..Len(feed[r])
                                 /\ Current(r) \in ProviderEvents
                                 /\ TenantOf(Current(r)) \in Tenants
    PROVE  /\ pc' \in [Runs -> {"idle"} \cup InFlight \cup Finished]
           /\ pos' \in [Runs -> Nat \ {0}]
           /\ processed' \in [Runs -> Seq(EventIds)]
           /\ failures' \in [Runs -> Nat]
           /\ ItemIsRouted'
BY DEF Typed, TypeOK, ItemIsRouted, GoTo, Current, AtAnItem, InFlight, Finished

\* Every step keeps the types.
LEMMA NextTyped == Typed /\ [Next]_vars => Typed'
<1> SUFFICES ASSUME Typed, [Next]_vars PROVE Typed'
  OBVIOUS
<1> USE DEF database, history
<1>1. ASSUME NEW r \in Runs, Start(r) PROVE Typed'
  <2>1. feed' \in [Runs -> Seq(FeedItems)]
    BY <1>1, FeedAssumption DEF Start, Typed, TypeOK
  <2>2. ItemIsRouted'
    BY <1>1 DEF Start, Typed, TypeOK, ItemIsRouted, AtAnItem, Current
  <2> QED
    BY <1>1, <2>1, <2>2 DEF Start, Typed, TypeOK, InFlight
<1>2. ASSUME NEW r \in Runs, Route(r) PROVE Typed'
  <2>1. CASE Failed(r)
    <3>1. pc[r] \in AtAnItem \cup {"next"} /\ UNCHANGED feed
      BY <1>2 DEF Route
    <3> QED
      BY <1>2, <2>1, <3>1, LeaveItemTyped DEF Route, Typed, TypeOK
  <2>2. CASE /\ Current(r) # Malformed /\ TenantOf(Current(r)) \in Tenants
             /\ GoTo(r, "check")
    <3>1. /\ pos[r] \in 1..Len(feed[r]) /\ Current(r) \in ProviderEvents
          /\ TenantOf(Current(r)) \in Tenants
      BY <1>2, <2>2, RoutedItem DEF Route, Typed
    <3>2. "check" \in AtAnItem \cup Finished /\ UNCHANGED feed
      BY <1>2 DEF Route, AtAnItem
    <3> QED
      BY <1>2, <2>2, <3>1, <3>2, GoToTyped DEF Route, Typed, TypeOK
  <2> QED
    BY <1>2, <2>1, <2>2 DEF Route
<1> DEFINE AtEvent(r) == /\ pos[r] \in 1..Len(feed[r])
                         /\ Current(r) \in ProviderEvents
                         /\ TenantOf(Current(r)) \in Tenants
<1>3. ASSUME NEW r \in Runs, CheckDuplicate(r) PROVE Typed'
  <2>1. pc[r] \in AtAnItem /\ UNCHANGED feed /\ AtEvent(r)
    BY <1>3 DEF CheckDuplicate, AtAnItem, Typed, ItemIsRouted
  <2>2. seen' \in [Runs -> Nat]
    BY <1>3 DEF CheckDuplicate, Typed, TypeOK
  <2>3. \/ Failed(r) \/ GoTo(r, "read") \/ GoTo(r, "record")
    BY <1>3 DEF CheckDuplicate, DuplicateFound
  <2>4. "read" \in AtAnItem \cup Finished /\ "record" \in AtAnItem \cup Finished
    BY DEF AtAnItem
  <2> HIDE DEF AtEvent
  <2>5. /\ pc' \in [Runs -> {"idle"} \cup InFlight \cup Finished]
        /\ pos' \in [Runs -> Nat \ {0}]
        /\ processed' \in [Runs -> Seq(EventIds)]
        /\ failures' \in [Runs -> Nat]
        /\ ItemIsRouted'
    BY <2>1, <2>3, <2>4, LeaveItemTyped, GoToTyped DEF AtEvent
  <2> QED
    BY <1>3, <2>2, <2>5 DEF CheckDuplicate, Typed, TypeOK
<1>4. ASSUME NEW r \in Runs, Record(r) PROVE Typed'
  <2>1. pc[r] \in AtAnItem /\ UNCHANGED feed /\ AtEvent(r)
    BY <1>4 DEF Record, AtAnItem, Typed, ItemIsRouted
  <2>2. /\ EventRow(Current(r)) \in LifecycleRows
        /\ AuditRow(Current(r)) \in LifecycleAuditRows
    BY <2>1, RowTypes
  <2>3. /\ lifecycleEvents' \in Seq(LifecycleRows)
        /\ lifecycleAudit' \in Seq(LifecycleAuditRows)
        /\ horizon' \in Seq(Nat)
    BY <1>4, <2>2
       DEF Record, Typed, TypeOK, LifecycleRows, LifecycleAuditRows,
           LifecycleChanges
  <2>4. Failed(r) \/ GoTo(r, "read")
    BY <1>4 DEF Record
  <2>5. "read" \in AtAnItem \cup Finished
    BY DEF AtAnItem
  <2> HIDE DEF AtEvent
  <2>6. /\ pc' \in [Runs -> {"idle"} \cup InFlight \cup Finished]
        /\ pos' \in [Runs -> Nat \ {0}]
        /\ processed' \in [Runs -> Seq(EventIds)]
        /\ failures' \in [Runs -> Nat]
        /\ ItemIsRouted'
    BY <2>1, <2>4, <2>5, LeaveItemTyped, GoToTyped DEF AtEvent
  <2> QED
    BY <1>4, <2>3, <2>6
       DEF Record, Typed, TypeOK, LifecycleRows, LifecycleAuditRows,
           LifecycleChanges
<1>5. ASSUME NEW r \in Runs, ReadTicket(r) PROVE Typed'
  <2>1. pc[r] \in AtAnItem /\ UNCHANGED feed /\ AtEvent(r)
    BY <1>5 DEF ReadTicket, AtAnItem, Typed, ItemIsRouted
  <2>2. snapshot' \in [Runs -> TicketRows]
    BY <1>5, <2>1, RowTypes DEF ReadTicket, Typed, TypeOK
  <2>3. "write" \in AtAnItem \cup Finished /\ GoTo(r, "write")
    BY <1>5 DEF ReadTicket, AtAnItem
  <2> QED
    BY <1>5, <2>1, <2>2, <2>3, GoToTyped DEF ReadTicket, Typed, TypeOK
<1>6. ASSUME NEW r \in Runs, WriteTicket(r) PROVE Typed'
  <2>1. pc[r] \in AtAnItem /\ UNCHANGED feed /\ AtEvent(r)
    BY <1>6 DEF WriteTicket, AtAnItem, Typed, ItemIsRouted
  <2>2. UpdatedTicket(r) \in TicketRows
    BY <2>1, ChangedTicketType DEF UpdatedTicket, Typed, TypeOK
  <2>3. tickets' \in [TicketIds -> TicketRows]
    BY <1>6, <2>1, <2>2, RowTypes DEF WriteTicket, Typed, TypeOK
  <2>4. applied' \subseteq Runs \X (Nat \ {0})
    BY <1>6 DEF WriteTicket, Typed, TypeOK
  <2>5. Failed(r) \/ Processed(r)
    BY <1>6 DEF WriteTicket
  <2>6. /\ pc' \in [Runs -> {"idle"} \cup InFlight \cup Finished]
        /\ pos' \in [Runs -> Nat \ {0}]
        /\ processed' \in [Runs -> Seq(EventIds)]
        /\ failures' \in [Runs -> Nat]
        /\ ItemIsRouted'
    BY <2>1, <2>5, LeaveItemTyped
  <2> QED
    BY <1>6, <2>3, <2>4, <2>6 DEF WriteTicket, Typed, TypeOK
<1>7. ASSUME NEW r \in Runs, TransactionFails(r) PROVE Typed'
  <2>1. pc[r] \in AtAnItem /\ UNCHANGED feed /\ Failed(r)
    BY <1>7 DEF TransactionFails, AtAnItem
  <2> QED
    BY <1>7, <2>1, LeaveItemTyped DEF TransactionFails, Typed, TypeOK
<1>8. ASSUME NEW r \in Runs, Return(r) \/ Abort(r) \/ Crash(r) PROVE Typed'
  <2>1. PICK label \in Finished : GoTo(r, label)
    BY <1>8 DEF Return, Abort, Crash, Finished
  <2>2. label \in AtAnItem \cup Finished /\ label \notin AtAnItem
    BY <2>1 DEF AtAnItem, Finished
  <2>3. UNCHANGED feed
    BY <1>8 DEF Return, Abort, Crash
  <2> QED
    BY <1>8, <2>1, <2>2, <2>3, GoToTyped DEF Return, Abort, Crash, Typed, TypeOK
<1>9. CASE Tick
  BY <1>9, FeedAssumption DEF Tick, Typed, TypeOK, ItemIsRouted, Current
<1>10. CASE UNCHANGED vars
  BY <1>10 DEF vars, Typed, TypeOK, ItemIsRouted, Current
<1> QED
  BY <1>1, <1>2, <1>3, <1>4, <1>5, <1>6, <1>7, <1>8, <1>9, <1>10
     DEF Next, Step

\* The tables, the feeds and the runs keep their types, and a run inside
\* applyEvent is always at a parsed event of a known tenant.
THEOREM SpecTyped == Spec => []Typed
BY InitTyped, NextTyped, PTL DEF Spec

\* TypeOK holds in every reachable state.
THEOREM TypeCorrect == Spec => []TypeOK
<1>1. Typed => TypeOK
  BY DEF Typed
<1> QED
  BY <1>1, SpecTyped, PTL
-----------------------------------------------------------------------------
\* Second layer: what is recorded before what is written.

\* The ticket of an item past the first SELECT is one of its own tenant.
ItemIsFound ==
    \A r \in Runs : pc[r] \in {"record", "read", "write"} =>
        TicketFound(Current(r))

\* An item that has left the first transaction is on record.
ItemIsRecorded ==
    \A r \in Runs : pc[r] \in {"read", "write"} => OnRecord(Current(r))

\* Every write committed so far was one of a found and recorded event.
WritesAreRecorded ==
    \A w \in applied : /\ pc[w[1]] # "idle"
                       /\ w[2] \in 1..Len(feed[w[1]])
                       /\ feed[w[1]][w[2]] \in ProviderEvents
                       /\ TicketFound(feed[w[1]][w[2]])
                       /\ OnRecord(feed[w[1]][w[2]])

RowsAreOwn ==
    \A i \in DOMAIN lifecycleEvents :
        TicketTenant[lifecycleEvents[i].ticket_id] = lifecycleEvents[i].tenant_id

Recorded == ItemIsFound /\ ItemIsRecorded /\ WritesAreRecorded /\ RowsAreOwn

\* The duplicate check finds an event exactly when its content is on record.
LEMMA CheckFindsContent ==
    ASSUME NEW e PROVE IsRecorded(e) <=> OnRecord(e)
BY DEF IsRecorded, OnRecord, SameContent, Content, EventRow

\* What the INSERT adds is the event's content, and takes nothing away.
LEMMA RecordAdds ==
    ASSUME Typed, NEW r \in Runs, Record(r)
    PROVE  \A e : e = Current(r) \/ OnRecord(e) => OnRecord(e)'
<1> DEFINE row == EventRow(Current(r))
<1>1. /\ lifecycleEvents \in Seq(LifecycleRows)
      /\ row \in LifecycleRows
      /\ lifecycleEvents' = Append(lifecycleEvents, row)
  BY RowTypes
     DEF Record, Typed, TypeOK, ItemIsRouted, AtAnItem, LifecycleRows,
         LifecycleChanges
<1> HIDE DEF row
<1>2. /\ DOMAIN lifecycleEvents = 1..Len(lifecycleEvents)
      /\ DOMAIN lifecycleEvents' = 1..(Len(lifecycleEvents) + 1)
      /\ \A i \in DOMAIN lifecycleEvents : lifecycleEvents'[i] = lifecycleEvents[i]
      /\ lifecycleEvents'[Len(lifecycleEvents) + 1] = row
  BY <1>1
<1>3. ASSUME NEW e, OnRecord(e) PROVE OnRecord(e)'
  BY <1>1, <1>2, <1>3 DEF OnRecord
<1>4. ASSUME NEW e, e = Current(r) PROVE OnRecord(e)'
  <2>1. Content(lifecycleEvents'[Len(lifecycleEvents) + 1])
            = Content(EventRow(e))
    BY <1>2, <1>4 DEF row
  <2>2. Len(lifecycleEvents) + 1 \in DOMAIN lifecycleEvents'
    BY <1>1, <1>2
  <2> QED
    BY <2>1, <2>2 DEF OnRecord
<1> QED
  BY <1>3, <1>4

\* Nothing is on record and nothing is written at the start.
LEMMA InitRecorded == Init => Recorded
BY DEF Init, Recorded, ItemIsFound, ItemIsRecorded, WritesAreRecorded, RowsAreOwn

\* A step that leaves the feeds and the tables of events and writes as they
\* are keeps the layer, provided it takes a run past the first transaction
\* only with a ticket found and its event on record.
LEMMA QuietRecorded ==
    ASSUME Typed, Recorded, NEW r \in Runs,
           UNCHANGED <<lifecycleEvents, applied, feed>>,
           \/ Failed(r)
           \/ \E label \in AtAnItem \cup Finished :
                 /\ GoTo(r, label)
                 /\ label \in {"record", "read", "write"} =>
                       TicketFound(Current(r))
                 /\ label \in {"read", "write"} => OnRecord(Current(r)),
           pc[r] # "idle"
    PROVE  Recorded'
<1>1. /\ pc' = [pc EXCEPT ![r] = pc'[r]] /\ pc'[r] # "idle"
      /\ pc'[r] \in AtAnItem => pos' = pos
      /\ pc'[r] \in {"record", "read", "write"} => TicketFound(Current(r))
      /\ pc'[r] \in {"read", "write"} => OnRecord(Current(r))
      /\ \A q \in Runs \ {r} : pos'[q] = pos[q]
  BY DEF Typed, TypeOK, Failed, GoTo, AtAnItem, Finished
<1>2. \A q \in Runs : pc'[q] \in AtAnItem => Current(q)' = Current(q)
  BY <1>1 DEF Current, Typed, TypeOK
<1>3. \A e : OnRecord(e)' <=> OnRecord(e)
  BY DEF OnRecord
<1>4. ItemIsFound'
  BY <1>1, <1>2 DEF ItemIsFound, Recorded, AtAnItem, Typed, TypeOK
<1>5. ItemIsRecorded'
  BY <1>1, <1>2, <1>3 DEF ItemIsRecorded, Recorded, AtAnItem, Typed, TypeOK
<1>6. WritesAreRecorded'
  BY <1>1, <1>3 DEF WritesAreRecorded, Recorded, Typed, TypeOK
<1>7. RowsAreOwn'
  BY DEF RowsAreOwn, Recorded
<1> QED
  BY <1>4, <1>5, <1>6, <1>7 DEF Recorded

\* Every step keeps the second layer.
LEMMA NextRecorded == Typed /\ Recorded /\ [Next]_vars => Recorded'
<1> SUFFICES ASSUME Typed, Recorded, [Next]_vars PROVE Recorded'
  OBVIOUS
<1> USE DEF database, history
<1>1. ASSUME NEW r \in Runs, Start(r) PROVE Recorded'
  <2>1. /\ UNCHANGED <<lifecycleEvents, applied, pos>>
        /\ pc[r] = "idle" /\ pc'[r] = "next"
        /\ \A q \in Runs \ {r} : pc'[q] = pc[q] /\ feed'[q] = feed[q]
    BY <1>1 DEF Start, Typed, TypeOK
  <2>2. \A e : OnRecord(e)' <=> OnRecord(e)
    BY <2>1 DEF OnRecord
  <2>3. ItemIsFound' /\ ItemIsRecorded'
    BY <2>1, <2>2 DEF Recorded, ItemIsFound, ItemIsRecorded, Current
  <2>4. ASSUME NEW w \in applied
        PROVE  pc'[w[1]] # "idle" /\ feed'[w[1]] = feed[w[1]]
    <3>1. w[1] \in Runs /\ pc[w[1]] # "idle"
      BY <2>4 DEF Typed, TypeOK, Recorded, WritesAreRecorded
    <3> QED
      BY <2>1, <3>1
  <2>5. WritesAreRecorded'
    BY <2>1, <2>2, <2>4 DEF Recorded, WritesAreRecorded
  <2>6. RowsAreOwn'
    BY <2>1 DEF Recorded, RowsAreOwn
  <2> QED
    BY <2>3, <2>5, <2>6 DEF Recorded
<1>2. ASSUME NEW r \in Runs, Route(r) PROVE Recorded'
  <2>1. Failed(r) \/ GoTo(r, "check")
    BY <1>2 DEF Route
  <2>2. "check" \in AtAnItem \cup Finished
    BY DEF AtAnItem
  <2> QED
    BY <1>2, <2>1, <2>2, QuietRecorded DEF Route
<1>3. ASSUME NEW r \in Runs, CheckDuplicate(r) PROVE Recorded'
  <2>1. \/ Failed(r)
        \/ TicketFound(Current(r)) /\ OnRecord(Current(r)) /\ GoTo(r, "read")
        \/ TicketFound(Current(r)) /\ GoTo(r, "record")
    BY <1>3, CheckFindsContent DEF CheckDuplicate, DuplicateFound
  <2>2. "read" \in AtAnItem \cup Finished /\ "record" \in AtAnItem \cup Finished
    BY DEF AtAnItem
  <2> QED
    BY <1>3, <2>1, <2>2, QuietRecorded DEF CheckDuplicate
<1>4. ASSUME NEW r \in Runs, Record(r) PROVE Recorded'
  <2>1. /\ TicketFound(Current(r))
        /\ Current(r) \in ProviderEvents /\ TenantOf(Current(r)) \in Tenants
    BY <1>4 DEF Record, Recorded, ItemIsFound, Typed, ItemIsRouted, AtAnItem
  <2>2. \A e : e = Current(r) \/ OnRecord(e) => OnRecord(e)'
    BY <1>4, RecordAdds
  <2>3. Failed(r) \/ GoTo(r, "read")
    BY <1>4 DEF Record
  <2>4. /\ pc' = [pc EXCEPT ![r] = pc'[r]] /\ pc'[r] \in {"next", "read"}
        /\ pc'[r] = "read" => pos' = pos
        /\ \A q \in Runs \ {r} : pos'[q] = pos[q]
        /\ UNCHANGED <<feed, applied>>
    BY <1>4, <2>3 DEF Record, Typed, TypeOK, Failed, GoTo
  <2>5. \A q \in Runs : pc'[q] \in AtAnItem => Current(q)' = Current(q)
    BY <2>4 DEF Current, Typed, TypeOK, AtAnItem
  <2>6. ItemIsFound'
    BY <2>1, <2>4, <2>5 DEF ItemIsFound, Recorded, AtAnItem, Typed, TypeOK
  <2>7. ItemIsRecorded'
    BY <2>2, <2>4, <2>5 DEF ItemIsRecorded, Recorded, AtAnItem, Typed, TypeOK
  <2>8. WritesAreRecorded'
    BY <2>2, <2>4 DEF WritesAreRecorded, Recorded, Typed, TypeOK
  <2>9. RowsAreOwn'
    <3>1. /\ lifecycleEvents \in Seq(LifecycleRows)
          /\ EventRow(Current(r)) \in LifecycleRows
          /\ lifecycleEvents' = Append(lifecycleEvents, EventRow(Current(r)))
      BY <1>4, <2>1, RowTypes
         DEF Record, Typed, TypeOK, LifecycleRows, LifecycleChanges
    <3>2. TicketTenant[EventRow(Current(r)).ticket_id]
              = EventRow(Current(r)).tenant_id
      BY <2>1 DEF TicketFound, EventRow
    <3> QED
      BY <3>1, <3>2 DEF Recorded, RowsAreOwn
  <2> QED
    BY <2>6, <2>7, <2>8, <2>9 DEF Recorded
<1>5. ASSUME NEW r \in Runs, ReadTicket(r) PROVE Recorded'
  <2>1. /\ TicketFound(Current(r)) /\ OnRecord(Current(r))
        /\ GoTo(r, "write") /\ "write" \in AtAnItem \cup Finished
    BY <1>5 DEF ReadTicket, Recorded, ItemIsFound, ItemIsRecorded, AtAnItem
  <2> QED
    BY <1>5, <2>1, QuietRecorded DEF ReadTicket
<1>6. ASSUME NEW r \in Runs, WriteTicket(r) PROVE Recorded'
  <2>1. /\ TicketFound(Current(r)) /\ OnRecord(Current(r))
        /\ pos[r] \in 1..Len(feed[r]) /\ Current(r) \in ProviderEvents
    BY <1>6 DEF WriteTicket, Recorded, ItemIsFound, ItemIsRecorded, Typed,
                ItemIsRouted, AtAnItem
  <2>2. Failed(r) \/ Processed(r)
    BY <1>6 DEF WriteTicket
  <2>3. /\ pc' = [pc EXCEPT ![r] = "next"]
        /\ \A q \in Runs \ {r} : pos'[q] = pos[q]
        /\ UNCHANGED <<feed, lifecycleEvents>>
    BY <1>6, <2>2 DEF WriteTicket, Typed, TypeOK, Failed, Processed
  <2>4. \A q \in Runs : pc'[q] \in AtAnItem => Current(q)' = Current(q)
    BY <2>3 DEF Current, Typed, TypeOK, AtAnItem
  <2>5. \A e : OnRecord(e)' <=> OnRecord(e)
    BY <2>3 DEF OnRecord
  <2>6. ItemIsFound'
    BY <2>3, <2>4 DEF ItemIsFound, Recorded, AtAnItem, Typed, TypeOK
  <2>7. ItemIsRecorded'
    BY <2>3, <2>4, <2>5 DEF ItemIsRecorded, Recorded, AtAnItem, Typed, TypeOK
  <2>8. ASSUME NEW w \in applied'
        PROVE  (/\ pc[w[1]] # "idle"
                /\ w[2] \in 1..Len(feed[w[1]])
                /\ feed[w[1]][w[2]] \in ProviderEvents
                /\ TicketFound(feed[w[1]][w[2]])
                /\ OnRecord(feed[w[1]][w[2]]))'
    <3>1. w \in applied \/ w = <<r, pos[r]>>
      BY <1>6 DEF WriteTicket
    <3>2. CASE w = <<r, pos[r]>>
      <4>1. w[1] = r /\ w[2] = pos[r]
        BY <3>2
      <4>2. /\ feed'[w[1]][w[2]] = Current(r) /\ feed' = feed
            /\ pc'[w[1]] = "next"
        BY <2>3, <4>1 DEF Current, Typed, TypeOK
      <4>3. OnRecord(feed[w[1]][w[2]])'
        BY <2>1, <2>5, <4>2
      <4> QED
        BY <2>1, <4>1, <4>2, <4>3
    <3>3. CASE w \in applied
      <4>1. OnRecord(feed[w[1]][w[2]])'
        BY <2>3, <2>5, <3>3 DEF Recorded, WritesAreRecorded
      <4>2. pc'[w[1]] # "idle"
        BY <2>3, <3>3 DEF Recorded, WritesAreRecorded, Typed, TypeOK
      <4> QED
        BY <2>3, <3>3, <4>1, <4>2 DEF Recorded, WritesAreRecorded
    <3> QED
      BY <3>1, <3>2, <3>3
  <2>9. WritesAreRecorded'
    BY <2>8 DEF WritesAreRecorded
  <2>10. RowsAreOwn'
    BY <2>3 DEF RowsAreOwn, Recorded
  <2> QED
    BY <2>6, <2>7, <2>9, <2>10 DEF Recorded
<1>7. ASSUME NEW r \in Runs, TransactionFails(r) PROVE Recorded'
  BY <1>7, QuietRecorded DEF TransactionFails
<1>8. ASSUME NEW r \in Runs, Return(r) \/ Abort(r) \/ Crash(r) PROVE Recorded'
  <2>1. PICK label \in Finished : GoTo(r, label)
    BY <1>8 DEF Return, Abort, Crash, Finished
  <2>2. /\ label \in AtAnItem \cup Finished
        /\ label \notin {"record", "read", "write"}
    BY <2>1 DEF AtAnItem, Finished
  <2>3. UNCHANGED <<lifecycleEvents, applied, feed>> /\ pc[r] # "idle"
    BY <1>8 DEF Return, Abort, Crash, InFlight
  <2> QED
    BY <2>1, <2>2, <2>3, QuietRecorded
<1>9. CASE Tick
  BY <1>9 DEF Tick, Recorded, ItemIsFound, ItemIsRecorded, WritesAreRecorded,
              RowsAreOwn, OnRecord, Current
<1>10. CASE UNCHANGED vars
  BY <1>10 DEF vars, Recorded, ItemIsFound, ItemIsRecorded, WritesAreRecorded,
               RowsAreOwn, OnRecord, Current
<1> QED
  BY <1>1, <1>2, <1>3, <1>4, <1>5, <1>6, <1>7, <1>8, <1>9, <1>10
     DEF Next, Step

\* Both layers hold in every reachable state: a run past the duplicate check is
\* at an event of a ticket of its tenant, and one that reads or writes the
\* ticket is at an event that is on record.
THEOREM SpecRecorded == Spec => [](Typed /\ Recorded)
<1>1. Init => Typed /\ Recorded
  BY InitTyped, InitRecorded
<1>2. (Typed /\ Recorded) /\ [Next]_vars => (Typed /\ Recorded)'
  BY NextTyped, NextRecorded
<1> QED
  BY <1>1, <1>2, PTL DEF Spec

\* Whatever interleaves, fails or crashes, a ticket is written only for an
\* event that was put on record before.
THEOREM WriteAhead == Spec => []AppliedWasRecorded
<1>1. Recorded => AppliedWasRecorded
  BY DEF Recorded, WritesAreRecorded, AppliedWasRecorded
<1> QED
  BY <1>1, SpecRecorded, PTL

\* No event reaches a ticket of another tenant than the one its slug names.
THEOREM Isolation == Spec => []TenantIsolation
<1>1. Recorded => TenantIsolation
  BY DEF Recorded, WritesAreRecorded, RowsAreOwn, TicketFound, TenantIsolation
<1> QED
  BY <1>1, SpecRecorded, PTL
=============================================================================
