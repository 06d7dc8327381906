------------------------ MODULE TicketWritersProofs ------------------------
(***************************************************************************)
(* Proofs about TicketWriters: what stays true of a ticket when events,    *)
(* PATCH requests and SLA sweeps write it at the same time, for any number *)
(* of each.  The layers of LifecycleIngestionProofs are taken over: PATCH  *)
(* and the sweep change nothing of the ingestion but the tickets.          *)
(***************************************************************************)
EXTENDS TicketWriters, LifecycleGuaranteesProofs

PatchesTyped ==
    /\ patch \in [Patches -> PatchStates]
    /\ sweep \in [Sweepers -> [now : Nat, left : SUBSET Tenants]]
    /\ audited \in [AuditActions \X TicketIds -> Nat]

\* A run is past every item whose write is committed.
WritesAreBehind == \A w \in applied : w[2] < pos[w[1]]

\* The due time agrees with the priority in the tickets and in whatever a run
\* or a request has read of them.
DueAgrees ==
    /\ SlaDueAgrees
    /\ \A r \in Runs : pc[r] = "write" =>
          DueMatchesPriority(snapshot[r], CreatedAt[Current(r).ticket_id])
    /\ \A p \in Patches : patch[p].pc = "write" =>
          DueMatchesPriority(patch[p].read, CreatedAt[patch[p].ticket])

\* A request that is about to write has found its move legal.
MoveIsChecked ==
    \A p \in Patches : patch[p].pc = "write" =>
        CanTransition(patch[p].read.status,
                      NextStatus(patch[p].input, patch[p].read))

Base == Typed /\ Recorded /\ PatchesTyped

Inv == Base /\ WritesAreBehind /\ DueAgrees /\ MoveIsChecked /\ FlagMatchesAudit

-----------------------------------------------------------------------------
\* What the operators return.

\* The row a request reads, and what it asks for.
LEMMA PatchAtWrite ==
    ASSUME Base, NEW p \in Patches, patch[p].pc = "write"
    PROVE  /\ patch[p].ticket \in TicketIds /\ patch[p].read \in TicketRows
           /\ patch[p].now \in Nat /\ patch[p].input \in PatchInputs
           /\ patch[p].input.status \in TicketStatuses \cup {Unchanged}
           /\ patch[p].input.priority \in TicketPriorities \cup {Unchanged}
<1>1. patch[p] \in PatchStates
  BY DEF Base, PatchesTyped
<1>2. patch[p] \in
        [pc : {"write", "rejected", "done", "failed"}, ticket : TicketIds,
         input : PatchInputs, now : Nat, read : TicketRows]
  BY <1>1 DEF PatchStates
<1>3. patch[p].input \in PatchInputs
  BY <1>2
<1> QED
  BY <1>2, <1>3, PatchAssumption

\* The row that a PATCH writes: typed, due when its priority says so, moved to
\* the status asked for, and flagged as the ticket is.
LEMMA PatchedRow ==
    ASSUME Base, NEW p \in Patches, patch[p].pc = "write",
           DueMatchesPriority(patch[p].read, CreatedAt[patch[p].ticket])
    PROVE  /\ PatchedTicket(p) \in TicketRows
           /\ DueMatchesPriority(PatchedTicket(p), CreatedAt[patch[p].ticket])
           /\ PatchedTicket(p).status
                 = NextStatus(patch[p].input, patch[p].read)
           /\ PatchedTicket(p).sla_breached
                 = tickets[patch[p].ticket].sla_breached
<1> DEFINE current == patch[p].read
           status == NextStatus(patch[p].input, current)
           priority == NextPriority(patch[p].input, current)
           created == CreatedAt[patch[p].ticket]
           derived == DeriveStatusChange(current, created, status, priority,
                                         patch[p].now)
           row == PatchedTicket(p)
<1>1. /\ current \in TicketRows /\ created \in Nat /\ patch[p].now \in Nat
      /\ status \in TicketStatuses /\ priority \in TicketPriorities
  BY PatchAtWrite, TicketAssumption DEF NextStatus, NextPriority, TicketRows
<1>2. SlaDueAt(priority, created) \in Nat
  BY <1>1, SlaDueAtType
<1>3. tickets[patch[p].ticket].sla_breached \in BOOLEAN
  <2>1. tickets[patch[p].ticket] \in TicketRows
    BY PatchAtWrite DEF Base, Typed, TypeOK
  <2> QED
    BY <2>1 DEF TicketRows
<1>4. /\ row.status = status /\ row.priority = priority
      /\ row.sla_breached = tickets[patch[p].ticket].sla_breached
      /\ row.sla_due_at = IF status # current.status THEN derived.sla_due_at
                          ELSE IF priority = current.priority
                          THEN current.sla_due_at
                          ELSE SlaDueAt(priority, created)
      /\ DOMAIN row = {"status", "priority", "sla_due_at", "sla_breached"}
  BY DEF PatchedTicket
<1>5. status # current.status => derived.sla_due_at =
          IF IsSlaRunning(status) THEN SlaDueAt(priority, created) ELSE NoDueTime
  BY DEF DeriveStatusChange
<1>6. current.sla_due_at \in SlaDueTimes
  BY <1>1 DEF TicketRows
<1>7. row.sla_due_at \in SlaDueTimes
  <2> HIDE DEF status, priority, derived, row, created, current
  <2> QED
    BY <1>2, <1>4, <1>5, <1>6 DEF SlaDueTimes
<1>8. row \in TicketRows
  <2>1. row = [status |-> status, priority |-> priority,
               sla_due_at |-> row.sla_due_at,
               sla_breached |-> tickets[patch[p].ticket].sla_breached]
    BY DEF PatchedTicket
  <2> HIDE DEF status, priority, row
  <2> QED
    BY <1>1, <1>3, <1>7, <2>1 DEF TicketRows
<1>9. DueMatchesPriority(row, created)
  <2>1. DueMatchesPriority(current, created)
    OBVIOUS
  <2> HIDE DEF status, priority, derived, row, created, current
  <2> QED
    BY <1>4, <1>5, <2>1 DEF DueMatchesPriority
<1> QED
  BY <1>4, <1>8, <1>9

\* What an event makes of a row that is due when its priority says so.
LEMMA ChangedIsDue ==
    ASSUME NEW row \in TicketRows, NEW e \in ProviderEvents, NEW at \in Nat,
           DueMatchesPriority(row, CreatedAt[e.ticket_id])
    PROVE  DueMatchesPriority(ChangedTicket(row, e, at), CreatedAt[e.ticket_id])
<1>1. e.event \in StatusChanges \/ e.event \in PriorityChanges
  BY DEF ProviderEvents
<1>2. CASE e.event \in StatusChanges
  <2>1. e.event.kind = "status_changed"
    BY <1>2 DEF StatusChanges
  <2> QED
    BY <2>1 DEF ChangedTicket, DeriveStatusChange, DueMatchesPriority, TicketRows
<1>3. CASE e.event \in PriorityChanges
  <2>1. e.event.kind # "status_changed"
    BY <1>3 DEF PriorityChanges
  <2> QED
    BY <2>1 DEF ChangedTicket, DueMatchesPriority, TicketRows
<1> QED
  BY <1>1, <1>2, <1>3

\* A writer other than the ingestion leaves it all but the tickets.
LEMMA IngestionFrame ==
    ASSUME Typed, Recorded, tickets' \in [TicketIds -> TicketRows],
           UNCHANGED <<lifecycleEvents, lifecycleAudit, clock, pc, feed, pos,
                       now, snapshot, processed, failures, history>>
    PROVE  Typed' /\ Recorded'
<1>1. Typed'
  BY DEF Typed, TypeOK, ItemIsRouted, Current, history
<1>2. Recorded'
  BY DEF Recorded, ItemIsFound, ItemIsRecorded, WritesAreRecorded, RowsAreOwn,
         OnRecord, Current, history
<1> QED
  BY <1>1, <1>2

-----------------------------------------------------------------------------

LEMMA InitInv == WritersInit => Inv
<1> SUFFICES ASSUME WritersInit PROVE Inv
  OBVIOUS
<1>1. Typed /\ Recorded
  BY InitTyped, InitRecorded DEF WritersInit
<1>2. PatchesTyped
  BY DEF WritersInit, PatchesTyped, PatchStates
<1>3. WritesAreBehind /\ MoveIsChecked
  BY DEF WritersInit, Init, WritesAreBehind, MoveIsChecked
<1>4. DueAgrees
  BY TicketAssumption
     DEF WritersInit, Init, DueAgrees, SlaDueAgrees, DueMatchesPriority,
         NewTicket, IsSlaRunning, ActiveStatuses
<1>5. FlagMatchesAudit
  BY DEF WritersInit, Init, FlagMatchesAudit, NewTicket, AuditActions
<1> QED
  BY <1>1, <1>2, <1>3, <1>4, <1>5 DEF Inv, Base

\* An event is applied to a ticket.
LEMMA WriteTicketInv ==
    ASSUME Inv, NEW r \in Runs, WriteTicket(r), UNCHANGED writerVars
    PROVE  Inv'
<1>1. Next
  BY DEF Next, Step
<1>2. Typed' /\ Recorded'
  BY <1>1, NextTyped, NextRecorded DEF Inv, Base
<1>3. PICK t, k : t = Current(r).ticket_id /\ k = pos[r]
  OBVIOUS
<1>4. /\ pc[r] = "write" /\ Current(r) \in ProviderEvents /\ t \in TicketIds
      /\ tickets' = [tickets EXCEPT ![t] = UpdatedTicket(r)]
      /\ applied' = applied \cup {<<r, k>>} /\ k \in Nat
      /\ UNCHANGED <<feed, snapshot>> /\ (Failed(r) \/ Processed(r))
  BY <1>3, RowTypes
     DEF WriteTicket, Inv, Base, Typed, TypeOK, ItemIsRouted, AtAnItem
<1>5. /\ pos' = [pos EXCEPT ![r] = k + 1]
      /\ pc' = [pc EXCEPT ![r] = "next"]
  BY <1>3, <1>4 DEF Failed, Processed
<1>6. WritesAreBehind'
  <2>1. pos \in [Runs -> Nat \ {0}] /\ applied \subseteq Runs \X (Nat \ {0})
    BY DEF Inv, Base, Typed, TypeOK
  <2>2. ASSUME NEW w \in applied PROVE w[2] < pos'[w[1]]
    <3>1. w[1] \in Runs /\ w[2] \in Nat /\ w[2] < pos[w[1]]
      BY <2>1 DEF Inv, WritesAreBehind
    <3> QED
      BY <1>3, <1>4, <1>5, <2>1, <3>1
  <2>3. k < pos'[r]
    BY <1>4, <1>5, <2>1
  <2> QED
    BY <1>4, <2>2, <2>3 DEF WritesAreBehind
<1>7. DueMatchesPriority(UpdatedTicket(r), CreatedAt[t])
  BY <1>3, <1>4, ChangedIsDue
     DEF UpdatedTicket, Inv, Base, DueAgrees, Typed, TypeOK
<1>8. DueAgrees'
  <2>1. SlaDueAgrees'
    BY <1>4, <1>7 DEF Inv, Base, DueAgrees, SlaDueAgrees, Typed, TypeOK
  <2>2. \A q \in Runs : pc'[q] = "write" =>
            /\ pc[q] = "write" /\ Current(q)' = Current(q)
            /\ snapshot'[q] = snapshot[q]
    BY <1>4, <1>5 DEF Current, Inv, Base, Typed, TypeOK
  <2> QED
    BY <2>1, <2>2 DEF Inv, DueAgrees, writerVars
<1>9. FlagMatchesAudit'
  <2> SUFFICES ASSUME NEW u \in TicketIds,
                      \A w \in applied' : feed'[w[1]][w[2]].ticket_id # u
               PROVE  (audited[<<"ticket.sla_breached", u>>] =
                         IF tickets[u].sla_breached THEN 1 ELSE 0)'
    BY DEF FlagMatchesAudit
  <2>1. u # t
    <3>1. <<r, k>> \in applied'
      BY <1>4
    <3>2. feed'[r][k].ticket_id # u
      BY <3>1
    <3> QED
      BY <1>3, <1>4, <3>2 DEF Current
  <2>2. \A w \in applied : feed[w[1]][w[2]].ticket_id # u
    BY <1>4
  <2>3. tickets'[u] = tickets[u] /\ audited' = audited
    BY <1>4, <2>1 DEF Inv, Base, Typed, TypeOK, writerVars
  <2> QED
    BY <2>2, <2>3 DEF Inv, FlagMatchesAudit
<1> QED
  BY <1>2, <1>6, <1>8, <1>9
     DEF Inv, Base, PatchesTyped, MoveIsChecked, writerVars

\* Any other step of the ingestion.
LEMMA IngestionInv ==
    ASSUME Inv, [Next]_vars, UNCHANGED writerVars,
           \A r \in Runs : ~WriteTicket(r)
    PROVE  Inv' /\ UNCHANGED <<tickets, applied>>
<1> USE DEF database, history
<1>1. Typed' /\ Recorded'
  BY NextTyped, NextRecorded DEF Inv, Base
<1>2. UNCHANGED <<tickets, applied>>
  BY DEF Next, Step, Start, Route, CheckDuplicate, Record, ReadTicket,
         TransactionFails, Return, Abort, Crash, Tick, vars
<1>3. ASSUME NEW r \in Runs, Start(r)
      PROVE  /\ \A w \in applied : feed'[w[1]] = feed[w[1]]
             /\ UNCHANGED <<pos, snapshot>>
             /\ \A q \in Runs : pc'[q] = "write" =>
                   pc[q] = "write" /\ Current(q)' = Current(q)
  <2>1. \A w \in applied : w[1] # r
    BY <1>3 DEF Start, Inv, Base, Recorded, WritesAreRecorded
  <2>2. \A q \in Runs \ {r} : feed'[q] = feed[q] /\ pc'[q] = pc[q]
    BY <1>3 DEF Start, Inv, Base, Typed, TypeOK
  <2>3. applied \subseteq Runs \X (Nat \ {0}) /\ pc'[r] = "next"
    BY <1>3 DEF Start, Inv, Base, Typed, TypeOK
  <2> QED
    BY <1>3, <2>1, <2>2, <2>3 DEF Start, Current
<1>4. ASSUME NEW r \in Runs,
             \/ Route(r) \/ CheckDuplicate(r) \/ Record(r)
             \/ TransactionFails(r) \/ Return(r) \/ Abort(r) \/ Crash(r)
      PROVE  /\ UNCHANGED <<feed, snapshot>>
             /\ \A q \in Runs : pos'[q] >= pos[q]
             /\ \A q \in Runs : pc'[q] = "write" =>
                   pc[q] = "write" /\ Current(q)' = Current(q)
  <2>1. UNCHANGED <<feed, snapshot>>
    BY <1>4 DEF Route, CheckDuplicate, Record, TransactionFails, Return,
                Abort, Crash
  <2>2. \/ Failed(r)
        \/ \E label \in {"check", "record", "read"} \cup Finished :
              GoTo(r, label)
    BY <1>4 DEF Route, CheckDuplicate, DuplicateFound, Record,
                TransactionFails, Return, Abort, Crash, Finished
  <2>3. pos \in [Runs -> Nat \ {0}]
    BY DEF Inv, Base, Typed, TypeOK
  <2>4. pc \in [Runs -> {"idle"} \cup InFlight \cup Finished]
    BY DEF Inv, Base, Typed, TypeOK
  <2> QED
    BY <2>1, <2>2, <2>3, <2>4 DEF Failed, GoTo, Finished, Current
<1>5. ASSUME NEW r \in Runs, ReadTicket(r) PROVE WritesAreBehind' /\ DueAgrees'
  <2>1. /\ Current(r).ticket_id \in TicketIds /\ UNCHANGED <<tickets, feed, pos>>
        /\ snapshot' = [snapshot EXCEPT ![r] = tickets[Current(r).ticket_id]]
        /\ \A q \in Runs \ {r} : pc'[q] = pc[q]
    BY <1>5, RowTypes
       DEF ReadTicket, GoTo, Inv, Base, Typed, TypeOK, ItemIsRouted, AtAnItem
  <2>2. \A q \in Runs : Current(q)' = Current(q)
    BY <2>1 DEF Current
  <2>3. DueMatchesPriority(tickets[Current(r).ticket_id],
                           CreatedAt[Current(r).ticket_id])
    BY <2>1 DEF Inv, DueAgrees, SlaDueAgrees
  <2>4. ASSUME NEW q \in Runs, pc'[q] = "write"
        PROVE  DueMatchesPriority(snapshot'[q], CreatedAt[Current(q)'.ticket_id])
    <3>1. snapshot \in [Runs -> TicketRows]
      BY DEF Inv, Base, Typed, TypeOK
    <3> QED
      BY <2>1, <2>2, <2>3, <2>4, <3>1 DEF Inv, DueAgrees
  <2>5. WritesAreBehind'
    BY <1>2, <2>1 DEF Inv, WritesAreBehind
  <2>6. SlaDueAgrees'
    BY <2>1 DEF Inv, DueAgrees, SlaDueAgrees
  <2> QED
    BY <2>4, <2>5, <2>6 DEF Inv, DueAgrees, writerVars
<1>6. CASE Tick \/ UNCHANGED vars
  BY <1>1, <1>2, <1>6
     DEF Tick, vars, Inv, Base, PatchesTyped, WritesAreBehind, DueAgrees,
         SlaDueAgrees, MoveIsChecked, FlagMatchesAudit, Current, writerVars
<1>7. CASE \E r \in Runs : \/ Start(r) \/ Route(r) \/ CheckDuplicate(r)
                           \/ Record(r) \/ ReadTicket(r) \/ TransactionFails(r)
                           \/ Return(r) \/ Abort(r) \/ Crash(r)
  <2>1. \A w \in applied : feed'[w[1]] = feed[w[1]]
    BY <1>3, <1>4, <1>7 DEF ReadTicket
  <2>2. WritesAreBehind' /\ DueAgrees'
    <3>1. CASE \E r \in Runs : ReadTicket(r)
      BY <1>5, <3>1
    <3>2. CASE ~ \E r \in Runs : ReadTicket(r)
      <4>1. /\ snapshot' = snapshot
            /\ \A q \in Runs : pos'[q] >= pos[q]
            /\ \A q \in Runs : pc'[q] = "write" =>
                  pc[q] = "write" /\ Current(q)' = Current(q)
        <5>1. pos \in [Runs -> Nat \ {0}]
          BY DEF Inv, Base, Typed, TypeOK
        <5> QED
          BY <1>3, <1>4, <1>7, <3>2, <5>1
      <4>2. /\ pos \in [Runs -> Nat \ {0}] /\ pos' \in [Runs -> Nat \ {0}]
            /\ applied \subseteq Runs \X (Nat \ {0})
        BY <1>1 DEF Inv, Base, Typed, TypeOK
      <4>3. WritesAreBehind'
        <5> SUFFICES ASSUME NEW w \in applied PROVE w[2] < pos'[w[1]]
          BY <1>2 DEF WritesAreBehind
        <5>1. w[1] \in Runs /\ w[2] \in Nat /\ w[2] < pos[w[1]]
          BY <4>2 DEF Inv, WritesAreBehind
        <5> QED
          BY <4>1, <4>2, <5>1
      <4>4. DueAgrees'
        BY <1>2, <4>1 DEF Inv, DueAgrees, SlaDueAgrees, writerVars
      <4> QED
        BY <4>3, <4>4
    <3> QED
      BY <3>1, <3>2
  <2>3. FlagMatchesAudit'
    BY <1>2, <2>1 DEF Inv, FlagMatchesAudit, writerVars
  <2> QED
    BY <1>1, <1>2, <2>2, <2>3
       DEF Inv, Base, PatchesTyped, MoveIsChecked, writerVars
<1> QED
  BY <1>2, <1>6, <1>7 DEF Next, Step

-----------------------------------------------------------------------------

LEMMA PatchReadInv ==
    ASSUME Inv, NEW p \in Patches, PatchRead(p) PROVE Inv'
<1>1. PICK t \in TicketIds, input \in PatchInputs :
         patch' = [patch EXCEPT ![p] =
              [pc     |-> IF CanTransition(tickets[t].status,
                                           NextStatus(input, tickets[t]))
                          THEN "write" ELSE "rejected",
               ticket |-> t, input |-> input, now |-> clock,
               read   |-> tickets[t]]]
  BY DEF PatchRead
<1>2. PICK q : q = patch'[p]
  OBVIOUS
<1>3. /\ q.ticket = t /\ q.input = input /\ q.read = tickets[t]
      /\ q.pc = "write" => CanTransition(tickets[t].status,
                                         NextStatus(input, tickets[t]))
      /\ q \in PatchStates
      /\ patch' = [patch EXCEPT ![p] = q]
  <2>1. patch \in [Patches -> PatchStates]
    BY DEF Inv, Base, PatchesTyped
  <2>2. tickets[t] \in TicketRows /\ clock \in Nat
    BY DEF Inv, Base, Typed, TypeOK
  <2>3. q = [pc     |-> IF CanTransition(tickets[t].status,
                                         NextStatus(input, tickets[t]))
                        THEN "write" ELSE "rejected",
             ticket |-> t, input |-> input, now |-> clock,
             read   |-> tickets[t]]
    BY <1>1, <1>2, <2>1
  <2> QED
    BY <1>1, <2>2, <2>3 DEF PatchStates
<1>4. PatchesTyped'
  BY <1>3, Zenon DEF PatchRead, Inv, Base, PatchesTyped
<1>5. Typed' /\ Recorded' /\ UNCHANGED vars
  BY NextTyped, NextRecorded DEF PatchRead, Inv, Base
<1>6. \A o \in Patches \ {p} : patch'[o] = patch[o]
  BY <1>3 DEF Inv, Base, PatchesTyped
<1>7. DueAgrees'
  <2>1. SlaDueAgrees' /\ DueMatchesPriority(tickets[t], CreatedAt[t])
    BY <1>5 DEF vars, database, Inv, DueAgrees, SlaDueAgrees
  <2>2. \A o \in Patches : patch'[o].pc = "write" =>
            DueMatchesPriority(patch'[o].read, CreatedAt[patch'[o].ticket])
    BY <1>2, <1>3, <1>6, <2>1 DEF Inv, DueAgrees
  <2>3. \A r \in Runs : pc'[r] = "write" =>
          DueMatchesPriority(snapshot'[r], CreatedAt[Current(r)'.ticket_id])
    BY <1>5 DEF vars, Inv, DueAgrees, Current
  <2> QED
    BY <2>1, <2>2, <2>3 DEF DueAgrees
<1>8. MoveIsChecked'
  BY <1>2, <1>3, <1>6 DEF Inv, MoveIsChecked
<1>9. WritesAreBehind' /\ FlagMatchesAudit'
  BY <1>5 DEF vars, database, history, Inv, WritesAreBehind, FlagMatchesAudit,
              PatchRead
<1> QED
  BY <1>4, <1>5, <1>7, <1>8, <1>9 DEF Inv, Base

\* A step of a writer that keeps every ticket's due time and status, or writes
\* one from a legal read, disturbs nothing of the ingestion.
LEMMA PatchWriteInv ==
    ASSUME Inv, NEW p \in Patches, PatchWrite(p)
    PROVE  /\ Inv'
           /\ \A t \in TicketIds \ {patch[p].ticket} : tickets'[t] = tickets[t]
           /\ tickets'[patch[p].ticket].status
                 = NextStatus(patch[p].input, patch[p].read)
<1>1. PICK t : t = patch[p].ticket
  OBVIOUS
<1>2. /\ patch[p].pc = "write" /\ t \in TicketIds
      /\ tickets' = [tickets EXCEPT ![t] = PatchedTicket(p)]
      /\ audited' = [audited EXCEPT ![<<"ticket.updated", t>>] = @ + 1]
      /\ patch' = [patch EXCEPT ![p].pc = "done"]
      /\ UNCHANGED <<lifecycleEvents, lifecycleAudit, clock, pc, feed, pos,
                     now, snapshot, processed, failures, history, sweep>>
  BY <1>1, PatchAtWrite DEF PatchWrite, Inv
<1>3. /\ PatchedTicket(p) \in TicketRows
      /\ DueMatchesPriority(PatchedTicket(p), CreatedAt[t])
      /\ PatchedTicket(p).status = NextStatus(patch[p].input, patch[p].read)
      /\ PatchedTicket(p).sla_breached = tickets[t].sla_breached
  BY <1>1, <1>2, PatchedRow DEF Inv, DueAgrees
<1>4. tickets \in [TicketIds -> TicketRows]
  BY DEF Inv, Base, Typed, TypeOK
<1>5. /\ tickets' \in [TicketIds -> TicketRows]
      /\ tickets'[t] = PatchedTicket(p)
      /\ \A u \in TicketIds \ {t} : tickets'[u] = tickets[u]
  BY <1>2, <1>3, <1>4, Zenon
<1>6. Typed' /\ Recorded'
  BY <1>2, <1>5, IngestionFrame DEF Inv, Base
<1>7. /\ \A o \in Patches : patch'[o].pc = "write" => patch'[o] = patch[o]
      /\ patch' \in [Patches -> PatchStates]
  <2>1. patch \in [Patches -> PatchStates] /\ patch[p] \in PatchStates
    BY DEF Inv, Base, PatchesTyped
  <2>2. [patch[p] EXCEPT !.pc = "done"] \in PatchStates
    BY <1>2, <2>1 DEF PatchStates
  <2> QED
    BY <1>2, <2>1, <2>2
<1>8. audited' \in [AuditActions \X TicketIds -> Nat]
  <2>1. audited \in [AuditActions \X TicketIds -> Nat]
    BY DEF Inv, Base, PatchesTyped
  <2>2. <<"ticket.updated", t>> \in AuditActions \X TicketIds
    BY <1>2 DEF AuditActions
  <2>3. audited[<<"ticket.updated", t>>] + 1 \in Nat
    BY <2>1, <2>2
  <2> QED
    BY <1>2, <2>1, <2>3, Zenon
<1>9. PatchesTyped'
  BY <1>2, <1>7, <1>8 DEF Inv, Base, PatchesTyped
<1>10. DueAgrees'
  <2>1. SlaDueAgrees'
    BY <1>3, <1>5 DEF Inv, DueAgrees, SlaDueAgrees
  <2> QED
    BY <1>2, <1>7, <2>1 DEF Inv, DueAgrees, Current
<1>11. MoveIsChecked' /\ WritesAreBehind'
  BY <1>2, <1>7 DEF Inv, MoveIsChecked, WritesAreBehind, history
<1>12. FlagMatchesAudit'
  <2>1. ASSUME NEW u \in TicketIds
        PROVE  /\ tickets'[u].sla_breached = tickets[u].sla_breached
               /\ audited'[<<"ticket.sla_breached", u>>]
                     = audited[<<"ticket.sla_breached", u>>]
    <3>1. tickets'[u].sla_breached = tickets[u].sla_breached
      BY <1>3, <1>5
    <3>2. <<"ticket.sla_breached", u>> # <<"ticket.updated", t>>
      OBVIOUS
    <3>3. audited \in [AuditActions \X TicketIds -> Nat]
          /\ <<"ticket.sla_breached", u>> \in AuditActions \X TicketIds
      BY DEF Inv, Base, PatchesTyped, AuditActions
    <3> QED
      BY <1>2, <3>1, <3>2, <3>3
  <2> QED
    BY <1>2, <2>1 DEF Inv, FlagMatchesAudit, history
<1> QED
  BY <1>1, <1>3, <1>5, <1>6, <1>9, <1>10, <1>11, <1>12 DEF Inv, Base

LEMMA PatchFailsInv ==
    ASSUME Inv, NEW p \in Patches, PatchFails(p) PROVE Inv'
<1>1. /\ \A o \in Patches : patch'[o].pc = "write" => patch'[o] = patch[o]
      /\ patch' \in [Patches -> PatchStates]
  <2>1. patch \in [Patches -> PatchStates] /\ patch[p] \in PatchStates
    BY DEF Inv, Base, PatchesTyped
  <2>2. [patch[p] EXCEPT !.pc = "failed"] \in PatchStates
    BY <2>1 DEF PatchStates, PatchFails
  <2> QED
    BY <2>1, <2>2 DEF PatchFails
<1>2. Typed' /\ Recorded' /\ UNCHANGED <<vars, sweep, audited>>
  BY NextTyped, NextRecorded DEF PatchFails, Inv, Base
<1>3. DueAgrees'
  BY <1>1, <1>2 DEF vars, database, Inv, DueAgrees, SlaDueAgrees, Current
<1> QED
  BY <1>1, <1>2, <1>3
     DEF vars, database, history, Inv, Base, PatchesTyped, MoveIsChecked,
         WritesAreBehind, FlagMatchesAudit

\* A sweep flags the tickets of a tenant, and audits each of them once.
LEMMA SweepTenantInv ==
    ASSUME Inv, NEW s \in Sweepers, NEW tenant \in Tenants,
           SweepTenant(s, tenant)
    PROVE  /\ Inv'
           /\ \A t \in TicketIds : tickets'[t].status = tickets[t].status
<1>1. PICK flagged :
         /\ flagged = {t \in TicketIds : /\ TicketTenant[t] = tenant
                                         /\ Overdue(t, sweep[s].now)}
         /\ tickets' = [t \in TicketIds |->
              IF t \in flagged THEN [tickets[t] EXCEPT !.sla_breached = TRUE]
                               ELSE tickets[t]]
         /\ audited' = [x \in AuditActions \X TicketIds |->
              IF x[1] = "ticket.sla_breached" /\ x[2] \in flagged
              THEN audited[x] + 1 ELSE audited[x]]
         /\ sweep' = [sweep EXCEPT ![s].left = @ \ {tenant}]
         /\ UNCHANGED <<lifecycleEvents, lifecycleAudit, clock, pc, feed, pos,
                        now, snapshot, processed, failures, history, patch>>
  BY DEF SweepTenant
<1>2. \A t \in TicketIds : tickets[t] \in TicketRows
  BY DEF Inv, Base, Typed, TypeOK
<1>3. \A t \in TicketIds : t \in flagged => ~tickets[t].sla_breached
  BY <1>1 DEF Overdue
<1>4. ASSUME NEW t \in TicketIds
      PROVE  /\ tickets'[t] \in TicketRows
             /\ tickets'[t].status = tickets[t].status
             /\ tickets'[t].priority = tickets[t].priority
             /\ tickets'[t].sla_due_at = tickets[t].sla_due_at
             /\ tickets'[t].sla_breached
                   = (t \in flagged \/ tickets[t].sla_breached)
  <2>1. tickets[t] \in TicketRows
    BY <1>2
  <2> QED
    BY <1>1, <2>1 DEF TicketRows
<1>5. tickets' \in [TicketIds -> TicketRows]
  <2>1. tickets' = [t \in TicketIds |-> tickets'[t]]
    BY <1>1
  <2> QED
    BY <1>4, <2>1
<1>6. Typed' /\ Recorded'
  BY <1>1, <1>5, IngestionFrame DEF Inv, Base
<1>7. PatchesTyped'
  <2>1. sweep' \in [Sweepers -> [now : Nat, left : SUBSET Tenants]]
    BY <1>1 DEF Inv, Base, PatchesTyped
  <2>2. audited' \in [AuditActions \X TicketIds -> Nat]
    BY <1>1 DEF Inv, Base, PatchesTyped
  <2> QED
    BY <1>1, <2>1, <2>2 DEF Inv, Base, PatchesTyped
<1>8. DueAgrees'
  <2>1. SlaDueAgrees'
    BY <1>4 DEF Inv, DueAgrees, SlaDueAgrees, DueMatchesPriority
  <2> QED
    BY <1>1, <2>1 DEF Inv, DueAgrees, Current
<1>9. FlagMatchesAudit'
  <2> SUFFICES ASSUME NEW t \in TicketIds,
                      \A w \in applied : feed[w[1]][w[2]].ticket_id # t
               PROVE  audited'[<<"ticket.sla_breached", t>>] =
                         IF tickets'[t].sla_breached THEN 1 ELSE 0
    BY <1>1 DEF FlagMatchesAudit, history
  <2>1. audited[<<"ticket.sla_breached", t>>] =
           IF tickets[t].sla_breached THEN 1 ELSE 0
    BY DEF Inv, FlagMatchesAudit
  <2>2. audited'[<<"ticket.sla_breached", t>>] =
           IF t \in flagged THEN audited[<<"ticket.sla_breached", t>>] + 1
                            ELSE audited[<<"ticket.sla_breached", t>>]
    <3>1. <<"ticket.sla_breached", t>> \in AuditActions \X TicketIds
      BY DEF AuditActions
    <3> QED
      BY <1>1, <3>1
  <2>3. CASE t \in flagged
    <3>1. tickets'[t].sla_breached /\ ~tickets[t].sla_breached
      BY <1>3, <1>4, <2>3, Zenon
    <3>2. audited'[<<"ticket.sla_breached", t>>] = 1
      BY <2>1, <2>2, <2>3, <3>1
    <3> QED
      BY <3>1, <3>2, Zenon
  <2>4. CASE t \notin flagged
    <3>1. tickets'[t].sla_breached <=> tickets[t].sla_breached
      BY <1>4, <2>4, Zenon
    <3> QED
      BY <2>1, <2>2, <2>4, <3>1, Zenon
  <2> QED
    BY <2>3, <2>4
<1> QED
  BY <1>1, <1>4, <1>6, <1>7, <1>8, <1>9
     DEF Inv, Base, MoveIsChecked, WritesAreBehind, history

LEMMA SweepQuietInv ==
    ASSUME Inv, NEW s \in Sweepers,
           \/ SweepStart(s) \/ SweepCrash(s)
           \/ \E tenant \in Tenants : SweepTenantFails(s, tenant)
    PROVE  Inv' /\ UNCHANGED tickets
<1>1. UNCHANGED <<vars, patch, audited>>
  BY DEF SweepStart, SweepCrash, SweepTenantFails
<1>2. Typed' /\ Recorded'
  BY <1>1, NextTyped, NextRecorded DEF Inv, Base
<1>3. sweep' \in [Sweepers -> [now : Nat, left : SUBSET Tenants]]
  <2>1. clock \in Nat
    BY DEF Inv, Base, Typed, TypeOK
  <2> QED
    BY <2>1 DEF Inv, Base, PatchesTyped, SweepStart, SweepCrash, SweepTenantFails
<1> QED
  BY <1>1, <1>2, <1>3
     DEF vars, database, history, Inv, Base, PatchesTyped, DueAgrees,
         SlaDueAgrees, MoveIsChecked, WritesAreBehind, FlagMatchesAudit, Current

-----------------------------------------------------------------------------

LEMMA NextInv == ASSUME Inv, [WritersNext]_allVars PROVE Inv'
<1>1. CASE Next /\ UNCHANGED writerVars
  BY <1>1, WriteTicketInv, IngestionInv
<1>2. ASSUME NEW p \in Patches, PatchNext(p) PROVE Inv'
  BY <1>2, PatchReadInv, PatchWriteInv, PatchFailsInv DEF PatchNext
<1>3. ASSUME NEW s \in Sweepers, SweepNext(s) PROVE Inv'
  BY <1>3, SweepTenantInv, SweepQuietInv DEF SweepNext
<1>4. CASE UNCHANGED allVars
  <2>1. UNCHANGED vars /\ UNCHANGED writerVars
    BY <1>4 DEF allVars
  <2>2. CASE \E r \in Runs : WriteTicket(r)
    BY <2>1, <2>2, WriteTicketInv
  <2>3. CASE \A r \in Runs : ~WriteTicket(r)
    BY <2>1, <2>3, IngestionInv
  <2> QED
    BY <2>2, <2>3
<1> QED
  BY <1>1, <1>2, <1>3, <1>4 DEF WritersNext

THEOREM Invariance == WritersSpec => []Inv
<1>1. WritersInit => Inv
  BY InitInv
<1>2. Inv /\ [WritersNext]_allVars => Inv'
  BY NextInv
<1> QED
  BY <1>1, <1>2, PTL DEF WritersSpec

\* Tickets, requests, sweeps and audit counts keep their types.
THEOREM WritersTyped == WritersSpec => []WritersTypeOK
<1>1. Inv => WritersTypeOK
  BY DEF Inv, Base, Typed, TypeOK, PatchesTyped, WritersTypeOK
<1> QED
  BY <1>1, Invariance, PTL

\* Whoever overwrites whose change, an active ticket is due at the target of
\* the priority it has.
THEOREM DueTimesAgree == WritersSpec => []SlaDueAgrees
<1>1. Inv => SlaDueAgrees
  BY DEF Inv, DueAgrees
<1> QED
  BY <1>1, Invariance, PTL

\* However many sweeps look at it at once, a ticket that no event touched is
\* audited once if it is flagged, and else not at all.
THEOREM BreachAuditedOnce == WritersSpec => []FlagMatchesAudit
<1>1. Inv => FlagMatchesAudit
  BY DEF Inv
<1> QED
  BY <1>1, Invariance, PTL

\* Only an event, or a PATCH that read another status than it overwrites,
\* moves a ticket against the transition table.
THEOREM IllegalMovesExplained == WritersSpec => IllegalMovesAreExplained
<1> DEFINE Legal(t) == CanTransition(tickets[t].status, tickets'[t].status)
           Explained == \A t \in TicketIds :
                           ~Legal(t) => EventIsApplied(t) \/ PatchIsStale(t)
<1>1. ASSUME Inv, [WritersNext]_allVars PROVE Explained
  <2>0. ASSUME NEW t \in TicketIds, tickets'[t].status = tickets[t].status
        PROVE  Legal(t)
    <3>1. PICK status : status = tickets[t].status
      OBVIOUS
    <3>2. status \in TicketStatuses
      <4>1. tickets[t] \in TicketRows
        BY <1>1 DEF Inv, Base, Typed, TypeOK
      <4> QED
        BY <3>1, <4>1 DEF TicketRows
    <3>3. CanTransition(status, status)
      BY <3>2 DEF CanTransition, LegalMoves, TicketStatuses
    <3> QED
      BY <2>0, <3>1, <3>3
  <2>1. CASE UNCHANGED tickets
    BY <2>0, <2>1
  <2>2. ASSUME NEW r \in Runs, WriteTicket(r) PROVE Explained
    <3>1. /\ Current(r).ticket_id \in TicketIds
          /\ tickets' = [tickets EXCEPT ![Current(r).ticket_id] =
                            UpdatedTicket(r)]
          /\ applied' = applied \cup {<<r, pos[r]>>}
      BY <1>1, <2>2, RowTypes
         DEF WriteTicket, Inv, Base, Typed, ItemIsRouted, AtAnItem
    <3>2. <<r, pos[r]>> \notin applied
      <4>1. pos[r] \in Nat
        BY <1>1 DEF Inv, Base, Typed, TypeOK
      <4> QED
        BY <1>1, <4>1 DEF Inv, WritesAreBehind
    <3>3. EventIsApplied(Current(r).ticket_id)
      <4>1. <<r, pos[r]>> \in applied' \ applied
        BY <3>1, <3>2
      <4> QED
        BY <4>1 DEF EventIsApplied, Current
    <3>4. \A t \in TicketIds \ {Current(r).ticket_id} : tickets'[t] = tickets[t]
      BY <1>1, <3>1 DEF Inv, Base, Typed, TypeOK
    <3> QED
      BY <2>0, <3>3, <3>4
  <2>3. ASSUME NEW p \in Patches, PatchWrite(p) PROVE Explained
    <3>1. /\ \A t \in TicketIds \ {patch[p].ticket} : tickets'[t] = tickets[t]
          /\ tickets'[patch[p].ticket].status
                = NextStatus(patch[p].input, patch[p].read)
      BY <1>1, <2>3, PatchWriteInv
    <3>2. patch[p].pc = "write" /\ patch'[p].pc = "done"
      <4>1. patch[p] \in PatchStates
        BY <1>1 DEF Inv, Base, PatchesTyped
      <4> QED
        BY <1>1, <2>3, <4>1 DEF PatchWrite, Inv, Base, PatchesTyped, PatchStates
    <3>3. Legal(patch[p].ticket) \/ PatchIsStale(patch[p].ticket)
      BY <1>1, <3>1, <3>2 DEF Inv, MoveIsChecked, PatchIsStale
    <3> QED
      BY <2>0, <3>1, <3>3
  <2>4. ASSUME NEW s \in Sweepers, SweepNext(s) PROVE Explained
    <3>1. CASE \E tenant \in Tenants : SweepTenant(s, tenant)
      BY <1>1, <2>0, <3>1, SweepTenantInv
    <3>2. CASE ~ \E tenant \in Tenants : SweepTenant(s, tenant)
      BY <1>1, <2>1, <2>4, <3>2, SweepQuietInv DEF SweepNext
    <3> QED
      BY <3>1, <3>2
  <2>5. CASE UNCHANGED allVars
    BY <2>1, <2>5 DEF allVars, vars, database
  <2>6. CASE Next /\ UNCHANGED writerVars
    BY <1>1, <2>1, <2>2, <2>6, IngestionInv
  <2>7. ASSUME NEW p \in Patches, PatchNext(p) PROVE Explained
    <3>1. PatchRead(p) \/ PatchFails(p) => UNCHANGED tickets
      BY DEF PatchRead, PatchFails, vars, database
    <3> QED
      BY <2>1, <2>3, <2>7, <3>1 DEF PatchNext
  <2> QED
    BY <1>1, <2>4, <2>5, <2>6, <2>7 DEF WritersNext
<1> QED
  BY <1>1, Invariance, PTL DEF WritersSpec, IllegalMovesAreExplained
=============================================================================
