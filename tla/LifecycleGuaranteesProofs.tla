---------------------- MODULE LifecycleGuaranteesProofs ----------------------
(***************************************************************************)
(* What the ingestion owes to its callers, proved on top of the layers of  *)
(* LifecycleIngestionProofs: that a run answers for every item of its feed *)
(* and only for what is durable, that redeliveries are not recorded again, *)
(* and that the SLA columns stay together.                                 *)
(***************************************************************************)
EXTENDS LifecycleIngestionProofs

-----------------------------------------------------------------------------
\* Third layer: how far a run is, and what it has to show for it.

\* Every item a run has left behind it has answered for, and as long as none
\* has failed, the write of each is committed.
Tally(r) ==
    /\ Len(processed[r]) + failures[r] = pos[r] - 1
    /\ pos[r] <= Len(feed[r]) + 1
    /\ failures[r] = 0 => \A k \in 1..(pos[r] - 1) : <<r, k>> \in applied
    /\ pc[r] = "idle" => pos[r] = 1
    /\ pc[r] \in {"ok", "failed"} => pos[r] = Len(feed[r]) + 1
    /\ pc[r] = "ok" => failures[r] = 0

Tallied == \A r \in Runs : Tally(r)

\* A run that was not called has answered for nothing.
LEMMA InitTallied == Init => Tallied
BY DEF Init, Tallied, Tally

\* A run that stays at its item keeps its tally, and so does one that is given
\* its feed.
LEMMA StayTally ==
    ASSUME Typed, NEW r \in Runs, Tally(r),
           pos'[r] = pos[r], processed'[r] = processed[r],
           failures'[r] = failures[r], applied \subseteq applied',
           \/ feed'[r] = feed[r]
           \/ pc[r] = "idle" /\ pc'[r] = "next" /\ feed'[r] \in Seq(FeedItems),
           pc'[r] = "idle" => pc[r] = "idle",
           pc'[r] \in {"ok", "failed"} =>
               pc'[r] = pc[r] \/ pos[r] = Len(feed[r]) + 1,
           pc'[r] = "ok" => pc[r] = "ok" \/ failures[r] = 0
    PROVE  Tally(r)'
<1>1. /\ pos[r] \in Nat \ {0} /\ failures[r] \in Nat
      /\ Len(processed[r]) \in Nat /\ Len(feed[r]) \in Nat
  BY DEF Typed, TypeOK
<1>2. CASE feed'[r] = feed[r]
  BY <1>1, <1>2 DEF Tally
<1>3. CASE pc[r] = "idle" /\ pc'[r] = "next" /\ feed'[r] \in Seq(FeedItems)
  <2>1. pos[r] = 1 /\ Len(feed'[r]) \in Nat
    BY <1>3 DEF Tally
  <2> QED
    BY <1>1, <1>3, <2>1 DEF Tally
<1> QED
  BY <1>2, <1>3

\* One more on either side of the tally is one position further.
LEMMA OneMore ==
    ASSUME NEW a \in Nat, NEW b \in Nat, NEW p \in Nat, a + b = p - 1
    PROVE  a + (b + 1) = (p + 1) - 1 /\ (a + 1) + b = (p + 1) - 1
OBVIOUS

\* Leaving an item adds one to the tally: a failure, or a processed event
\* whose write is committed.
LEMMA LeaveTally ==
    ASSUME Typed, NEW r \in Runs, Tally(r), pos[r] <= Len(feed[r]),
           UNCHANGED feed, applied \subseteq applied',
           \/ Failed(r)
           \/ Processed(r) /\ <<r, pos[r]>> \in applied'
    PROVE  Tally(r)'
<1>1. /\ pos[r] \in Nat \ {0} /\ failures[r] \in Nat
      /\ processed[r] \in Seq(EventIds) /\ feed[r] \in Seq(FeedItems)
      /\ Len(processed[r]) \in Nat /\ Len(feed[r]) \in Nat
  BY DEF Typed, TypeOK
<1>2. pos'[r] = pos[r] + 1 /\ pc'[r] = "next" /\ feed'[r] = feed[r]
  BY DEF Failed, Processed, Typed, TypeOK
<1>3. Len(processed[r]) + failures[r] = pos[r] - 1
  BY DEF Tally
<1>4. failures[r] = 0 => \A k \in 1..(pos[r] - 1) : <<r, k>> \in applied
  BY DEF Tally
<1>5. /\ Len(processed[r]) + (failures[r] + 1) = (pos[r] + 1) - 1
      /\ (Len(processed[r]) + 1) + failures[r] = (pos[r] + 1) - 1
      /\ pos'[r] - 1 = pos[r] /\ pos'[r] <= Len(feed'[r]) + 1
  <2>1. Len(processed[r]) \in Nat /\ failures[r] \in Nat /\ pos[r] \in Nat
    BY <1>1
  <2>2. /\ Len(processed[r]) + (failures[r] + 1) = (pos[r] + 1) - 1
        /\ (Len(processed[r]) + 1) + failures[r] = (pos[r] + 1) - 1
    BY <1>3, <2>1, OneMore, Zenon
  <2>3. pos'[r] - 1 = pos[r] /\ pos'[r] <= Len(feed'[r]) + 1
    BY <1>1, <1>2
  <2> QED
    BY <2>2, <2>3, Zenon
<1>6. CASE Failed(r)
  <2>1. failures'[r] = failures[r] + 1 /\ processed'[r] = processed[r]
    BY <1>6 DEF Failed, Typed, TypeOK
  <2>2. Len(processed'[r]) + failures'[r] = pos'[r] - 1
    BY <1>2, <1>5, <2>1, Zenon
  <2>3. failures'[r] # 0
    BY <1>1, <2>1
  <2> QED
    BY <1>2, <1>5, <2>2, <2>3 DEF Tally
<1>7. CASE Processed(r) /\ <<r, pos[r]>> \in applied'
  <2>1. /\ failures'[r] = failures[r]
        /\ Len(processed'[r]) = Len(processed[r]) + 1
    BY <1>1, <1>7 DEF Processed, Typed, TypeOK
  <2>2. Len(processed'[r]) + failures'[r] = pos'[r] - 1
    BY <1>2, <1>5, <2>1, Zenon
  <2>3. \A k \in 1..pos[r] : k \in 1..(pos[r] - 1) \/ k = pos[r]
    BY <1>1
  <2>4. failures'[r] = 0 => \A k \in 1..pos[r] : <<r, k>> \in applied'
    BY <1>4, <1>7, <2>1, <2>3
  <2>5. failures'[r] = 0 => \A k \in 1..(pos'[r] - 1) : <<r, k>> \in applied'
    BY <1>5, <2>4
  <2> QED
    BY <1>2, <1>5, <2>2, <2>5 DEF Tally
<1> QED
  BY <1>6, <1>7

\* Every step keeps the third layer.
LEMMA NextTallied == Typed /\ Tallied /\ [Next]_vars => Tallied'
<1> SUFFICES ASSUME Typed, Tallied, [Next]_vars, NEW q \in Runs
             PROVE  Tally(q)'
  BY DEF Tallied
<1> USE DEF database, history
<1>t. TypeOK /\ Tally(q)
  BY DEF Typed, Tallied
<1>1. ASSUME NEW r \in Runs, Start(r) PROVE Tally(q)'
  BY <1>1, <1>t, StayTally, FeedAssumption DEF Start, TypeOK
<1>2. ASSUME NEW r \in Runs,
             \/ Route(r) \/ CheckDuplicate(r) \/ Record(r) \/ ReadTicket(r)
             \/ WriteTicket(r) \/ TransactionFails(r) \/ Return(r) \/ Abort(r)
             \/ Crash(r)
      PROVE  /\ UNCHANGED feed /\ applied \subseteq applied'
             /\ \/ pos[r] <= Len(feed[r]) /\ Failed(r)
                \/ /\ pos[r] <= Len(feed[r])
                   /\ Processed(r) /\ <<r, pos[r]>> \in applied'
                \/ \E label \in AtAnItem \cup {"aborted", "crashed"} :
                      GoTo(r, label)
                \/ /\ pos[r] > Len(feed[r])
                   /\ GoTo(r, IF failures[r] > 0 THEN "failed" ELSE "ok")
  <2>1. pc[r] \in AtAnItem => pos[r] <= Len(feed[r])
    BY DEF Typed, TypeOK, ItemIsRouted
  <2>2. CASE Route(r)
    BY <2>2 DEF Route, AtAnItem
  <2>3. CASE CheckDuplicate(r)
    BY <2>1, <2>3 DEF CheckDuplicate, DuplicateFound, AtAnItem
  <2>4. CASE Record(r)
    BY <2>1, <2>4 DEF Record, AtAnItem
  <2>5. CASE ReadTicket(r)
    BY <2>5 DEF ReadTicket, AtAnItem
  <2>6. CASE WriteTicket(r)
    BY <2>1, <2>6 DEF WriteTicket, AtAnItem
  <2>7. CASE TransactionFails(r)
    BY <2>1, <2>7 DEF TransactionFails, AtAnItem
  <2>8. CASE Return(r)
    BY <2>8 DEF Return
  <2>9. CASE Abort(r) \/ Crash(r)
    BY <2>9 DEF Abort, Crash
  <2> QED
    BY <1>2, <2>2, <2>3, <2>4, <2>5, <2>6, <2>7, <2>8, <2>9
<1>3. ASSUME NEW r \in Runs,
             \/ Route(r) \/ CheckDuplicate(r) \/ Record(r) \/ ReadTicket(r)
             \/ WriteTicket(r) \/ TransactionFails(r) \/ Return(r) \/ Abort(r)
             \/ Crash(r)
      PROVE  Tally(q)'
  <2>1. CASE q # r
    <3>1. Failed(r) \/ Processed(r) \/ \E label : GoTo(r, label)
      BY <1>2, <1>3
    <3>2. /\ pc'[q] = pc[q] /\ pos'[q] = pos[q]
          /\ processed'[q] = processed[q] /\ failures'[q] = failures[q]
      BY <1>t, <2>1, <3>1 DEF Failed, Processed, GoTo, TypeOK
    <3>3. UNCHANGED feed /\ applied \subseteq applied'
      BY <1>2, <1>3
    <3> QED
      BY <1>t, <3>2, <3>3, StayTally
  <2>2. CASE /\ q = r /\ pos[r] <= Len(feed[r])
             /\ Failed(r) \/ (Processed(r) /\ <<r, pos[r]>> \in applied')
    BY <1>2, <1>3, <1>t, <2>2, LeaveTally
  <2>3. CASE q = r /\ \E label \in AtAnItem \cup {"aborted", "crashed"} :
                         GoTo(r, label)
    <3>1. /\ pc'[q] \notin {"idle", "ok", "failed"} /\ pos'[q] = pos[q]
          /\ processed'[q] = processed[q] /\ failures'[q] = failures[q]
      BY <1>t, <2>3 DEF GoTo, AtAnItem, TypeOK
    <3> QED
      BY <1>2, <1>3, <1>t, <3>1, StayTally
  <2>4. CASE q = r /\ pos[r] > Len(feed[r])
             /\ GoTo(r, IF failures[r] > 0 THEN "failed" ELSE "ok")
    <3>1. /\ pc'[q] = IF failures[q] > 0 THEN "failed" ELSE "ok"
          /\ pos'[q] = pos[q]
          /\ processed'[q] = processed[q] /\ failures'[q] = failures[q]
      BY <1>t, <2>4 DEF GoTo, TypeOK
    <3>2. pos[q] = Len(feed[q]) + 1 /\ (~(failures[q] > 0) => failures[q] = 0)
      BY <1>t, <2>4 DEF Tally, TypeOK
    <3> QED
      BY <1>2, <1>3, <1>t, <3>1, <3>2, StayTally
  <2> QED
    BY <1>2, <1>3, <2>1, <2>2, <2>3, <2>4
<1>4. CASE Tick \/ UNCHANGED vars
  BY <1>4, <1>t DEF Tick, vars, Tally
<1> QED
  BY <1>1, <1>3, <1>4 DEF Next, Step

\* The tally of every run is right in every reachable state.
THEOREM SpecTallied == Spec => [](Typed /\ Recorded /\ Tallied)
<1>1. Init => Typed /\ Recorded /\ Tallied
  BY InitTyped, InitRecorded, InitTallied
<1>2. (Typed /\ Recorded /\ Tallied) /\ [Next]_vars =>
          (Typed /\ Recorded /\ Tallied)'
  BY NextTyped, NextRecorded, NextTallied
<1> QED
  BY <1>1, <1>2, PTL DEF Spec

\* A run that gets to its end has answered for every item of its feed.
THEOREM EveryItemAnswered == Spec => []FailuresAreIsolated
<1>1. Typed /\ Tallied => FailuresAreIsolated
  BY DEF Typed, TypeOK, Tallied, Tally, FailuresAreIsolated
<1> QED
  BY <1>1, SpecTallied, PTL

\* A run that returns answers for events that are on record and applied, also
\* those that an earlier run recorded before it died.
THEOREM Acknowledged == Spec => []AcknowledgedIsDurable
<1>1. ASSUME Typed, Recorded, Tallied, NEW r \in Runs, pc[r] = "ok",
             NEW k \in DOMAIN feed[r]
      PROVE  /\ feed[r][k] # Malformed
             /\ OnRecord(feed[r][k])
             /\ WasApplied(feed[r][k])
  <2>1. k \in 1..(pos[r] - 1)
    BY <1>1 DEF Tallied, Tally, Typed, TypeOK
  <2>2. <<r, k>> \in applied
    BY <1>1, <2>1 DEF Tallied, Tally
  <2>3. feed[r][k] \in ProviderEvents /\ OnRecord(feed[r][k])
    BY <1>1, <2>2 DEF Recorded, WritesAreRecorded
  <2>4. WasApplied(feed[r][k])
    BY <2>2 DEF WasApplied
  <2> QED
    BY <2>3, <2>4, FeedAssumption
<1>2. Typed /\ Recorded /\ Tallied => AcknowledgedIsDurable
  BY <1>1 DEF AcknowledgedIsDurable
<1> QED
  BY <1>2, SpecTallied, PTL
-----------------------------------------------------------------------------
\* Fourth layer: what a run saw of the table before it inserts into it.

\* Whoever inserted a row had not seen an earlier one of its content.
ContentNotSeen ==
    \A i, j \in DOMAIN lifecycleEvents :
        /\ i < j
        /\ Content(lifecycleEvents[i]) = Content(lifecycleEvents[j])
        => horizon[j] < i

\* A run about to insert saw no row of its event's content among those that
\* were there when it looked, and every row keeps what its inserter saw.
Watched ==
    /\ Len(horizon) = Len(lifecycleEvents)
    /\ \A r \in Runs : seen[r] <= Len(lifecycleEvents)
    /\ \A r \in Runs : pc[r] = "record" =>
          \A i \in 1..Len(lifecycleEvents) :
              Content(lifecycleEvents[i]) = Content(EventRow(Current(r)))
              => seen[r] < i
    /\ ContentNotSeen

\* At the start the table is empty and nobody has looked.
LEMMA InitWatched == Init => Watched
BY DEF Init, Watched, ContentNotSeen

\* A step that leaves the table of events alone keeps the layer, provided no
\* run gets to its INSERT by it but one that has just found nothing.
LEMMA QuietWatched ==
    ASSUME Watched, UNCHANGED <<lifecycleEvents, horizon>>,
           \A q \in Runs : seen'[q] \in {seen[q], Len(lifecycleEvents)},
           \A q \in Runs : pc'[q] = "record" =>
               \/ /\ pc[q] = "record" /\ seen'[q] = seen[q]
                  /\ Current(q)' = Current(q)
               \/ ~ OnRecord(Current(q))'
    PROVE  Watched'
<1>1. ASSUME NEW q \in Runs, pc'[q] = "record",
             NEW i \in 1..Len(lifecycleEvents),
             Content(lifecycleEvents[i]) = Content(EventRow(Current(q)'))
      PROVE  seen'[q] < i
  BY <1>1 DEF Watched, OnRecord
<1>2. \A q \in Runs : seen'[q] <= Len(lifecycleEvents)
  BY DEF Watched
<1> QED
  BY <1>1, <1>2 DEF Watched, ContentNotSeen
\* The INSERT keeps the layer: a row of equal content that is there by now came
\* after the run had looked.
LEMMA RecordWatched ==
    ASSUME Typed, Watched, NEW r \in Runs, Record(r)
    PROVE  Watched'
<1> DEFINE n   == Len(lifecycleEvents)
           row == EventRow(Current(r))
<1>1. /\ lifecycleEvents \in Seq(LifecycleRows) /\ row \in LifecycleRows
      /\ horizon \in Seq(Nat) /\ seen[r] \in Nat
  BY RowTypes
     DEF Record, Typed, TypeOK, ItemIsRouted, AtAnItem, LifecycleRows,
         LifecycleChanges
<1>2. /\ lifecycleEvents' = Append(lifecycleEvents, row)
      /\ horizon' = Append(horizon, seen[r])
      /\ seen' = seen /\ feed' = feed
  BY DEF Record
<1>3. Content(row) = Content(EventRow(Current(r)))
  OBVIOUS
<1> HIDE DEF row
<1>4. /\ n \in Nat /\ Len(horizon) = n
      /\ DOMAIN lifecycleEvents = 1..n
      /\ Len(lifecycleEvents') = n + 1 /\ DOMAIN lifecycleEvents' = 1..(n + 1)
      /\ Len(horizon') = n + 1
      /\ \A i \in 1..n : /\ lifecycleEvents'[i] = lifecycleEvents[i]
                         /\ horizon'[i] = horizon[i]
      /\ lifecycleEvents'[n + 1] = row /\ horizon'[n + 1] = seen[r]
  BY <1>1, <1>2 DEF Watched
<1> HIDE DEF n
<1>5. \A i \in 1..n : Content(lifecycleEvents[i]) = Content(row) => seen[r] < i
  BY <1>3 DEF Watched, Record, n
<1>6. \A i \in 1..(n + 1) : i \in 1..n \/ i = n + 1
  BY <1>4
<1>7. ContentNotSeen'
  <2> SUFFICES ASSUME NEW i \in 1..(n + 1), NEW j \in 1..(n + 1), i < j,
                      Content(lifecycleEvents'[i]) = Content(lifecycleEvents'[j])
               PROVE  horizon'[j] < i
    BY <1>4 DEF ContentNotSeen
  <2>1. i \in 1..n
    BY <1>4
  <2>2. CASE j = n + 1
    BY <1>4, <1>5, <2>1, <2>2
  <2>3. CASE j \in 1..n
    BY <1>4, <2>1, <2>3 DEF Watched, ContentNotSeen
  <2> QED
    BY <1>6, <2>2, <2>3
<1>8. \A q \in Runs : seen'[q] < n + 1 /\ seen'[q] <= n + 1
  <2>1. \A q \in Runs : seen[q] \in Nat /\ seen[q] <= n
    BY DEF Watched, Typed, TypeOK, n
  <2> QED
    BY <1>2, <1>4, <2>1
<1>9. ASSUME NEW q \in Runs, pc'[q] = "record", NEW i \in 1..(n + 1),
             Content(lifecycleEvents'[i]) = Content(EventRow(Current(q)'))
      PROVE  seen'[q] < i
  <2>1. q # r /\ pc[q] = "record" /\ Current(q)' = Current(q)
    BY <1>2, <1>9 DEF Record, GoTo, Failed, Current, Typed, TypeOK
  <2>2. CASE i \in 1..n
    BY <1>2, <1>4, <1>9, <2>1, <2>2 DEF Watched, n
  <2>3. CASE i = n + 1
    BY <1>8, <2>3
  <2> QED
    BY <1>6, <2>2, <2>3
<1> QED
  BY <1>4, <1>7, <1>8, <1>9 DEF Watched
\* Every step keeps the fourth layer.
LEMMA NextWatched == Typed /\ Watched /\ [Next]_vars => Watched'
<1> SUFFICES ASSUME Typed, Watched, [Next]_vars PROVE Watched'
  OBVIOUS
<1> USE DEF database, history
<1>1. ASSUME NEW r \in Runs, Start(r) PROVE Watched'
  <2>1. \A q \in Runs : pc'[q] = "record" =>
            pc[q] = "record" /\ Current(q)' = Current(q)
    BY <1>1 DEF Start, Typed, TypeOK, Current
  <2> QED
    BY <1>1, <2>1, QuietWatched DEF Start
<1>2. ASSUME NEW r \in Runs, CheckDuplicate(r) PROVE Watched'
  <2>1. \/ Failed(r) \/ GoTo(r, "read")
        \/ GoTo(r, "record") /\ ~ OnRecord(Current(r))
    BY <1>2, CheckFindsContent DEF CheckDuplicate, DuplicateFound
  <2>2. \A q \in Runs : pc'[q] = "record" =>
            /\ Current(q)' = Current(q)
            /\ IF q = r THEN ~ OnRecord(Current(r))
                        ELSE pc[q] = "record" /\ seen'[q] = seen[q]
    BY <1>2, <2>1
       DEF CheckDuplicate, Typed, TypeOK, Current, Failed, GoTo
  <2>3. \A q \in Runs : seen'[q] \in {seen[q], Len(lifecycleEvents)}
    BY <1>2 DEF CheckDuplicate, Typed, TypeOK
  <2>4. ~ OnRecord(Current(r)) /\ Current(r)' = Current(r) =>
            ~ OnRecord(Current(r))'
    BY <1>2 DEF CheckDuplicate, OnRecord
  <2> QED
    BY <1>2, <2>2, <2>3, <2>4, QuietWatched DEF CheckDuplicate
<1>3. ASSUME NEW r \in Runs,
             \/ Route(r) \/ ReadTicket(r) \/ WriteTicket(r)
             \/ TransactionFails(r) \/ Return(r) \/ Abort(r) \/ Crash(r)
      PROVE  Watched'
  <2>1. /\ UNCHANGED <<lifecycleEvents, horizon, seen, feed>>
        /\ \/ Failed(r) \/ Processed(r)
           \/ \E label \in (AtAnItem \ {"record"}) \cup Finished :
                 GoTo(r, label)
    BY <1>3 DEF Route, ReadTicket, WriteTicket, TransactionFails, Return,
                Abort, Crash, AtAnItem, Finished
  <2>2. \A q \in Runs : pc'[q] = "record" =>
            pc[q] = "record" /\ Current(q)' = Current(q)
    BY <2>1 DEF Typed, TypeOK, Current, Failed, Processed, GoTo, AtAnItem,
                Finished
  <2> QED
    BY <2>1, <2>2, QuietWatched
<1>4. CASE Tick \/ UNCHANGED vars
  <2>1. \A q \in Runs : Current(q)' = Current(q)
    BY <1>4 DEF Tick, vars, Current
  <2> QED
    BY <1>4, <2>1, QuietWatched DEF Tick, vars
<1> QED
  BY <1>1, <1>2, <1>3, <1>4, RecordWatched DEF Next, Step

\* Every row is that of an event some feed delivered.
Delivered(row) ==
    \E f \in Feeds : \E k \in DOMAIN f : f[k] # Malformed /\ row = EventRow(f[k])

FromFeeds ==
    /\ \A r \in Runs : pc[r] # "idle" => feed[r] \in Feeds
    /\ \A i \in DOMAIN lifecycleEvents : Delivered(lifecycleEvents[i])

LEMMA InitFromFeeds == Init => FromFeeds
BY DEF Init, FromFeeds

LEMMA NextFromFeeds == Typed /\ FromFeeds /\ [Next]_vars => FromFeeds'
<1> SUFFICES ASSUME Typed, FromFeeds, [Next]_vars PROVE FromFeeds'
  OBVIOUS
<1> USE DEF database, history
<1>1. ASSUME NEW r \in Runs, Start(r) PROVE FromFeeds'
  BY <1>1 DEF Start, FromFeeds, Typed, TypeOK
<1>2. ASSUME NEW r \in Runs, Record(r) PROVE FromFeeds'
  <2>1. /\ feed[r] \in Feeds /\ pos[r] \in DOMAIN feed[r]
        /\ Current(r) # Malformed
    BY <1>2, FeedAssumption
       DEF Record, FromFeeds, Typed, TypeOK, ItemIsRouted, AtAnItem
  <2>2. Delivered(EventRow(Current(r)))
    BY <2>1 DEF Delivered, Current
  <2>3. /\ lifecycleEvents' = Append(lifecycleEvents, EventRow(Current(r)))
        /\ feed' = feed
        /\ \A q \in Runs : pc'[q] # "idle" => pc[q] # "idle"
    BY <1>2 DEF Record, GoTo, Failed, Typed, TypeOK
  <2>4. \A i \in DOMAIN lifecycleEvents' :
            \/ /\ i \in DOMAIN lifecycleEvents
               /\ lifecycleEvents'[i] = lifecycleEvents[i]
            \/ lifecycleEvents'[i] = EventRow(Current(r))
    <3>1. /\ lifecycleEvents \in Seq(LifecycleRows)
          /\ EventRow(Current(r)) \in LifecycleRows
      BY <1>2, RowTypes
         DEF Record, Typed, TypeOK, ItemIsRouted, AtAnItem, LifecycleRows,
             LifecycleChanges
    <3> DEFINE row == EventRow(Current(r))
    <3> HIDE DEF row
    <3>2. lifecycleEvents' = Append(lifecycleEvents, row)
      BY <2>3 DEF row
    <3>3. row \in LifecycleRows
      BY <3>1 DEF row
    <3>4. \A i \in 1..(Len(lifecycleEvents) + 1) :
              \/ i \in 1..Len(lifecycleEvents)
              \/ i = Len(lifecycleEvents) + 1
      BY <3>1
    <3>5. \A i \in DOMAIN lifecycleEvents' :
              \/ /\ i \in DOMAIN lifecycleEvents
                 /\ lifecycleEvents'[i] = lifecycleEvents[i]
              \/ lifecycleEvents'[i] = row
      BY <3>1, <3>2, <3>3, <3>4
    <3> QED
      BY <3>5 DEF row
  <2> QED
    BY <2>2, <2>3, <2>4 DEF FromFeeds, Delivered
<1>3. ASSUME NEW r \in Runs,
             \/ Route(r) \/ CheckDuplicate(r) \/ ReadTicket(r)
             \/ WriteTicket(r) \/ TransactionFails(r) \/ Return(r)
             \/ Abort(r) \/ Crash(r)
      PROVE  FromFeeds'
  <2>1. /\ UNCHANGED <<lifecycleEvents, feed>>
        /\ pc[r] # "idle"
        /\ \E label : pc' = [pc EXCEPT ![r] = label]
    BY <1>3 DEF Route, CheckDuplicate, DuplicateFound, ReadTicket, WriteTicket,
                TransactionFails, Return, Abort, Crash, Failed, Processed,
                GoTo, InFlight
  <2> QED
    BY <2>1 DEF FromFeeds, Delivered, Typed, TypeOK
<1>4. CASE Tick \/ UNCHANGED vars
  BY <1>4 DEF Tick, vars, FromFeeds, Delivered
<1> QED
  BY <1>1, <1>2, <1>3, <1>4 DEF Next, Step

\* Rows of one event_id are rows of one event, so they have the same content.
LEMMA SameIdSameContent ==
    ASSUME FromFeeds,
           NEW i \in DOMAIN lifecycleEvents, NEW j \in DOMAIN lifecycleEvents,
           lifecycleEvents[i].event_id = lifecycleEvents[j].event_id
    PROVE  Content(lifecycleEvents[i]) = Content(lifecycleEvents[j])
<1>1. PICK f \in Feeds : \E k \in DOMAIN f :
          f[k] # Malformed /\ lifecycleEvents[i] = EventRow(f[k])
  BY DEF FromFeeds, Delivered
<1>2. PICK k \in DOMAIN f :
          f[k] # Malformed /\ lifecycleEvents[i] = EventRow(f[k])
  BY <1>1
<1>3. PICK g \in Feeds : \E m \in DOMAIN g :
          g[m] # Malformed /\ lifecycleEvents[j] = EventRow(g[m])
  BY DEF FromFeeds, Delivered
<1>4. PICK m \in DOMAIN g :
          g[m] # Malformed /\ lifecycleEvents[j] = EventRow(g[m])
  BY <1>3
<1>5. f[k].event_id = g[m].event_id
  BY <1>2, <1>4 DEF EventRow
<1>6. f[k] = g[m]
  BY <1>2, <1>4, <1>5, EventIdAssumption
<1> QED
  BY <1>2, <1>4, <1>6

\* An event that is delivered again after its row was committed is not recorded
\* again: two rows of one event_id come only from runs that overlap.
THEOREM RedeliveryIsDuplicate == Spec => []RecordedAgainOnlyInOverlap
<1>1. Init => Typed /\ Watched /\ FromFeeds
  BY InitTyped, InitWatched, InitFromFeeds
<1>2. (Typed /\ Watched /\ FromFeeds) /\ [Next]_vars =>
          (Typed /\ Watched /\ FromFeeds)'
  BY NextTyped, NextWatched, NextFromFeeds
<1>3. Typed /\ Watched /\ FromFeeds => RecordedAgainOnlyInOverlap
  BY SameIdSameContent DEF Watched, ContentNotSeen, RecordedAgainOnlyInOverlap
<1> QED
  BY <1>1, <1>2, <1>3, PTL DEF Spec

-----------------------------------------------------------------------------
\* Fifth layer: the SLA columns, in the tickets and in what was read of them.

\* The SLA columns of a row of ticket t agree with its status and priority.
Agrees(row, t) == /\ DueMatchesPriority(row, CreatedAt[t])
                  /\ FlaggedOnlyWhileRunning(row)

Agreement ==
    /\ SlaColumnsAgree
    /\ \A r \in Runs :
          pc[r] = "write" => Agrees(snapshot[r], Current(r).ticket_id)

\* Whatever row a run starts from, as long as its columns agree, those of the
\* row it writes do.
LEMMA ChangeAgrees ==
    ASSUME NEW row \in TicketRows, NEW e \in ProviderEvents, NEW at \in Nat,
           Agrees(row, e.ticket_id)
    PROVE  Agrees(ChangedTicket(row, e, at), e.ticket_id)
<1> DEFINE c == CreatedAt[e.ticket_id]
<1>1. e.event \in StatusChanges \/ e.event \in PriorityChanges
  BY DEF ProviderEvents
<1>2. CASE e.event \in StatusChanges
  <2>1. e.event.kind = "status_changed"
    BY <1>2 DEF StatusChanges
  <2> QED
    BY <2>1
       DEF ChangedTicket, DeriveStatusChange, Agrees, DueMatchesPriority,
           FlaggedOnlyWhileRunning, IsBreached, TicketRows
<1>3. CASE e.event \in PriorityChanges
  <2>1. e.event.kind # "status_changed"
    BY <1>3 DEF PriorityChanges
  <2> QED
    BY <2>1
       DEF ChangedTicket, Agrees, DueMatchesPriority, FlaggedOnlyWhileRunning,
           TicketRows
<1> QED
  BY <1>1, <1>2, <1>3

\* A new ticket is open and due at its priority's target.
LEMMA InitAgreement == Init => Agreement
BY TicketAssumption
   DEF Init, Agreement, SlaColumnsAgree, DueMatchesPriority,
       FlaggedOnlyWhileRunning, NewTicket, IsSlaRunning, ActiveStatuses

\* Every step keeps the fifth layer.
LEMMA NextAgreement == Typed /\ Agreement /\ [Next]_vars => Agreement'
<1> SUFFICES ASSUME Typed, Agreement, [Next]_vars PROVE Agreement'
  OBVIOUS
<1> USE DEF database, history
<1>1. ASSUME NEW r \in Runs, ReadTicket(r) PROVE Agreement'
  <2>1. /\ Current(r).ticket_id \in TicketIds /\ UNCHANGED <<tickets, feed, pos>>
        /\ snapshot' = [snapshot EXCEPT ![r] = tickets[Current(r).ticket_id]]
        /\ \A q \in Runs \ {r} : pc'[q] = pc[q]
    BY <1>1, RowTypes
       DEF ReadTicket, GoTo, Typed, TypeOK, ItemIsRouted, AtAnItem
  <2>2. Agrees(tickets[Current(r).ticket_id], Current(r).ticket_id)
    BY <2>1 DEF Agreement, SlaColumnsAgree, Agrees
  <2>3. \A q \in Runs : Current(q)' = Current(q)
    BY <2>1 DEF Current
  <2>4. ASSUME NEW q \in Runs, pc'[q] = "write"
        PROVE  Agrees(snapshot'[q], Current(q)'.ticket_id)
    BY <2>1, <2>2, <2>3, <2>4 DEF Agreement, Typed, TypeOK
  <2>5. SlaColumnsAgree'
    BY <2>1 DEF Agreement, SlaColumnsAgree
  <2> QED
    BY <2>4, <2>5 DEF Agreement, Agrees
<1>2. ASSUME NEW r \in Runs, WriteTicket(r) PROVE Agreement'
  <2>1. /\ pc[r] = "write" /\ Current(r) \in ProviderEvents
        /\ Current(r).ticket_id \in TicketIds
        /\ tickets' = [tickets EXCEPT ![Current(r).ticket_id] = UpdatedTicket(r)]
        /\ UNCHANGED <<feed, snapshot>> /\ (Failed(r) \/ Processed(r))
    BY <1>2, RowTypes DEF WriteTicket, Typed, ItemIsRouted, AtAnItem
  <2>2. Agrees(UpdatedTicket(r), Current(r).ticket_id)
    BY <2>1, ChangeAgrees DEF UpdatedTicket, Agreement, Typed, TypeOK
  <2>3. SlaColumnsAgree'
    BY <2>1, <2>2 DEF Agreement, SlaColumnsAgree, Agrees, Typed, TypeOK
  <2>4. \A q \in Runs : pc'[q] = "write" =>
            /\ pc[q] = "write" /\ Current(q)' = Current(q)
            /\ snapshot'[q] = snapshot[q]
    BY <2>1 DEF Failed, Processed, Current, Typed, TypeOK
  <2> QED
    BY <2>3, <2>4 DEF Agreement, Agrees
<1>3. ASSUME NEW r \in Runs,
             \/ Start(r) \/ Route(r) \/ CheckDuplicate(r) \/ Record(r)
             \/ TransactionFails(r) \/ Return(r) \/ Abort(r) \/ Crash(r)
      PROVE  Agreement'
  <2>1. UNCHANGED <<tickets, snapshot>>
    BY <1>3 DEF Start, Route, CheckDuplicate, Record, TransactionFails,
                Return, Abort, Crash
  <2>2. \/ Start(r)
        \/ /\ UNCHANGED feed
           /\ \/ Failed(r)
              \/ \E label \in {"check", "record", "read"} \cup Finished :
                    GoTo(r, label)
    BY <1>3 DEF Route, CheckDuplicate, DuplicateFound, Record,
                TransactionFails, Return, Abort, Crash, Finished
  <2>3. \A q \in Runs : pc'[q] = "write" =>
            pc[q] = "write" /\ Current(q)' = Current(q)
    BY <2>2 DEF Start, Typed, TypeOK, Current, Failed, GoTo, Finished
  <2> QED
    BY <2>1, <2>3 DEF Agreement, SlaColumnsAgree, Agrees
<1>4. CASE Tick \/ UNCHANGED vars
  BY <1>4 DEF Tick, vars, Agreement, SlaColumnsAgree, Agrees, Current
<1> QED
  BY <1>1, <1>2, <1>3, <1>4 DEF Next, Step

\* Although runs overwrite each other's changes from stale reads, no ticket
\* ever has SLA columns that contradict its status and priority.
THEOREM SlaColumnsStay == Spec => []SlaColumnsAgree
<1>1. Init => Typed /\ Agreement
  BY InitTyped, InitAgreement
<1>2. (Typed /\ Agreement) /\ [Next]_vars => (Typed /\ Agreement)'
  BY NextTyped, NextAgreement
<1>3. Typed /\ Agreement => SlaColumnsAgree
  BY DEF Agreement
<1> QED
  BY <1>1, <1>2, <1>3, PTL DEF Spec

-----------------------------------------------------------------------------
\* Sixth layer: who is to blame for an event that is on record and not applied.

\* The run is on its way to write item k, died at it, or has left it behind and
\* counted a failure.
Blame(r, k) ==
    \/ k = pos[r] /\ pc[r] \in {"read", "write", "crashed"}
    \/ k < pos[r] /\ failures[r] > 0

\* A run to blame for an item stays so until the item is written.
LEMMA BlameStays ==
    ASSUME Typed, NEW r \in Runs, Next, NEW q \in Runs, NEW k \in Nat,
           Blame(q, k)
    PROVE  Blame(q, k)' \/ <<q, k>> \in applied'
<1>1. /\ pos \in [Runs -> Nat \ {0}] /\ failures \in [Runs -> Nat]
      /\ pc \in [Runs -> {"idle"} \cup InFlight \cup Finished]
  BY DEF Typed, TypeOK
<1>2. CASE Tick
  BY <1>2 DEF Tick, Blame
<1>3. ASSUME NEW p \in Runs,
             \/ Start(p) \/ Step(p) \/ TransactionFails(p) \/ Abort(p) \/ Crash(p)
      PROVE  Blame(q, k)' \/ <<q, k>> \in applied'
  <2>1. \/ pos'[q] = pos[q] /\ failures'[q] = failures[q] /\ pc'[q] = pc[q]
        \/ p = q
    BY <1>1, <1>3
       DEF Start, Step, Route, CheckDuplicate, DuplicateFound, Record,
           ReadTicket, WriteTicket, TransactionFails, Return, Abort, Crash,
           Failed, Processed, GoTo
  <2>2. CASE p = q /\ Failed(q)
    <3>1. pos'[q] = pos[q] + 1 /\ failures'[q] = failures[q] + 1
      BY <1>1, <2>2 DEF Failed
    <3>2. pos[q] \in Nat /\ failures[q] \in Nat
      BY <1>1
    <3>3. k < pos'[q] /\ failures'[q] > 0
      BY <3>1, <3>2 DEF Blame
    <3> QED
      BY <3>3 DEF Blame
  <2>3. CASE p = q /\ Processed(q) /\ applied' = applied \cup {<<q, pos[q]>>}
    <3>1. pos'[q] = pos[q] + 1 /\ failures'[q] = failures[q]
          /\ pos[q] \in Nat /\ failures[q] \in Nat
      BY <1>1, <2>3 DEF Processed
    <3> QED
      BY <2>3, <3>1 DEF Blame
  <2>4. CASE /\ p = q /\ UNCHANGED <<pos, failures>>
             /\ \/ pc[q] \notin {"read", "write", "crashed"}
                \/ pc'[q] \in {"read", "write", "crashed"}
    BY <2>4 DEF Blame
  <2>5. \/ Failed(p)
        \/ Processed(p) /\ applied' = applied \cup {<<p, pos[p]>>}
        \/ /\ UNCHANGED <<pos, failures>>
           /\ \/ pc[p] \notin {"read", "write", "crashed"}
              \/ pc'[p] \in {"read", "write", "crashed"}
    <3>1. CASE WriteTicket(p) \/ TransactionFails(p)
      BY <3>1, Zenon DEF WriteTicket, TransactionFails
    <3>2. CASE Start(p)
      BY <3>2 DEF Start
    <3>5. CASE Route(p) \/ CheckDuplicate(p) \/ Record(p)
      <4>1. /\ pc[p] \in {"next", "check", "record"}
            /\ \/ Failed(p)
               \/ GoTo(p, "check") \/ GoTo(p, "record") \/ GoTo(p, "read")
        BY <3>5 DEF Route, CheckDuplicate, DuplicateFound, Record
      <4> QED
        BY <4>1 DEF GoTo
    <3>3. CASE ReadTicket(p) \/ Crash(p)
      BY <1>1, <3>3 DEF ReadTicket, Crash, GoTo
    <3>4. CASE Return(p) \/ Abort(p)
      BY <3>4 DEF Return, Abort, GoTo
    <3> QED
      BY <1>3, <3>1, <3>2, <3>3, <3>4, <3>5 DEF Step
  <2>6. CASE pos'[q] = pos[q] /\ failures'[q] = failures[q] /\ pc'[q] = pc[q]
    BY <2>6 DEF Blame
  <2> QED
    BY <2>1, <2>2, <2>3, <2>4, <2>5, <2>6
<1> QED
  BY <1>2, <1>3 DEF Next

\* Every step keeps the sixth layer.
LEMMA NextBlamed ==
    ASSUME Typed, Recorded, Tallied, UnappliedHasARun, [Next]_vars
    PROVE  UnappliedHasARun'
<1> DEFINE Carried(c) ==
      \/ \E w \in applied : Content(EventRow(feed[w[1]][w[2]])) = c
      \/ \E r \in Runs : \E k \in DOMAIN feed[r] :
            /\ feed[r][k] # Malformed
            /\ Content(EventRow(feed[r][k])) = c
            /\ Blame(r, k)
<1>0. \A i \in DOMAIN lifecycleEvents : Carried(Content(lifecycleEvents[i]))
  BY DEF UnappliedHasARun, Blame
<1>1. CASE UNCHANGED vars
  BY <1>1 DEF vars, database, history, UnappliedHasARun
<1>2. CASE Next
  <2>1. /\ applied \subseteq applied'
        /\ applied \subseteq Runs \X (Nat \ {0})
    BY <1>2 DEF Next, Step, Start, Route, CheckDuplicate, Record, ReadTicket,
                WriteTicket, TransactionFails, Return, Abort, Crash, Tick,
                history, Typed, TypeOK
  <2>2. ASSUME NEW r \in Runs
        PROVE  feed'[r] = feed[r] \/ pc[r] = "idle"
    BY <1>2 DEF Next, Step, Start, Route, CheckDuplicate, Record, ReadTicket,
                WriteTicket, TransactionFails, Return, Abort, Crash, Tick,
                Typed, TypeOK
  <2>3. \A w \in applied : feed'[w[1]] = feed[w[1]]
    BY <2>1, <2>2 DEF Recorded, WritesAreRecorded
  <2>4. ASSUME NEW r \in Runs, NEW k \in DOMAIN feed[r], Blame(r, k)
        PROVE  /\ feed'[r] = feed[r] /\ k \in Nat
               /\ Blame(r, k)' \/ <<r, k>> \in applied'
    <3>1. k \in Nat \ {0}
      <4>1. feed[r] \in Seq(FeedItems)
        BY DEF Typed, TypeOK
      <4> QED
        BY <4>1
    <3>2. pc[r] # "idle"
      BY <2>4, <3>1 DEF Tallied, Tally, Blame
    <3> QED
      BY <1>2, <2>2, <2>4, <3>1, <3>2, BlameStays
  <2>5. ASSUME NEW c, Carried(c) PROVE Carried(c)'
    <3>1. CASE \E w \in applied : Content(EventRow(feed[w[1]][w[2]])) = c
      BY <2>1, <2>3, <3>1
    <3>2. ASSUME NEW r \in Runs, NEW k \in DOMAIN feed[r],
                 feed[r][k] # Malformed, Content(EventRow(feed[r][k])) = c,
                 Blame(r, k)
          PROVE  Carried(c)'
      <4>1. /\ feed'[r] = feed[r]
            /\ Blame(r, k)' \/ <<r, k>> \in applied'
        BY <2>4, <3>2
      <4>2. CASE <<r, k>> \in applied'
        <5> DEFINE w == <<r, k>>
        <5>1. w \in applied' /\ Content(EventRow(feed'[w[1]][w[2]])) = c
          BY <3>2, <4>1, <4>2
        <5> QED
          BY <5>1
      <4> QED
        BY <3>2, <4>1, <4>2
    <3> QED
      BY <2>5, <3>1, <3>2
  <2>6. ASSUME NEW r \in Runs, Record(r), NEW c,
               c = Content(EventRow(Current(r)))
        PROVE  Carried(c)'
    <3>1. PICK k : k = pos[r]
      OBVIOUS
    <3>2. /\ pc[r] = "record" /\ UNCHANGED feed
          /\ GoTo(r, "read") \/ Failed(r)
          /\ k \in 1..Len(feed[r])
          /\ Current(r) \in ProviderEvents
      BY <2>6, <3>1 DEF Record, Typed, ItemIsRouted, AtAnItem
    <3>3. k \in DOMAIN feed[r] /\ feed[r][k] # Malformed
      <4>1. feed[r] \in Seq(FeedItems)
        BY DEF Typed, TypeOK
      <4> QED
        BY <3>1, <3>2, <4>1, FeedAssumption DEF Current
    <3>4. Blame(r, k)'
      <4>1. k \in Nat /\ failures[r] \in Nat
        BY <3>1 DEF Typed, TypeOK
      <4> QED
        BY <3>1, <3>2, <4>1 DEF GoTo, Failed, Typed, TypeOK, Blame
    <3>5. Content(EventRow(feed'[r][k])) = c
      BY <2>6, <3>1, <3>2 DEF Current
    <3> QED
      BY <3>2, <3>3, <3>4, <3>5
  <2> HIDE DEF Carried
  <2>7. CASE UNCHANGED lifecycleEvents
    <3>1. \A i \in DOMAIN lifecycleEvents :
             Carried(Content(lifecycleEvents[i]))'
      BY <1>0, <2>5, <2>7
    <3> QED
      BY <2>7, <3>1 DEF UnappliedHasARun, Carried, Blame
  <2>8. ASSUME NEW r \in Runs, Record(r) PROVE UnappliedHasARun'
    <3>1. PICK row, c : row = EventRow(Current(r)) /\ c = Content(row)
      OBVIOUS
    <3>2. /\ lifecycleEvents' = Append(lifecycleEvents, row)
          /\ lifecycleEvents \in Seq(LifecycleRows)
      BY <2>8, <3>1
         DEF Record, Typed, TypeOK, LifecycleRows, LifecycleChanges
    <3>3. \A i \in DOMAIN lifecycleEvents' :
             \/ i \in DOMAIN lifecycleEvents
                /\ lifecycleEvents'[i] = lifecycleEvents[i]
             \/ lifecycleEvents'[i] = row
      BY <3>2
    <3>4. Carried(c)'
      BY <2>6, <2>8, <3>1
    <3>5. ASSUME NEW i \in DOMAIN lifecycleEvents'
          PROVE  \E d : d = Content(lifecycleEvents'[i]) /\ Carried(d)'
      <4>1. CASE /\ i \in DOMAIN lifecycleEvents
                 /\ lifecycleEvents'[i] = lifecycleEvents[i]
        <5>1. PICK d : d = Content(lifecycleEvents[i])
          OBVIOUS
        <5>2. Content(lifecycleEvents'[i]) = d
          BY <4>1, <5>1
        <5>3. Carried(d)
          BY <1>0, <4>1, <5>1
        <5> QED
          BY <2>5, <5>2, <5>3
      <4>2. CASE lifecycleEvents'[i] = row
        BY <3>1, <3>4, <4>2
      <4> QED
        BY <3>3, <4>1, <4>2
    <3> QED
      BY <3>5 DEF UnappliedHasARun, Carried, Blame, Content
  <2>9. (\E r \in Runs : Record(r)) \/ UNCHANGED lifecycleEvents
    BY <1>2 DEF Next, Step, Start, Route, CheckDuplicate, ReadTicket,
                WriteTicket, TransactionFails, Return, Abort, Crash, Tick,
                database
  <2> QED
    BY <2>7, <2>8, <2>9
<1> QED
  BY <1>1, <1>2

\* An event on record that no write carried out has a run that is on its way to
\* do so, that died at it, or that will not answer that all went well.
THEOREM NoEventLostSilently == Spec => []UnappliedHasARun
<1> DEFINE I == Typed /\ Recorded /\ Tallied
<1>1. Init => UnappliedHasARun
  BY DEF Init, UnappliedHasARun
<1>2. I /\ UnappliedHasARun /\ [Next]_vars => UnappliedHasARun'
  BY NextBlamed
<1> QED
  BY <1>1, <1>2, SpecTallied, PTL DEF Spec
-----------------------------------------------------------------------------
\* Seventh layer: the journal.

\* A run that was not called has no feed, and the items it has written are
\* behind it.
InOrder ==
    \A r \in Runs : /\ pc[r] = "idle" => feed[r] = << >>
                    /\ \A k \in Nat : <<r, k>> \in applied => k < pos[r]

\* A step that leaves calls and writes as they are, and goes back nowhere,
\* keeps the order.
LEMMA QuietInOrder ==
    ASSUME Typed, InOrder, UNCHANGED <<feed, applied>>,
           \A q \in Runs : /\ pc'[q] = "idle" => pc[q] = "idle"
                           /\ pos'[q] \in {pos[q], pos[q] + 1}
    PROVE  InOrder'
<1>1. \A q \in Runs : pos[q] \in Nat
  BY DEF Typed, TypeOK
<1>2. ASSUME NEW q \in Runs, NEW k \in Nat, <<q, k>> \in applied
      PROVE  k < pos'[q]
  <2>1. k < pos[q]
    BY <1>2 DEF InOrder
  <2>2. pos[q] \in Nat /\ pos'[q] \in {pos[q], pos[q] + 1}
    BY <1>1
  <2> QED
    BY <2>1, <2>2
<1> QED
  BY <1>2 DEF InOrder

\* Whatever a run does but write and be called, it stays called and goes on.
LEMMA Forward ==
    ASSUME Typed, NEW r \in Runs,
           \/ Failed(r) \/ Processed(r)
           \/ \E label \in AtAnItem \cup Finished : GoTo(r, label)
    PROVE  \A q \in Runs : /\ pc'[q] = "idle" => pc[q] = "idle"
                           /\ pos'[q] \in {pos[q], pos[q] + 1}
<1>1. pc \in [Runs -> {"idle"} \cup InFlight \cup Finished]
  BY DEF Typed, TypeOK
<1>2. pos \in [Runs -> Nat \ {0}]
  BY DEF Typed, TypeOK
<1>3. CASE Failed(r) \/ Processed(r)
  BY <1>1, <1>2, <1>3 DEF Failed, Processed
<1>4. CASE \E label \in AtAnItem \cup Finished : GoTo(r, label)
  BY <1>1, <1>2, <1>4 DEF GoTo, AtAnItem, Finished
<1> QED
  BY <1>3, <1>4

\* The write of an item goes on record as that of the item the run leaves.
LEMMA WriteInOrder ==
    ASSUME Typed, InOrder, NEW r \in Runs, WriteTicket(r)
    PROVE  InOrder'
<1>1. /\ UNCHANGED feed
      /\ applied' = applied \cup {<<r, pos[r]>>}
      /\ Failed(r) \/ Processed(r)
  BY DEF WriteTicket
<1>2. pos'[r] = pos[r] + 1 /\ pos[r] \in Nat
  BY <1>1 DEF Failed, Processed, Typed, TypeOK
<1>3. \A q \in Runs : /\ pc'[q] = "idle" => pc[q] = "idle"
                      /\ pos'[q] \in {pos[q], pos[q] + 1} /\ pos[q] \in Nat
  BY <1>1, Forward DEF Typed, TypeOK
<1>4. ASSUME NEW q \in Runs, NEW k \in Nat, <<q, k>> \in applied'
      PROVE  k < pos'[q]
  <2>1. CASE <<q, k>> \in applied
    <3>1. k < pos[q]
      BY <2>1 DEF InOrder
    <3>2. pos[q] \in Nat /\ pos'[q] \in {pos[q], pos[q] + 1}
      BY <1>3
    <3> QED
      BY <3>1, <3>2
  <2>2. CASE q = r /\ k = pos[r]
    BY <1>2, <2>2
  <2> QED
    BY <1>1, <1>4, <2>1, <2>2
<1> QED
  BY <1>1, <1>3, <1>4 DEF InOrder

\* Every step keeps the seventh layer.
LEMMA NextInOrder == Typed /\ InOrder /\ [Next]_vars => InOrder'
<1> SUFFICES ASSUME Typed, InOrder, [Next]_vars PROVE InOrder'
  OBVIOUS
<1> USE DEF history
<1>1. ASSUME NEW r \in Runs, Start(r) PROVE InOrder'
  <2>1. /\ pc' = [pc EXCEPT ![r] = "next"] /\ UNCHANGED <<pos, applied>>
        /\ \A q \in Runs \ {r} : feed'[q] = feed[q]
    BY <1>1 DEF Start, Typed, TypeOK
  <2>2. pc \in [Runs -> {"idle"} \cup InFlight \cup Finished]
    BY DEF Typed, TypeOK
  <2>3. \A q \in Runs : pc'[q] = "idle" => q # r /\ pc[q] = "idle"
    BY <2>1, <2>2
  <2> QED
    BY <2>1, <2>3 DEF InOrder
<1>2. ASSUME NEW r \in Runs,
             \/ Route(r) \/ CheckDuplicate(r) \/ Record(r) \/ ReadTicket(r)
             \/ TransactionFails(r) \/ Return(r) \/ Abort(r) \/ Crash(r)
      PROVE  InOrder'
  <2>1. UNCHANGED <<feed, applied>>
    BY <1>2 DEF Route, CheckDuplicate, Record, ReadTicket, TransactionFails,
                Return, Abort, Crash
  <2>2. \/ Failed(r)
        \/ \E label \in AtAnItem \cup Finished : GoTo(r, label)
    BY <1>2 DEF Route, CheckDuplicate, DuplicateFound, Record, ReadTicket,
                TransactionFails, Return, Abort, Crash, AtAnItem, Finished
  <2> QED
    BY <2>1, <2>2, Forward, QuietInOrder
<1>3. CASE Tick \/ UNCHANGED vars
  BY <1>3 DEF Tick, vars, InOrder
<1> QED
  BY <1>1, <1>2, <1>3, WriteInOrder DEF Next, Step

\* What a run answers is up to where it stands.
LEMMA AnswerOf ==
    ASSUME Typed, NEW r \in Runs
    PROVE  /\ DOMAIN Answer = Runs
           /\ pc[r] = "ok" => Answer[r] = "ok"
           /\ pc[r] \in Finished \ {"ok"} => Answer[r] = "error"
           /\ pc[r] \notin Finished => Answer[r] = "none"
BY DEF Answer, Finished

\* A step of a run that is on its way answers nothing unless it ends the run,
\* and nothing for the others.
LEMMA NotYetAnswered ==
    ASSUME Typed, NEW r \in Runs, pc[r] \notin Finished, pc'[r] \notin Finished,
           \A q \in Runs \ {r} : pc'[q] = pc[q]
    PROVE  Answer[r] = "none" /\ Answer' = Answer
BY DEF Answer, Finished

LEMMA NowAnswered ==
    ASSUME Typed, NEW r \in Runs, pc[r] \notin Finished, pc'[r] \in Finished,
           \A q \in Runs \ {r} : pc'[q] = pc[q]
    PROVE  /\ Answer[r] = "none"
           /\ Answer' = [Answer EXCEPT ![r] =
                            IF pc'[r] = "ok" THEN "ok" ELSE "error"]
BY DEF Answer, Finished

\* A row shows what was applied to it.
LEMMA ChangeShows ==
    ASSUME NEW t \in TicketRows, NEW e \in ProviderEvents, NEW at \in Nat
    PROVE  Journal!Shows(ChangedTicket(t, e, at), EventRow(e).event)
<1>1. EventRow(e).event = e.event
  BY DEF EventRow
<1>2. CASE e.event \in StatusChanges
  <2>1. e.event.kind = "status_changed"
    BY <1>2 DEF StatusChanges
  <2> QED
    BY <1>1, <2>1 DEF ChangedTicket, Journal!Shows
<1>3. CASE e.event \in PriorityChanges
  <2>1. e.event.kind # "status_changed"
    BY <1>3 DEF PriorityChanges
  <2> QED
    BY <1>1, <2>1 DEF ChangedTicket, Journal!Shows, TicketRows
<1> QED
  BY <1>2, <1>3 DEF ProviderEvents

\* To be found and on record are what the journal asks of an event.
LEMMA JournalWords ==
    ASSUME NEW e \in ProviderEvents
    PROVE  /\ e # Malformed
           /\ TicketFound(e) => Journal!IsOwn(EventRow(e))
           /\ OnRecord(e) => Journal!Entered(EventRow(e))
           /\ Journal!AuditOf(EventRow(e)) = AuditRow(e)
<1>1. e # Malformed
  BY FeedAssumption
<1>2. TicketFound(e) => Journal!IsOwn(EventRow(e))
  BY DEF TicketFound, Journal!IsOwn, EventRow
<1>3. OnRecord(e) => Journal!Entered(EventRow(e))
  BY DEF OnRecord, Content, Journal!Entered, Journal!ContentOf
<1>4. Journal!AuditOf(EventRow(e)) = AuditRow(e)
  BY DEF Journal!AuditOf, AuditRow, EventRow
<1> QED
  BY <1>1, <1>2, <1>3, <1>4

\* The INSERTs of the first transaction enter the event.
LEMMA RecordEnters ==
    ASSUME Typed, Recorded, NEW r \in Runs, Record(r)
    PROVE  /\ pos[r] \in DOMAIN feed[r]
           /\ Journal!Enter(r, pos[r])
<1> DEFINE e == feed[r][pos[r]]
<1>1. /\ pc[r] = "record" /\ e \in ProviderEvents /\ TicketFound(e)
      /\ pos[r] \in 1..Len(feed[r])
  BY DEF Record, Typed, ItemIsRouted, Recorded, ItemIsFound, AtAnItem, Current
<1>2. pos[r] \in DOMAIN feed[r]
  BY <1>1 DEF Typed, TypeOK
<1>3. /\ lifecycleEvents' = Append(lifecycleEvents, EventRow(e))
      /\ lifecycleAudit' = Append(lifecycleAudit, AuditRow(e))
      /\ UNCHANGED <<tickets, feed, applied>>
      /\ GoTo(r, "read") \/ Failed(r)
  BY DEF Record, Current
<1>4. /\ pc'[r] \notin Finished /\ pc[r] \notin Finished
      /\ \A q \in Runs \ {r} : pc'[q] = pc[q]
  BY <1>1, <1>3 DEF GoTo, Failed, Typed, TypeOK, Finished
<1>5. Answer[r] = "none" /\ Answer' = Answer
  BY <1>4, NotYetAnswered
<1>6. /\ e # Malformed /\ Journal!IsOwn(EventRow(e))
      /\ Journal!AuditOf(EventRow(e)) = AuditRow(e)
  BY <1>1, JournalWords
<1> QED
  BY <1>2, <1>3, <1>5, <1>6 DEF Journal!Enter

\* The UPDATE of the second transaction carries it out.
LEMMA WriteCarriesOut ==
    ASSUME Typed, Recorded, InOrder, NEW r \in Runs, WriteTicket(r)
    PROVE  /\ pos[r] \in DOMAIN feed[r]
           /\ Journal!CarryOut(r, pos[r])
<1> DEFINE e == feed[r][pos[r]]
           t == EventRow(e).ticket_id
<1>1. /\ pc[r] = "write" /\ e \in ProviderEvents /\ TicketFound(e)
      /\ OnRecord(e) /\ pos[r] \in 1..Len(feed[r])
  BY DEF WriteTicket, Typed, ItemIsRouted, Recorded, ItemIsFound,
         ItemIsRecorded, AtAnItem, Current
<1>2. pos[r] \in DOMAIN feed[r] /\ DOMAIN feed[r] \subseteq Nat
  BY <1>1 DEF Typed, TypeOK
<1>3. /\ tickets' = [tickets EXCEPT ![t] = UpdatedTicket(r)]
      /\ applied' = applied \cup {<<r, pos[r]>>}
      /\ UNCHANGED <<lifecycleEvents, lifecycleAudit, feed>>
      /\ Processed(r) \/ Failed(r)
  BY DEF WriteTicket, Current, EventRow
<1>4. /\ pc'[r] \notin Finished /\ pc[r] \notin Finished
      /\ \A q \in Runs \ {r} : pc'[q] = pc[q]
  BY <1>1, <1>3 DEF Processed, Failed, Typed, TypeOK, Finished
<1>5. Answer[r] = "none" /\ Answer' = Answer
  BY <1>4, NotYetAnswered
<1>6. /\ e # Malformed /\ Journal!IsOwn(EventRow(e))
      /\ Journal!Entered(EventRow(e))
  BY <1>1, JournalWords
<1>7. \A j \in DOMAIN feed[r] : <<r, j>> \in applied => j < pos[r]
  BY <1>2 DEF InOrder
<1>8. t \in TicketIds /\ tickets \in [TicketIds -> TicketRows]
  BY <1>1, RowTypes DEF EventRow, Typed, TypeOK, ProviderEvents
<1>9. /\ tickets'[t] = UpdatedTicket(r)
      /\ tickets' = [tickets EXCEPT ![t] = tickets'[t]]
  BY <1>3, <1>8
<1>10. Journal!Shows(tickets'[t], EventRow(e).event)
  BY <1>1, <1>9, ChangeShows DEF UpdatedTicket, Current, Typed, TypeOK
<1> QED
  BY <1>2, <1>3, <1>5, <1>6, <1>7, <1>9, <1>10 DEF Journal!CarryOut

\* The end of a run is its answer, "ok" if all of its feed was carried out.
LEMMA EndAnswers ==
    ASSUME Typed, Tallied, NEW r \in Runs, Return(r) \/ Abort(r) \/ Crash(r)
    PROVE  Journal!AnswerOk(r) \/ Journal!AnswerError(r)
<1>1. PICK label \in Finished : GoTo(r, label)
  BY DEF Return, Abort, Crash, Finished
<1>2. /\ pc[r] \notin Finished
      /\ UNCHANGED <<tickets, lifecycleEvents, lifecycleAudit, feed, applied>>
  BY DEF Return, Abort, Crash, InFlight, Finished, database, history
<1>3. pc'[r] = label /\ \A q \in Runs \ {r} : pc'[q] = pc[q]
  BY <1>1 DEF GoTo, Typed, TypeOK
<1>4. /\ Answer[r] = "none"
      /\ Answer' = [Answer EXCEPT ![r] = IF label = "ok" THEN "ok" ELSE "error"]
  BY <1>2, <1>3, NowAnswered
<1>5. CASE label # "ok"
  BY <1>2, <1>4, <1>5 DEF Journal!AnswerError
<1>6. CASE label = "ok"
  <2>1. Return(r)
    BY <1>1, <1>6 DEF Abort, Crash, GoTo, Typed, TypeOK
  <2>2. /\ pc'[r] = "ok" /\ pos[r] > Len(feed[r])
        /\ GoTo(r, IF failures[r] > 0 THEN "failed" ELSE "ok")
    BY <1>3, <1>6, <2>1 DEF Return
  <2>3. ~(failures[r] > 0) /\ failures[r] \in Nat
    BY <2>2 DEF GoTo, Typed, TypeOK
  <2>4. \A k \in 1..(pos[r] - 1) : <<r, k>> \in applied
    BY <2>3 DEF Tallied, Tally
  <2>5. \A k \in DOMAIN feed[r] : k \in 1..(pos[r] - 1)
    BY <2>2 DEF Typed, TypeOK
  <2> QED
    BY <1>2, <1>4, <1>6, <2>4, <2>5 DEF Journal!AnswerOk
<1> QED
  BY <1>5, <1>6

\* All else that a run does is not seen in the journal.
LEMMA RestIsQuiet ==
    ASSUME Typed, NEW r \in Runs,
           \/ Route(r) \/ CheckDuplicate(r) \/ ReadTicket(r)
           \/ TransactionFails(r)
    PROVE  UNCHANGED Journal!journalVars
<1>1. /\ UNCHANGED <<tickets, lifecycleEvents, lifecycleAudit, feed, applied>>
      /\ pc[r] \in AtAnItem \cup {"next"}
      /\ Failed(r) \/ \E label \in AtAnItem : GoTo(r, label)
  BY DEF Route, CheckDuplicate, DuplicateFound, ReadTicket, TransactionFails,
         AtAnItem, database, history
<1>2. /\ pc'[r] \notin Finished /\ pc[r] \notin Finished
      /\ \A q \in Runs \ {r} : pc'[q] = pc[q]
  BY <1>1 DEF GoTo, Failed, Typed, TypeOK, Finished, AtAnItem
<1>3. Answer' = Answer
  BY <1>2, NotYetAnswered
<1> QED
  BY <1>1, <1>3 DEF Journal!journalVars

\* A call is given its order.
LEMMA StartAsks ==
    ASSUME Typed, InOrder, NEW r \in Runs, Start(r)
    PROVE  Journal!Ask(r)
<1>1. /\ pc[r] = "idle" /\ pc'[r] = "next" /\ feed[r] = << >>
      /\ \A q \in Runs \ {r} : pc'[q] = pc[q]
      /\ \E f \in Feeds : feed' = [feed EXCEPT ![r] = f]
      /\ UNCHANGED <<tickets, lifecycleEvents, lifecycleAudit, applied>>
  BY DEF Start, InOrder, Typed, TypeOK, database, history
<1>2. Answer[r] = "none" /\ Answer' = Answer
  BY <1>1, NotYetAnswered DEF Finished
<1> QED
  BY <1>1, <1>2 DEF Journal!Ask

\* Every step of the ingestion is a step of the journal or none.
LEMMA NextJournal ==
    ASSUME Typed, Recorded, Tallied, InOrder, [Next]_vars
    PROVE  [Journal!JournalNext]_(Journal!journalVars)
<1>1. ASSUME NEW r \in Runs, Start(r) PROVE Journal!JournalNext
  BY <1>1, StartAsks DEF Journal!JournalNext
<1>2. ASSUME NEW r \in Runs, Record(r) PROVE Journal!JournalNext
  BY <1>2, RecordEnters DEF Journal!JournalNext
<1>3. ASSUME NEW r \in Runs, WriteTicket(r) PROVE Journal!JournalNext
  BY <1>3, WriteCarriesOut DEF Journal!JournalNext
<1>4. ASSUME NEW r \in Runs, Return(r) \/ Abort(r) \/ Crash(r)
      PROVE  Journal!JournalNext
  BY <1>4, EndAnswers DEF Journal!JournalNext
<1>5. CASE Tick \/ UNCHANGED vars
  BY <1>5 DEF Tick, vars, database, history, Answer, Journal!journalVars
<1> QED
  BY <1>1, <1>2, <1>3, <1>4, <1>5, RestIsQuiet DEF Next, Step

LEMMA InitJournal == Init => InOrder /\ Journal!JournalInit
BY DEF Init, InOrder, Journal!JournalInit, Answer, Finished

\* The ingestion is the journal it promises to be: whatever overlaps, fails or
\* dies, events are entered with their audit rows before their tickets show
\* them, each run carries out its feed in order, and "ok" means all of it.
THEOREM JournalImplemented == Spec => ImplementsJournal
<1> DEFINE I == Typed /\ Recorded /\ Tallied
<1>1. Init => InOrder /\ Journal!JournalInit
  BY InitJournal
<1>2. I /\ InOrder /\ [Next]_vars => InOrder'
  BY NextInOrder
<1>3. I /\ InOrder /\ [Next]_vars => [Journal!JournalNext]_(Journal!journalVars)
  BY NextJournal
<1> QED
  BY <1>1, <1>2, <1>3, SpecTallied, PTL
     DEF Spec, ImplementsJournal, Journal!JournalSpec
-----------------------------------------------------------------------------
\* How long a run can be.

Rank == [next |-> 5, check |-> 4, record |-> 3, read |-> 2, write |-> 1]

\* The steps a run has left, at most.
StepsLeft(r) ==
    IF pc[r] \in InFlight
    THEN 5 * (Len(feed[r]) + 1 - pos[r]) + Rank[pc[r]]
    ELSE 0

\* A run in flight never has more than a number of steps left that its feed
\* gives; each of its own steps takes one away, and no other step adds any.
BoundedSteps ==
    \A r \in Runs : StepsLeft(r) \in 0..(5 * Len(feed[r]) + 5)

StepsRunOut ==
    [][\A r \in Runs : /\ Step(r) => StepsLeft(r)' < StepsLeft(r)
                       /\ pc[r] \in InFlight => StepsLeft(r)' <= StepsLeft(r)
      ]_vars

\* Arithmetic of the two ways a run moves.
LEMMA RankIs ==
    ASSUME NEW label \in InFlight
    PROVE  Rank[label] \in 1..5
BY DEF InFlight, Rank

LEMMA LeftIs ==
    ASSUME Typed, Tallied, NEW r \in Runs
    PROVE  /\ Len(feed[r]) \in Nat /\ pos[r] \in Nat \ {0}
           /\ Len(feed[r]) + 1 - pos[r] \in Nat
           /\ StepsLeft(r) \in 0..(5 * Len(feed[r]) + 5)
<1>1. /\ Len(feed[r]) \in Nat /\ pos[r] \in Nat \ {0}
      /\ pos[r] <= Len(feed[r]) + 1
  BY DEF Typed, TypeOK, Tallied, Tally
<1>2. /\ Len(feed[r]) + 1 - pos[r] \in Nat
      /\ Len(feed[r]) + 1 - pos[r] <= Len(feed[r])
  BY <1>1
<1>3. StepsLeft(r) \in 0..(5 * Len(feed[r]) + 5)
  <2> DEFINE n == Len(feed[r])
             d == Len(feed[r]) + 1 - pos[r]
  <2>1. n \in Nat /\ d \in Nat /\ d <= n
    BY <1>1, <1>2
  <2>2. CASE pc[r] \in InFlight
    <3>1. StepsLeft(r) = 5 * d + Rank[pc[r]] /\ Rank[pc[r]] \in 1..5
      BY <2>2, RankIs DEF StepsLeft
    <3> HIDE DEF n, d
    <3>2. 5 * d + Rank[pc[r]] \in 0..(5 * n + 5)
      BY <2>1, <3>1
    <3> QED
      BY <3>1, <3>2 DEF n
  <2>3. CASE pc[r] \notin InFlight
    <3>1. StepsLeft(r) = 0
      BY <2>3 DEF StepsLeft
    <3> HIDE DEF n
    <3>2. 0 \in 0..(5 * n + 5)
      BY <2>1
    <3> QED
      BY <3>1, <3>2 DEF n
  <2> QED
    BY <2>2, <2>3
<1> QED
  BY <1>1, <1>2, <1>3

\* Leaving an item takes a step or more away, and so does going on with it.
LEMMA LeavingShortens ==
    ASSUME Typed, Tallied, NEW r \in Runs, pc[r] \in InFlight,
           Failed(r) \/ Processed(r), UNCHANGED feed
    PROVE  StepsLeft(r)' < StepsLeft(r)
<1> DEFINE d == Len(feed[r]) + 1 - pos[r]
<1>1. /\ pos'[r] = pos[r] + 1 /\ pc'[r] = "next" /\ feed'[r] = feed[r]
  BY DEF Failed, Processed, Typed, TypeOK
<1>2. /\ Len(feed[r]) \in Nat /\ pos[r] \in Nat
      /\ d \in Nat
  BY LeftIs
<1>3. StepsLeft(r) = 5 * d + Rank[pc[r]] /\ Rank[pc[r]] \in 1..5
  BY RankIs DEF StepsLeft
<1>4. Len(feed[r]) + 1 - (pos[r] + 1) = d - 1
  <2>1. ASSUME NEW l \in Nat, NEW p \in Nat
        PROVE  l + 1 - (p + 1) = (l + 1 - p) - 1
    OBVIOUS
  <2> QED
    BY <1>2, <2>1, Zenon
<1>5. StepsLeft(r)' = 5 * (d - 1) + 5
  <2>1. StepsLeft(r)' = 5 * (Len(feed[r]) + 1 - (pos[r] + 1)) + Rank["next"]
    BY <1>1 DEF StepsLeft, InFlight
  <2>2. Rank["next"] = 5
    BY DEF Rank
  <2> HIDE DEF d
  <2> QED
    BY <1>4, <2>1, <2>2, Zenon
<1> HIDE DEF d
<1>6. ASSUME NEW a \in Nat, NEW b \in 1..5
      PROVE  5 * (a - 1) + 5 < 5 * a + b
  OBVIOUS
<1> QED
  BY <1>2, <1>3, <1>5, <1>6, Zenon

LEMMA GoingOnShortens ==
    ASSUME Typed, Tallied, NEW r \in Runs, pc[r] \in InFlight,
           NEW label, GoTo(r, label), UNCHANGED feed,
           \/ label \in Finished
           \/ label \in InFlight /\ Rank[label] < Rank[pc[r]]
    PROVE  StepsLeft(r)' < StepsLeft(r)
<1> DEFINE d == Len(feed[r]) + 1 - pos[r]
<1>1. pos'[r] = pos[r] /\ pc'[r] = label /\ feed'[r] = feed[r]
  BY DEF GoTo, Typed, TypeOK
<1>2. d \in Nat
  BY LeftIs
<1>3. StepsLeft(r) = 5 * d + Rank[pc[r]] /\ Rank[pc[r]] \in 1..5
  BY RankIs DEF StepsLeft
<1>4. CASE label \in InFlight /\ Rank[label] < Rank[pc[r]]
  <2>1. StepsLeft(r)' = 5 * d + Rank[label] /\ Rank[label] \in 1..5
    BY <1>1, <1>4, RankIs DEF StepsLeft
  <2> HIDE DEF d
  <2> QED
    BY <1>2, <1>3, <1>4, <2>1
<1>5. CASE label \in Finished
  <2>1. StepsLeft(r)' = 0
    BY <1>1, <1>5 DEF StepsLeft, InFlight, Finished
  <2> HIDE DEF d
  <2> QED
    BY <1>2, <1>3, <2>1
<1> QED
  BY <1>4, <1>5

\* Each step of a run in flight takes steps away from it.
LEMMA StepShortens ==
    ASSUME Typed, Tallied, NEW r \in Runs,
           Step(r) \/ TransactionFails(r) \/ Abort(r) \/ Crash(r)
    PROVE  StepsLeft(r)' < StepsLeft(r)
<1>1. pc[r] \in InFlight /\ UNCHANGED feed
  BY DEF Step, Route, CheckDuplicate, Record, ReadTicket, WriteTicket,
         TransactionFails, Return, Abort, Crash, InFlight
<1>2. \/ Failed(r) \/ Processed(r)
      \/ pc[r] = "next" /\ GoTo(r, "check")
      \/ pc[r] = "check" /\ (GoTo(r, "read") \/ GoTo(r, "record"))
      \/ pc[r] = "record" /\ GoTo(r, "read")
      \/ pc[r] = "read" /\ GoTo(r, "write")
      \/ \E label \in Finished : GoTo(r, label)
  <2>1. CASE Route(r)
    BY <2>1 DEF Route
  <2>2. CASE CheckDuplicate(r)
    BY <2>2 DEF CheckDuplicate, DuplicateFound
  <2>3. CASE Record(r) \/ ReadTicket(r) \/ WriteTicket(r)
    BY <2>3 DEF Record, ReadTicket, WriteTicket
  <2>4. CASE TransactionFails(r)
    BY <2>4 DEF TransactionFails
  <2>5. CASE Return(r) \/ Abort(r) \/ Crash(r)
    BY <2>5 DEF Return, Abort, Crash, Finished
  <2> QED
    BY <2>1, <2>2, <2>3, <2>4, <2>5 DEF Step
<1>3. CASE Failed(r) \/ Processed(r)
  BY <1>1, <1>3, LeavingShortens
<1>4. CASE \E label \in Finished : GoTo(r, label)
  BY <1>1, <1>4, GoingOnShortens
<1>5. CASE pc[r] = "next" /\ GoTo(r, "check")
  BY <1>1, <1>5, GoingOnShortens DEF InFlight, Rank
<1>6. CASE pc[r] = "check" /\ (GoTo(r, "read") \/ GoTo(r, "record"))
  BY <1>1, <1>6, GoingOnShortens DEF InFlight, Rank
<1>7. CASE pc[r] = "record" /\ GoTo(r, "read")
  BY <1>1, <1>7, GoingOnShortens DEF InFlight, Rank
<1>8. CASE pc[r] = "read" /\ GoTo(r, "write")
  BY <1>1, <1>8, GoingOnShortens DEF InFlight, Rank
<1> QED
  BY <1>2, <1>3, <1>4, <1>5, <1>6, <1>7, <1>8

\* No step of another adds any.
LEMMA OthersKeepSteps ==
    ASSUME Typed, Tallied, [Next]_vars, NEW q \in Runs, pc[q] \in InFlight
    PROVE  StepsLeft(q)' <= StepsLeft(q)
<1>0. StepsLeft(q) \in Int
  BY LeftIs
<1>1. ASSUME NEW r \in Runs, r # q,
             Start(r) \/ Step(r) \/ TransactionFails(r) \/ Abort(r) \/ Crash(r)
      PROVE  pc'[q] = pc[q] /\ pos'[q] = pos[q] /\ feed'[q] = feed[q]
  <2>1. CASE Start(r)
    BY <1>1, <2>1 DEF Start, Typed, TypeOK
  <2>2. CASE ~Start(r)
    <3>1. /\ UNCHANGED feed
          /\ Failed(r) \/ Processed(r) \/ \E label : GoTo(r, label)
      BY <1>1, <2>2 DEF Step, Route, CheckDuplicate, DuplicateFound, Record,
         ReadTicket, WriteTicket, TransactionFails, Return, Abort, Crash
    <3> QED
      BY <1>1, <3>1 DEF Failed, Processed, GoTo, Typed, TypeOK
  <2> QED
    BY <2>1, <2>2
<1>2. ~Start(q)
  BY DEF Start, InFlight
<1>3. CASE Step(q) \/ TransactionFails(q) \/ Abort(q) \/ Crash(q)
  <2>1. StepsLeft(q)' < StepsLeft(q)
    BY <1>3, StepShortens
  <2>2. StepsLeft(q)' \in Int
    <3>1. Typed' /\ Tallied'
      BY NextTyped, NextTallied
    <3>2. q \in Runs
      OBVIOUS
    <3>3. /\ feed' \in [Runs -> Seq(FeedItems)]
          /\ pos' \in [Runs -> Nat \ {0}]
      BY <3>1 DEF Typed, TypeOK
    <3>4. CASE pc'[q] \in InFlight
      <4>1. Rank[pc'[q]] \in Int
        BY <3>4, RankIs
      <4>2. Len(feed'[q]) \in Int /\ pos'[q] \in Int
        BY <3>3
      <4>3. ASSUME NEW l \in Int, NEW p \in Int, NEW b \in Int
            PROVE  5 * (l + 1 - p) + b \in Int
        OBVIOUS
      <4>4. 5 * (Len(feed'[q]) + 1 - pos'[q]) + Rank[pc'[q]] \in Int
        BY <4>1, <4>2, <4>3, Zenon
      <4> QED
        BY <3>4, <4>4 DEF StepsLeft
    <3>5. CASE pc'[q] \notin InFlight
      BY <3>5 DEF StepsLeft
    <3> QED
      BY <3>4, <3>5
  <2> QED
    BY <1>0, <2>1, <2>2
<1>4. CASE pc'[q] = pc[q] /\ pos'[q] = pos[q] /\ feed'[q] = feed[q]
  BY <1>0, <1>4 DEF StepsLeft
<1>5. CASE Tick \/ UNCHANGED vars
  BY <1>4, <1>5 DEF Tick, vars
<1> QED
  BY <1>1, <1>2, <1>3, <1>4, <1>5 DEF Next

\* A run that is called with n items makes 5n + 5 steps at the most, whatever
\* its items and the other runs do: under fairness it ends.
THEOREM RunsAreBounded == Spec => []BoundedSteps /\ StepsRunOut
<1> DEFINE I == Typed /\ Recorded /\ Tallied
           Shorter == \A r \in Runs :
               /\ Step(r) => StepsLeft(r)' < StepsLeft(r)
               /\ pc[r] \in InFlight => StepsLeft(r)' <= StepsLeft(r)
<1>1. I => BoundedSteps
  BY LeftIs DEF BoundedSteps
<1>2. I /\ [Next]_vars => [Shorter]_vars
  BY StepShortens, OthersKeepSteps
<1> QED
  BY <1>1, <1>2, SpecTallied, PTL DEF Spec, StepsRunOut
=============================================================================
