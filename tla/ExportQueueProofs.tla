------------------------- MODULE ExportQueueProofs -------------------------
(***************************************************************************)
(* Theorems about ExportQueue, for any workers, tenants and jobs.          *)
(*                                                                         *)
(* The invariant comes in three layers: types and where a worker stands in *)
(* its round (Typed); who has a job, and what is on the audit log of it    *)
(* (Exclusive); and what a round knows of the jobs it has not claimed      *)
(* (Accounted).  The last part counts how much of a run is left.           *)
(***************************************************************************)
EXTENDS ExportQueue, FiniteSetTheorems, WellFoundedInduction, TLAPS

-----------------------------------------------------------------------------
\* The order of jobs.

\* Every nonempty set of natural numbers has a least element.
LEMMA LeastNatural ==
    ASSUME NEW S, S \subseteq Nat, S # {}
    PROVE  \E n \in S : \A m \in S : n <= m
<1>1. PICK n \in S : \A m \in S : ~(<<m, n>> \in OpToRel(<, Nat))
  BY NatLessThanWellFounded, WFMin
<1>2. ASSUME NEW m \in S PROVE n <= m
  <2>1. ~(m < n)
    BY <1>1 DEF OpToRel
  <2> QED
    BY <2>1
<1> QED
  BY <1>2

\* Dates and ids order the jobs.
LEMMA InOrderIsOrder ==
    ASSUME NEW date \in [Jobs -> Nat]
    PROVE  /\ \A j \in Jobs : ~InOrder(date, j, j)
           /\ \A i, j, k \in Jobs :
                 InOrder(date, i, j) /\ InOrder(date, j, k)
                 => InOrder(date, i, k)
BY JobAssumption DEF InOrder

\* Every nonempty set of jobs has a first one.
LEMMA FirstIsThere ==
    ASSUME NEW date \in [Jobs -> Nat], NEW S, S \subseteq Jobs, S # {}
    PROVE  /\ FirstBy(date, S) \in S
           /\ \A k \in S \ {FirstBy(date, S)} :
                 InOrder(date, FirstBy(date, S), k)
<1> DEFINE Dates == {date[j] : j \in S}
<1>0. Dates \subseteq Nat /\ Dates # {}
  <2>1. \A j \in S : date[j] \in Nat
    OBVIOUS
  <2> QED
    BY <2>1
<1>1. PICK d \in Dates : \A e \in Dates : d <= e
  <2> HIDE DEF Dates
  <2> QED
    BY <1>0, LeastNatural
<1> DEFINE First == {j \in S : date[j] = d}
<1>2. PICK j \in First : \A k \in First : j <= k
  BY LeastNatural, JobAssumption
<1>3. j \in S /\ \A k \in S \ {j} : InOrder(date, j, k)
  <2>1. j \in S /\ date[j] = d
    OBVIOUS
  <2>2. ASSUME NEW k \in S, k # j PROVE InOrder(date, j, k)
    <3>1. d <= date[k] /\ (date[k] = d => j <= k)
      BY <1>1, <1>2
    <3>2. d \in Nat /\ date[k] \in Nat /\ j \in Nat /\ k \in Nat
      BY <1>0, <2>1, <2>2, JobAssumption
    <3> HIDE DEF Dates, First
    <3>3. d < date[k] \/ (date[k] = d /\ j < k)
      BY <2>2, <3>1, <3>2
    <3> QED
      BY <2>1, <3>3 DEF InOrder
  <2> QED
    BY <2>1, <2>2
<1> HIDE DEF First, Dates
<1>4. \E i \in S : \A k \in S \ {i} : InOrder(date, i, k)
  BY <1>3
<1> QED
  BY <1>4, Zenon DEF FirstBy

\* The peek that finds a free row names one of them.
LEMMA OldestIsThere ==
    ASSUME NEW S, S \subseteq Jobs, S # {}
    PROVE  /\ Oldest(S) \in S
           /\ \A k \in S \ {Oldest(S)} : Older(Oldest(S), k)
BY JobAssumption, FirstIsThere DEF Oldest, Older

LEMMA MillisOfJobs == Millis \in [Jobs -> Nat]
<1>1. \A j \in Jobs : CreatedAt[j] \in Nat
  BY JobAssumption
<1>2. \A n \in Nat : n \div 1000 \in Nat
  OBVIOUS
<1> QED
  BY <1>1, <1>2 DEF Millis

\* The sort of the candidates puts one of them first.
LEMMA NextIsThere ==
    ASSUME NEW w \in Workers, candidates[w] \subseteq Jobs,
           candidates[w] # {}
    PROVE  /\ NextCandidate(w) \in candidates[w]
           /\ \A k \in candidates[w] \ {NextCandidate(w)} :
                 SortsBefore(NextCandidate(w), k)
BY MillisOfJobs, FirstIsThere DEF NextCandidate, SortsBefore
-----------------------------------------------------------------------------
\* First layer: types.

\* A worker that locks or processes a job has one, and a claim is of one of
\* the round's candidates.
StandsWell(w) ==
    /\ pc[w] \in Locking \cup Claimed => job[w] \in Jobs
    /\ pc[w] = "peeked" => /\ left[w] # << >>
                           /\ JobTenant[job[w]] = Head(left[w])
    /\ pc[w] = "claiming" => /\ job[w] \in candidates[w]
                             /\ job[w] = NextCandidate(w)
    /\ pc[w] \in {"claim", "claiming"} \cup Claimed => left[w] = << >>
    /\ pc[w] = "idle" => candidates[w] = {}

AtHand == \A w \in Workers : StandsWell(w)

Typed == TypeOK /\ AtHand

LEMMA InitTyped == Init => Typed
BY JobAssumption, MaxAssumption
   DEF Init, Typed, TypeOK, AtHand, StandsWell, AuditActions, Claimed, Locking

\* What every way out of processNextTenantExport by an error does.
LEMMA ThrownTyped ==
    ASSUME Typed, NEW w \in Workers, NEW j \in Jobs, Thrown(w, j),
           left[w] = << >>,
           status' \in [Jobs ->
                        {"absent", "queued", "running", "done", "failed"}],
           lock' \in [Jobs -> Workers \cup {NoWorker}],
           audited' \in [AuditActions \X Jobs -> Nat],
           orphaned' \subseteq Jobs
    PROVE  Typed'
<1> USE DEF Typed, TypeOK
<1>1. TypeOK'
  BY JobAssumption DEF Thrown, LetsGo, Claimed, Locking
<1>2. AtHand'
  <2> SUFFICES ASSUME NEW v \in Workers PROVE StandsWell(v)'
    BY DEF AtHand
  <2>1. CASE v = w
    BY <2>1 DEF Thrown, LetsGo, StandsWell, Claimed, Locking
  <2>2. CASE v # w
    BY <2>2 DEF Thrown, LetsGo, AtHand, StandsWell, NextCandidate
  <2> QED
    BY <2>1, <2>2
<1> QED
  BY <1>1, <1>2

\* A run that ends, or goes on to a new round, leaves nothing of the old one.
LEMMA BeginRoundTyped ==
    ASSUME Typed, NEW w \in Workers, BeginRound(w),
           job' \in [Workers -> Jobs \cup {NoJob}],
           \A v \in Workers \ {w} : job'[v] = job[v],
           skipped' \in [Workers -> SUBSET Tenants],
           stalls' \in [Workers -> 0..(MaxStalls - 1)],
           processed' \in [Workers -> 0..(MaxJobs - 1)],
           status' \in [Jobs ->
                        {"absent", "queued", "running", "done", "failed"}],
           lock' \in [Jobs -> Workers \cup {NoWorker}],
           audited' \in [AuditActions \X Jobs -> Nat],
           orphaned' \subseteq Jobs
    PROVE  Typed'
<1>1. TypeOK'
  BY OrderAssumption DEF BeginRound, Typed, TypeOK
<1>2. ASSUME NEW v \in Workers PROVE StandsWell(v)'
  <2>1. CASE v = w
    BY <2>1
       DEF BeginRound, Typed, TypeOK, StandsWell, Claimed, Locking
  <2>2. CASE v # w
    BY <2>2
       DEF BeginRound, Typed, TypeOK, AtHand, StandsWell, NextCandidate
  <2> QED
    BY <2>1, <2>2
<1> QED
  BY <1>1, <1>2 DEF Typed, AtHand

LEMMA EndRunTyped ==
    ASSUME Typed, NEW w \in Workers, EndRun(w),
           status' \in [Jobs ->
                        {"absent", "queued", "running", "done", "failed"}],
           lock' \in [Jobs -> Workers \cup {NoWorker}],
           audited' \in [AuditActions \X Jobs -> Nat],
           orphaned' \subseteq Jobs
    PROVE  Typed'
BY MaxAssumption
   DEF EndRun, Typed, TypeOK, AtHand, StandsWell, NextCandidate, Claimed, Locking

LEMMA NextTyped == Typed /\ [Next]_vars => Typed'
<1> SUFFICES ASSUME Typed, [Next]_vars PROVE Typed'
  OBVIOUS
<1>t. TypeOK /\ AtHand
  BY DEF Typed
<1>q. ASSUME UNCHANGED queue, UNCHANGED orphaned
      PROVE  /\ status' \in [Jobs ->
                       {"absent", "queued", "running", "done", "failed"}]
             /\ lock' \in [Jobs -> Workers \cup {NoWorker}]
             /\ audited' \in [AuditActions \X Jobs -> Nat]
             /\ orphaned' \subseteq Jobs
  BY <1>q, <1>t DEF TypeOK, queue
<1>0. ASSUME NEW j \in Jobs, Request(j) PROVE Typed'
  BY <1>0, <1>t DEF Request, round, history, Typed, TypeOK, AtHand,
                    StandsWell, NextCandidate
<1>1. ASSUME NEW w \in Workers, RunStarts(w) PROVE Typed'
  BY <1>1, <1>t, <1>q, BeginRoundTyped DEF RunStarts, TypeOK
<1>2. ASSUME NEW w \in Workers, Peek(w) PROVE Typed'
  <2> DEFINE free == {j \in Free : JobTenant[j] = Head(left[w])}
  <2>1. CASE free = {} \/ Head(left[w]) \in skipped[w]
    <3>1. /\ left' = [left EXCEPT ![w] = Tail(@)]
          /\ UNCHANGED <<lock, job, contended, pc, status, audited, candidates,
                         skipped, stalls, processed, known, orphaned>>
          /\ pc[w] = "scan"
          /\ left[w] # << >>
      BY <1>2, <2>1 DEF Peek
    <3>2. Tail(left[w]) \in Seq(Tenants)
      BY <1>t, <3>1 DEF TypeOK
    <3>3. TypeOK'
      BY <1>t, <3>1, <3>2 DEF TypeOK
    <3>4. AtHand'
      BY <1>t, <3>1 DEF TypeOK, AtHand, StandsWell, NextCandidate, Claimed,
                        Locking
    <3> QED
      BY <3>3, <3>4 DEF Typed
  <2>2. CASE ~(free = {} \/ Head(left[w]) \in skipped[w])
    <3>1. Oldest(free) \in free /\ free \subseteq Jobs
      <4>1. free \subseteq Jobs /\ free # {}
        BY <2>2 DEF Free
      <4> HIDE DEF free
      <4> QED
        BY <4>1, OldestIsThere
    <3>2. /\ Locks(w, Oldest(free))
          /\ pc' = [pc EXCEPT ![w] = "peeked"]
          /\ UNCHANGED <<left, status, audited, candidates, skipped, stalls,
                         processed, known, orphaned>>
          /\ left[w] # << >>
      BY <1>2, <2>2 DEF Peek
    <3>3. JobTenant[Oldest(free)] = Head(left[w])
      BY <3>1
    <3> HIDE DEF free
    <3>4. TypeOK'
      BY <1>t, <3>1, <3>2, JobAssumption DEF Locks, TypeOK, Locking
    <3>5. ASSUME NEW v \in Workers PROVE StandsWell(v)'
      <4>1. CASE v = w
        BY <1>t, <3>1, <3>2, <3>3, <4>1
           DEF Locks, TypeOK, StandsWell, Claimed, Locking
      <4>2. CASE v # w
        BY <1>t, <3>2, <4>2
           DEF Locks, TypeOK, AtHand, StandsWell, NextCandidate
      <4> QED
        BY <4>1, <4>2
    <3> QED
      BY <3>4, <3>5 DEF Typed, AtHand
  <2> QED
    BY <2>1, <2>2
<1>3. ASSUME NEW w \in Workers, PeekCommits(w) PROVE Typed'
  BY <1>3, <1>t DEF PeekCommits, Unlocks, LetsGo, history, Typed, TypeOK,
                    AtHand, StandsWell, NextCandidate, Claimed, Locking
<1>4. ASSUME NEW w \in Workers, PeekFails(w) PROVE Typed'
  BY <1>4, <1>t, OrderAssumption
     DEF PeekFails, Unlocks, LetsGo, history, Typed, TypeOK,
         AtHand, StandsWell, NextCandidate, Claimed, Locking
<1>5. ASSUME NEW w \in Workers, ScanEnds(w) PROVE Typed'
  <2>1. CASE candidates[w] = {}
    BY <1>5, <1>q, <2>1, EndRunTyped DEF ScanEnds
  <2>2. CASE candidates[w] # {}
    <3>1. /\ UNCHANGED <<status, lock, audited, job, left, candidates, skipped,
                         stalls, processed, history>>
          /\ pc' = [pc EXCEPT ![w] = "claim"] /\ left[w] = << >>
      BY <1>5, <2>2 DEF ScanEnds, queue, round, history
    <3>2. TypeOK'
      BY <1>t, <3>1 DEF history, TypeOK
    <3>3. ASSUME NEW v \in Workers PROVE StandsWell(v)'
      BY <1>t, <3>1
         DEF TypeOK, AtHand, StandsWell, NextCandidate, Claimed, Locking
    <3> QED
      BY <3>2, <3>3 DEF Typed, AtHand
  <2> QED
    BY <2>1, <2>2
<1>6. ASSUME NEW w \in Workers, candidates[w] # {}
      PROVE  NextCandidate(w) \in Jobs /\ NextCandidate(w) \in candidates[w]
  BY <1>6, <1>t, NextIsThere DEF TypeOK
<1>7. ASSUME NEW w \in Workers, Claim(w) PROVE Typed'
  <2> DEFINE c == NextCandidate(w)
  <2>0. c \in Jobs /\ c \in candidates[w] /\ pc[w] = "claim" /\ left[w] = << >>
    BY <1>6, <1>7, <1>t DEF Claim, AtHand, StandsWell
  <2>1. CASE ~Claimable(c)
    <3>1. /\ candidates' = [candidates EXCEPT ![w] = @ \ {c}]
          /\ UNCHANGED <<lock, job, contended, pc, status, audited, left,
                         skipped, stalls, processed, known, orphaned>>
      BY <1>7, <2>1 DEF Claim
    <3> HIDE DEF c
    <3>2. TypeOK'
      BY <1>t, <3>1 DEF TypeOK
    <3>3. AtHand'
      BY <1>t, <2>0, <3>1 DEF TypeOK, AtHand, StandsWell, NextCandidate,
                              Claimed, Locking
    <3> QED
      BY <3>2, <3>3 DEF Typed
  <2>2. CASE Claimable(c)
    <3>1. /\ Locks(w, c)
          /\ pc' = [pc EXCEPT ![w] = "claiming"]
          /\ UNCHANGED <<candidates, status, audited, left, skipped, stalls,
                         processed, known, orphaned>>
      BY <1>7, <2>2 DEF Claim
    <3>2. c' = c
      BY <3>1 DEF NextCandidate
    <3> HIDE DEF c
    <3>3. TypeOK'
      BY <1>t, <2>0, <3>1 DEF Locks, TypeOK, Locking
    <3>4. ASSUME NEW v \in Workers PROVE StandsWell(v)'
      <4>1. CASE v = w
        BY <1>t, <2>0, <3>1, <3>2, <4>1
           DEF Locks, TypeOK, StandsWell, Claimed, Locking, c
      <4>2. CASE v # w
        BY <1>t, <3>1, <4>2
           DEF Locks, TypeOK, AtHand, StandsWell, NextCandidate
      <4> QED
        BY <4>1, <4>2
    <3> QED
      BY <3>3, <3>4 DEF Typed, AtHand
  <2> QED
    BY <2>1, <2>2
<1>8. ASSUME NEW w \in Workers, ClaimCommits(w) PROVE Typed'
  BY <1>8, <1>t DEF ClaimCommits, Unlocks, round, history, Typed, TypeOK,
                    AtHand, StandsWell, NextCandidate, Claimed, Locking
<1>9. ASSUME NEW w \in Workers, ClaimFails(w) PROVE Typed'
  <2>1. NextCandidate(w) \in Jobs /\ left[w] = << >>
    BY <1>9, <1>6, <1>t DEF ClaimFails, AtHand, StandsWell
  <2> QED
    BY <1>9, <1>t, <2>1, ThrownTyped DEF ClaimFails, Unlocks, TypeOK
<1>10. ASSUME NEW w \in Workers, ClaimUnanswered(w) PROVE Typed'
  <2>1. job[w] \in Jobs /\ left[w] = << >>
    BY <1>10, <1>t DEF ClaimUnanswered, AtHand, StandsWell, Locking
  <2> QED
    BY <1>10, <1>t, <2>1, ThrownTyped DEF ClaimUnanswered, Unlocks, TypeOK
<1>11. ASSUME NEW w \in Workers, RoundEnds(w) PROVE Typed'
  <2>1. CASE stalls[w] + 1 >= MaxStalls
    BY <1>11, <1>q, <2>1, EndRunTyped DEF RoundEnds, Stall
  <2>2. CASE ~(stalls[w] + 1 >= MaxStalls)
    <3>1. stalls[w] + 1 \in 0..(MaxStalls - 1)
      BY <1>t, <2>2, MaxAssumption DEF TypeOK
    <3>2. /\ BeginRound(w)
          /\ stalls' = [stalls EXCEPT ![w] = @ + 1]
          /\ UNCHANGED <<skipped, processed, job>>
          /\ UNCHANGED queue /\ UNCHANGED orphaned
      BY <1>11, <2>2 DEF RoundEnds, Stall
    <3>3. stalls' \in [Workers -> 0..(MaxStalls - 1)]
      BY <1>t, <3>1, <3>2 DEF TypeOK
    <3> QED
      BY <1>t, <1>q, <3>2, <3>3, BeginRoundTyped DEF TypeOK
  <2> QED
    BY <2>1, <2>2
<1>12. ASSUME NEW w \in Workers, Build(w) PROVE Typed'
  BY <1>12, <1>t DEF Build, queue, round, history, Typed, TypeOK, AtHand,
                     StandsWell, NextCandidate, Claimed, Locking
<1>13. ASSUME NEW w \in Workers, pc[w] \in {"finish", "fail"},
              NEW outcome \in {"done", "failed"}, NEW action \in AuditActions,
              Settles(w, outcome, action), Returned(w) \/ Thrown(w, job[w])
       PROVE  Typed'
  <2>1. job[w] \in Jobs /\ left[w] = << >>
    BY <1>13, <1>t DEF AtHand, StandsWell, Claimed
  <2>2. /\ status' \in [Jobs ->
                  {"absent", "queued", "running", "done", "failed"}]
        /\ lock' \in [Jobs -> Workers \cup {NoWorker}]
        /\ audited' \in [AuditActions \X Jobs -> Nat]
        /\ orphaned' \subseteq Jobs
    BY <1>13, <1>t, <2>1 DEF Settles, TypeOK
  <2>3. CASE Thrown(w, job[w])
    BY <2>1, <2>2, <2>3, ThrownTyped
  <2>4. CASE Returned(w) /\ processed[w] + 1 >= MaxJobs
    BY <2>2, <2>4, EndRunTyped DEF Returned
  <2>5. CASE Returned(w) /\ ~(processed[w] + 1 >= MaxJobs)
    <3>1. /\ processed[w] + 1 \in 0..(MaxJobs - 1)
          /\ 0 \in 0..(MaxStalls - 1)
      BY <1>t, <2>5, MaxAssumption DEF TypeOK
    <3>2. /\ BeginRound(w)
          /\ processed' = [processed EXCEPT ![w] = @ + 1]
          /\ stalls' = [stalls EXCEPT ![w] = 0]
          /\ job' = [job EXCEPT ![w] = NoJob]
          /\ UNCHANGED skipped
      BY <2>5 DEF Returned, LetsGo
    <3>3. /\ processed' \in [Workers -> 0..(MaxJobs - 1)]
          /\ stalls' \in [Workers -> 0..(MaxStalls - 1)]
      BY <1>t, <3>1, <3>2 DEF TypeOK
    <3> QED
      BY <1>t, <2>2, <3>2, <3>3, BeginRoundTyped DEF TypeOK
  <2> QED
    BY <1>13, <2>3, <2>4, <2>5
<1>14. ASSUME NEW w \in Workers, MarkDone(w) PROVE Typed'
  BY <1>13, <1>14 DEF MarkDone, FinishThrown, AuditActions
<1>15. ASSUME NEW w \in Workers, MarkFailed(w) PROVE Typed'
  BY <1>13, <1>15 DEF MarkFailed, AuditActions
<1>16. ASSUME NEW w \in Workers, FinishFails(w) \/ FailFails(w) PROVE Typed'
  <2>1. job[w] \in Jobs /\ left[w] = << >> /\ Thrown(w, job[w])
    BY <1>16, <1>t
       DEF FinishFails, FailFails, FinishThrown, AtHand, StandsWell, Claimed
  <2>2. UNCHANGED queue /\ orphaned' \in {orphaned, orphaned \cup {job[w]}}
    BY <1>16 DEF FinishFails, FailFails, queue
  <2> QED
    BY <1>t, <2>1, <2>2, ThrownTyped DEF queue, TypeOK
<1>17. ASSUME NEW w \in Workers, Crash(w) PROVE Typed'
  BY <1>17, <1>t, EndRunTyped
     DEF Crash, Unlocks, TypeOK, AtHand, StandsWell, Claimed
<1>18. CASE UNCHANGED vars
  BY <1>18, <1>t DEF vars, queue, round, history, Typed, TypeOK, AtHand,
                     StandsWell, NextCandidate
<1> QED
  BY <1>0, <1>1, <1>2, <1>3, <1>4, <1>5, <1>7, <1>8, <1>9, <1>10, <1>11,
     <1>12, <1>14, <1>15, <1>16, <1>17, <1>18 DEF Next, Step, Fails

\* The table and the workers keep their types, and a worker's job, tenants and
\* candidates are those of where it stands in its round.
THEOREM SpecTyped == Spec => []Typed
BY InitTyped, NextTyped, PTL DEF Spec

\* TypeOK holds in every reachable state.
THEOREM TypeCorrect == Spec => []TypeOK
<1>1. Typed => TypeOK
  BY DEF Typed
<1> QED
  BY <1>1, SpecTyped, PTL
-----------------------------------------------------------------------------
\* Second layer: who has a job.

\* A worker with a row lock has the lock of its job, which waits in the queue,
\* and the job a worker processes is running.
HasItsJob(w) ==
    /\ pc[w] \in Locking => /\ lock[job[w]] = w
                            /\ status[job[w]] = "queued"
    /\ pc[w] \in Claimed => status[job[w]] = "running"

\* No row is locked but by the transaction of a worker.
LocksAreHeld ==
    \A j \in Jobs : lock[j] # NoWorker =>
        pc[lock[j]] \in Locking /\ job[lock[j]] = j

Exclusive ==
    /\ \A w \in Workers : HasItsJob(w)
    /\ LocksAreHeld
    /\ OneWorkerPerJob
    /\ SettledIsAudited

LEMMA InitExclusive == Init => Exclusive
BY DEF Init, Exclusive, HasItsJob, LocksAreHeld, OneWorkerPerJob,
       SettledIsAudited, Locking, Claimed, AuditActions

\* A worker that gives its row and its job back disturbs nobody.
LEMMA LetGoExclusive ==
    ASSUME Typed, Exclusive, NEW w \in Workers,
           \A v \in Workers \ {w} : pc'[v] = pc[v] /\ job'[v] = job[v],
           pc'[w] \notin Locking \cup Claimed,
           UNCHANGED <<status, audited>>,
           Unlocks(w) \/ (lock' = lock /\ pc[w] \notin Locking)
    PROVE  Exclusive'
<1> USE DEF Exclusive
<1>1. /\ \A j \in Jobs : lock[j] = w => lock'[j] = NoWorker
      /\ \A j \in Jobs : lock[j] # w => lock'[j] = lock[j]
  BY DEF Unlocks, LocksAreHeld, Typed, TypeOK
<1>2. ASSUME NEW v \in Workers PROVE HasItsJob(v)'
  BY <1>1 DEF HasItsJob, Typed, AtHand, StandsWell, Locking, Claimed
<1>3. LocksAreHeld'
  BY <1>1 DEF LocksAreHeld, Typed, TypeOK
<1>4. OneWorkerPerJob'
  BY DEF OneWorkerPerJob
<1>5. SettledIsAudited'
  BY DEF SettledIsAudited
<1> QED
  BY <1>2, <1>3, <1>4, <1>5

\* A worker that selects a free queued row gets it for itself.
LEMMA LocksExclusive ==
    ASSUME Typed, Exclusive, NEW w \in Workers, NEW j \in Jobs,
           Locks(w, j), Claimable(j),
           pc[w] \notin Locking \cup Claimed,
           NEW at \in Locking, pc' = [pc EXCEPT ![w] = at],
           UNCHANGED <<status, audited>>
    PROVE  Exclusive'
<1> USE DEF Exclusive
<1>1. ASSUME NEW v \in Workers PROVE HasItsJob(v)'
  BY <1>1, WorkerAssumption
     DEF HasItsJob, Locks, Claimable, Typed, TypeOK, AtHand, StandsWell,
         Locking, Claimed
<1>2. LocksAreHeld'
  BY WorkerAssumption DEF LocksAreHeld, Locks, Claimable, Typed, TypeOK
<1>3. OneWorkerPerJob'
  BY DEF OneWorkerPerJob, Locks, Typed, TypeOK, Locking, Claimed
<1>4. SettledIsAudited'
  BY DEF SettledIsAudited
<1> QED
  BY <1>1, <1>2, <1>3, <1>4

\* A claim is committed: nobody else has the job, whose lock the worker had.
LEMMA ClaimedExclusive ==
    ASSUME Typed, Exclusive, NEW w \in Workers, pc[w] = "claiming",
           status' = [status EXCEPT ![job[w]] = "running"],
           Unlocks(w), UNCHANGED audited,
           \A v \in Workers \ {w} : pc'[v] = pc[v] /\ job'[v] = job[v],
           \/ pc'[w] = "build" /\ job'[w] = job[w]
           \/ pc'[w] = "claim"
    PROVE  Exclusive'
<1> USE DEF Exclusive
<1>1. /\ job[w] \in Jobs
      /\ status[job[w]] = "queued"
      /\ lock[job[w]] = w
  BY DEF HasItsJob, Typed, AtHand, StandsWell, Locking
<1>2. /\ \A j \in Jobs : lock[j] = w => lock'[j] = NoWorker
      /\ \A j \in Jobs : lock[j] # w => lock'[j] = lock[j]
  BY DEF Unlocks
<1>3. ASSUME NEW v \in Workers, v # w
      PROVE  pc[v] \in Locking \cup Claimed => job[v] # job[w]
  BY <1>1, <1>3 DEF HasItsJob, Claimed
<1>4. ASSUME NEW v \in Workers PROVE HasItsJob(v)'
  BY <1>1, <1>2, <1>3
     DEF HasItsJob, Typed, TypeOK, AtHand, StandsWell, Locking, Claimed
<1>5. LocksAreHeld'
  BY <1>2 DEF LocksAreHeld, Typed, TypeOK
<1>6. OneWorkerPerJob'
  BY <1>3 DEF OneWorkerPerJob, Claimed
<1>7. SettledIsAudited'
  BY <1>1 DEF SettledIsAudited, Typed, TypeOK
<1> QED
  BY <1>4, <1>5, <1>6, <1>7

\* The job a worker settles is its own, and was running.
LEMMA SettlesExclusive ==
    ASSUME Typed, Exclusive, NEW w \in Workers, pc[w] \in Claimed,
           NEW outcome \in {"done", "failed"}, NEW action \in AuditActions,
           outcome = "done" <=> action = "export.completed",
           Settles(w, outcome, action),
           \A v \in Workers \ {w} : pc'[v] = pc[v] /\ job'[v] = job[v],
           pc'[w] \notin Locking \cup Claimed
    PROVE  Exclusive'
<1> USE DEF Exclusive
<1>1. job[w] \in Jobs /\ status[job[w]] = "running"
  BY DEF HasItsJob, Typed, AtHand, StandsWell
<1>2. /\ status' = [status EXCEPT ![job[w]] = outcome]
      /\ audited' = [audited EXCEPT ![<<action, job[w]>>] = @ + 1]
      /\ lock' = lock
  BY DEF Settles
<1>3. ASSUME NEW v \in Workers, v # w
      PROVE  pc[v] \in Locking \cup Claimed => job[v] # job[w]
  BY <1>1, <1>3 DEF HasItsJob, OneWorkerPerJob, Locking, Claimed
<1>4. ASSUME NEW v \in Workers PROVE HasItsJob(v)'
  BY <1>1, <1>2, <1>3
     DEF HasItsJob, Typed, TypeOK, AtHand, StandsWell, Locking, Claimed
<1>5. LocksAreHeld'
  <2>1. pc[w] \notin Locking
    BY DEF Locking, Claimed
  <2> QED
    BY <1>2, <2>1 DEF LocksAreHeld, Typed, TypeOK
<1>6. OneWorkerPerJob'
  BY DEF OneWorkerPerJob
<1>7. SettledIsAudited'
  <2> SUFFICES ASSUME NEW j \in Jobs
               PROVE  (/\ audited[<<"export.completed", j>>] =
                             IF status[j] = "done" THEN 1 ELSE 0
                       /\ audited[<<"export.failed", j>>] =
                             IF status[j] = "failed" THEN 1 ELSE 0)'
    BY DEF SettledIsAudited
  <2>1. /\ audited[<<"export.completed", j>>] =
              IF status[j] = "done" THEN 1 ELSE 0
        /\ audited[<<"export.failed", j>>] =
              IF status[j] = "failed" THEN 1 ELSE 0
    BY DEF SettledIsAudited
  <2>2. \A a \in AuditActions :
            audited'[<<a, j>>] = IF a = action /\ j = job[w]
                                 THEN audited[<<a, j>>] + 1
                                 ELSE audited[<<a, j>>]
    BY <1>1, <1>2 DEF Typed, TypeOK
  <2>3. status'[j] = IF j = job[w] THEN outcome ELSE status[j]
    BY <1>1, <1>2 DEF Typed, TypeOK
  <2>4. CASE j = job[w]
    BY <1>1, <2>1, <2>2, <2>3, <2>4 DEF AuditActions
  <2>5. CASE j # job[w]
    BY <2>1, <2>2, <2>3, <2>5 DEF AuditActions
  <2> QED
    BY <2>4, <2>5
<1> QED
  BY <1>4, <1>5, <1>6, <1>7

LEMMA NextExclusive == Typed /\ Exclusive /\ [Next]_vars => Exclusive'
<1> SUFFICES ASSUME Typed, Exclusive, [Next]_vars PROVE Exclusive'
  OBVIOUS
<1>t. TypeOK /\ AtHand
  BY DEF Typed
<1>0. ASSUME NEW j \in Jobs, Request(j) PROVE Exclusive'
  <2>1. ASSUME NEW w \in Workers PROVE HasItsJob(w)'
    BY <1>0, <1>t, <2>1
       DEF Request, round, history, Exclusive, HasItsJob, TypeOK, AtHand,
           StandsWell
  <2>2. LocksAreHeld' /\ OneWorkerPerJob'
    BY <1>0 DEF Request, round, history, Exclusive, LocksAreHeld,
                OneWorkerPerJob
  <2>3. SettledIsAudited'
    BY <1>0, <1>t DEF Request, Exclusive, SettledIsAudited, TypeOK
  <2> QED
    BY <2>1, <2>2, <2>3 DEF Exclusive
<1>1. ASSUME NEW w \in Workers,
             RunStarts(w) \/ ScanEnds(w) \/ RoundEnds(w)
      PROVE  Exclusive'
  <2>1. /\ UNCHANGED queue
        /\ pc[w] \in {"idle", "scan", "claim"}
        /\ \/ BeginRound(w) /\ UNCHANGED job
           \/ EndRun(w)
           \/ pc' = [pc EXCEPT ![w] = "claim"] /\ UNCHANGED job
    BY <1>1 DEF RunStarts, ScanEnds, RoundEnds, Stall, queue
  <2>2. /\ \A v \in Workers \ {w} : pc'[v] = pc[v] /\ job'[v] = job[v]
        /\ pc'[w] \in {"idle", "scan", "claim"}
    BY <1>t, <2>1 DEF BeginRound, EndRun, TypeOK
  <2>3. /\ pc'[w] \notin Locking \cup Claimed /\ pc[w] \notin Locking
        /\ lock' = lock /\ UNCHANGED <<status, audited>>
    BY <2>1, <2>2 DEF queue, Locking, Claimed
  <2> QED
    BY <2>2, <2>3, LetGoExclusive
<1>2. ASSUME NEW w \in Workers, Peek(w) PROVE Exclusive'
  <2> DEFINE free == {j \in Free : JobTenant[j] = Head(left[w])}
  <2>1. CASE free = {} \/ Head(left[w]) \in skipped[w]
    BY <1>2, <2>1, LetGoExclusive DEF Peek, Locking, Claimed
  <2>2. CASE ~(free = {} \/ Head(left[w]) \in skipped[w])
    <3>1. Oldest(free) \in free /\ free \subseteq Free
      <4>1. free \subseteq Jobs /\ free # {}
        BY <2>2 DEF Free
      <4>2. free \subseteq Free
        OBVIOUS
      <4> HIDE DEF free
      <4> QED
        BY <4>1, <4>2, OldestIsThere
    <3>2. /\ Locks(w, Oldest(free))
          /\ pc[w] = "scan"
          /\ pc' = [pc EXCEPT ![w] = "peeked"]
          /\ UNCHANGED <<status, audited>>
      BY <1>2, <2>2 DEF Peek
    <3> HIDE DEF free
    <3> QED
      BY <3>1, <3>2, LocksExclusive DEF Free, Claimable, Locking, Claimed
  <2> QED
    BY <2>1, <2>2
<1>3. ASSUME NEW w \in Workers, PeekCommits(w) \/ PeekFails(w)
      PROVE  Exclusive'
  <2>1. /\ Unlocks(w) /\ UNCHANGED <<status, audited>>
        /\ pc' = [pc EXCEPT ![w] = "scan"]
        /\ job' = [job EXCEPT ![w] = NoJob]
    BY <1>3 DEF PeekCommits, PeekFails, LetsGo
  <2> QED
    BY <1>t, <2>1, LetGoExclusive DEF TypeOK, Locking, Claimed
<1>4. ASSUME NEW w \in Workers, Claim(w) PROVE Exclusive'
  <2> DEFINE c == NextCandidate(w)
  <2>1. c \in Jobs /\ pc[w] = "claim"
    BY <1>4, <1>t, NextIsThere DEF Claim, TypeOK
  <2>2. CASE ~Claimable(c)
    BY <1>4, <2>1, <2>2, LetGoExclusive DEF Claim, Locking, Claimed
  <2>3. CASE Claimable(c)
    <3>1. /\ Locks(w, c)
          /\ pc' = [pc EXCEPT ![w] = "claiming"]
          /\ UNCHANGED <<status, audited>>
      BY <1>4, <2>3 DEF Claim
    <3> HIDE DEF c
    <3> QED
      BY <2>1, <2>3, <3>1, LocksExclusive DEF Locking, Claimed
  <2> QED
    BY <2>2, <2>3
<1>5. ASSUME NEW w \in Workers, ClaimCommits(w) \/ ClaimUnanswered(w)
      PROVE  Exclusive'
  BY <1>5, <1>t, ClaimedExclusive
     DEF ClaimCommits, ClaimUnanswered, Thrown, LetsGo, round, history, TypeOK
<1>6. ASSUME NEW w \in Workers,
             ClaimFails(w) \/ FinishFails(w) \/ FailFails(w)
      PROVE  Exclusive'
  <2>1. /\ UNCHANGED <<status, audited>>
        /\ Unlocks(w) \/ (lock' = lock /\ pc[w] \notin Locking)
        /\ \E j : Thrown(w, j)
    BY <1>6
       DEF ClaimFails, FinishFails, FinishThrown, FailFails, queue, Locking
  <2> QED
    BY <1>t, <2>1, LetGoExclusive DEF Thrown, LetsGo, TypeOK, Locking, Claimed
<1>7. ASSUME NEW w \in Workers, Build(w) PROVE Exclusive'
  BY <1>7, <1>t
     DEF Build, queue, round, history, Exclusive, HasItsJob, LocksAreHeld,
         OneWorkerPerJob, SettledIsAudited, TypeOK, AtHand, StandsWell,
         Locking, Claimed
<1>8. ASSUME NEW w \in Workers, Returned(w) \/ Thrown(w, job[w])
      PROVE  /\ \A v \in Workers \ {w} : pc'[v] = pc[v] /\ job'[v] = job[v]
             /\ pc'[w] \notin Locking \cup Claimed
  BY <1>8, <1>t DEF Returned, Thrown, EndRun, BeginRound, LetsGo, TypeOK,
                    Locking, Claimed
<1>9. ASSUME NEW w \in Workers, MarkDone(w) PROVE Exclusive'
  BY <1>8, <1>9, SettlesExclusive
     DEF MarkDone, FinishThrown, AuditActions, Claimed
<1>10. ASSUME NEW w \in Workers, MarkFailed(w) PROVE Exclusive'
  BY <1>8, <1>10, SettlesExclusive DEF MarkFailed, AuditActions, Claimed
<1>11. ASSUME NEW w \in Workers, Crash(w) PROVE Exclusive'
  BY <1>11, <1>t, LetGoExclusive DEF Crash, EndRun, TypeOK, Locking, Claimed
<1>12. CASE UNCHANGED vars
  BY <1>12 DEF vars, queue, round, history, Exclusive, HasItsJob,
               LocksAreHeld, OneWorkerPerJob, SettledIsAudited
<1> QED
  BY <1>0, <1>1, <1>2, <1>3, <1>4, <1>5, <1>6, <1>7, <1>9, <1>10, <1>11,
     <1>12 DEF Next, Step, Fails

\* A job has one worker at a time, who alone may lock it or settle it.
THEOREM SpecExclusive == Spec => [](Typed /\ Exclusive)
<1>1. Init => Typed /\ Exclusive
  BY InitTyped, InitExclusive
<1>2. (Typed /\ Exclusive) /\ [Next]_vars => (Typed /\ Exclusive)'
  BY NextTyped, NextExclusive
<1> QED
  BY <1>1, <1>2, PTL DEF Spec

\* Two workers never process the same job.
THEOREM NoJobTwice == Spec => []OneWorkerPerJob
<1>1. Exclusive => OneWorkerPerJob
  BY DEF Exclusive
<1> QED
  BY <1>1, SpecExclusive, PTL

\* The audit log says of each job exactly how it ended.
THEOREM OutcomeAudited == Spec => []SettledIsAudited
<1>1. Exclusive => SettledIsAudited
  BY DEF Exclusive
<1> QED
  BY <1>1, SpecExclusive, PTL

\* A job that is done or failed is never touched again.
THEOREM OutcomeStays == Spec => SettledStays
<1>1. ASSUME Typed, Exclusive, [Next]_vars, NEW j \in Jobs,
             status[j] \in {"done", "failed"}
      PROVE  status'[j] = status[j]
  <2>t. TypeOK /\ AtHand
    BY <1>1 DEF Typed
  <2>1. ASSUME NEW w \in Workers, pc[w] \in Locking \cup Claimed
        PROVE  job[w] # j
    BY <1>1, <2>1 DEF Exclusive, HasItsJob, Claimed
  <2>2. CASE \E w \in Workers : ClaimCommits(w) \/ ClaimUnanswered(w)
    BY <2>t, <2>1, <2>2
       DEF ClaimCommits, ClaimUnanswered, TypeOK, Locking
  <2>3. CASE \E w \in Workers : MarkDone(w) \/ MarkFailed(w)
    BY <2>t, <2>1, <2>3 DEF MarkDone, MarkFailed, Settles, TypeOK, Claimed
  <2>4. CASE \E i \in Jobs : Request(i)
    BY <1>1, <2>t, <2>4 DEF Request, TypeOK
  <2>5. CASE UNCHANGED vars
    BY <2>5 DEF vars, queue
  <2>6. CASE \E w \in Workers :
               \/ RunStarts(w) \/ Peek(w) \/ PeekCommits(w) \/ ScanEnds(w)
               \/ Claim(w) \/ RoundEnds(w) \/ Build(w) \/ PeekFails(w)
               \/ ClaimFails(w) \/ FinishFails(w) \/ FailFails(w) \/ Crash(w)
    BY <2>6 DEF RunStarts, Peek, PeekCommits, ScanEnds, Claim, RoundEnds,
                Build, PeekFails, ClaimFails, FinishFails, FailFails, Crash,
                queue
  <2> QED
    BY <1>1, <2>2, <2>3, <2>4, <2>5, <2>6 DEF Next, Step, Fails
<1>2. Typed /\ Exclusive /\ [Next]_vars =>
        [\A j \in Jobs :
            status[j] \in {"done", "failed"} => status'[j] = status[j]]_vars
  BY <1>1
<1> QED
  BY <1>2, SpecExclusive, PTL DEF Spec, SettledStays
-----------------------------------------------------------------------------
\* The refinement of JobBoard.

\* What a step of worker w changes of the jobs at work.
LEMMA OthersWorkOn ==
    ASSUME NEW w \in Workers,
           \A v \in Workers \ {w} : pc'[v] = pc[v] /\ job'[v] = job[v]
    PROVE  Working' = [Working EXCEPT ![w] =
               IF pc'[w] \in Claimed THEN job'[w] ELSE NoJob]
BY DEF Working

\* Steps that take nothing, end nothing and let go of nothing.
LEMMA StaysAtWork ==
    ASSUME NEW w \in Workers,
           \A v \in Workers \ {w} : pc'[v] = pc[v] /\ job'[v] = job[v],
           \/ pc[w] \notin Claimed /\ pc'[w] \notin Claimed
           \/ pc[w] \in Claimed /\ pc'[w] \in Claimed /\ job'[w] = job[w]
    PROVE  UNCHANGED Working
BY DEF Working

\* A step before the claim is none of the board's.
LEMMA BeforeClaimStutters ==
    ASSUME Typed, NEW w \in Workers,
           \/ RunStarts(w) \/ Peek(w) \/ PeekCommits(w) \/ ScanEnds(w)
           \/ Claim(w) \/ RoundEnds(w) \/ PeekFails(w) \/ ClaimFails(w)
    PROVE  UNCHANGED Board!board
<1>t. TypeOK
  BY DEF Typed
<1>1. UNCHANGED <<status, audited>> /\ pc[w] \notin Claimed
  BY DEF RunStarts, Peek, PeekCommits, ScanEnds, Claim, RoundEnds, PeekFails,
         ClaimFails, queue, Claimed
<1>2. /\ \A v \in Workers \ {w} : pc'[v] = pc[v] /\ job'[v] = job[v]
      /\ pc'[w] \notin Claimed
  <2>1. CASE RunStarts(w) \/ ScanEnds(w) \/ RoundEnds(w)
    <3>1. \/ BeginRound(w) /\ UNCHANGED job
          \/ EndRun(w)
          \/ pc' = [pc EXCEPT ![w] = "claim"] /\ UNCHANGED job
      BY <2>1 DEF RunStarts, ScanEnds, RoundEnds, Stall
    <3> QED
      BY <1>t, <3>1 DEF BeginRound, EndRun, TypeOK, Claimed
  <2>2. CASE Peek(w)
    <3>1. \/ UNCHANGED <<pc, job>>
          \/ /\ pc' = [pc EXCEPT ![w] = "peeked"]
             /\ \E j : Locks(w, j)
      BY <2>2 DEF Peek
    <3> QED
      BY <1>t, <1>1, <3>1 DEF Locks, TypeOK, Claimed
  <2>3. CASE PeekCommits(w) \/ PeekFails(w)
    BY <1>t, <2>3 DEF PeekCommits, PeekFails, LetsGo, TypeOK, Claimed
  <2>4. CASE Claim(w)
    <3>1. \/ UNCHANGED <<pc, job>>
          \/ /\ pc' = [pc EXCEPT ![w] = "claiming"]
             /\ \E j : Locks(w, j)
      BY <2>4 DEF Claim
    <3> QED
      BY <1>t, <1>1, <3>1 DEF Locks, TypeOK, Claimed
  <2>5. CASE ClaimFails(w)
    BY <1>t, <2>5 DEF ClaimFails, Thrown, LetsGo, TypeOK, Claimed
  <2> QED
    BY <2>1, <2>2, <2>3, <2>4, <2>5
<1> QED
  BY <1>1, <1>2, StaysAtWork DEF Board!board

\* The COMMIT of a claim is the step that takes the job, for everybody to see.
LEMMA ClaimTakes ==
    ASSUME Typed, Exclusive, NEW w \in Workers, ClaimCommits(w)
    PROVE  Board!Take(w, job[w])
<1>t. TypeOK
  BY DEF Typed
<1>1. /\ pc[w] = "claiming"
      /\ job[w] \in Jobs
      /\ status[job[w]] = "queued"
  BY DEF ClaimCommits, Typed, AtHand, StandsWell, Exclusive, HasItsJob, Locking
<1>2. ASSUME NEW v \in Workers PROVE Working[v] # job[w]
  <2>1. pc[v] \in Claimed => job[v] # job[w]
    BY <1>1 DEF Exclusive, HasItsJob
  <2> QED
    BY <1>1, <2>1, JobAssumption DEF Working
<1>3. /\ \A v \in Workers \ {w} : pc'[v] = pc[v] /\ job'[v] = job[v]
      /\ pc'[w] = "build"
      /\ job'[w] = job[w]
  BY <1>t DEF ClaimCommits, TypeOK
<1>4. Working' = [Working EXCEPT ![w] = job[w]]
  BY <1>3, OthersWorkOn DEF Claimed
<1>5. Working[w] = NoJob
  BY <1>1 DEF Working, Claimed
<1>6. status' = [status EXCEPT ![job[w]] = "running"] /\ UNCHANGED audited
  BY DEF ClaimCommits
<1> QED
  BY <1>1, <1>2, <1>4, <1>5, <1>6 DEF Board!Take

\* A claim whose answer is lost leaves a job that runs and nobody works on.
LEMMA UnansweredTakes ==
    ASSUME Typed, Exclusive, NEW w \in Workers, ClaimUnanswered(w)
    PROVE  Board!TakeUnheard(job[w]) /\ job[w] \in Jobs
<1>t. TypeOK
  BY DEF Typed
<1>1. /\ pc[w] = "claiming"
      /\ job[w] \in Jobs
      /\ status[job[w]] = "queued"
  BY DEF ClaimUnanswered, Typed, AtHand, StandsWell, Exclusive, HasItsJob,
         Locking
<1>2. /\ \A v \in Workers \ {w} : pc'[v] = pc[v] /\ job'[v] = job[v]
      /\ pc'[w] = "claim"
  BY <1>t DEF ClaimUnanswered, Thrown, LetsGo, TypeOK
<1>3. UNCHANGED Working
  BY <1>1, <1>2, StaysAtWork DEF Claimed
<1>4. status' = [status EXCEPT ![job[w]] = "running"] /\ UNCHANGED audited
  BY DEF ClaimUnanswered
<1> QED
  BY <1>1, <1>3, <1>4 DEF Board!TakeUnheard

\* The worker leaves the job it had claimed.
LEMMA Leaves ==
    ASSUME Typed, NEW w \in Workers, Returned(w) \/ EndRun(w)
                                                \/ \E j : Thrown(w, j)
    PROVE  Working' = [Working EXCEPT ![w] = NoJob]
<1>1. /\ \A v \in Workers \ {w} : pc'[v] = pc[v] /\ job'[v] = job[v]
      /\ pc'[w] \notin Claimed
  BY DEF Returned, Thrown, EndRun, BeginRound, LetsGo, Typed, TypeOK, Claimed
<1> QED
  BY <1>1, OthersWorkOn

\* The last transaction of a job is the one that ends it, and the first: no
\* audit row says yet how it ended.
LEMMA SettlesEnds ==
    ASSUME Typed, Exclusive, NEW w \in Workers, pc[w] \in Claimed,
           NEW outcome \in {"done", "failed"},
           Settles(w, outcome, Board!ActionOf[outcome]),
           Returned(w) \/ Thrown(w, job[w])
    PROVE  Board!End(w, job[w], outcome) /\ job[w] \in Jobs
<1>1. job[w] \in Jobs /\ status[job[w]] = "running"
  BY DEF Typed, AtHand, StandsWell, Exclusive, HasItsJob
<1>2. /\ audited[<<"export.completed", job[w]>>] = 0
      /\ audited[<<"export.failed", job[w]>>] = 0
  BY <1>1 DEF Exclusive, SettledIsAudited
<1>3. \A a \in DOMAIN Board!ActionOf :
          audited[<<Board!ActionOf[a], job[w]>>] = 0
  BY <1>2 DEF Board!ActionOf
<1>4. /\ status' = [status EXCEPT ![job[w]] = outcome]
      /\ audited' = [audited EXCEPT ![<<Board!ActionOf[outcome], job[w]>>] = 1]
  <2>1. audited[<<Board!ActionOf[outcome], job[w]>>] + 1 = 1
    BY <1>3 DEF Board!ActionOf
  <2> QED
    BY <2>1 DEF Settles
<1>5. Working' = [Working EXCEPT ![w] = NoJob]
  BY Leaves
<1>6. Working[w] = job[w]
  BY DEF Working
<1> QED
  BY <1>1, <1>3, <1>4, <1>5, <1>6 DEF Board!End

\* A worker that dies or cannot settle its job lets go of it.
LEMMA FailureLetsGo ==
    ASSUME Typed, NEW w \in Workers,
           FinishFails(w) \/ FailFails(w) \/ Crash(w)
    PROVE  Board!LetGo(w) \/ UNCHANGED Board!board
<1>1. /\ Working' = [Working EXCEPT ![w] = NoJob]
      /\ UNCHANGED <<status, audited>>
  BY Leaves DEF FinishFails, FinishThrown, FailFails, Crash, queue
<1>2. CASE Working[w] = NoJob
  BY <1>1, <1>2 DEF Board!board, Working
<1>3. CASE Working[w] # NoJob
  BY <1>1, <1>3 DEF Board!LetGo
<1> QED
  BY <1>2, <1>3

\* The queue of exports implements the job board: peeks, locks and rounds are
\* none of its steps, a claim takes a job for one worker, and of all that may
\* fail afterwards nothing takes the job, ends it or audits it a second time.
THEOREM BoardImplemented == Spec => ImplementsBoard
<1>1. Init => Board!BoardInit
  BY DEF Init, Board!BoardInit, Working, AuditActions, Claimed
<1>2. ASSUME Typed, Exclusive, [Next]_vars
      PROVE  [Board!BoardNext]_(Board!board)
  <2>1. ASSUME NEW j \in Jobs, Request(j)
        PROVE  Board!Ask(j)
    BY <2>1 DEF Request, Board!Ask, Working
  <2>2. ASSUME NEW w \in Workers, Build(w)
        PROVE  UNCHANGED Board!board
    <3>1. /\ \A v \in Workers \ {w} : pc'[v] = pc[v] /\ job'[v] = job[v]
          /\ pc[w] \in Claimed /\ pc'[w] \in Claimed /\ job'[w] = job[w]
          /\ UNCHANGED <<status, audited>>
      BY <1>2, <2>2 DEF Build, queue, Typed, TypeOK, Claimed
    <3> QED
      BY <3>1, StaysAtWork DEF Board!board
  <2>3. ASSUME NEW w \in Workers, MarkDone(w)
        PROVE  Board!End(w, job[w], "done") /\ job[w] \in Jobs
    <3>1. /\ pc[w] \in Claimed
          /\ Settles(w, "done", Board!ActionOf["done"])
          /\ Returned(w) \/ Thrown(w, job[w])
      BY <2>3 DEF MarkDone, FinishThrown, Claimed, Board!ActionOf
    <3> QED
      BY <1>2, <3>1, SettlesEnds
  <2>4. ASSUME NEW w \in Workers, MarkFailed(w)
        PROVE  Board!End(w, job[w], "failed") /\ job[w] \in Jobs
    <3>1. /\ pc[w] \in Claimed
          /\ Settles(w, "failed", Board!ActionOf["failed"])
          /\ Returned(w) \/ Thrown(w, job[w])
      BY <2>4 DEF MarkFailed, Claimed, Board!ActionOf
    <3> QED
      BY <1>2, <3>1, SettlesEnds
  <2>5. ASSUME NEW w \in Workers, ClaimCommits(w)
        PROVE  Board!Take(w, job[w]) /\ job[w] \in Jobs
    BY <1>2, <2>5, ClaimTakes
       DEF ClaimCommits, Typed, AtHand, StandsWell, Locking
  <2>6. CASE UNCHANGED vars
    BY <2>6 DEF vars, queue, Board!board, Working
  <2>7. {"done", "failed"} = DOMAIN Board!ActionOf
    BY DEF Board!ActionOf
  <2>8. CASE \E j \in Jobs : Request(j)
    BY <2>1, <2>8 DEF Board!BoardNext
  <2>9. ASSUME NEW w \in Workers, Step(w)
        PROVE  [Board!BoardNext]_(Board!board)
    BY <1>2, <2>2, <2>3, <2>4, <2>5, <2>7, <2>9, BeforeClaimStutters
       DEF Step, Board!BoardNext
  <2>10. ASSUME NEW w \in Workers, RunStarts(w) \/ Fails(w)
         PROVE  [Board!BoardNext]_(Board!board)
    BY <1>2, <2>10, BeforeClaimStutters, UnansweredTakes, FailureLetsGo
       DEF Fails, Board!BoardNext
  <2> QED
    BY <1>2, <2>6, <2>8, <2>9, <2>10 DEF Next
<1>3. Typed /\ Exclusive /\ [Next]_vars => [Board!BoardNext]_(Board!board)
  BY <1>2
<1> QED
  BY <1>1, <1>3, SpecExclusive, PTL DEF Spec, ImplementsBoard, Board!BoardSpec
-----------------------------------------------------------------------------
\* Third layer: what becomes of the jobs a round did not claim.

\* Whoever has locked a row while the worker's round is on is on record.
Contention(w) ==
    pc[w] # "idle" =>
        \A j \in Jobs : lock[j] \notin {w, NoWorker} => j \in contended[w]

\* A candidate still waits in the queue, unless another worker had hold of it
\* or it is the one the worker took.
Fresh(w) ==
    \A c \in candidates[w] : \/ status[c] = "queued"
                             \/ c \in contended[w]
                             \/ pc[w] \in Claimed /\ job[w] = c

\* The peek took the oldest job of its tenant that nobody else had hold of.
PeekedOldest(w) ==
    pc[w] = "peeked" =>
        \A k \in known[w] :
            status[k] = "queued" /\ JobTenant[k] = Head(left[w]) =>
                \/ \E h \in contended[w] : Precedes(h, k)
                \/ Precedes(job[w], k)

\* A job the round knows of and has not claimed: its tenant is yet to be
\* visited, or is skipped, or the job hides behind one of its tenant that
\* another worker had hold of, or behind a candidate.
Explained(w, k) ==
    \/ \E i \in DOMAIN left[w] : left[w][i] = JobTenant[k]
    \/ JobTenant[k] \in skipped[w]
    \/ \E h \in contended[w] : Precedes(h, k)
    \/ \E h \in candidates[w] : Precedes(h, k)

View(w) ==
    /\ known[w] \subseteq {j \in Jobs : status[j] # "absent"}
    /\ pc[w] = "idle" => known[w] = {}
    /\ Contention(w)
    /\ Fresh(w)
    /\ PeekedOldest(w)
    /\ \A k \in known[w] : status[k] = "queued" => Explained(w, k)

Accounted == \A w \in Workers : View(w)

LEMMA InitAccounted == Init => Accounted
BY DEF Init, Accounted, View, Contention, Fresh, PeekedOldest

\* What a worker knows of its round stays right while others take a step: they
\* only take jobs away whose row they have locked, and locks are on record.
LEMMA OthersKeepView ==
    ASSUME Typed, NEW v \in Workers, View(v),
           pc'[v] = pc[v], job'[v] = job[v], left'[v] = left[v],
           candidates'[v] = candidates[v], skipped'[v] = skipped[v],
           known'[v] = known[v], contended[v] \subseteq contended'[v],
           \A j \in Jobs : status'[j] = "absent" => status[j] = "absent",
           \A j \in Jobs : status'[j] = "queued" =>
               status[j] \in {"absent", "queued"},
           \A j \in Jobs : status[j] = "queued" /\ status'[j] # "queued" =>
               lock[j] \notin {v, NoWorker},
           \A j \in Jobs : \/ lock'[j] \in {lock[j], v, NoWorker}
                           \/ pc[v] = "idle"
                           \/ j \in contended'[v]
    PROVE  View(v)'
<1> USE DEF Typed, TypeOK
<1>1. known'[v] \subseteq {j \in Jobs : status'[j] # "absent"}
  BY DEF View
<1>2. Contention(v)'
  BY DEF View, Contention
<1>3. Fresh(v)'
  <2>1. candidates[v] # {} => pc[v] # "idle"
    BY DEF AtHand, StandsWell
  <2> QED
    BY <2>1 DEF View, Contention, Fresh
<1>4. ASSUME NEW k \in known[v], status'[k] = "queued"
      PROVE  status[k] = "queued"
  BY <1>4 DEF View
<1>5. PeekedOldest(v)'
  BY <1>4 DEF View, PeekedOldest, Precedes
<1>6. ASSUME NEW k \in known'[v], status'[k] = "queued"
      PROVE  Explained(v, k)'
  <2>1. k \in known[v] /\ Explained(v, k)
    BY <1>4, <1>6 DEF View
  <2> QED
    BY <2>1 DEF Explained, Precedes
<1> QED
  BY <1>1, <1>2, <1>3, <1>5, <1>6 DEF View

\* A new round knows of what is queued, and has all tenants before it.
LEMMA BeginRoundView ==
    ASSUME Typed, Exclusive, NEW w \in Workers, BeginRound(w),
           pc[w] \notin Locking, UNCHANGED lock,
           \A j \in Jobs : status'[j] = "absent" => status[j] = "absent"
    PROVE  View(w)'
<1>1. /\ pc'[w] = "scan" /\ left'[w] = TenantOrder /\ candidates'[w] = {}
      /\ known'[w] = {j \in Jobs : status[j] = "queued"}
      /\ contended'[w] = {j \in Jobs : status[j] = "queued" /\
                                        lock[j] \notin {w, NoWorker}}
  BY DEF BeginRound, Typed, TypeOK
<1>2. Contention(w)'
  <2>1. \A j \in Jobs : lock[j] # NoWorker => status[j] = "queued"
    BY DEF Exclusive, LocksAreHeld, HasItsJob, Typed, TypeOK
  <2> QED
    BY <1>1, <2>1 DEF Contention
<1>3. \A k \in known'[w] : Explained(w, k)'
  <2>1. ASSUME NEW k \in known'[w]
        PROVE  \E i \in DOMAIN TenantOrder : TenantOrder[i] = JobTenant[k]
    BY <1>1, OrderAssumption, JobAssumption
  <2> QED
    BY <1>1, <2>1 DEF Explained
<1> QED
  BY <1>1, <1>2, <1>3 DEF View, Fresh, PeekedOldest

LEMMA EndRunView ==
    ASSUME Typed, NEW w \in Workers, EndRun(w)
    PROVE  View(w)'
BY DEF EndRun, View, Contention, Fresh, PeekedOldest, Typed, TypeOK

\* A candidate that was tried in vain is gone, and its tenant is skipped.
LEMMA ThrownView ==
    ASSUME Typed, NEW w \in Workers, View(w), NEW j \in Jobs, Thrown(w, j),
           pc[w] \in Claimed => j = job[w],
           \A i \in Jobs : lock'[i] \in {lock[i], NoWorker},
           \A i \in Jobs : status'[i] = "absent" => status[i] = "absent",
           \A i \in Jobs : status'[i] = "queued" => status[i] = "queued",
           \A i \in Jobs \ {j} : status'[i] = status[i],
           pc[w] # "idle"
    PROVE  View(w)'
<1> USE DEF Typed, TypeOK
<1>1. /\ pc'[w] = "claim" /\ candidates'[w] = candidates[w] \ {j}
      /\ skipped'[w] = skipped[w] \cup {JobTenant[j]}
      /\ left'[w] = left[w] /\ known'[w] = known[w]
      /\ contended'[w] = contended[w]
  BY DEF Thrown
<1>2. known'[w] \subseteq {i \in Jobs : status'[i] # "absent"}
  BY <1>1 DEF View
<1>3. Contention(w)'
  BY <1>1 DEF View, Contention
<1>4. Fresh(w)'
  <2>1. ASSUME NEW c \in candidates[w], c # j
        PROVE  status'[c] = "queued" \/ c \in contended'[w]
    <3>1. c \in Jobs /\ status'[c] = status[c]
      BY <2>1
    <3> QED
      BY <1>1, <2>1, <3>1 DEF View, Fresh
  <2>2. \A c \in candidates'[w] :
            status'[c] = "queued" \/ c \in contended'[w]
    BY <1>1, <2>1
  <2> QED
    BY <2>2 DEF Fresh
<1>5. ASSUME NEW k \in known[w], status'[k] = "queued" PROVE Explained(w, k)'
  <2>1. Explained(w, k) /\ k \in Jobs
    BY <1>5 DEF View
  <2>2. Precedes(j, k) => JobTenant[k] \in skipped'[w]
    BY <1>1 DEF Precedes
  <2> QED
    BY <1>1, <2>1, <2>2 DEF Explained, Precedes
<1> QED
  BY <1>1, <1>2, <1>3, <1>4, <1>5 DEF View, PeekedOldest

\* The peek's own step: a row it passes by is locked, and the lock on record.
LEMMA PeekView ==
    ASSUME Typed, Exclusive, NEW w \in Workers, View(w), Peek(w)
    PROVE  View(w)'
<1> DEFINE free == {j \in Free : JobTenant[j] = Head(left[w])}
<1>t. TypeOK /\ AtHand
  BY DEF Typed
<1>1. pc[w] = "scan" /\ left[w] # << >>
  BY DEF Peek
<1>2. ASSUME NEW k \in known[w], status[k] = "queued", k \notin Free
      PROVE  k \in contended[w]
  <2>1. k \in Jobs /\ lock[k] # NoWorker
    BY <1>2 DEF View, Free
  <2>2. lock[k] # w
    BY <1>1, <2>1 DEF Exclusive, LocksAreHeld, Locking
  <2> QED
    BY <1>1, <2>1, <2>2 DEF View, Contention
<1>3. CASE free = {} \/ Head(left[w]) \in skipped[w]
  <2>1. /\ left' = [left EXCEPT ![w] = Tail(@)]
        /\ UNCHANGED <<pc, lock, status, job, candidates, skipped, known,
                       contended>>
    BY <1>3 DEF Peek
  <2>2. ASSUME NEW k \in known[w], status[k] = "queued"
        PROVE  Explained(w, k)'
    <3>1. Explained(w, k) /\ k \in Jobs
      BY <2>2 DEF View
    <3>2. left'[w] = Tail(left[w]) /\ left[w] \in Seq(Tenants)
      BY <1>t, <2>1 DEF TypeOK
    <3>3. CASE JobTenant[k] = Head(left[w])
      <4>1. CASE JobTenant[k] \in skipped[w]
        BY <2>1, <4>1 DEF Explained
      <4>2. CASE free = {}
        <5>1. k \in contended[w]
          BY <1>2, <2>2, <3>3, <4>2
        <5> QED
          BY <2>1, <5>1 DEF Explained, Precedes
      <4> QED
        BY <1>3, <3>3, <4>1, <4>2
    <3>4. CASE JobTenant[k] # Head(left[w])
      <4>1. ASSUME NEW i \in DOMAIN left[w], left[w][i] = JobTenant[k]
            PROVE  \E n \in DOMAIN left'[w] : left'[w][n] = JobTenant[k]
        <5>1. i \in 2..Len(left[w])
          BY <1>1, <3>2, <3>4, <4>1
        <5>2. i - 1 \in DOMAIN left'[w] /\ left'[w][i - 1] = left[w][i]
          BY <1>1, <3>2, <5>1
        <5> QED
          BY <4>1, <5>2
      <4> QED
        BY <2>1, <3>1, <4>1 DEF Explained, Precedes
    <3> QED
      BY <3>3, <3>4
  <2> QED
    BY <1>1, <2>1, <2>2 DEF View, Contention, Fresh, PeekedOldest
<1>4. CASE ~(free = {} \/ Head(left[w]) \in skipped[w])
  <2>1. /\ Oldest(free) \in free
        /\ \A k \in free \ {Oldest(free)} : Older(Oldest(free), k)
        /\ free \subseteq Free
    <3>1. free \subseteq Jobs /\ free # {} /\ free \subseteq Free
      BY <1>4 DEF Free
    <3> HIDE DEF free
    <3> QED
      BY <3>1, OldestIsThere
  <2>2. /\ Locks(w, Oldest(free))
        /\ pc' = [pc EXCEPT ![w] = "peeked"]
        /\ UNCHANGED <<left, status, candidates, skipped, known>>
    BY <1>4 DEF Peek
  <2>3. /\ pc'[w] = "peeked" /\ job'[w] = Oldest(free)
        /\ contended'[w] = contended[w]
        /\ \A j \in Jobs : lock'[j] \in {lock[j], w}
    BY <1>t, <2>2 DEF Locks, TypeOK
  <2>4. ASSUME NEW k \in known[w], status[k] = "queued",
               JobTenant[k] = Head(left[w])
        PROVE  k \in contended[w] \/ Precedes(Oldest(free), k)
    <3>1. CASE k \in Free
      <4>1. k \in free /\ JobTenant[Oldest(free)] = JobTenant[k]
        BY <2>1, <2>4, <3>1
      <4> HIDE DEF free
      <4> QED
        BY <2>1, <4>1 DEF Precedes
    <3> QED
      BY <1>2, <2>4, <3>1
  <2> HIDE DEF free
  <2>5. PeekedOldest(w)'
    <3>1. ASSUME NEW k \in known'[w], status'[k] = "queued",
                 JobTenant[k] = Head(left'[w])
          PROVE  \/ \E h \in contended'[w] : Precedes(h, k)
                 \/ Precedes(job'[w], k)
      BY <2>2, <2>3, <2>4, <3>1 DEF Precedes
    <3> QED
      BY <3>1 DEF PeekedOldest, Precedes
  <2>6. Contention(w)' /\ Fresh(w)'
    <3>1. Contention(w)'
      BY <1>1, <2>3 DEF View, Contention
    <3>2. \A c \in candidates[w] : status[c] = "queued" \/ c \in contended[w]
      BY <1>1 DEF View, Fresh, Claimed
    <3>3. Fresh(w)'
      BY <2>2, <2>3, <3>2 DEF Fresh
    <3> QED
      BY <3>1, <3>3
  <2>7. \A k \in known'[w] : status'[k] = "queued" => Explained(w, k)'
    BY <2>2, <2>3 DEF View, Explained, Precedes
  <2> QED
    BY <2>2, <2>3, <2>5, <2>6, <2>7 DEF View
<1> QED
  BY <1>3, <1>4

\* The other steps of a worker's round, in its own view.
LEMMA PeekEndsView ==
    ASSUME Typed, Exclusive, NEW w \in Workers, View(w),
           PeekCommits(w) \/ PeekFails(w)
    PROVE  View(w)'
<1>t. TypeOK /\ AtHand
  BY DEF Typed
<1>1. /\ left[w] # << >> /\ left[w] \in Seq(Tenants)
      /\ left'[w] = Tail(left[w]) /\ pc'[w] = "scan" /\ pc[w] # "idle"
      /\ UNCHANGED <<status, known, contended>>
      /\ \A j \in Jobs : lock'[j] \in {lock[j], NoWorker}
      /\ pc[w] \notin Claimed
  BY <1>t DEF PeekCommits, PeekFails, Unlocks, history, TypeOK, AtHand,
              StandsWell, Claimed
<1>2. \/ /\ pc[w] = "peeked" /\ UNCHANGED skipped
         /\ candidates'[w] = candidates[w] \cup {job[w]}
      \/ /\ skipped'[w] = skipped[w] \cup {Head(left[w])}
         /\ UNCHANGED candidates
  BY <1>t DEF PeekCommits, PeekFails, TypeOK
<1>3. ASSUME NEW k \in known[w], status[k] = "queued" PROVE Explained(w, k)'
  <2>1. Explained(w, k)
    BY <1>3 DEF View
  <2>2. CASE JobTenant[k] = Head(left[w])
    <3>1. CASE pc[w] = "peeked" /\ UNCHANGED skipped
               /\ candidates'[w] = candidates[w] \cup {job[w]}
      <4>1. \/ \E h \in contended[w] : Precedes(h, k)
            \/ Precedes(job[w], k)
        BY <1>3, <2>2, <3>1 DEF View, PeekedOldest
      <4> QED
        BY <1>1, <3>1, <4>1 DEF Explained, Precedes
    <3>2. CASE skipped'[w] = skipped[w] \cup {Head(left[w])}
      BY <2>2, <3>2 DEF Explained
    <3> QED
      BY <1>2, <3>1, <3>2
  <2>3. CASE JobTenant[k] # Head(left[w])
    <3>1. ASSUME NEW i \in DOMAIN left[w], left[w][i] = JobTenant[k]
          PROVE  \E n \in DOMAIN left'[w] : left'[w][n] = JobTenant[k]
      <4>1. i \in 2..Len(left[w])
        BY <1>1, <2>3, <3>1
      <4>2. i - 1 \in DOMAIN left'[w] /\ left'[w][i - 1] = left[w][i]
        BY <1>1, <4>1
      <4> QED
        BY <3>1, <4>2
    <3> QED
      BY <1>1, <1>2, <2>1, <3>1 DEF Explained, Precedes
  <2> QED
    BY <2>2, <2>3
<1>4. Fresh(w)'
  <2>1. \A c \in candidates'[w] : status[c] = "queued" \/ c \in contended[w]
    <3>1. \A c \in candidates[w] : status[c] = "queued" \/ c \in contended[w]
      BY <1>1 DEF View, Fresh
    <3>2. pc[w] = "peeked" => status[job[w]] = "queued"
      BY DEF Exclusive, HasItsJob, Locking
    <3> QED
      BY <1>2, <3>1, <3>2
  <2> QED
    BY <1>1, <2>1 DEF Fresh
<1>5. Contention(w)'
  BY <1>1 DEF View, Contention
<1> QED
  BY <1>1, <1>3, <1>4, <1>5 DEF View, PeekedOldest

LEMMA ClaimView ==
    ASSUME Typed, Exclusive, NEW w \in Workers, View(w), Claim(w)
    PROVE  View(w)'
<1> DEFINE c == NextCandidate(w)
<1>t. TypeOK /\ AtHand
  BY DEF Typed
<1>1. /\ c \in candidates[w] /\ c \in Jobs
      /\ pc[w] = "claim" /\ left[w] = << >>
      /\ UNCHANGED <<status, known, left, skipped>>
  BY <1>t, NextIsThere DEF Claim, TypeOK, AtHand, StandsWell
<1>2. CASE Claimable(c)
  <2>1. /\ pc'[w] = "claiming" /\ contended'[w] = contended[w]
        /\ UNCHANGED candidates
        /\ \A j \in Jobs : lock'[j] \in {lock[j], w}
    BY <1>t, <1>2 DEF Claim, Locks, TypeOK
  <2>2. \A d \in candidates[w] : status[d] = "queued" \/ d \in contended[w]
    BY <1>1 DEF View, Fresh, Claimed
  <2>3. Fresh(w)' /\ Contention(w)' /\ PeekedOldest(w)'
    BY <1>1, <2>1, <2>2 DEF View, Contention, Fresh, PeekedOldest
  <2>4. \A k \in known'[w] : status'[k] = "queued" => Explained(w, k)'
    BY <1>1, <2>1 DEF View, Explained, Precedes
  <2> QED
    BY <1>1, <2>1, <2>3, <2>4 DEF View
<1>3. CASE ~Claimable(c)
  <2>1. /\ candidates'[w] = candidates[w] \ {c}
        /\ UNCHANGED <<lock, job, contended, pc>>
    BY <1>t, <1>3 DEF Claim, TypeOK
  <2>2. c \in contended[w]
    <3>1. CASE lock[c] = NoWorker
      BY <1>1, <1>3, <3>1 DEF Claimable, View, Fresh, Claimed
    <3>2. CASE lock[c] # NoWorker
      <4>1. lock[c] # w
        BY <1>1, <3>2 DEF Exclusive, LocksAreHeld, Locking
      <4> QED
        BY <1>1, <3>2, <4>1 DEF View, Contention
    <3> QED
      BY <3>1, <3>2
  <2> HIDE DEF c
  <2>3. \A k \in known'[w] : status'[k] = "queued" => Explained(w, k)'
    BY <1>1, <2>1, <2>2 DEF View, Explained, Precedes
  <2>4. Fresh(w)' /\ Contention(w)' /\ PeekedOldest(w)'
    BY <1>1, <2>1 DEF View, Contention, Fresh, PeekedOldest
  <2> QED
    BY <1>1, <2>1, <2>3, <2>4 DEF View
<1> QED
  BY <1>2, <1>3

\* What a worker's step may do to the table, and to the view of another.
LEMMA StepFrame ==
    ASSUME Typed, Exclusive, NEW w \in Workers, NEW v \in Workers, v # w,
           Step(w) \/ Fails(w) \/ RunStarts(w)
    PROVE  /\ pc'[v] = pc[v] /\ job'[v] = job[v] /\ left'[v] = left[v]
           /\ candidates'[v] = candidates[v] /\ skipped'[v] = skipped[v]
           /\ known'[v] = known[v] /\ contended[v] \subseteq contended'[v]
           /\ processed'[v] = processed[v] /\ stalls'[v] = stalls[v]
           /\ \A j \in Jobs : status'[j] = "absent" => status[j] = "absent"
           /\ \A j \in Jobs : status'[j] = "queued" => status[j] = "queued"
           /\ \A j \in Jobs : status[j] = "queued" /\ status'[j] # "queued" =>
                 lock[j] \notin {v, NoWorker}
           /\ \A j \in Jobs : \/ lock'[j] \in {lock[j], v, NoWorker}
                              \/ pc[v] = "idle"
                              \/ j \in contended'[v]
<1> USE DEF TypeOK
<1>t. TypeOK /\ AtHand
  BY DEF Typed
<1>1. CASE RunStarts(w) \/ ScanEnds(w) \/ RoundEnds(w)
  BY <1>1, <1>t DEF RunStarts, ScanEnds, RoundEnds, Stall, BeginRound, EndRun,
                    queue, round
<1>2. CASE Peek(w)
  <2> DEFINE free == {j \in Free : JobTenant[j] = Head(left[w])}
  <2>1. CASE free = {} \/ Head(left[w]) \in skipped[w]
    BY <1>2, <1>t, <2>1 DEF Peek
  <2>2. CASE ~(free = {} \/ Head(left[w]) \in skipped[w])
    <3>1. /\ Locks(w, Oldest(free))
          /\ pc' = [pc EXCEPT ![w] = "peeked"]
          /\ UNCHANGED <<left, status, candidates, skipped, known, stalls,
                         processed>>
      BY <1>2, <2>2 DEF Peek
    <3> HIDE DEF free
    <3> QED
      BY <1>t, <3>1 DEF Locks
  <2> QED
    BY <2>1, <2>2
<1>3. CASE PeekCommits(w) \/ PeekFails(w)
  BY <1>3, <1>t DEF PeekCommits, PeekFails, Unlocks, LetsGo, history
<1>4. CASE Claim(w)
  <2>1. CASE Claimable(NextCandidate(w))
    BY <1>4, <1>t, <2>1 DEF Claim, Locks
  <2>2. CASE ~Claimable(NextCandidate(w))
    BY <1>4, <1>t, <2>2 DEF Claim
  <2> QED
    BY <2>1, <2>2
<1>5. CASE ClaimCommits(w) \/ ClaimUnanswered(w)
  <2>1. job[w] \in Jobs /\ lock[job[w]] = w
    BY <1>5, <1>t DEF ClaimCommits, ClaimUnanswered, AtHand, StandsWell,
                      Exclusive, HasItsJob, Locking
  <2> QED
    BY <1>5, <1>t, <2>1, WorkerAssumption
       DEF ClaimCommits, ClaimUnanswered, Unlocks, Thrown, LetsGo, round,
           history
<1>6. CASE ClaimFails(w) \/ FinishFails(w) \/ FailFails(w)
  BY <1>6, <1>t DEF ClaimFails, FinishFails, FinishThrown, FailFails, Unlocks,
                    Thrown, LetsGo, queue
<1>7. CASE Build(w)
  BY <1>7, <1>t DEF Build, queue, round, history
<1>8. CASE MarkDone(w) \/ MarkFailed(w)
  <2>1. job[w] \in Jobs /\ status[job[w]] = "running"
    BY <1>8, <1>t DEF MarkDone, MarkFailed, AtHand, StandsWell, Exclusive,
                      HasItsJob, Claimed
  <2>2. /\ UNCHANGED lock
        /\ \E outcome \in {"done", "failed"} :
              status' = [status EXCEPT ![job[w]] = outcome]
        /\ Returned(w) \/ Thrown(w, job[w])
    BY <1>8 DEF MarkDone, MarkFailed, FinishThrown, Settles
  <2>3. \A j \in Jobs : status'[j] # status[j] =>
            status[j] = "running" /\ status'[j] \in {"done", "failed"}
    BY <1>t, <2>1, <2>2
  <2> QED
    BY <1>t, <2>2, <2>3
       DEF Returned, Thrown, EndRun, BeginRound, LetsGo
<1>9. CASE Crash(w)
  BY <1>9, <1>t DEF Crash, Unlocks, EndRun
<1> QED
  BY <1>1, <1>2, <1>3, <1>4, <1>5, <1>6, <1>7, <1>8, <1>9 DEF Step, Fails

\* A worker's own step keeps its view right.
LEMMA StepView ==
    ASSUME Typed, Exclusive, NEW w \in Workers, View(w),
           Step(w) \/ Fails(w) \/ RunStarts(w)
    PROVE  View(w)'
<1> USE DEF TypeOK
<1>t. TypeOK /\ AtHand
  BY DEF Typed
<1>1. CASE RunStarts(w) \/ RoundEnds(w)
  <2>1. UNCHANGED queue /\ pc[w] \notin Locking
        /\ (BeginRound(w) \/ EndRun(w))
    BY <1>1 DEF RunStarts, RoundEnds, Stall, queue, Locking
  <2> QED
    BY <2>1, BeginRoundView, EndRunView DEF queue
<1>2. CASE ScanEnds(w)
  <2>1. CASE candidates[w] = {}
    BY <1>2, <2>1, EndRunView DEF ScanEnds
  <2>2. CASE candidates[w] # {}
    <3>1. /\ pc'[w] = "claim" /\ pc[w] = "scan"
          /\ UNCHANGED <<queue, job, round, known, contended>>
      BY <1>2, <1>t, <2>2 DEF ScanEnds
    <3>2. Contention(w)' /\ Fresh(w)' /\ PeekedOldest(w)'
      BY <3>1 DEF View, Contention, Fresh, PeekedOldest, queue, round, Claimed
    <3> QED
      BY <3>1, <3>2 DEF View, Explained, Precedes, queue, round
  <2> QED
    BY <2>1, <2>2
<1>3. CASE ClaimCommits(w)
  <2>1. /\ job[w] \in Jobs /\ pc'[w] = "build" /\ pc[w] = "claiming"
        /\ UNCHANGED <<job, round, history>>
        /\ status' = [status EXCEPT ![job[w]] = "running"]
        /\ \A j \in Jobs : lock'[j] \in {lock[j], NoWorker}
    BY <1>3, <1>t DEF ClaimCommits, Unlocks, AtHand, StandsWell, Locking
  <2>2. Contention(w)' /\ PeekedOldest(w)'
    BY <2>1 DEF View, Contention, PeekedOldest, history
  <2>3. Fresh(w)'
    <3>1. \A c \in candidates[w] : \/ status[c] = "queued"
                                   \/ c \in contended[w]
      BY <2>1 DEF View, Fresh, Claimed
    <3> QED
      BY <1>t, <2>1, <3>1 DEF Fresh, round, history, Claimed
  <2>4. \A k \in known'[w] : status'[k] = "queued" => Explained(w, k)'
    BY <1>t, <2>1 DEF View, Explained, Precedes, round, history
  <2>5. known'[w] \subseteq {j \in Jobs : status'[j] # "absent"}
    BY <1>t, <2>1 DEF View, history
  <2> QED
    BY <2>1, <2>2, <2>3, <2>4, <2>5 DEF View
<1>4. CASE ClaimUnanswered(w)
  <2>1. job[w] \in Jobs
    BY <1>4, <1>t DEF ClaimUnanswered, AtHand, StandsWell, Locking
  <2> QED
    BY <1>4, <1>t, <2>1, ThrownView DEF ClaimUnanswered, Unlocks, Claimed
<1>5. CASE ClaimFails(w)
  <2>1. NextCandidate(w) \in Jobs
    BY <1>5, <1>t, NextIsThere DEF ClaimFails, TypeOK, AtHand, StandsWell
  <2> QED
    BY <1>5, <1>t, <2>1, ThrownView DEF ClaimFails, Unlocks, Claimed
<1>6. CASE FinishFails(w) \/ FailFails(w)
  <2>1. job[w] \in Jobs
    BY <1>6, <1>t DEF FinishFails, FailFails, AtHand, StandsWell, Claimed
  <2> QED
    BY <1>6, <1>t, <2>1, ThrownView
       DEF FinishFails, FinishThrown, FailFails, queue
<1>7. CASE Build(w)
  <2>1. /\ pc[w] \in Claimed /\ pc'[w] \in Claimed /\ pc'[w] # "peeked"
        /\ pc'[w] # "idle" /\ pc[w] # "idle"
        /\ UNCHANGED <<queue, job, round, history>>
    BY <1>7, <1>t DEF Build, Claimed
  <2>2. Contention(w)' /\ Fresh(w)' /\ PeekedOldest(w)'
    BY <2>1 DEF View, Contention, Fresh, PeekedOldest, queue, round, history
  <2> QED
    BY <2>1, <2>2 DEF View, Explained, Precedes, queue, round, history
<1>8. CASE MarkDone(w) \/ MarkFailed(w)
  <2>1. /\ job[w] \in Jobs /\ status[job[w]] = "running"
        /\ pc[w] \in {"finish", "fail"}
    BY <1>8, <1>t DEF MarkDone, MarkFailed, AtHand, StandsWell, Exclusive,
                      HasItsJob, Claimed
  <2>2. /\ UNCHANGED lock
        /\ \E outcome \in {"done", "failed"} :
              status' = [status EXCEPT ![job[w]] = outcome]
        /\ BeginRound(w) \/ EndRun(w) \/ Thrown(w, job[w])
    BY <1>8 DEF MarkDone, MarkFailed, FinishThrown, Settles, Returned
  <2>3. \A j \in Jobs : status'[j] # status[j] =>
            j = job[w] /\ status'[j] \in {"done", "failed"}
    BY <1>t, <2>1, <2>2
  <2> QED
    BY <2>1, <2>2, <2>3, BeginRoundView, EndRunView, ThrownView
       DEF Locking
<1>9. CASE Crash(w)
  BY <1>9, EndRunView DEF Crash
<1> QED
  BY <1>1, <1>2, <1>3, <1>4, <1>5, <1>6, <1>7, <1>8, <1>9, PeekView,
     PeekEndsView, ClaimView DEF Step, Fails

LEMMA NextAccounted ==
    Typed /\ Exclusive /\ Accounted /\ [Next]_vars => Accounted'
<1> SUFFICES ASSUME Typed, Exclusive, Accounted, [Next]_vars,
                    NEW v \in Workers
             PROVE  View(v)'
  BY DEF Accounted
<1>1. View(v)
  BY DEF Accounted
<1>2. ASSUME NEW w \in Workers, Step(w) \/ Fails(w) \/ RunStarts(w)
      PROVE  View(v)'
  <2>1. CASE v = w
    BY <1>1, <1>2, <2>1, StepView
  <2>2. CASE v # w
    <3>1. \A j \in Jobs : status'[j] = "queued" =>
              status[j] \in {"absent", "queued"}
      BY <1>2, <2>2, StepFrame
    <3> QED
      BY <1>1, <1>2, <2>2, <3>1, StepFrame, OthersKeepView
  <2> QED
    BY <2>1, <2>2
<1>3. ASSUME NEW j \in Jobs, Request(j) PROVE View(v)'
  <2>1. /\ UNCHANGED <<lock, pc, job, round, history>>
        /\ \A i \in Jobs : status'[i] = IF i = j THEN "queued" ELSE status[i]
        /\ status[j] = "absent"
    BY <1>3 DEF Request, Typed, TypeOK
  <2> QED
    BY <1>1, <2>1, OthersKeepView DEF round, history
<1>4. CASE UNCHANGED vars
  BY <1>1, <1>4 DEF vars, queue, round, history, View, Contention, Fresh,
                    PeekedOldest, Explained, Precedes
<1> QED
  BY <1>2, <1>3, <1>4 DEF Next

\* All three layers hold in every reachable state.
THEOREM SpecAccounted == Spec => [](Typed /\ Exclusive /\ Accounted)
<1>1. Init => Typed /\ Exclusive /\ Accounted
  BY InitTyped, InitExclusive, InitAccounted
<1>2. (Typed /\ Exclusive /\ Accounted) /\ [Next]_vars =>
          (Typed /\ Exclusive /\ Accounted)'
  BY NextTyped, NextExclusive, NextAccounted
<1> QED
  BY <1>1, <1>2, PTL DEF Spec

\* The only step that brings a worker from "claim" to "claiming" is its own.
LEMMA OnlyClaimClaims ==
    ASSUME Typed, Exclusive, [Next]_vars, NEW w \in Workers,
           pc[w] = "claim", pc'[w] = "claiming"
    PROVE  Claim(w)
<1>t. TypeOK
  BY DEF Typed
<1>1. PICK v \in Workers : Step(v) \/ Fails(v) \/ RunStarts(v)
  BY DEF Next, Request, vars
<1>2. v = w
  BY <1>1, StepFrame
<1>3. ~(Peek(w) \/ PeekCommits(w) \/ ScanEnds(w) \/ ClaimCommits(w)
        \/ Build(w) \/ MarkDone(w) \/ MarkFailed(w) \/ PeekFails(w)
        \/ ClaimUnanswered(w) \/ FinishFails(w) \/ FailFails(w) \/ RunStarts(w))
  BY DEF Peek, PeekCommits, ScanEnds, ClaimCommits, Build, MarkDone,
         MarkFailed, PeekFails, ClaimUnanswered, FinishFails, FailFails,
         RunStarts
<1>4. ~(RoundEnds(w) \/ ClaimFails(w) \/ Crash(w))
  BY <1>t DEF RoundEnds, Stall, ClaimFails, Crash, Thrown, BeginRound, EndRun,
              TypeOK
<1> QED
  BY <1>1, <1>2, <1>3, <1>4 DEF Step, Fails

\* A worker claims the job that comes first in all tenants, by the millisecond
\* and the id: of those before it that were queued when its round began, it
\* leaves behind only those of tenants it skips, those that another worker hid
\* from it, and those that an older job of their tenant hid from it which is not
\* before the claimed one.
THEOREM ClaimsOldest == Spec => OldestFirst
<1>1. ASSUME Typed, Exclusive, Accounted, [Next]_vars, NEW w \in Workers,
             pc[w] = "claim", pc'[w] = "claiming",
             NEW k \in known[w], SortsBefore(k, job'[w]), status[k] = "queued"
      PROVE  Hidden(w, k, job'[w])
  <2> DEFINE c == NextCandidate(w)
  <2>1. candidates[w] # {} /\ candidates[w] \subseteq Jobs
    BY <1>1, OnlyClaimClaims DEF Claim, Typed, TypeOK
  <2>2. job'[w] = c
    BY <1>1, OnlyClaimClaims DEF Claim, Locks, Typed, TypeOK
  <2>3. /\ c \in candidates[w] /\ c \in Jobs
        /\ \A h \in candidates[w] \ {c} : SortsBefore(c, h)
    BY <2>1, NextIsThere
  <2>4. k \in Jobs /\ Explained(w, k) /\ left[w] = << >>
    BY <1>1 DEF Accounted, View, Typed, AtHand, StandsWell
  <2> HIDE DEF c
  <2>5. ASSUME NEW h \in candidates[w] PROVE ~ SortsBefore(h, c)
    <3>1. h \in Jobs /\ (h = c \/ SortsBefore(c, h))
      BY <2>1, <2>3
    <3> QED
      BY <2>3, <3>1, InOrderIsOrder, MillisOfJobs DEF SortsBefore
  <2>6. ASSUME NEW h \in candidates[w], Precedes(h, k)
        PROVE  /\ h \in candidates[w] \ {k}
               /\ ~ SortsBefore(h, job'[w])
    BY <1>1, <2>1, <2>2, <2>5
  <2>7. CASE \E h \in candidates[w] : Precedes(h, k)
    BY <2>6, <2>7 DEF Hidden
  <2> QED
    BY <2>4, <2>7 DEF Explained, Hidden
<1>2. Typed /\ Exclusive /\ Accounted /\ [Next]_vars =>
        [\A w \in Workers : pc[w] = "claim" /\ pc'[w] = "claiming" =>
            \A k \in known[w] :
                SortsBefore(k, job'[w]) /\ status[k] = "queued" =>
                    Hidden(w, k, job'[w])]_vars
  BY <1>1
<1> QED
  BY <1>2, SpecAccounted, PTL DEF Spec, OldestFirst
-----------------------------------------------------------------------------
\* How long a run can be.

\* A run is at most so many rounds, and a round so many steps, away from its
\* end.
BoundedSteps ==
    \A w \in Workers : pc[w] # "idle" =>
        /\ processed[w] < MaxJobs
        /\ stalls[w] < MaxStalls
        /\ LeftInRound(w) \in 0..(6 * Len(TenantOrder) + 4)

\* A worker's own steps always do bring its run closer.
OwnStepsCount ==
    [][\A w \in Workers :
          pc[w] # "idle" /\ (Step(w) \/ Fails(w)) => Closer(w)]_vars

\* A round has no more candidates than it has peeked at tenants, and a job
\* stays a candidate until it is returned or given up.
RoundCounted(w) ==
    /\ IsFiniteSet(candidates[w])
    /\ Len(left[w]) + Cardinality(candidates[w]) <= Len(TenantOrder)
    /\ pc[w] \in {"claiming"} \cup Claimed => job[w] \in candidates[w]

Counted == \A w \in Workers : RoundCounted(w)

LEMMA SizesAre ==
    ASSUME Typed, NEW w \in Workers, RoundCounted(w)
    PROVE  /\ Len(left[w]) \in Nat
           /\ Cardinality(candidates[w]) \in Nat
           /\ Len(TenantOrder) \in Nat
<1>1. left[w] \in Seq(Tenants)
  BY DEF Typed, TypeOK
<1>2. Cardinality(candidates[w]) \in Nat
  BY FS_CardinalityType DEF RoundCounted
<1> QED
  BY <1>1, <1>2, OrderAssumption

\* A run that ends, or begins a new round.
LEMMA NewRoundCounts ==
    ASSUME NEW w \in Workers, Typed, BeginRound(w) \/ EndRun(w)
    PROVE  RoundCounted(w)'
<1>1. /\ candidates'[w] = {} /\ left'[w] \in {TenantOrder, << >>}
      /\ pc'[w] \in {"scan", "idle"}
  BY DEF BeginRound, EndRun, Typed, TypeOK
<1>2. Len(left'[w]) <= Len(TenantOrder)
  BY <1>1, OrderAssumption
<1>3. IsFiniteSet(candidates'[w]) /\ Cardinality(candidates'[w]) = 0
  BY <1>1, FS_EmptySet
<1>4. Len(left'[w]) \in Nat
  BY <1>1, OrderAssumption
<1>5. Len(left'[w]) + Cardinality(candidates'[w]) <= Len(TenantOrder)
  BY <1>2, <1>3, <1>4
<1> QED
  BY <1>1, <1>3, <1>5 DEF RoundCounted, Claimed

\* On to the next tenant, with a candidate more or without.
LEMMA NextTenantCounts ==
    ASSUME NEW w \in Workers, Typed, RoundCounted(w), left[w] # << >>,
           pc[w] \in {"scan", "peeked"}, pc'[w] = "scan",
           left'[w] = Tail(left[w]),
           \/ candidates'[w] = candidates[w]
           \/ pc[w] = "peeked" /\ candidates'[w] = candidates[w] \cup {job[w]}
    PROVE  RoundCounted(w)' /\ LeftInRound(w)' < LeftInRound(w)
<1> DEFINE l == Len(left[w])
           c == Cardinality(candidates[w])
           d == Cardinality(candidates'[w])
<1>1. l \in Nat \ {0} /\ Len(left'[w]) = l - 1
  <2>1. left[w] \in Seq(Tenants)
    BY DEF Typed, TypeOK
  <2> QED
    BY <2>1
<1>2. c \in Nat /\ Len(TenantOrder) \in Nat /\ l + c <= Len(TenantOrder)
  BY SizesAre DEF RoundCounted
<1>3. /\ IsFiniteSet(candidates'[w])
      /\ d = c \/ (pc[w] = "peeked" /\ d = c + 1)
  BY FS_AddElement DEF RoundCounted
<1>3a. d = c \/ d = c + 1
  BY <1>3
<1>4. LeftInRound(w) = 6 * l + 4 * c + Rank[pc[w]] /\ Rank[pc[w]] \in 3..4
  BY DEF LeftInRound, Rank
<1>5. LeftInRound(w)' = 6 * (l - 1) + 4 * d + 4
  BY <1>1 DEF LeftInRound, Rank
<1> HIDE DEF l, c, d
<1>6. LeftInRound(w)' < LeftInRound(w)
  <2>1. ASSUME NEW m \in Nat \ {0}, NEW n \in Nat, NEW k \in {n, n + 1},
               NEW rank \in 3..4
        PROVE  6 * (m - 1) + 4 * k + 4 < 6 * m + 4 * n + rank
    OBVIOUS
  <2>2. d \in {c, c + 1}
    BY <1>3a
  <2> QED
    BY <1>1, <1>2, <1>4, <1>5, <2>1, <2>2, Zenon
<1>7. Len(left'[w]) + d <= Len(TenantOrder)
  BY <1>1, <1>2, <1>3a
<1> QED
  BY <1>3, <1>6, <1>7 DEF RoundCounted, Claimed, d

\* On to the next candidate.
LEMMA NextCandidateCounts ==
    ASSUME NEW w \in Workers, Typed, RoundCounted(w),
           NEW j \in candidates[w], candidates'[w] = candidates[w] \ {j},
           pc[w] \in {"claim", "claiming"} \cup Claimed, pc'[w] = "claim",
           left'[w] = left[w]
    PROVE  RoundCounted(w)' /\ LeftInRound(w)' < LeftInRound(w)
<1> DEFINE l == Len(left[w])
           c == Cardinality(candidates[w])
<1>1. IsFiniteSet(candidates'[w]) /\ Cardinality(candidates'[w]) = c - 1
  BY FS_RemoveElement DEF RoundCounted
<1>2. /\ l \in Nat /\ c \in Nat /\ Len(TenantOrder) \in Nat
      /\ l + c <= Len(TenantOrder)
  BY SizesAre DEF RoundCounted
<1>3. LeftInRound(w) = 6 * l + 4 * c + Rank[pc[w]] /\ Rank[pc[w]] \in 0..3
  BY DEF LeftInRound, Rank, Claimed
<1>4. LeftInRound(w)' = 6 * l + 4 * (c - 1) + 3
  BY <1>1 DEF LeftInRound, Rank
<1>5. Len(left'[w]) = l
  OBVIOUS
<1> HIDE DEF l, c
<1>6. LeftInRound(w)' < LeftInRound(w)
  BY <1>2, <1>3, <1>4
<1>7. Len(left'[w]) + Cardinality(candidates'[w]) <= Len(TenantOrder)
  BY <1>1, <1>2, <1>5
<1> QED
  BY <1>1, <1>6, <1>7 DEF RoundCounted, Claimed

\* On with the same tenants and candidates.
LEMMA SameSizesCount ==
    ASSUME NEW w \in Workers, Typed, RoundCounted(w),
           pc[w] \in DOMAIN Rank, pc'[w] \in DOMAIN Rank,
           Rank[pc'[w]] < Rank[pc[w]],
           left'[w] = left[w], candidates'[w] = candidates[w],
           pc'[w] \in {"claiming"} \cup Claimed => job'[w] \in candidates[w]
    PROVE  RoundCounted(w)' /\ LeftInRound(w)' < LeftInRound(w)
<1> DEFINE n == 6 * Len(left[w]) + 4 * Cardinality(candidates[w])
<1>1. n \in Nat
  BY SizesAre
<1>2. LeftInRound(w) = n + Rank[pc[w]] /\ LeftInRound(w)' = n + Rank[pc'[w]]
  BY DEF LeftInRound
<1>3. Rank[pc[w]] \in Nat /\ Rank[pc'[w]] \in Nat
  BY DEF Rank
<1> HIDE DEF n
<1>4. LeftInRound(w)' < LeftInRound(w)
  BY <1>1, <1>2, <1>3
<1> QED
  BY <1>4 DEF RoundCounted

\* A worker's step keeps the count, and brings its run closer to its end.
GoesOn(w) == RoundCounted(w)' /\ Closer(w)

LEMMA ThrownGoesOn ==
    ASSUME NEW w \in Workers, Typed, RoundCounted(w), NEW j \in candidates[w],
           Thrown(w, j), pc[w] \in {"claim", "claiming"} \cup Claimed
    PROVE  GoesOn(w)
<1>1. /\ candidates'[w] = candidates[w] \ {j} /\ pc'[w] = "claim"
      /\ left'[w] = left[w]
      /\ processed' = processed /\ stalls' = stalls
  BY DEF Thrown, Typed, TypeOK
<1> QED
  BY <1>1, NextCandidateCounts DEF GoesOn, Closer

LEMMA ReturnedGoesOn ==
    ASSUME NEW w \in Workers, Typed, Returned(w)
    PROVE  GoesOn(w)
<1>1. processed[w] \in Nat
  BY MaxAssumption DEF Typed, TypeOK
<1>2. CASE processed[w] + 1 >= MaxJobs
  <2>1. EndRun(w)
    BY <1>2 DEF Returned
  <2>2. pc'[w] = "idle"
    BY <2>1 DEF EndRun, Typed, TypeOK
  <2> QED
    BY <2>1, <2>2, NewRoundCounts DEF GoesOn, Closer
<1>3. CASE ~(processed[w] + 1 >= MaxJobs)
  <2>1. BeginRound(w) /\ processed' = [processed EXCEPT ![w] = @ + 1]
    BY <1>3 DEF Returned
  <2>2. processed'[w] > processed[w]
    BY <1>1, <2>1 DEF Typed, TypeOK
  <2> QED
    BY <2>1, <2>2, NewRoundCounts DEF GoesOn, Closer
<1> QED
  BY <1>2, <1>3

LEMMA StallGoesOn ==
    ASSUME NEW w \in Workers, Typed, Stall(w)
    PROVE  GoesOn(w)
<1>1. stalls[w] \in Nat
  BY MaxAssumption DEF Typed, TypeOK
<1>2. CASE stalls[w] + 1 >= MaxStalls
  <2>1. EndRun(w)
    BY <1>2 DEF Stall
  <2>2. pc'[w] = "idle"
    BY <2>1 DEF EndRun, Typed, TypeOK
  <2> QED
    BY <2>1, <2>2, NewRoundCounts DEF GoesOn, Closer
<1>3. CASE ~(stalls[w] + 1 >= MaxStalls)
  <2>1. /\ BeginRound(w) /\ stalls' = [stalls EXCEPT ![w] = @ + 1]
        /\ processed' = processed
    BY <1>3 DEF Stall
  <2>2. stalls'[w] > stalls[w]
    BY <1>1, <2>1 DEF Typed, TypeOK
  <2> QED
    BY <2>1, <2>2, NewRoundCounts DEF GoesOn, Closer
<1> QED
  BY <1>2, <1>3

LEMMA StepGoesOn ==
    ASSUME NEW w \in Workers, Typed, RoundCounted(w), Step(w) \/ Fails(w)
    PROVE  GoesOn(w)
<1>t. TypeOK /\ StandsWell(w)
  BY DEF Typed, AtHand
<1>c. ASSUME candidates[w] # {} PROVE NextCandidate(w) \in candidates[w]
  BY <1>t, <1>c, NextIsThere DEF TypeOK
<1>1. CASE Peek(w)
  <2> DEFINE free == {j \in Free : JobTenant[j] = Head(left[w])}
  <2>1. CASE free = {} \/ Head(left[w]) \in skipped[w]
    <3>1. /\ pc[w] = "scan" /\ pc' = pc /\ left[w] # << >>
          /\ left'[w] = Tail(left[w])
          /\ UNCHANGED <<candidates, processed, stalls>>
      BY <1>1, <1>t, <2>1 DEF Peek, TypeOK
    <3> QED
      BY <3>1, NextTenantCounts DEF GoesOn, Closer
  <2>2. CASE ~(free = {} \/ Head(left[w]) \in skipped[w])
    <3>1. /\ pc[w] = "scan" /\ pc'[w] = "peeked"
          /\ UNCHANGED <<left, candidates, processed, stalls>>
      BY <1>1, <1>t, <2>2 DEF Peek, TypeOK
    <3> QED
      BY <3>1, SameSizesCount DEF GoesOn, Closer, Rank, Claimed
  <2> QED
    BY <2>1, <2>2
<1>2. CASE PeekCommits(w) \/ PeekFails(w)
  <2>1. /\ pc[w] \in {"scan", "peeked"} /\ pc'[w] = "scan"
        /\ left[w] # << >> /\ left'[w] = Tail(left[w])
        /\ \/ candidates' = candidates
           \/ /\ pc[w] = "peeked"
              /\ candidates'[w] = candidates[w] \cup {job[w]}
        /\ UNCHANGED <<processed, stalls>>
    BY <1>2, <1>t DEF PeekCommits, PeekFails, StandsWell, TypeOK
  <2> QED
    BY <2>1, NextTenantCounts DEF GoesOn, Closer
<1>3. CASE ScanEnds(w)
  <2>1. CASE candidates[w] = {}
    <3>1. EndRun(w)
      BY <1>3, <2>1 DEF ScanEnds
    <3>2. pc'[w] = "idle"
      BY <1>t, <3>1 DEF EndRun, TypeOK
    <3> QED
      BY <3>1, <3>2, NewRoundCounts DEF GoesOn, Closer
  <2>2. CASE candidates[w] # {}
    <3>1. /\ pc[w] = "scan" /\ pc'[w] = "claim"
          /\ UNCHANGED <<left, candidates, processed, stalls>>
      BY <1>3, <1>t, <2>2 DEF ScanEnds, round, TypeOK
    <3> QED
      BY <3>1, SameSizesCount DEF GoesOn, Closer, Rank, Claimed
  <2> QED
    BY <2>1, <2>2
<1>4. CASE Claim(w)
  <2>1. pc[w] = "claim" /\ NextCandidate(w) \in candidates[w]
    BY <1>4, <1>c DEF Claim
  <2>2. CASE Claimable(NextCandidate(w))
    <3>1. /\ pc'[w] = "claiming" /\ job'[w] = NextCandidate(w)
          /\ UNCHANGED <<left, candidates, processed, stalls>>
      BY <1>4, <1>t, <2>2 DEF Claim, Locks, TypeOK
    <3> QED
      BY <2>1, <3>1, SameSizesCount DEF GoesOn, Closer, Rank
  <2>3. CASE ~Claimable(NextCandidate(w))
    <3>1. /\ pc' = pc /\ candidates'[w] = candidates[w] \ {NextCandidate(w)}
          /\ UNCHANGED <<left, processed, stalls>>
      BY <1>4, <1>t, <2>3 DEF Claim, TypeOK
    <3> QED
      BY <2>1, <3>1, NextCandidateCounts DEF GoesOn, Closer
  <2> QED
    BY <2>2, <2>3
<1>5. CASE ClaimCommits(w) \/ Build(w)
  <2>1. /\ \/ pc[w] = "claiming" /\ pc'[w] = "build"
           \/ pc[w] = "build" /\ pc'[w] \in {"finish", "fail"}
        /\ UNCHANGED <<job, left, candidates, processed, stalls>>
    BY <1>5, <1>t DEF ClaimCommits, Build, round, TypeOK
  <2>2. job[w] \in candidates[w]
    BY <2>1 DEF RoundCounted, Claimed
  <2>3. pc[w] \in DOMAIN Rank /\ pc'[w] \in DOMAIN Rank
        /\ Rank[pc'[w]] < Rank[pc[w]]
    BY <2>1 DEF Rank
  <2> QED
    BY <2>1, <2>2, <2>3, SameSizesCount DEF GoesOn, Closer
<1>6. CASE RoundEnds(w)
  BY <1>6, StallGoesOn DEF RoundEnds
<1>7. CASE MarkDone(w) \/ MarkFailed(w)
  <2>1. job[w] \in candidates[w] /\ pc[w] \in Claimed
    BY <1>7 DEF MarkDone, MarkFailed, RoundCounted, Claimed
  <2>2. Returned(w) \/ Thrown(w, job[w])
    BY <1>7 DEF MarkDone, MarkFailed, FinishThrown
  <2> QED
    BY <2>1, <2>2, ReturnedGoesOn, ThrownGoesOn
<1>8. CASE ClaimFails(w)
  <2>1. /\ pc[w] \in {"claim", "claiming"} /\ candidates[w] # {}
        /\ Thrown(w, NextCandidate(w))
    BY <1>8, <1>t DEF ClaimFails, StandsWell
  <2> QED
    BY <1>c, <2>1, ThrownGoesOn
<1>9. CASE ClaimUnanswered(w) \/ FinishFails(w) \/ FailFails(w)
  <2>1. /\ pc[w] \in {"claiming"} \cup Claimed /\ job[w] \in candidates[w]
        /\ Thrown(w, job[w])
    BY <1>9 DEF ClaimUnanswered, FinishFails, FailFails, FinishThrown,
                RoundCounted, Claimed
  <2> QED
    BY <2>1, ThrownGoesOn
<1>10. CASE Crash(w)
  <2>1. EndRun(w)
    BY <1>10 DEF Crash
  <2>2. pc'[w] = "idle"
    BY <1>t, <2>1 DEF EndRun, TypeOK
  <2> QED
    BY <2>1, <2>2, NewRoundCounts DEF GoesOn, Closer
<1> QED
  BY <1>1, <1>2, <1>3, <1>4, <1>5, <1>6, <1>7, <1>8, <1>9, <1>10
     DEF Step, Fails

LEMMA NextGoesOn ==
    ASSUME Typed, Exclusive, Counted, [Next]_vars, NEW w \in Workers
    PROVE  /\ RoundCounted(w)'
           /\ pc[w] # "idle" => Closer(w) \/ StaysPut(w)
<1>1. RoundCounted(w)
  BY DEF Counted
<1>2. ASSUME StaysPut(w) PROVE RoundCounted(w)'
  BY <1>1, <1>2 DEF StaysPut, RoundCounted
<1>3. CASE Step(w) \/ Fails(w)
  BY <1>1, <1>3, StepGoesOn DEF GoesOn
<1>4. CASE RunStarts(w)
  BY <1>4, NewRoundCounts DEF RunStarts
<1>5. ASSUME NEW v \in Workers, v # w, Step(v) \/ Fails(v) \/ RunStarts(v)
      PROVE  StaysPut(w)
  BY <1>5, StepFrame DEF StaysPut
<1>6. CASE \/ UNCHANGED vars
           \/ \E j \in Jobs : Request(j)
  <2>1. StaysPut(w)
    BY <1>6 DEF StaysPut, Request, vars, queue, round
  <2> QED
    BY <1>2, <2>1
<1> QED
  BY <1>2, <1>3, <1>4, <1>5, <1>6 DEF Next

LEMMA InitCounted == Init => Counted
<1> SUFFICES ASSUME Init, NEW w \in Workers PROVE RoundCounted(w)
  BY DEF Counted
<1>1. candidates[w] = {} /\ left[w] = << >> /\ pc[w] = "idle"
  BY DEF Init
<1>2. IsFiniteSet(candidates[w]) /\ Cardinality(candidates[w]) = 0
  BY <1>1, FS_EmptySet
<1>3. Len(left[w]) + Cardinality(candidates[w]) <= Len(TenantOrder)
  BY <1>1, <1>2, OrderAssumption
<1> QED
  BY <1>1, <1>2, <1>3 DEF RoundCounted, Claimed

LEMMA CountedBounds ==
    ASSUME Typed, Counted
    PROVE  BoundedSteps
<1> SUFFICES ASSUME NEW w \in Workers, pc[w] # "idle"
             PROVE  /\ processed[w] < MaxJobs
                    /\ stalls[w] < MaxStalls
                    /\ LeftInRound(w) \in 0..(6 * Len(TenantOrder) + 4)
  BY DEF BoundedSteps
<1>1. processed[w] < MaxJobs /\ stalls[w] < MaxStalls
  BY MaxAssumption DEF Typed, TypeOK
<1> DEFINE l == Len(left[w])
           c == Cardinality(candidates[w])
           t == Len(TenantOrder)
<1>2. l \in Nat /\ c \in Nat /\ t \in Nat /\ l + c <= t
  BY SizesAre DEF Counted, RoundCounted
<1>3. pc[w] \in {"scan", "claim"} \cup Locking \cup Claimed
  BY DEF Typed, TypeOK
<1>4. LeftInRound(w) = 6 * l + 4 * c + Rank[pc[w]] /\ Rank[pc[w]] \in 0..4
  BY <1>3 DEF LeftInRound, Rank, Locking, Claimed
<1> HIDE DEF l, c, t
<1>5. LeftInRound(w) \in 0..(6 * t + 4)
  BY <1>2, <1>4
<1> QED
  BY <1>1, <1>5 DEF t

\* A run ends, whatever fails and however often it loses the race for a job:
\* each of its steps brings it closer, through at most MaxJobs times MaxStalls
\* rounds of at most 6 * Len(TenantOrder) + 5 steps, and no step of another
\* worker or of a client throws it back.
THEOREM RunsAreBounded ==
    Spec => []BoundedSteps /\ StepsRunOut /\ OwnStepsCount
<1> DEFINE I == Typed /\ Exclusive
           GoingOn == \A w \in Workers :
                          pc[w] # "idle" => StaysPut(w) \/ Closer(w)
           Counting == \A w \in Workers :
               pc[w] # "idle" /\ (Step(w) \/ Fails(w)) => Closer(w)
<1>1. Init => Counted
  BY InitCounted
<1>2. I /\ Counted /\ [Next]_vars => Counted'
  BY NextGoesOn DEF Counted
<1>3. I /\ Counted => BoundedSteps
  BY CountedBounds
<1>4. I /\ Counted /\ [Next]_vars => [GoingOn]_vars
  BY NextGoesOn
<1>5. I /\ Counted /\ [Next]_vars => [Counting]_vars
  BY StepGoesOn DEF GoesOn, Counted
<1> QED
  BY <1>1, <1>2, <1>3, <1>4, <1>5, SpecExclusive,
     PTL DEF Spec, StepsRunOut, OwnStepsCount
=============================================================================
