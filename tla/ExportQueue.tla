---------------------------- MODULE ExportQueue ----------------------------
(***************************************************************************)
(* The queue of CSV exports (packages/core/src/repositories/exports.ts)    *)
(* and the workers that drain it (apps/worker/src/jobs/exports.ts).        *)
(*                                                                         *)
(* A run of a worker goes in rounds.  It peeks at the oldest queued job of *)
(* each tenant, then claims the oldest of those it saw, builds the CSV and *)
(* marks the job done, or failed.  Each of these is a transaction of its   *)
(* own.  Peeks and claims lock the row they select and skip rows that      *)
(* others hold: these two have a step that selects and one that ends the   *)
(* transaction; the others, which nobody contends for, are one step each.  *)
(***************************************************************************)
EXTENDS Naturals, Sequences, FiniteSets

CONSTANTS
    Workers,
    Tenants,
    TenantOrder,    \* as worker_tenant_ids() lists them
    Jobs,           \* ids of the exports that may be asked for
    JobTenant,      \* [Jobs -> Tenants]
    CreatedAt,      \* [Jobs -> Nat]: when the request's transaction began,
                    \* in microseconds
    NoWorker,
    NoJob,
    MaxJobs,        \* how many jobs a run processes at most
    MaxStalls       \* how many rounds may claim nothing: 3 in the code

ASSUME WorkerAssumption == NoWorker \notin Workers

ASSUME JobAssumption ==
    /\ Jobs \subseteq Nat
    /\ NoJob \notin Jobs
    /\ JobTenant \in [Jobs -> Tenants]
    /\ CreatedAt \in [Jobs -> Nat]

ASSUME OrderAssumption ==
    /\ TenantOrder \in Seq(Tenants)
    /\ \A t \in Tenants : \E i \in DOMAIN TenantOrder : TenantOrder[i] = t

ASSUME MaxAssumption ==
    /\ MaxJobs \in Nat \ {0}
    /\ MaxStalls \in Nat \ {0}

VARIABLES
    status,         \* export_jobs.status; "absent" before the request
    lock,           \* who holds the lock of a job's row
    audited,        \* how many audit rows of an action a job has
    pc,             \* where each worker stands
    job,            \* the job it has peeked at or works on
    left,           \* tenants the round has yet to peek at, in order
    candidates,     \* jobs the round has seen and not tried yet
    skipped,        \* tenants the run leaves out after a failure
    stalls,         \* rounds in a row that claimed nothing
    processed,      \* how many jobs the run has processed
    \* History variables, read by no action's guard:
    known,          \* jobs that were queued when the round began
    contended,      \* jobs someone else has locked since
    orphaned        \* jobs whose worker could not go on with them

queue   == <<status, lock, audited>>
round   == <<left, candidates, skipped, stalls, processed>>
history == <<known, contended, orphaned>>
vars    == <<queue, pc, job, round, history>>

AuditActions == {"export.completed", "export.failed"}
Claimed      == {"build", "finish", "fail"}
Locking      == {"peeked", "claiming"}

-----------------------------------------------------------------------------

\* By date, and by id where the dates are equal.
InOrder(date, j, k) ==
    \/ date[j] < date[k]
    \/ date[j] = date[k] /\ j < k

FirstBy(date, S) == CHOOSE j \in S : \A k \in S \ {j} : InOrder(date, j, k)

\* The database orders by what it stored: ORDER BY created_at, id.
Older(j, k) == InOrder(CreatedAt, j, k)
Oldest(S)   == FirstBy(CreatedAt, S)

\* The worker sees a Date, which has lost the part below the millisecond.
Millis == [j \in Jobs |-> CreatedAt[j] \div 1000]

SortsBefore(j, k) == InOrder(Millis, j, k)

\* What FOR UPDATE SKIP LOCKED leaves of the queued rows.
Free == {j \in Jobs : status[j] = "queued" /\ lock[j] = NoWorker}

Init ==
    /\ status = [j \in Jobs |-> "absent"]
    /\ lock = [j \in Jobs |-> NoWorker]
    /\ audited = [x \in AuditActions \X Jobs |-> 0]
    /\ pc = [w \in Workers |-> "idle"]
    /\ job = [w \in Workers |-> NoJob]
    /\ left = [w \in Workers |-> << >>]
    /\ candidates = [w \in Workers |-> {}]
    /\ skipped = [w \in Workers |-> {}]
    /\ stalls = [w \in Workers |-> 0]
    /\ processed = [w \in Workers |-> 0]
    /\ known = [w \in Workers |-> {}]
    /\ contended = [w \in Workers |-> {}]
    /\ orphaned = {}

\* POST /exports
Request(j) ==
    /\ status[j] = "absent"
    /\ status' = [status EXCEPT ![j] = "queued"]
    /\ UNCHANGED <<lock, audited, pc, job, round, history>>

-----------------------------------------------------------------------------
\* The loop of a run

Locks(w, j) ==
    /\ lock' = [lock EXCEPT ![j] = w]
    /\ job' = [job EXCEPT ![w] = j]
    /\ contended' = [v \in Workers |->
          IF v = w \/ pc[v] = "idle" THEN contended[v]
                                    ELSE contended[v] \cup {j}]

Unlocks(w) ==
    lock' = [j \in Jobs |-> IF lock[j] = w THEN NoWorker ELSE lock[j]]

LetsGo(w) == job' = [job EXCEPT ![w] = NoJob]

\* A round begins: the tenants are visited in order.
BeginRound(w) ==
    /\ pc' = [pc EXCEPT ![w] = "scan"]
    /\ left' = [left EXCEPT ![w] = TenantOrder]
    /\ candidates' = [candidates EXCEPT ![w] = {}]
    /\ known' = [known EXCEPT ![w] = {j \in Jobs : status[j] = "queued"}]
    /\ contended' = [contended EXCEPT ![w] =
          {j \in Jobs : status[j] = "queued" /\ lock[j] \notin {w, NoWorker}}]

\* The run returns or throws, and its variables with it.
EndRun(w) ==
    /\ pc' = [pc EXCEPT ![w] = "idle"]
    /\ skipped' = [skipped EXCEPT ![w] = {}]
    /\ left' = [left EXCEPT ![w] = << >>]
    /\ candidates' = [candidates EXCEPT ![w] = {}]
    /\ known' = [known EXCEPT ![w] = {}]
    /\ contended' = [contended EXCEPT ![w] = {}]
    /\ stalls' = [stalls EXCEPT ![w] = 0]
    /\ processed' = [processed EXCEPT ![w] = 0]
    /\ job' = [job EXCEPT ![w] = NoJob]

RunStarts(w) ==
    /\ pc[w] = "idle"
    /\ BeginRound(w)
    /\ UNCHANGED <<queue, job, skipped, stalls, processed, orphaned>>

\* peekOldestQueuedExport selects the oldest free row of the next tenant, if
\* there is one and the tenant is not skipped.
Peek(w) ==
    /\ pc[w] = "scan"
    /\ left[w] # << >>
    /\ LET free == {j \in Free : JobTenant[j] = Head(left[w])}
       IN  IF free = {} \/ Head(left[w]) \in skipped[w]
           THEN /\ left' = [left EXCEPT ![w] = Tail(@)]
                /\ UNCHANGED <<lock, job, contended, pc>>
           ELSE /\ Locks(w, Oldest(free))
                /\ pc' = [pc EXCEPT ![w] = "peeked"]
                /\ UNCHANGED left
    /\ UNCHANGED <<status, audited, candidates, skipped, stalls, processed,
                   known, orphaned>>

\* Its COMMIT gives the row back and makes a candidate of it.
PeekCommits(w) ==
    /\ pc[w] = "peeked"
    /\ Unlocks(w)
    /\ pc' = [pc EXCEPT ![w] = "scan"]
    /\ left' = [left EXCEPT ![w] = Tail(@)]
    /\ candidates' = [candidates EXCEPT ![w] = @ \cup {job[w]}]
    /\ LetsGo(w)
    /\ UNCHANGED <<status, audited, skipped, stalls, processed, history>>

PeekFails(w) ==
    /\ \/ pc[w] = "peeked"
       \/ pc[w] = "scan" /\ left[w] # << >> /\ Head(left[w]) \notin skipped[w]
    /\ Unlocks(w)
    /\ pc' = [pc EXCEPT ![w] = "scan"]
    /\ skipped' = [skipped EXCEPT ![w] = @ \cup {Head(left[w])}]
    /\ left' = [left EXCEPT ![w] = Tail(@)]
    /\ LetsGo(w)
    /\ UNCHANGED <<status, audited, candidates, stalls, processed, history>>

\* Every tenant has been peeked at: on to the candidates, if there are any.
ScanEnds(w) ==
    /\ pc[w] = "scan"
    /\ left[w] = << >>
    /\ IF candidates[w] = {}
       THEN EndRun(w)
       ELSE /\ pc' = [pc EXCEPT ![w] = "claim"]
            /\ UNCHANGED <<job, round, known, contended>>
    /\ UNCHANGED <<queue, orphaned>>

\* Fault: the candidates are in the order of their tenants, as they were found.
FirstCandidate(w) ==
    CHOOSE j \in candidates[w] : \A k \in candidates[w] :
        \E i \in DOMAIN TenantOrder :
            /\ TenantOrder[i] = JobTenant[j]
            /\ \A n \in 1..(i - 1) : TenantOrder[n] # JobTenant[k]

\* The candidates are sorted, as the worker sees them, before they are tried.
NextCandidate(w) == FirstBy(Millis, candidates[w])

\* Fault: the claim takes a job whatever its status.
ClaimableInAnyStatus(j) == lock[j] = NoWorker

\* Fault: the claim does not mind the lock of another.
ClaimableThoughLocked(j) == status[j] = "queued"

\* The WHERE clause of the claim, on a row that may have changed since.
Claimable(j) == status[j] = "queued" /\ lock[j] = NoWorker

\* processNextTenantExport selects the candidate, or returns null.
Claim(w) ==
    /\ pc[w] = "claim"
    /\ candidates[w] # {}
    /\ IF Claimable(NextCandidate(w))
       THEN /\ Locks(w, NextCandidate(w))
            /\ pc' = [pc EXCEPT ![w] = "claiming"]
            /\ UNCHANGED candidates
       ELSE /\ candidates' =
                  [candidates EXCEPT ![w] = @ \ {NextCandidate(w)}]
            /\ UNCHANGED <<lock, job, contended, pc>>
    /\ UNCHANGED <<status, audited, left, skipped, stalls, processed, known,
                   orphaned>>

ClaimCommits(w) ==
    /\ pc[w] = "claiming"
    /\ status' = [status EXCEPT ![job[w]] = "running"]
    /\ Unlocks(w)
    /\ pc' = [pc EXCEPT ![w] = "build"]
    /\ UNCHANGED <<audited, job, round, history>>

\* An error left processNextTenantExport: its tenant is skipped from now on,
\* and the next candidate is tried.
Thrown(w, j) ==
    /\ pc' = [pc EXCEPT ![w] = "claim"]
    /\ skipped' = [skipped EXCEPT ![w] = @ \cup {JobTenant[j]}]
    /\ candidates' = [candidates EXCEPT ![w] = @ \ {j}]
    /\ LetsGo(w)
    /\ UNCHANGED <<left, stalls, processed, known, contended>>

\* The claim is rolled back, before or after it selected its row.
ClaimFails(w) ==
    /\ pc[w] = "claiming" \/ (pc[w] = "claim" /\ candidates[w] # {})
    /\ Unlocks(w)
    /\ Thrown(w, NextCandidate(w))
    /\ UNCHANGED <<status, audited, orphaned>>

\* The claim is committed, and the answer lost.
ClaimUnanswered(w) ==
    /\ pc[w] = "claiming"
    /\ status' = [status EXCEPT ![job[w]] = "running"]
    /\ Unlocks(w)
    /\ orphaned' = orphaned \cup {job[w]}
    /\ Thrown(w, job[w])
    /\ UNCHANGED audited

\* Fault: a round without a claim does not count.
StallUncounted(w) ==
    /\ BeginRound(w)
    /\ UNCHANGED <<skipped, stalls, processed, job>>

\* A round that claimed nothing: a few of them in a row end the run.
Stall(w) ==
    IF stalls[w] + 1 >= MaxStalls
    THEN EndRun(w)
    ELSE /\ BeginRound(w)
         /\ stalls' = [stalls EXCEPT ![w] = @ + 1]
         /\ UNCHANGED <<skipped, processed, job>>

RoundEnds(w) ==
    /\ pc[w] = "claim"
    /\ candidates[w] = {}
    /\ Stall(w)
    /\ UNCHANGED <<queue, orphaned>>

-----------------------------------------------------------------------------
\* processNextTenantExport, once a job is claimed

\* The CSV is built, or it is not: the view is gone, or the database fails.
Build(w) ==
    /\ pc[w] = "build"
    /\ \E next \in {"finish", "fail"} : pc' = [pc EXCEPT ![w] = next]
    /\ UNCHANGED <<queue, job, round, history>>

\* The job is settled and returned: the run counts it and looks for another.
Returned(w) ==
    IF processed[w] + 1 >= MaxJobs
    THEN EndRun(w)
    ELSE /\ BeginRound(w)
         /\ processed' = [processed EXCEPT ![w] = @ + 1]
         /\ stalls' = [stalls EXCEPT ![w] = 0]
         /\ LetsGo(w)
         /\ UNCHANGED skipped

\* The last transaction: status and audit row together.
Settles(w, outcome, action) ==
    /\ status' = [status EXCEPT ![job[w]] = outcome]
    /\ audited' = [audited EXCEPT ![<<action, job[w]>>] = @ + 1]
    /\ UNCHANGED <<lock, orphaned>>

\* Fault: the error of the last transaction is caught as one of the build.
FinishCaught(w) ==
    /\ pc' = [pc EXCEPT ![w] = "fail"]
    /\ UNCHANGED <<job, round, known, contended>>

\* The transaction that marks the job done is returned, not awaited: the
\* catch around it does not see it fail.
FinishThrown(w) == Thrown(w, job[w])

MarkDone(w) ==
    /\ pc[w] = "finish"
    /\ Settles(w, "done", "export.completed")
    /\ Returned(w) \/ FinishThrown(w)

FinishFails(w) ==
    /\ pc[w] = "finish"
    /\ FinishThrown(w)
    /\ UNCHANGED <<queue, orphaned>>

MarkFailed(w) ==
    /\ pc[w] = "fail"
    /\ Settles(w, "failed", "export.failed")
    /\ Returned(w) \/ Thrown(w, job[w])

\* Not even the failure can be written down.
FailFails(w) ==
    /\ pc[w] = "fail"
    /\ orphaned' = orphaned \cup {job[w]}
    /\ Thrown(w, job[w])
    /\ UNCHANGED queue

\* The worker's process dies, its transaction is rolled back, and another
\* process takes its place.
Crash(w) ==
    /\ pc[w] # "idle"
    /\ Unlocks(w)
    /\ orphaned' = IF pc[w] \in Claimed THEN orphaned \cup {job[w]}
                                        ELSE orphaned
    /\ EndRun(w)
    /\ UNCHANGED <<status, audited>>

-----------------------------------------------------------------------------

Step(w) ==
    \/ Peek(w) \/ PeekCommits(w) \/ ScanEnds(w)
    \/ Claim(w) \/ ClaimCommits(w) \/ RoundEnds(w)
    \/ Build(w) \/ MarkDone(w) \/ MarkFailed(w)

Fails(w) ==
    \/ PeekFails(w) \/ ClaimFails(w) \/ ClaimUnanswered(w)
    \/ FinishFails(w) \/ FailFails(w) \/ Crash(w)

Next ==
    \/ \E j \in Jobs : Request(j)
    \/ \E w \in Workers : RunStarts(w) \/ Step(w) \/ Fails(w)

Spec == Init /\ [][Next]_vars

-----------------------------------------------------------------------------

TypeOK ==
    /\ status \in [Jobs -> {"absent", "queued", "running", "done", "failed"}]
    /\ lock \in [Jobs -> Workers \cup {NoWorker}]
    /\ audited \in [AuditActions \X Jobs -> Nat]
    /\ pc \in [Workers -> {"idle", "scan", "claim"} \cup Locking \cup Claimed]
    /\ job \in [Workers -> Jobs \cup {NoJob}]
    /\ left \in [Workers -> Seq(Tenants)]
    /\ candidates \in [Workers -> SUBSET Jobs]
    /\ skipped \in [Workers -> SUBSET Tenants]
    /\ stalls \in [Workers -> 0..(MaxStalls - 1)]
    /\ processed \in [Workers -> 0..(MaxJobs - 1)]
    /\ known \in [Workers -> SUBSET Jobs]
    /\ contended \in [Workers -> SUBSET Jobs]
    /\ orphaned \subseteq Jobs

\* Two workers never process the same job, although both may have seen it in
\* the queue.
OneWorkerPerJob ==
    \A v, w \in Workers :
        pc[v] \in Claimed /\ pc[w] \in Claimed /\ job[v] = job[w] => v = w

\* An export that was reported done or failed stays what it is, also when the
\* worker did not hear that its transaction was committed.
SettledStays ==
    [][\A j \in Jobs :
          status[j] \in {"done", "failed"} => status'[j] = status[j]]_vars

\* The audit log says of each job exactly how it ended.
SettledIsAudited ==
    \A j \in Jobs :
        /\ audited[<<"export.completed", j>>] =
               IF status[j] = "done" THEN 1 ELSE 0
        /\ audited[<<"export.failed", j>>] =
               IF status[j] = "failed" THEN 1 ELSE 0

\* A job and those that hide it from a peek: older ones of its tenant.
Precedes(h, k) ==
    /\ JobTenant[h] = JobTenant[k]
    /\ h = k \/ Older(h, k)

\* What keeps a worker that claims job c from job k: its tenant is skipped after
\* a failure; another worker had hold of it or of an older one of its tenant; or
\* an older one of its tenant is the candidate, put first by the database, which
\* looks below the millisecond, and does not come before c.
Hidden(w, k, c) ==
    \/ JobTenant[k] \in skipped[w]
    \/ \E h \in contended[w] : Precedes(h, k)
    \/ \E h \in candidates[w] \ {k} : Precedes(h, k) /\ ~ SortsBefore(h, c)

\* A worker claims the oldest job of all tenants, which are compared to the
\* millisecond and then by id: none that comes before it and was queued when its
\* round began is left behind, unless it was hidden from the worker.
OldestFirst ==
    [][\A w \in Workers : pc[w] = "claim" /\ pc'[w] = "claiming" =>
          \A k \in known[w] :
              SortsBefore(k, job'[w]) /\ status[k] = "queued" =>
                  Hidden(w, k, job'[w])]_vars

\* All of this is one promise, that of JobBoard: whatever the workers do with
\* locks, rounds and failing transactions, a job is taken once, by one worker,
\* who alone may end it, and ends once, together with its audit row.
Working == [w \in Workers |-> IF pc[w] \in Claimed THEN job[w] ELSE NoJob]

Board == INSTANCE JobBoard WITH working <- Working

ImplementsBoard == Board!BoardSpec

Rank == [scan |-> 4, peeked |-> 3, claim |-> 3, claiming |-> 2, build |-> 1,
         finish |-> 0, fail |-> 0]

\* The steps a round has left, at most: two for each tenant it has yet to peek
\* at, and four more for the candidate that this may give.
LeftInRound(w) ==
    6 * Len(left[w]) + 4 * Cardinality(candidates[w]) + Rank[pc[w]]

\* A run has gone on: it has ended, or processed one more job, or counted one
\* more round in vain, or has less of its round left.
Closer(w) ==
    \/ pc'[w] = "idle"
    \/ processed'[w] > processed[w]
    \/ /\ processed'[w] = processed[w]
       /\ \/ stalls'[w] > stalls[w]
          \/ stalls'[w] = stalls[w] /\ LeftInRound(w)' < LeftInRound(w)

\* What others do leaves a run as it is.
StaysPut(w) ==
    UNCHANGED <<pc[w], job[w], left[w], candidates[w], processed[w], stalls[w]>>

\* No run goes on for ever, although two workers may keep each other from every
\* candidate: whatever happens to a run, a failure included, brings it closer to
\* its end, and no step of another worker or of a client throws it back.
StepsRunOut ==
    [][\A w \in Workers : pc[w] # "idle" => StaysPut(w) \/ Closer(w)]_vars

-----------------------------------------------------------------------------
\* What a comment promises and the code does not keep.

\* A job that was claimed is marked done or failed: unless its worker died,
\* or the database refused to take down the failure, somebody is still at it.
ClaimedIsSettled ==
    \A j \in Jobs : status[j] = "running" =>
        \/ \E w \in Workers : pc[w] \in Claimed /\ job[w] = j
        \/ j \in orphaned
=============================================================================
