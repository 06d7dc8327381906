------------------------------ MODULE JobBoard ------------------------------
(***************************************************************************)
(* What the export queue promises, with its peeks, row locks, rounds and   *)
(* failing transactions left out: a worker takes a queued job in one step, *)
(* works on it alone, and ends it with its audit row in one step, or lets  *)
(* go of it.  A job that was let go of stays running for ever.             *)
(***************************************************************************)
EXTENDS Naturals

CONSTANTS Jobs, Workers, NoJob

VARIABLES
    status,     \* of each job
    working,    \* the job each worker is at, or NoJob
    audited     \* how many audit rows of an action a job has

board == <<status, working, audited>>

\* How a job may end, and what the audit log then says.
ActionOf == [done |-> "export.completed", failed |-> "export.failed"]

BoardInit ==
    /\ status = [j \in Jobs |-> "absent"]
    /\ working = [w \in Workers |-> NoJob]
    /\ audited = [x \in {"export.completed", "export.failed"} \X Jobs |-> 0]

Ask(j) ==
    /\ status[j] = "absent"
    /\ status' = [status EXCEPT ![j] = "queued"]
    /\ UNCHANGED <<working, audited>>

\* One worker gets the job.
Take(w, j) ==
    /\ status[j] = "queued"
    /\ working[w] = NoJob
    /\ \A v \in Workers : working[v] # j
    /\ status' = [status EXCEPT ![j] = "running"]
    /\ working' = [working EXCEPT ![w] = j]
    /\ UNCHANGED audited

\* The job is taken and its worker does not hear of it: nobody works on it.
TakeUnheard(j) ==
    /\ status[j] = "queued"
    /\ status' = [status EXCEPT ![j] = "running"]
    /\ UNCHANGED <<working, audited>>

\* Who has the job ends it, once, and the log says how.
End(w, j, outcome) ==
    /\ working[w] = j
    /\ status[j] = "running"
    /\ \A a \in DOMAIN ActionOf : audited[<<ActionOf[a], j>>] = 0
    /\ status' = [status EXCEPT ![j] = outcome]
    /\ audited' = [audited EXCEPT ![<<ActionOf[outcome], j>>] = 1]
    /\ working' = [working EXCEPT ![w] = NoJob]

LetGo(w) ==
    /\ working[w] # NoJob
    /\ working' = [working EXCEPT ![w] = NoJob]
    /\ UNCHANGED <<status, audited>>

BoardNext ==
    \/ \E j \in Jobs : Ask(j) \/ TakeUnheard(j)
    \/ \E w \in Workers, j \in Jobs :
          Take(w, j) \/ \E outcome \in DOMAIN ActionOf : End(w, j, outcome)
    \/ \E w \in Workers : LetGo(w)

BoardSpec == BoardInit /\ [][BoardNext]_board
=============================================================================
