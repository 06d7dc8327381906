--------------------------- MODULE IngestionCall ---------------------------
(***************************************************************************)
(* What POST /lifecycle-events promises of its one event, with pools,      *)
(* statements and connections left out: the event is recorded and then its *)
(* ticket written, each once and in one step; nothing follows a failure,   *)
(* though what failed for its caller may have taken effect; who is told    *)
(* "ok" has both, and after an answer nothing more happens.  A client that *)
(* leaves stops nothing.                                                   *)
(***************************************************************************)
CONSTANT Requests

VARIABLES
    stage,      \* what each request is to do next
    recorded,   \* the requests whose event is on record
    written,    \* the requests whose event has changed its ticket
    told        \* what the client has got; "gone" if it did not wait

callVars == <<stage, recorded, written, told>>

CallInit ==
    /\ stage = [r \in Requests |-> "record"]
    /\ recorded = {}
    /\ written = {}
    /\ told = [r \in Requests |-> "none"]

\* The answer of the COMMIT may be lost, and the call is then over.
Record(r) ==
    /\ stage[r] = "record"
    /\ recorded' = recorded \cup {r}
    /\ \E s \in {"write", "over"} : stage' = [stage EXCEPT ![r] = s]
    /\ UNCHANGED <<written, told>>

Write(r) ==
    /\ stage[r] = "write"
    /\ r \in recorded
    /\ written' = written \cup {r}
    /\ \E s \in {"answer", "over"} : stage' = [stage EXCEPT ![r] = s]
    /\ UNCHANGED <<recorded, told>>

GiveUp(r) ==
    /\ stage[r] # "over"
    /\ stage' = [stage EXCEPT ![r] = "over"]
    /\ UNCHANGED <<recorded, written, told>>

Succeed(r) ==
    /\ stage[r] = "answer"
    /\ r \in recorded \cap written
    /\ told[r] = "none"
    /\ stage' = [stage EXCEPT ![r] = "over"]
    /\ told' = [told EXCEPT ![r] = "ok"]
    /\ UNCHANGED <<recorded, written>>

Fail(r) ==
    /\ stage[r] \in {"answer", "over"}
    /\ told[r] = "none"
    /\ stage' = [stage EXCEPT ![r] = "over"]
    /\ told' = [told EXCEPT ![r] = "error"]
    /\ UNCHANGED <<recorded, written>>

Leave(r) ==
    /\ told[r] = "none"
    /\ told' = [told EXCEPT ![r] = "gone"]
    /\ UNCHANGED <<stage, recorded, written>>

CallNext ==
    \E r \in Requests :
        Record(r) \/ Write(r) \/ GiveUp(r) \/ Succeed(r) \/ Fail(r) \/ Leave(r)

CallSpec == CallInit /\ [][CallNext]_callVars
=============================================================================
