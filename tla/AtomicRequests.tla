--------------------------- MODULE AtomicRequests ---------------------------
(***************************************************************************)
(* What the database life of a request promises, with connections,         *)
(* statements, finalizations and disconnections left out: whatever a route *)
(* asked for takes effect in one step or not at all, at most once, before  *)
(* the request is over, and for staff after the access record; and who is  *)
(* told "ok" was given all of it.                                          *)
(***************************************************************************)
EXTENDS Naturals

CONSTANTS Requests, Staff, MaxWork

VARIABLES
    asked,      \* how many statements the route of a request has asked for
    recorded,   \* the requests whose access record is durable
    done,       \* the numbers of the statements that are durable
    told        \* how each request ended; "none" before

atomicVars == <<asked, recorded, done, told>>

Endings == {"ok", "error", "gone"}

AtomicInit ==
    /\ asked = [r \in Requests |-> 0]
    /\ recorded = {}
    /\ done = [r \in Requests |-> {}]
    /\ told = [r \in Requests |-> "none"]

RecordAccess(r) ==
    /\ r \in Staff
    /\ told[r] = "none"
    /\ done[r] = {}
    /\ recorded' = recorded \cup {r}
    /\ UNCHANGED <<asked, done, told>>

\* The route wants one more statement, which is as yet without effect.
Ask(r) ==
    /\ told[r] = "none"
    /\ done[r] = {}
    /\ asked[r] < MaxWork
    /\ asked' = [asked EXCEPT ![r] = @ + 1]
    /\ UNCHANGED <<recorded, done, told>>

\* All that was asked for becomes durable.
TakeEffect(r) ==
    /\ told[r] = "none"
    /\ done[r] = {}
    /\ r \in Staff => r \in recorded
    /\ done' = [done EXCEPT ![r] = 1..asked[r]]
    /\ UNCHANGED <<asked, recorded, told>>

Tell(r, ending) ==
    /\ told[r] = "none"
    /\ ending = "ok" => done[r] = 1..asked[r]
    /\ told' = [told EXCEPT ![r] = ending]
    /\ UNCHANGED <<asked, recorded, done>>

AtomicNext ==
    \E r \in Requests :
        \/ RecordAccess(r) \/ Ask(r) \/ TakeEffect(r)
        \/ \E ending \in Endings : Tell(r, ending)

AtomicSpec == AtomicInit /\ [][AtomicNext]_atomicVars
=============================================================================
