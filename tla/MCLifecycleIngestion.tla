------------------------ MODULE MCLifecycleIngestion ------------------------
(***************************************************************************)
(* Instances of LifecycleIngestion for TLC: two workspaces with one ticket *)
(* each, two runs, and feeds that hold the interesting neighbours: the     *)
(* same event twice, two events of equal content under two ids, a status   *)
(* and a priority change of one ticket, an unknown slug, a ticket of the   *)
(* other workspace, a malformed item.                                      *)
(***************************************************************************)
EXTENDS LifecycleIngestion, TLC

CONSTANTS r1, r2, acme, globex, t1, t2, e1, e2, e3, e4, e5, e6, e7

MCRuns2  == {r1, r2}
MCSlugs  == {"acme", "globex", "nobody"}
MCTenants == {acme, globex}
MCTenantOfSlug == "acme" :> acme @@ "globex" :> globex @@ "nobody" :> NoTenant
MCTicketIds == {t1, t2}
MCTicketTenant == t1 :> acme @@ t2 :> globex
MCCreatedAt == t1 :> 0 @@ t2 :> 1
MCNewPriority == t1 :> "urgent" @@ t2 :> "normal"
MCEventIds == {e1, e2, e3, e4, e5, e6, e7}

Event(id, sequence, slug, ticket, at, change) ==
    [event_id |-> id, ticket_sequence |-> sequence, workspace_slug |-> slug,
     ticket_id |-> ticket, occurred_at |-> at, event |-> change]

Status(s)   == [kind |-> "status_changed", target_status |-> s]
Priority(p) == [kind |-> "priority_changed", target_priority |-> p]

Solved     == Event(e1, 1, "acme", t1, 0, Status("solved"))
Reopened   == Event(e2, 2, "acme", t1, 0, Status("open"))
Solved2    == Event(e3, 3, "acme", t1, 0, Status("solved"))
Lowered    == Event(e4, 4, "acme", t1, 0, Priority("low"))
Elsewhere  == Event(e5, 2, "acme", t2, 0, Priority("high"))
Abroad     == Event(e7, 1, "globex", t2, 0, Priority("high"))
Homeless   == Event(e6, 5, "nobody", t1, 0, Priority("high"))

\* Feeds that differ in how their items go wrong.
MixedFeeds ==
    {<<Malformed, Elsewhere, Solved>>, <<Homeless>>, <<Abroad>>, <<Solved>>}

\* Feeds of one ticket that race: equal contents, other contents, both kinds.
RacingFeeds == {<<Solved, Reopened>>, <<Solved2>>, <<Lowered>>}

AllFeeds == MixedFeeds \cup RacingFeeds

\* Two events of one ticket, in feeds of their own: either may be late.
DisorderedFeeds == {<<Solved>>, <<Reopened>>}

\* A ticket is solved again, with no time between as far as the events say.
LookalikeFeeds == {<<Solved>>, <<Solved2>>}

MCTimes2 == {0, 5}
MCTimes1 == {0}

RunSymmetry == Permutations(Runs)
=============================================================================
