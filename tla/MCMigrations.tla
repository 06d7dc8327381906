---------------------------- MODULE MCMigrations ----------------------------
(***************************************************************************)
(* Instances of Migrations for TLC: two migrators and deployments of three *)
(* files that disagree: a branch that misses the second file, an edited    *)
(* first or second file, two files of one version, a bad name.             *)
(***************************************************************************)
EXTENDS Migrations, TLC

CONSTANTS m1, m2, a, b, c, edited, shaA, shaB, shaC, shaEdited

MCMigrators  == {m1, m2}
MCVersions   == 1..3
MCTexts      == {a, b, c, edited}
MCChecksums  == {shaA, shaB, shaC, shaEdited}
MCChecksumOf == a :> shaA @@ b :> shaB @@ c :> shaC @@ edited :> shaEdited

File(v, text) == [version |-> v, sql |-> text]

MCDirectories ==
    {{File(1, a), File(2, b), File(3, c)},
     {File(1, a), File(3, c)},
     {File(1, a), File(2, edited), File(3, c)},
     {File(1, edited)},
     {File(2, b), File(2, edited)},
     {File(BadName, b)}}
=============================================================================
