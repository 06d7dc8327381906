----------------------------- MODULE Migrations -----------------------------
(***************************************************************************)
(* The migration runner (migrate() of packages/db/src/migrate.ts, run by   *)
(* packages/db/src/cli.ts): several migrators, deployed with directories   *)
(* that need not agree, bring one database up to date.                     *)
(*                                                                         *)
(* A migrator loads its directory, waits for a session advisory lock,      *)
(* reads the ledger schema_migrations, and then goes through its files in  *)
(* version order.  A file that is in the ledger must have the checksum it  *)
(* had; any other is executed and entered in the ledger in one             *)
(* transaction.  The lock is given back at the end, or by the server when  *)
(* the session ends.  A migrator may be run again at any time.             *)
(***************************************************************************)
EXTENDS Naturals, Sequences, FiniteSets

CONSTANTS
    Migrators,      \* processes that run migrate()
    NoMigrator,
    Versions,       \* the numbers NNNN of the files
    BadName,        \* of a .sql file that is not NNNN_snake_case.sql
    Texts,          \* what a file may contain
    Checksums,
    checksumOf,     \* [Texts -> Checksums]
    Directories     \* what a migrator may be deployed with: sets of files

Files == [version : Versions \cup {BadName}, sql : Texts]

ASSUME MigratorAssumption == NoMigrator \notin Migrators

ASSUME VersionAssumption ==
    /\ Versions \subseteq Nat
    /\ BadName \notin Versions

\* SHA-256 tells the contents of files apart.
ASSUME ChecksumAssumption ==
    /\ checksumOf \in [Texts -> Checksums]
    /\ \A s, t \in Texts : checksumOf[s] = checksumOf[t] => s = t

ASSUME DirectoryAssumption ==
    /\ Directories \subseteq SUBSET Files
    /\ \A directory \in Directories : IsFiniteSet(directory)

VARIABLES
    lock,           \* who holds the advisory lock
    ledger,         \* rows of schema_migrations
    schema,         \* committed effects of files, in order of commit
    pc,             \* where each migrator stands
    migrations,     \* the files it has loaded
    todo,           \* those its loop has yet to reach
    applied,        \* the rows it read from the ledger
    pending,        \* effects of its open transaction
    outcome         \* what it will return or throw

database == <<lock, ledger, schema>>
locals   == <<migrations, todo, applied, pending, outcome>>
vars     == <<database, pc, locals>>

InLoop    == {"files", "execute", "commit"}
InSession == {"ledger", "unlock"} \cup InLoop
Ended     == {"done", "failed"}
Outcomes  == {"done", "drift", "failed", "conflict"}

-----------------------------------------------------------------------------

\* loadMigrations
WellFormed(directory) ==
    /\ \A f \in directory : f.version # BadName
    /\ \A f, g \in directory : f.version = g.version => f = g

RowOf(f) == [version |-> f.version, checksum |-> checksumOf[f.sql]]

\* Fault: the files are sorted the other way round.
NextFromTheTop(m) ==
    CHOOSE f \in todo[m] : \A g \in todo[m] : f.version >= g.version

\* The files are sorted by version.
NextFile(m) ==
    CHOOSE f \in todo[m] : \A g \in todo[m] : f.version <= g.version

Existing(m, f) == {row \in applied[m] : row.version = f.version}

\* Fault: a file that is in the ledger is taken for unchanged.
NeverDrifted(m, f) == FALSE

Drifted(m, f) == RowOf(f) \notin Existing(m, f)

\* The effect of a file, and the directory it came from.
Effect(m, f) == [version |-> f.version, sql |-> f.sql, dir |-> migrations[m]]

Init ==
    /\ lock = NoMigrator
    /\ ledger = {}
    /\ schema = << >>
    /\ pc = [m \in Migrators |-> "idle"]
    /\ migrations = [m \in Migrators |-> {}]
    /\ todo = [m \in Migrators |-> {}]
    /\ applied = [m \in Migrators |-> {}]
    /\ pending = [m \in Migrators |-> << >>]
    /\ outcome = [m \in Migrators |-> "done"]

-----------------------------------------------------------------------------

GoTo(m, label) == pc' = [pc EXCEPT ![m] = label]

\* migrate() returns or throws, and its variables with it.
Leave(m, label) ==
    /\ GoTo(m, label)
    /\ todo' = [todo EXCEPT ![m] = {}]
    /\ applied' = [applied EXCEPT ![m] = {}]
    /\ outcome' = [outcome EXCEPT ![m] = "done"]
    /\ UNCHANGED migrations

\* A deployment runs the migrator: the directory is read before a connection
\* is asked for.
Load(m) ==
    /\ pc[m] \in {"idle"} \cup Ended
    /\ \E directory \in Directories :
          IF WellFormed(directory)
          THEN /\ migrations' = [migrations EXCEPT ![m] = directory]
               /\ todo' = [todo EXCEPT ![m] = directory]
               /\ GoTo(m, "lock")
          ELSE /\ GoTo(m, "failed")
               /\ UNCHANGED <<migrations, todo>>
    /\ UNCHANGED <<database, applied, pending, outcome>>

\* Fault: the lock is tried for, and the migrator goes on without it.
LockGranted(m) == TRUE

LockFree(m) == lock = NoMigrator

Lock(m) ==
    /\ pc[m] = "lock"
    /\ LockFree(m)
    /\ lock' = m
    /\ GoTo(m, "ledger")
    /\ UNCHANGED <<ledger, schema, locals>>

\* CREATE TABLE IF NOT EXISTS leaves an empty ledger where there is none.
ReadLedger(m) ==
    /\ pc[m] = "ledger"
    /\ applied' = [applied EXCEPT ![m] = ledger]
    /\ GoTo(m, "files")
    /\ UNCHANGED <<database, migrations, todo, pending, outcome>>

Ends(m, result) ==
    /\ outcome' = [outcome EXCEPT ![m] = result]
    /\ GoTo(m, "unlock")

\* The next file of the loop: it is compared, or BEGIN opens its transaction.
Compare(m) ==
    /\ pc[m] = "files"
    /\ todo[m] # {}
    /\ LET f == NextFile(m)
       IN  IF Existing(m, f) = {}
           THEN GoTo(m, "execute") /\ UNCHANGED <<todo, outcome>>
           ELSE IF Drifted(m, f)
           THEN Ends(m, "drift") /\ UNCHANGED todo
           ELSE /\ todo' = [todo EXCEPT ![m] = @ \ {f}]
                /\ UNCHANGED <<pc, outcome>>
    /\ UNCHANGED <<database, migrations, applied, pending>>

\* Fault: there was no BEGIN, and the statements commit on their own.
Autocommitted(m) ==
    /\ schema' = Append(schema, Effect(m, NextFile(m)))
    /\ UNCHANGED pending

InTransaction(m) ==
    /\ pending' = [pending EXCEPT ![m] = <<Effect(m, NextFile(m))>>]
    /\ UNCHANGED schema

Execute(m) ==
    /\ pc[m] = "execute"
    /\ InTransaction(m)
    /\ GoTo(m, "commit")
    /\ UNCHANGED <<lock, ledger, migrations, todo, applied, outcome>>

\* The transaction takes effect: what was executed, and its ledger row.
Takes(m) ==
    /\ ledger' = ledger \cup {RowOf(NextFile(m))}
    /\ schema' = schema \o pending[m]
    /\ pending' = [pending EXCEPT ![m] = << >>]

\* INSERT and COMMIT; the row's version is the ledger's primary key.
Commit(m) ==
    /\ pc[m] = "commit"
    /\ IF \E row \in ledger : row.version = NextFile(m).version
       THEN /\ Ends(m, "conflict")
            /\ pending' = [pending EXCEPT ![m] = << >>]
            /\ UNCHANGED <<ledger, schema, todo>>
       ELSE /\ Takes(m)
            /\ todo' = [todo EXCEPT ![m] = @ \ {NextFile(m)}]
            /\ GoTo(m, "files")
            /\ UNCHANGED outcome
    /\ UNCHANGED <<lock, migrations, applied>>

\* A statement of the file, the INSERT or the COMMIT is refused: ROLLBACK, and
\* a MigrationError.
StatementFails(m) ==
    /\ pc[m] \in {"execute", "commit"}
    /\ pending' = [pending EXCEPT ![m] = << >>]
    /\ Ends(m, "failed")
    /\ UNCHANGED <<database, migrations, todo, applied>>

LoopEnds(m) ==
    /\ pc[m] = "files"
    /\ todo[m] = {}
    /\ Ends(m, "done")
    /\ UNCHANGED <<database, migrations, todo, applied, pending>>

\* Fault: the lock is given back on success only.
UnlocksOnSuccess(m) ==
    lock' = IF outcome[m] = "done" THEN NoMigrator ELSE lock

Unlocks(m) == lock' = NoMigrator

\* finally: the lock is given back, then the connection.
Unlock(m) ==
    /\ pc[m] = "unlock"
    /\ Unlocks(m)
    /\ Leave(m, IF outcome[m] = "done" THEN "done" ELSE "failed")
    /\ UNCHANGED <<ledger, schema, pending>>

\* The process dies or its connection is lost: the server rolls back and drops
\* the session's lock.  A COMMIT on its way may still take effect.
SessionEnds(m) ==
    /\ pc[m] \in {"lock"} \cup InSession
    /\ lock' = IF lock = m THEN NoMigrator ELSE lock
    /\ Leave(m, "failed")
    /\ \/ /\ pending' = [pending EXCEPT ![m] = << >>]
          /\ UNCHANGED <<ledger, schema>>
       \/ /\ pc[m] = "commit"
          /\ \A row \in ledger : row.version # NextFile(m).version
          /\ Takes(m)

-----------------------------------------------------------------------------

Step(m) ==
    \/ ReadLedger(m) \/ Compare(m) \/ Execute(m) \/ Commit(m)
    \/ LoopEnds(m) \/ Unlock(m)

Next ==
    \E m \in Migrators :
        Load(m) \/ Lock(m) \/ Step(m) \/ StatementFails(m) \/ SessionEnds(m)

Spec == Init /\ [][Next]_vars

\* A migrator that holds the lock goes on, and the lock manager serves those
\* who wait for the lock in turn.
Fairness == \A m \in Migrators : WF_vars(Step(m)) /\ SF_vars(Lock(m))

FairSpec == Spec /\ Fairness

-----------------------------------------------------------------------------

Effects == [version : Versions, sql : Texts, dir : Directories]
Rows    == [version : Versions, checksum : Checksums]

TypeOK ==
    /\ lock \in Migrators \cup {NoMigrator}
    /\ ledger \in SUBSET Rows
    /\ schema \in Seq(Effects)
    /\ pc \in [Migrators -> {"idle", "lock"} \cup InSession \cup Ended]
    /\ migrations \in [Migrators -> SUBSET Files]
    /\ todo \in [Migrators -> SUBSET Files]
    /\ applied \in [Migrators -> SUBSET Rows]
    /\ pending \in [Migrators -> Seq(Effects)]
    /\ outcome \in [Migrators -> Outcomes]

\* The ledger says what is in the schema, and a version is there once,
\* wherever a migrator fails or dies.
LedgerMatchesSchema ==
    /\ ledger = {RowOf(schema[i]) : i \in DOMAIN schema}
    /\ \A i, j \in DOMAIN schema :
          schema[i].version = schema[j].version => i = j

\* A file is applied on top of all the lower ones of its directory, and they
\* are as that directory has them: whatever other directories have been
\* deployed before, and with a drifted file everything after it is left alone.
AppliedOnTop ==
    \A i \in DOMAIN schema : \A f \in schema[i].dir :
        f.version < schema[i].version =>
            \E j \in 1..(i - 1) : RowOf(schema[j]) = RowOf(f)

\* A migrator that returned has its whole directory in the database, and
\* nothing another deployment does later takes that back.
SuccessIsComplete ==
    \A m \in Migrators : pc[m] = "done" =>
        \A f \in migrations[m] : RowOf(f) \in ledger

\* No migrator is in the way of another: one that executes a file is alone,
\* and does not fail because somebody else has applied it meanwhile.
NobodyCollides ==
    \A m \in Migrators : pc[m] \in {"execute", "commit"} =>
        /\ \A n \in Migrators \ {m} : pc[n] \notin {"execute", "commit"}
        /\ \A row \in ledger : row.version # NextFile(m).version

\* The database moves as SchemaHistory says: one step of it is one file that
\* is applied, whatever the migrators do between two such steps.
History == INSTANCE SchemaHistory
    WITH Directories <- {d \in Directories : WellFormed(d)}

ImplementsHistory == History!HistorySpec

\* A migrator that waits for the lock gets it and comes to an end, although
\* those before it fail, find a drifted file, or die.
MigratorsEnd == \A m \in Migrators : (pc[m] = "lock") ~> (pc[m] \in Ended)
=============================================================================
