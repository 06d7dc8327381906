-------------------------- MODULE MigrationsProofs --------------------------
(***************************************************************************)
(* Theorems about Migrations, for any migrators, files and directories.    *)
(*                                                                         *)
(* The invariant says of each migrator where its variables stand (AtWork), *)
(* what it knows of the ledger while it has the lock (Knows), and what     *)
(* stays when it has returned (Kept); and of the database that ledger and  *)
(* schema agree and that files were applied on top of each other.          *)
(***************************************************************************)
EXTENDS Migrations, FiniteSetTheorems, WellFoundedInduction, TLAPS

AtWork(m) ==
    /\ pc[m] \in {"lock"} \cup InSession =>
          migrations[m] \in Directories /\ WellFormed(migrations[m])
    /\ pc[m] \in InSession => lock = m
    /\ todo[m] \subseteq migrations[m]
    /\ pc[m] \in {"lock", "ledger"} => todo[m] = migrations[m]
    /\ pc[m] \in {"execute", "commit"} =>
          todo[m] # {} /\ Existing(m, NextFile(m)) = {}
    /\ pending[m] = IF pc[m] = "commit" THEN <<Effect(m, NextFile(m))>>
                                        ELSE << >>
    /\ outcome[m] # "conflict"
    /\ pc[m] = "unlock" /\ outcome[m] = "done" => todo[m] = {}
    /\ pc[m] # "unlock" => outcome[m] = "done"

\* What a migrator that has the lock and has read the ledger may rely on: the
\* ledger is what it read and what it has applied since, and the files it has
\* been through are there and come before those it has not.
Knows(m) ==
    pc[m] \in InLoop \cup {"unlock"} =>
        /\ applied[m] \subseteq ledger
        /\ \A row \in ledger :
              \/ row \in applied[m]
              \/ \E f \in migrations[m] \ todo[m] : row = RowOf(f)
        /\ \A f \in migrations[m] \ todo[m] : RowOf(f) \in ledger
        /\ \A f \in migrations[m] \ todo[m] : \A g \in todo[m] :
              f.version < g.version

Kept(m) ==
    pc[m] = "done" => \A f \in migrations[m] : RowOf(f) \in ledger

Inv ==
    /\ TypeOK
    /\ \A m \in Migrators : AtWork(m) /\ Knows(m) /\ Kept(m)
    /\ LedgerMatchesSchema
    /\ AppliedOnTop

-----------------------------------------------------------------------------

\* Every nonempty set of natural numbers has a least element.
LEMMA LeastNatural ==
    ASSUME NEW S, S \subseteq Nat, S # {}
    PROVE  \E n \in S : \A k \in S : n <= k
<1>1. PICK n \in S : \A k \in S : ~(<<k, n>> \in OpToRel(<, Nat))
  BY NatLessThanWellFounded, WFMin
<1>2. ASSUME NEW k \in S PROVE n <= k
  <2>1. ~(k < n)
    BY <1>1 DEF OpToRel
  <2> QED
    BY <2>1
<1> QED
  BY <1>2

\* A well formed directory holds files with a version and a text.
LEMMA FilesAreNamed ==
    ASSUME NEW d \in SUBSET Files, WellFormed(d), NEW f \in d
    PROVE  /\ f.version \in Versions /\ f.version \in Nat /\ f.sql \in Texts
           /\ RowOf(f) \in Rows
           /\ RowOf(f).version = f.version
BY VersionAssumption, ChecksumAssumption DEF Files, WellFormed, RowOf, Rows

\* The loop's next file is one that is left, and none that is left comes
\* before it.
LEMMA NextIsLowest ==
    ASSUME NEW m \in Migrators, migrations[m] \in SUBSET Files,
           WellFormed(migrations[m]), todo[m] \subseteq migrations[m],
           todo[m] # {}
    PROVE  /\ NextFile(m) \in todo[m]
           /\ \A g \in todo[m] : NextFile(m).version <= g.version
<1> DEFINE V == {f.version : f \in todo[m]}
<1>1. V \subseteq Nat /\ V # {}
  BY FilesAreNamed
<1>2. PICK n \in V : \A k \in V : n <= k
  <2> HIDE DEF V
  <2> QED
    BY <1>1, LeastNatural
<1>3. \E f \in todo[m] : \A g \in todo[m] : f.version <= g.version
  BY <1>2
<1> QED
  BY <1>3, Zenon DEF NextFile

\* The file a migrator executes is not in the ledger, neither when it read it
\* nor now.
LEMMA NextIsNew ==
    ASSUME Inv, NEW m \in Migrators, pc[m] \in {"execute", "commit"}
    PROVE  \A row \in ledger : row.version # NextFile(m).version
<1> DEFINE f == NextFile(m)
<1>1. /\ migrations[m] \in SUBSET Files /\ WellFormed(migrations[m])
      /\ todo[m] \subseteq migrations[m] /\ todo[m] # {}
      /\ Existing(m, f) = {}
  BY DEF Inv, TypeOK, AtWork, InSession, InLoop
<1>2. f \in todo[m]
  BY <1>1, NextIsLowest
<1> HIDE DEF f
<1> SUFFICES ASSUME NEW row \in ledger, row.version = f.version PROVE FALSE
  BY DEF f
<1>3. row \notin applied[m]
  BY <1>1 DEF Existing
<1>4. PICK g \in migrations[m] \ todo[m] : row = RowOf(g)
  BY <1>3 DEF Inv, Knows, InLoop
<1>5. g.version < f.version
  BY <1>2 DEF Inv, Knows, InLoop
<1> QED
  BY <1>1, <1>2, <1>4, <1>5, FilesAreNamed

\* When a migrator applies a file, those of its directory that come before it
\* are in the ledger.
LEMMA LowerOnesAreThere ==
    ASSUME Inv, NEW m \in Migrators, pc[m] \in {"execute", "commit"},
           NEW g \in migrations[m], g.version < NextFile(m).version
    PROVE  RowOf(g) \in ledger
<1>1. /\ migrations[m] \in SUBSET Files /\ WellFormed(migrations[m])
      /\ todo[m] \subseteq migrations[m] /\ todo[m] # {}
  BY DEF Inv, TypeOK, AtWork, InSession, InLoop
<1>2. /\ NextFile(m) \in todo[m]
      /\ \A h \in todo[m] : NextFile(m).version <= h.version
  BY <1>1, NextIsLowest
<1>3. g.version \in Nat /\ NextFile(m).version \in Nat
  BY <1>1, <1>2, FilesAreNamed
<1>4. g \notin todo[m]
  BY <1>2, <1>3
<1> QED
  BY <1>4 DEF Inv, Knows, InLoop

-----------------------------------------------------------------------------
\* Frames: what a step leaves alone.

\* A migrator whose variables and lock a step leaves alone stays where it is.
LEMMA AtWorkStays ==
    ASSUME NEW n \in Migrators, AtWork(n), pc'[n] = pc[n],
           migrations'[n] = migrations[n], todo'[n] = todo[n],
           applied'[n] = applied[n], pending'[n] = pending[n],
           outcome'[n] = outcome[n], pc[n] \in InSession => lock' = n
    PROVE  AtWork(n)'
BY DEF AtWork, NextFile, Existing, Effect

LEMMA KnowsStays ==
    ASSUME NEW n \in Migrators, Knows(n), Kept(n), pc'[n] = pc[n],
           migrations'[n] = migrations[n], todo'[n] = todo[n],
           applied'[n] = applied[n], ledger \subseteq ledger',
           pc[n] \in InLoop \cup {"unlock"} => ledger' = ledger
    PROVE  Knows(n)' /\ Kept(n)'
BY DEF Knows, Kept

\* Two migrators are not in a session at once.
LEMMA OneSession ==
    ASSUME Inv, NEW m \in Migrators, NEW n \in Migrators, n # m,
           pc[m] \in InSession
    PROVE  pc[n] \notin InSession
BY DEF Inv, AtWork

\* Ledger and schema after a file has been applied.
LEMMA TakesKeepsDatabase ==
    ASSUME Inv, NEW m \in Migrators, pc[m] = "commit", Takes(m)
    PROVE  /\ ledger' \in SUBSET Rows
           /\ schema' \in Seq(Effects)
           /\ LedgerMatchesSchema'
           /\ AppliedOnTop'
           /\ schema' = Append(schema, Effect(m, NextFile(m)))
           /\ ledger' = ledger \cup {RowOf(NextFile(m))}
<1> DEFINE f == NextFile(m)
           e == Effect(m, f)
<1>1. /\ migrations[m] \in SUBSET Files /\ WellFormed(migrations[m])
      /\ migrations[m] \in Directories
      /\ todo[m] \subseteq migrations[m] /\ todo[m] # {}
      /\ pending[m] = <<e>>
      /\ schema \in Seq(Effects) /\ ledger \in SUBSET Rows
  BY DEF Inv, TypeOK, AtWork, InSession, InLoop
<1>2. f \in migrations[m]
  BY <1>1, NextIsLowest
<1>3. e \in Effects /\ e.version = f.version /\ e.dir = migrations[m]
      /\ RowOf(e) = RowOf(f) /\ RowOf(f) \in Rows
      /\ RowOf(f).version = f.version
  BY <1>1, <1>2, FilesAreNamed DEF Effect, Effects, RowOf
<1>4. \A row \in ledger : row.version # f.version
  BY NextIsNew
<1>5. \A g \in migrations[m] : g.version < f.version => RowOf(g) \in ledger
  BY LowerOnesAreThere
<1> HIDE DEF f, e
<1>6. ledger' = ledger \cup {RowOf(f)} /\ schema' = schema \o <<e>>
  BY <1>1 DEF Takes, f
<1>7. schema' = Append(schema, e)
  BY <1>1, <1>3, <1>6
<1>8. /\ Len(schema') = Len(schema) + 1 /\ Len(schema) \in Nat
      /\ DOMAIN schema = 1..Len(schema)
      /\ DOMAIN schema' = 1..(Len(schema) + 1)
      /\ schema'[Len(schema) + 1] = e
      /\ \A i \in DOMAIN schema : schema'[i] = schema[i]
  BY <1>1, <1>3, <1>7
<1>9. LedgerMatchesSchema'
  <2>1. ledger = {RowOf(schema[i]) : i \in DOMAIN schema}
    BY DEF Inv, LedgerMatchesSchema
  <2>2. \A i, j \in DOMAIN schema :
            schema[i].version = schema[j].version => i = j
    BY DEF Inv, LedgerMatchesSchema
  <2>3. \A i \in DOMAIN schema : schema[i].version # e.version
    <3> SUFFICES ASSUME NEW i \in DOMAIN schema
                 PROVE  schema[i].version # e.version
      OBVIOUS
    <3>1. RowOf(schema[i]) \in ledger
      BY <2>1
    <3>2. RowOf(schema[i]).version = schema[i].version
      BY DEF RowOf
    <3> QED
      BY <1>3, <1>4, <3>1, <3>2
  <2>4. {RowOf(schema'[i]) : i \in DOMAIN schema'} =
            {RowOf(schema[i]) : i \in DOMAIN schema} \cup {RowOf(e)}
    BY <1>8
  <2>5. ledger' = {RowOf(schema'[i]) : i \in DOMAIN schema'}
    BY <1>3, <1>6, <2>1, <2>4
  <2>6. ASSUME NEW i \in DOMAIN schema', NEW j \in DOMAIN schema',
               schema'[i].version = schema'[j].version
        PROVE  i = j
    <3>1. (i \in DOMAIN schema \/ i = Len(schema) + 1)
          /\ (j \in DOMAIN schema \/ j = Len(schema) + 1)
      BY <1>8, <2>6
    <3> QED
      BY <1>8, <2>2, <2>3, <2>6, <3>1
  <2> QED
    BY <2>5, <2>6 DEF LedgerMatchesSchema, RowOf
<1>10. AppliedOnTop'
  <2> SUFFICES ASSUME NEW i \in DOMAIN schema', NEW g \in schema'[i].dir,
                      g.version < schema'[i].version
               PROVE  \E j \in 1..(i - 1) : RowOf(schema'[j]) = RowOf(g)
    BY DEF AppliedOnTop, RowOf
  <2>1. CASE i \in DOMAIN schema
    <3>1. PICK j \in 1..(i - 1) : RowOf(schema[j]) = RowOf(g)
      BY <1>8, <2>1 DEF Inv, AppliedOnTop
    <3>2. j \in DOMAIN schema
      BY <1>8, <2>1
    <3> QED
      BY <1>8, <3>1, <3>2
  <2>2. CASE i = Len(schema) + 1
    <3>1. RowOf(g) \in ledger
      BY <1>3, <1>5, <1>8, <2>2
    <3>2. PICK j \in DOMAIN schema : RowOf(schema[j]) = RowOf(g)
      BY <3>1 DEF Inv, LedgerMatchesSchema
    <3> QED
      BY <1>8, <2>2, <3>2
  <2> QED
    BY <1>8, <2>1, <2>2
<1>11. ledger' \in SUBSET Rows /\ schema' \in Seq(Effects)
  BY <1>1, <1>3, <1>6, <1>7
<1> QED
  BY <1>6, <1>7, <1>9, <1>10, <1>11 DEF e, f

LEMMA DatabaseStays ==
    ASSUME Inv, UNCHANGED <<ledger, schema>>
    PROVE  LedgerMatchesSchema' /\ AppliedOnTop'
BY DEF Inv, LedgerMatchesSchema, AppliedOnTop, RowOf

-----------------------------------------------------------------------------
\* The invariant, action by action.

LEMMA InitInv == Init => Inv
<1> SUFFICES ASSUME Init PROVE Inv
  OBVIOUS
<1>1. TypeOK
  BY MigratorAssumption DEF Init, TypeOK, Outcomes
<1>2. \A m \in Migrators : AtWork(m) /\ Knows(m) /\ Kept(m)
  BY DEF Init, AtWork, Knows, Kept, InSession, InLoop
<1>3. LedgerMatchesSchema /\ AppliedOnTop
  BY DEF Init, LedgerMatchesSchema, AppliedOnTop
<1> QED
  BY <1>1, <1>2, <1>3 DEF Inv

LEMMA LoadInv ==
    ASSUME Inv, NEW m \in Migrators, Load(m)
    PROVE  Inv'
<1> USE DEF Load, GoTo, database
<1>1. PICK d \in Directories :
          IF WellFormed(d)
          THEN /\ migrations' = [migrations EXCEPT ![m] = d]
               /\ todo' = [todo EXCEPT ![m] = d]
               /\ pc' = [pc EXCEPT ![m] = "lock"]
          ELSE /\ pc' = [pc EXCEPT ![m] = "failed"]
               /\ UNCHANGED <<migrations, todo>>
  OBVIOUS
<1>2. TypeOK'
  <2>1. /\ pc' \in [Migrators -> {"idle", "lock"} \cup InSession \cup Ended]
        /\ migrations' \in [Migrators -> SUBSET Files]
        /\ todo' \in [Migrators -> SUBSET Files]
    <3>1. d \in SUBSET Files
      BY DirectoryAssumption
    <3>2. /\ pc \in [Migrators -> {"idle", "lock"} \cup InSession \cup Ended]
          /\ migrations \in [Migrators -> SUBSET Files]
          /\ todo \in [Migrators -> SUBSET Files]
      BY DEF Inv, TypeOK
    <3>3. "failed" \in Ended
      BY DEF Ended
    <3>4. CASE WellFormed(d)
      BY <1>1, <3>1, <3>2, <3>4
    <3>5. CASE ~WellFormed(d)
      BY <1>1, <3>2, <3>3, <3>5
    <3> QED
      BY <3>4, <3>5
  <2> QED
    BY <2>1 DEF Inv, TypeOK
<1>3. ASSUME NEW n \in Migrators PROVE AtWork(n)' /\ Knows(n)' /\ Kept(n)'
  <2>1. CASE n # m
    <3>1. /\ pc'[n] = pc[n] /\ migrations'[n] = migrations[n]
          /\ todo'[n] = todo[n]
      BY <1>1, <2>1 DEF Inv, TypeOK
    <3>2. AtWork(n) /\ Knows(n) /\ Kept(n)
      BY DEF Inv
    <3> QED
      BY <3>1, <3>2, AtWorkStays, KnowsStays DEF AtWork
  <2>2. CASE n = m
    BY <1>1, <2>2
       DEF Inv, TypeOK, AtWork, Knows, Kept, InSession, InLoop, Ended,
           WellFormed
  <2> QED
    BY <2>1, <2>2
<1> QED
  BY <1>2, <1>3, DatabaseStays DEF Inv

LEMMA LockInv ==
    ASSUME Inv, NEW m \in Migrators, Lock(m)
    PROVE  Inv'
<1> USE DEF Lock, LockFree, GoTo, locals
<1>1. TypeOK'
  BY DEF Inv, TypeOK, InSession
<1>2. ASSUME NEW n \in Migrators PROVE AtWork(n)' /\ Knows(n)' /\ Kept(n)'
  <2>1. AtWork(n) /\ Knows(n) /\ Kept(n)
    BY DEF Inv
  <2>2. CASE n # m
    <3>1. pc'[n] = pc[n] /\ pc[n] \notin InSession
      BY <2>1, <2>2, MigratorAssumption DEF Inv, TypeOK, AtWork
    <3> QED
      BY <2>1, <3>1, AtWorkStays, KnowsStays
  <2>3. CASE n = m
    <3>1. AtWork(n)'
      BY <2>1, <2>3 DEF Inv, TypeOK, AtWork, InSession, InLoop, WellFormed
    <3>2. Knows(n)' /\ Kept(n)'
      BY <2>3 DEF Inv, TypeOK, Knows, Kept, InLoop
    <3> QED
      BY <3>1, <3>2
  <2> QED
    BY <2>2, <2>3
<1> QED
  BY <1>1, <1>2, DatabaseStays DEF Inv

LEMMA ReadLedgerInv ==
    ASSUME Inv, NEW m \in Migrators, ReadLedger(m)
    PROVE  Inv'
<1> USE DEF ReadLedger, GoTo, database
<1>1. TypeOK'
  BY DEF Inv, TypeOK, InSession, InLoop
<1>2. ASSUME NEW n \in Migrators PROVE AtWork(n)' /\ Knows(n)' /\ Kept(n)'
  <2>1. AtWork(n) /\ Knows(n) /\ Kept(n)
    BY DEF Inv
  <2>2. CASE n # m
    <3>1. pc'[n] = pc[n] /\ applied'[n] = applied[n]
      BY <2>2 DEF Inv, TypeOK
    <3> QED
      BY <2>1, <3>1, AtWorkStays, KnowsStays DEF AtWork
  <2>3. CASE n = m
    <3>1. pc'[m] = "files" /\ pc[m] = "ledger" /\ applied'[m] = ledger
      BY DEF Inv, TypeOK
    <3>2. AtWork(n)'
      BY <2>1, <2>3, <3>1 DEF AtWork, InSession, InLoop, WellFormed
    <3>3. todo[m] = migrations[m]
      BY <2>1, <2>3 DEF AtWork
    <3>4. Knows(n)' /\ Kept(n)'
      BY <2>3, <3>1, <3>3 DEF Knows, Kept
    <3> QED
      BY <3>2, <3>4
  <2> QED
    BY <2>2, <2>3
<1> QED
  BY <1>1, <1>2, DatabaseStays DEF Inv

\* A step of the one who has the lock that leaves ledger and schema alone is
\* nothing to the others.
LEMMA OthersStay ==
    ASSUME Inv, NEW m \in Migrators, NEW n \in Migrators, n # m,
           pc[m] \in InSession, ledger \subseteq ledger',
           pc'[n] = pc[n], migrations'[n] = migrations[n],
           todo'[n] = todo[n], applied'[n] = applied[n],
           pending'[n] = pending[n], outcome'[n] = outcome[n]
    PROVE  AtWork(n)' /\ Knows(n)' /\ Kept(n)'
<1>1. AtWork(n) /\ Knows(n) /\ Kept(n)
  BY DEF Inv
<1>2. pc[n] \notin InSession
  BY OneSession
<1>3. pc[n] \notin InLoop \cup {"unlock"}
  BY <1>2 DEF InSession
<1> QED
  BY <1>1, <1>2, <1>3, AtWorkStays, KnowsStays

LEMMA CompareInv ==
    ASSUME Inv, NEW m \in Migrators, Compare(m)
    PROVE  Inv'
<1> USE DEF Compare, GoTo, database, Ends
<1> DEFINE f == NextFile(m)
<1>1. /\ migrations[m] \in SUBSET Files /\ WellFormed(migrations[m])
      /\ todo[m] \subseteq migrations[m] /\ todo[m] # {}
      /\ AtWork(m) /\ Knows(m) /\ pc[m] = "files"
  BY DEF Inv, TypeOK, AtWork, InSession, InLoop
<1>2. f \in todo[m] /\ \A g \in todo[m] : f.version <= g.version
  BY <1>1, NextIsLowest
<1>3. TypeOK'
  BY DEF Inv, TypeOK, InSession, InLoop, Outcomes
<1>4. ASSUME NEW n \in Migrators, n # m
      PROVE  AtWork(n)' /\ Knows(n)' /\ Kept(n)'
  <2>1. pc'[n] = pc[n] /\ todo'[n] = todo[n] /\ outcome'[n] = outcome[n]
    BY <1>4 DEF Inv, TypeOK
  <2> QED
    BY <1>1, <1>4, <2>1, OthersStay DEF InSession, InLoop
<1>5. AtWork(m)' /\ Knows(m)' /\ Kept(m)'
  <2>1. CASE Existing(m, f) = {}
    <3>1. pc'[m] = "execute" /\ UNCHANGED <<todo, outcome>>
      BY <2>1 DEF Inv, TypeOK
    <3>2. NextFile(m)' = f
      BY <3>1 DEF NextFile
    <3>3. AtWork(m)'
      BY <1>1, <2>1, <3>1, <3>2
         DEF AtWork, InSession, InLoop, Existing, WellFormed
    <3> HIDE DEF f
    <3>4. Knows(m)' /\ Kept(m)'
      BY <1>1, <3>1 DEF Knows, Kept, InLoop, RowOf
    <3> QED
      BY <3>3, <3>4
  <2>2. CASE Existing(m, f) # {} /\ Drifted(m, f)
    <3>1. pc'[m] = "unlock" /\ outcome'[m] = "drift" /\ todo' = todo
      BY <2>2 DEF Inv, TypeOK
    <3>2. AtWork(m)'
      BY <1>1, <3>1 DEF AtWork, InSession, InLoop, WellFormed
    <3>3. Knows(m)' /\ Kept(m)'
      BY <1>1, <3>1 DEF Knows, Kept, InLoop, RowOf
    <3> QED
      BY <3>2, <3>3
  <2>3. CASE Existing(m, f) # {} /\ ~Drifted(m, f)
    <3>1. todo'[m] = todo[m] \ {f} /\ UNCHANGED <<pc, outcome>>
      BY <2>3 DEF Inv, TypeOK
    <3>2. AtWork(m)'
      BY <1>1, <3>1 DEF AtWork, InSession, InLoop, WellFormed
    <3>3. RowOf(f) \in ledger
      BY <1>1, <2>3 DEF Drifted, Existing, Knows, InLoop
    <3>4. \A g \in todo[m] \ {f} : f.version < g.version
      <4> SUFFICES ASSUME NEW g \in todo[m] \ {f} PROVE f.version < g.version
        OBVIOUS
      <4>1. f.version \in Nat /\ g.version \in Nat
        BY <1>1, <1>2, FilesAreNamed
      <4>2. f.version # g.version
        BY <1>1, <1>2 DEF WellFormed
      <4> HIDE DEF f
      <4> QED
        BY <1>2, <4>1, <4>2
    <3> HIDE DEF f
    <3>5. migrations'[m] \ todo'[m] = (migrations[m] \ todo[m]) \cup {f}
      BY <1>1, <1>2, <3>1
    <3>6. \A h \in migrations'[m] \ todo'[m] : RowOf(h) \in ledger
      BY <1>1, <3>3, <3>5 DEF Knows, InLoop
    <3>7. \A h \in migrations'[m] \ todo'[m] : \A g \in todo'[m] :
              h.version < g.version
      BY <1>1, <1>2, <3>1, <3>4, <3>5 DEF Knows, InLoop
    <3>8. \A row \in ledger :
              \/ row \in applied[m]
              \/ \E h \in migrations'[m] \ todo'[m] : row = RowOf(h)
      BY <1>1, <3>5 DEF Knows, InLoop
    <3>9. Knows(m)' /\ Kept(m)'
      BY <1>1, <3>1, <3>6, <3>7, <3>8 DEF Knows, Kept, InLoop, RowOf
    <3> QED
      BY <3>2, <3>9
  <2> QED
    BY <2>1, <2>2, <2>3
<1> QED
  BY <1>3, <1>4, <1>5, DatabaseStays DEF Inv

LEMMA ExecuteInv ==
    ASSUME Inv, NEW m \in Migrators, Execute(m)
    PROVE  Inv'
<1> USE DEF Execute, GoTo, InTransaction
<1> DEFINE f == NextFile(m)
           e == Effect(m, f)
<1>1. /\ migrations[m] \in SUBSET Files /\ WellFormed(migrations[m])
      /\ migrations[m] \in Directories
      /\ todo[m] \subseteq migrations[m] /\ todo[m] # {}
      /\ AtWork(m) /\ Knows(m) /\ pc[m] = "execute"
  BY DEF Inv, TypeOK, AtWork, InSession, InLoop
<1>2. f \in migrations[m]
  BY <1>1, NextIsLowest
<1>3. e \in Effects
  BY <1>1, <1>2, FilesAreNamed DEF Effect, Effects
<1>4. /\ pc' = [pc EXCEPT ![m] = "commit"]
      /\ pending' = [pending EXCEPT ![m] = <<e>>]
      /\ NextFile(m)' = f /\ Effect(m, NextFile(m))' = e
  BY DEF NextFile, Effect
<1> HIDE DEF f, e
<1>5. TypeOK'
  BY <1>3, <1>4 DEF Inv, TypeOK, InSession, InLoop
<1>6. ASSUME NEW n \in Migrators, n # m
      PROVE  AtWork(n)' /\ Knows(n)' /\ Kept(n)'
  <2>1. pc'[n] = pc[n] /\ pending'[n] = pending[n]
    BY <1>4, <1>6 DEF Inv, TypeOK
  <2> QED
    BY <1>1, <1>6, <2>1, OthersStay DEF InSession, InLoop
<1>7. AtWork(m)' /\ Knows(m)' /\ Kept(m)'
  <2>1. pc'[m] = "commit" /\ pending'[m] = <<e>>
    BY <1>4 DEF Inv, TypeOK
  <2>2. Existing(m, NextFile(m))' = {}
    BY <1>1, <1>4 DEF AtWork, Existing, f
  <2>3. AtWork(m)'
    BY <1>1, <1>4, <2>1, <2>2 DEF AtWork, InSession, InLoop, WellFormed
  <2>4. Knows(m)' /\ Kept(m)'
    BY <1>1, <2>1 DEF Knows, Kept, InLoop, RowOf
  <2> QED
    BY <2>3, <2>4
<1> QED
  BY <1>5, <1>6, <1>7, DatabaseStays DEF Inv

LEMMA CommitInv ==
    ASSUME Inv, NEW m \in Migrators, Commit(m)
    PROVE  Inv'
<1> DEFINE f == NextFile(m)
<1>1. /\ migrations[m] \in SUBSET Files /\ WellFormed(migrations[m])
      /\ todo[m] \subseteq migrations[m] /\ todo[m] # {}
      /\ AtWork(m) /\ Knows(m) /\ pc[m] = "commit"
  BY DEF Inv, TypeOK, AtWork, InSession, InLoop, Commit
<1>2. f \in todo[m] /\ \A g \in todo[m] : f.version <= g.version
  BY <1>1, NextIsLowest
<1>3. /\ Takes(m)
      /\ todo' = [todo EXCEPT ![m] = @ \ {f}]
      /\ pc' = [pc EXCEPT ![m] = "files"]
      /\ UNCHANGED <<outcome, lock, migrations, applied>>
  BY <1>1, NextIsNew DEF Commit, GoTo
<1>4. /\ ledger' \in SUBSET Rows /\ schema' \in Seq(Effects)
      /\ LedgerMatchesSchema' /\ AppliedOnTop'
      /\ ledger' = ledger \cup {RowOf(f)}
  BY <1>1, <1>3, TakesKeepsDatabase
<1> HIDE DEF f
<1>5. pending' = [pending EXCEPT ![m] = << >>]
  BY <1>3 DEF Takes
<1>6. TypeOK'
  <2>1. pending' \in [Migrators -> Seq(Effects)]
    BY <1>5 DEF Inv, TypeOK
  <2>2. todo' \in [Migrators -> SUBSET Files]
    BY <1>3 DEF Inv, TypeOK
  <2> QED
    BY <1>3, <1>4, <2>1, <2>2 DEF Inv, TypeOK, InSession, InLoop
<1>7. ASSUME NEW n \in Migrators, n # m
      PROVE  AtWork(n)' /\ Knows(n)' /\ Kept(n)'
  <2>1. pc'[n] = pc[n] /\ pending'[n] = pending[n] /\ todo'[n] = todo[n]
    BY <1>3, <1>5, <1>7 DEF Inv, TypeOK
  <2> QED
    BY <1>1, <1>3, <1>4, <1>7, <2>1, OthersStay DEF InSession, InLoop
<1>8. AtWork(m)' /\ Knows(m)' /\ Kept(m)'
  <2>1. /\ pc'[m] = "files" /\ pending'[m] = << >>
        /\ todo'[m] = todo[m] \ {f}
    BY <1>3, <1>5 DEF Inv, TypeOK
  <2>2. AtWork(m)'
    BY <1>1, <1>3, <2>1 DEF AtWork, InSession, InLoop, WellFormed
  <2>3. \A g \in todo[m] \ {f} : f.version < g.version
    <3> SUFFICES ASSUME NEW g \in todo[m] \ {f} PROVE f.version < g.version
      OBVIOUS
    <3>1. f.version \in Nat /\ g.version \in Nat
      BY <1>1, <1>2, FilesAreNamed
    <3>2. f.version # g.version
      BY <1>1, <1>2 DEF WellFormed
    <3> QED
      BY <1>2, <3>1, <3>2
  <2>4. migrations'[m] \ todo'[m] = (migrations[m] \ todo[m]) \cup {f}
    BY <1>1, <1>2, <1>3, <2>1
  <2>5. \A h \in migrations'[m] \ todo'[m] : RowOf(h) \in ledger'
    BY <1>1, <1>4, <2>4 DEF Knows, InLoop
  <2>6. \A h \in migrations'[m] \ todo'[m] : \A g \in todo'[m] :
            h.version < g.version
    BY <1>1, <1>2, <2>1, <2>3, <2>4 DEF Knows, InLoop
  <2>7. \A row \in ledger' :
            \/ row \in applied[m]
            \/ \E h \in migrations'[m] \ todo'[m] : row = RowOf(h)
    BY <1>1, <1>4, <2>4 DEF Knows, InLoop
  <2>8. applied'[m] \subseteq ledger'
    BY <1>1, <1>3, <1>4 DEF Knows, InLoop
  <2>9. Knows(m)' /\ Kept(m)'
    BY <1>3, <2>1, <2>5, <2>6, <2>7, <2>8 DEF Knows, Kept, RowOf
  <2> QED
    BY <2>2, <2>9
<1> QED
  BY <1>4, <1>6, <1>7, <1>8 DEF Inv

LEMMA StatementFailsInv ==
    ASSUME Inv, NEW m \in Migrators, StatementFails(m)
    PROVE  Inv'
<1> USE DEF StatementFails, GoTo, database, Ends
<1>1. TypeOK'
  BY DEF Inv, TypeOK, InSession, InLoop, Outcomes
<1>2. ASSUME NEW n \in Migrators PROVE AtWork(n)' /\ Knows(n)' /\ Kept(n)'
  <2>1. CASE n # m
    <3>1. /\ pc'[n] = pc[n] /\ pending'[n] = pending[n]
          /\ outcome'[n] = outcome[n]
      BY <2>1 DEF Inv, TypeOK
    <3> QED
      BY <2>1, <3>1, OthersStay DEF InSession, InLoop
  <2>2. CASE n = m
    <3>1. AtWork(m) /\ Knows(m)
      BY DEF Inv
    <3>2. /\ pc'[m] = "unlock" /\ outcome'[m] = "failed"
          /\ pending'[m] = << >>
      BY DEF Inv, TypeOK
    <3>3. AtWork(m)'
      BY <3>1, <3>2 DEF AtWork, InSession, InLoop, WellFormed
    <3>4. Knows(m)' /\ Kept(m)'
      BY <3>1, <3>2 DEF Knows, Kept, InLoop, RowOf
    <3> QED
      BY <2>2, <3>3, <3>4
  <2> QED
    BY <2>1, <2>2
<1> QED
  BY <1>1, <1>2, DatabaseStays DEF Inv

LEMMA LoopEndsInv ==
    ASSUME Inv, NEW m \in Migrators, LoopEnds(m)
    PROVE  Inv'
<1> USE DEF LoopEnds, GoTo, database, Ends
<1>1. TypeOK'
  BY DEF Inv, TypeOK, InSession, InLoop, Outcomes
<1>2. ASSUME NEW n \in Migrators PROVE AtWork(n)' /\ Knows(n)' /\ Kept(n)'
  <2>1. CASE n # m
    <3>1. pc'[n] = pc[n] /\ outcome'[n] = outcome[n]
      BY <2>1 DEF Inv, TypeOK
    <3> QED
      BY <2>1, <3>1, OthersStay DEF InSession, InLoop
  <2>2. CASE n = m
    <3>1. AtWork(m) /\ Knows(m)
      BY DEF Inv
    <3>2. pc'[m] = "unlock" /\ outcome'[m] = "done"
      BY DEF Inv, TypeOK
    <3>3. AtWork(m)'
      BY <3>1, <3>2 DEF AtWork, InSession, InLoop, WellFormed
    <3>4. Knows(m)' /\ Kept(m)'
      BY <3>1, <3>2 DEF Knows, Kept, InLoop, RowOf
    <3> QED
      BY <2>2, <3>3, <3>4
  <2> QED
    BY <2>1, <2>2
<1> QED
  BY <1>1, <1>2, DatabaseStays DEF Inv

LEMMA UnlockInv ==
    ASSUME Inv, NEW m \in Migrators, Unlock(m)
    PROVE  Inv'
<1> USE DEF Unlock, Unlocks, Leave, GoTo
<1>1. TypeOK'
  BY DEF Inv, TypeOK, Ended, Outcomes
<1>2. ASSUME NEW n \in Migrators PROVE AtWork(n)' /\ Knows(n)' /\ Kept(n)'
  <2>1. CASE n # m
    <3>1. /\ pc'[n] = pc[n] /\ todo'[n] = todo[n]
          /\ applied'[n] = applied[n] /\ outcome'[n] = outcome[n]
      BY <2>1 DEF Inv, TypeOK
    <3> QED
      BY <2>1, <3>1, OthersStay DEF InSession
  <2>2. CASE n = m
    <3>1. AtWork(m) /\ Knows(m)
      BY DEF Inv
    <3>2. /\ pc'[m] = IF outcome[m] = "done" THEN "done" ELSE "failed"
          /\ outcome'[m] = "done" /\ todo'[m] = {} /\ pending'[m] = pending[m]
      BY DEF Inv, TypeOK
    <3>3. AtWork(m)'
      BY <3>1, <3>2 DEF AtWork, InSession, InLoop
    <3>4. Knows(m)'
      BY <3>2 DEF Knows, InLoop
    <3>5. outcome[m] = "done" => \A g \in migrations[m] : RowOf(g) \in ledger
      BY <3>1 DEF AtWork, Knows
    <3>6. Kept(m)'
      BY <3>2, <3>5 DEF Kept, RowOf
    <3> QED
      BY <2>2, <3>3, <3>4, <3>6
  <2> QED
    BY <2>1, <2>2
<1> QED
  BY <1>1, <1>2, DatabaseStays DEF Inv

LEMMA SessionEndsInv ==
    ASSUME Inv, NEW m \in Migrators, SessionEnds(m)
    PROVE  Inv'
<1> USE DEF SessionEnds, Leave, GoTo
<1>1. AtWork(m)
  BY DEF Inv
<1>2. /\ pending' = [pending EXCEPT ![m] = << >>]
      /\ ledger' \in SUBSET Rows /\ schema' \in Seq(Effects)
      /\ LedgerMatchesSchema' /\ AppliedOnTop'
      /\ ledger \subseteq ledger'
      /\ pc[m] \notin InSession => ledger' = ledger
  <2>1. CASE UNCHANGED <<ledger, schema>>
            /\ pending' = [pending EXCEPT ![m] = << >>]
    BY <2>1, DatabaseStays DEF Inv, TypeOK
  <2>2. CASE pc[m] = "commit" /\ Takes(m)
    BY <2>2, TakesKeepsDatabase DEF Takes, InSession, InLoop
  <2> QED
    BY <2>1, <2>2
<1>3. TypeOK'
  <2>1. pending' \in [Migrators -> Seq(Effects)]
    BY <1>2 DEF Inv, TypeOK
  <2> QED
    BY <1>2, <2>1 DEF Inv, TypeOK, Ended, Outcomes
<1>4. ASSUME NEW n \in Migrators, n # m
      PROVE  AtWork(n)' /\ Knows(n)' /\ Kept(n)'
  <2>1. /\ pc'[n] = pc[n] /\ todo'[n] = todo[n] /\ applied'[n] = applied[n]
        /\ outcome'[n] = outcome[n] /\ pending'[n] = pending[n]
        /\ migrations'[n] = migrations[n]
    BY <1>2, <1>4 DEF Inv, TypeOK
  <2>2. CASE pc[m] \in InSession
    BY <1>2, <1>4, <2>1, <2>2, OthersStay
  <2>3. CASE pc[m] \notin InSession
    <3>1. AtWork(n) /\ Knows(n) /\ Kept(n)
      BY DEF Inv
    <3>2. pc[n] \in InSession => lock' = n
      BY <1>4, <3>1 DEF AtWork
    <3> QED
      BY <1>2, <2>1, <2>3, <3>1, <3>2, AtWorkStays, KnowsStays
  <2> QED
    BY <2>2, <2>3
<1>5. AtWork(m)' /\ Knows(m)' /\ Kept(m)'
  <2>1. /\ pc'[m] = "failed" /\ outcome'[m] = "done" /\ todo'[m] = {}
        /\ pending'[m] = << >>
    BY <1>2 DEF Inv, TypeOK
  <2> QED
    BY <2>1 DEF AtWork, Knows, Kept, InSession, InLoop
<1> QED
  BY <1>2, <1>3, <1>4, <1>5 DEF Inv

LEMMA NextInv == Inv /\ [Next]_vars => Inv'
<1> SUFFICES ASSUME Inv, [Next]_vars PROVE Inv'
  OBVIOUS
<1>1. CASE UNCHANGED vars
  <2> USE <1>1 DEF vars, database, locals
  <2>1. TypeOK'
    BY DEF Inv, TypeOK
  <2>2. ASSUME NEW n \in Migrators
        PROVE  AtWork(n)' /\ Knows(n)' /\ Kept(n)'
    BY AtWorkStays, KnowsStays DEF Inv, AtWork
  <2> QED
    BY <2>1, <2>2, DatabaseStays DEF Inv
<1>2. ASSUME NEW m \in Migrators,
             \/ Load(m) \/ Lock(m) \/ Step(m)
             \/ StatementFails(m) \/ SessionEnds(m)
      PROVE  Inv'
  BY <1>2, LoadInv, LockInv, ReadLedgerInv, CompareInv, ExecuteInv, CommitInv,
     StatementFailsInv, LoopEndsInv, UnlockInv, SessionEndsInv
     DEF Step
<1> QED
  BY <1>1, <1>2 DEF Next

LEMMA SpecInv == Spec => []Inv
BY InitInv, NextInv, PTL DEF Spec

-----------------------------------------------------------------------------
\* Theorems

\* The variables of the migrators and of the database keep their types.
THEOREM TypeCorrect == Spec => []TypeOK
<1>1. Inv => TypeOK
  BY DEF Inv
<1> QED
  BY <1>1, SpecInv, PTL

\* Whatever fails or dies between two files, the ledger of applied migrations
\* and the schema agree, and no version is applied twice.
THEOREM LedgerIsTrue == Spec => []LedgerMatchesSchema
<1>1. Inv => LedgerMatchesSchema
  BY DEF Inv
<1> QED
  BY <1>1, SpecInv, PTL

\* Every file was applied on top of the lower files of its directory, as that
\* directory has them.
THEOREM FilesStack == Spec => []AppliedOnTop
<1>1. Inv => AppliedOnTop
  BY DEF Inv
<1> QED
  BY <1>1, SpecInv, PTL

\* A migrator that returned without an error has its directory in the ledger.
THEOREM SuccessHolds == Spec => []SuccessIsComplete
<1>1. Inv => SuccessIsComplete
  BY DEF Inv, Kept, SuccessIsComplete
<1> QED
  BY <1>1, SpecInv, PTL

\* Migrators that run at once do not make each other fail.
THEOREM MigratorsKeepApart == Spec => []NobodyCollides
<1>1. ASSUME Inv PROVE NobodyCollides
  <2> SUFFICES ASSUME NEW m \in Migrators, pc[m] \in {"execute", "commit"}
               PROVE  /\ \A n \in Migrators \ {m} :
                            pc[n] \notin {"execute", "commit"}
                      /\ \A row \in ledger :
                            row.version # NextFile(m).version
    BY DEF NobodyCollides
  <2>1. \A n \in Migrators \ {m} : pc[n] \notin InSession
    BY <1>1, OneSession DEF InSession, InLoop
  <2>2. \A row \in ledger : row.version # NextFile(m).version
    BY <1>1, NextIsNew
  <2> QED
    BY <2>1, <2>2 DEF InSession, InLoop
<1> QED
  BY <1>1, SpecInv, PTL

\* A file that takes effect is one step of the abstract history.
LEMMA TakesIsApply ==
    ASSUME Inv, NEW m \in Migrators, pc[m] = "commit", Takes(m)
    PROVE  History!HistoryNext
<1> DEFINE f == NextFile(m)
           d == migrations[m]
<1>1. /\ d \in SUBSET Files /\ WellFormed(d) /\ d \in Directories
      /\ todo[m] \subseteq d /\ todo[m] # {}
  BY DEF Inv, TypeOK, AtWork, InSession, InLoop
<1>2. f \in d
  BY <1>1, NextIsLowest
<1>3. \A row \in ledger : row.version # f.version
  BY NextIsNew
<1>4. \A g \in d : g.version < f.version => RowOf(g) \in ledger
  BY LowerOnesAreThere
<1>5. /\ schema' = Append(schema, Effect(m, f))
      /\ ledger' = ledger \cup {RowOf(f)}
  BY TakesKeepsDatabase
<1> HIDE DEF f
<1>6. History!Apply(d, f)
  BY <1>3, <1>4, <1>5 DEF History!Apply, History!LedgerRow, RowOf, Effect
<1> QED
  BY <1>1, <1>2, <1>6 DEF History!HistoryNext

\* The migration runner implements the history of a schema that grows by whole
\* files in order: each of its steps applies one file or changes nothing.
THEOREM HistoryImplemented == Spec => ImplementsHistory
<1>1. Init => History!HistoryInit
  BY DEF Init, History!HistoryInit
<1>2. Inv /\ [Next]_vars => [History!HistoryNext]_<<ledger, schema>>
  <2> SUFFICES ASSUME Inv, [Next]_vars
               PROVE  History!HistoryNext \/ UNCHANGED <<ledger, schema>>
    OBVIOUS
  <2>1. CASE UNCHANGED vars
    BY <2>1 DEF vars, database
  <2>2. ASSUME NEW m \in Migrators, Commit(m)
        PROVE  History!HistoryNext \/ UNCHANGED <<ledger, schema>>
    BY <2>2, TakesIsApply DEF Commit
  <2>3. ASSUME NEW m \in Migrators, SessionEnds(m)
        PROVE  History!HistoryNext \/ UNCHANGED <<ledger, schema>>
    BY <2>3, TakesIsApply DEF SessionEnds
  <2>4. ASSUME NEW m \in Migrators,
               \/ Load(m) \/ Lock(m) \/ StatementFails(m) \/ ReadLedger(m)
               \/ Compare(m) \/ Execute(m) \/ LoopEnds(m) \/ Unlock(m)
        PROVE  UNCHANGED <<ledger, schema>>
    BY <2>4 DEF Load, Lock, StatementFails, ReadLedger, Compare, Execute,
                LoopEnds, Unlock, InTransaction, database
  <2> QED
    BY <2>1, <2>2, <2>3, <2>4 DEF Next, Step
<1> QED
  BY <1>1, <1>2, SpecInv, PTL DEF Spec, ImplementsHistory, History!HistorySpec
-----------------------------------------------------------------------------
\* How long the lock can be held.

\* The steps a migrator has left, at most: three for each file it has yet to
\* reach, and those before and after its loop.
Rank == [lock |-> 4, ledger |-> 3, files |-> 2, execute |-> 1, commit |-> 0]

StepsLeft(m) ==
    IF pc[m] \in DOMAIN Rank THEN 3 * Cardinality(todo[m]) + Rank[pc[m]]
    ELSE IF pc[m] = "unlock" THEN 1 ELSE 0

\* The lock is never with a migrator that has left, and the one that has it is
\* not more than so many of its own steps from giving it back.
LockIsBounded ==
    \A m \in Migrators : lock = m =>
        /\ pc[m] \in InSession
        /\ StepsLeft(m) \in 1..(3 * Cardinality(migrations[m]) + 3)

\* Each of those steps takes one away, and nobody else adds any.
StepsRunOut ==
    [][\A m \in Migrators :
          /\ Lock(m) \/ Step(m) => StepsLeft(m)' < StepsLeft(m)
          /\ pc[m] \in {"lock"} \cup InSession =>
                StepsLeft(m)' <= StepsLeft(m)]_vars

HeldInSession == lock # NoMigrator => pc[lock] \in InSession

LEMMA NextHeld ==
    ASSUME Inv, HeldInSession, [Next]_vars
    PROVE  HeldInSession'
<1>1. CASE UNCHANGED vars
  BY <1>1 DEF vars, database, HeldInSession
<1>2. ASSUME NEW m \in Migrators, Load(m) PROVE HeldInSession'
  BY <1>2 DEF Load, GoTo, database, HeldInSession, Inv, TypeOK, InSession,
     InLoop, Ended
<1>3. ASSUME NEW m \in Migrators, Lock(m) PROVE HeldInSession'
  BY <1>3 DEF Lock, GoTo, HeldInSession, Inv, TypeOK, InSession
<1>4. ASSUME NEW m \in Migrators,
             ReadLedger(m) \/ Compare(m) \/ Execute(m) \/ Commit(m)
             \/ LoopEnds(m) \/ StatementFails(m)
      PROVE  HeldInSession'
  <2>1. /\ lock' = lock
        /\ \/ pc' = pc
           \/ \E label \in InSession : pc' = [pc EXCEPT ![m] = label]
    BY <1>4 DEF ReadLedger, Compare, Execute, Commit, LoopEnds, StatementFails,
       Ends, GoTo, InSession, InLoop, database
  <2> QED
    BY <2>1 DEF HeldInSession, Inv, TypeOK
<1>5. ASSUME NEW m \in Migrators, Unlock(m) PROVE HeldInSession'
  BY <1>5 DEF Unlock, Unlocks, HeldInSession
<1>6. ASSUME NEW m \in Migrators, SessionEnds(m) PROVE HeldInSession'
  <2>1. /\ lock' = IF lock = m THEN NoMigrator ELSE lock
        /\ pc' = [pc EXCEPT ![m] = "failed"]
    BY <1>6 DEF SessionEnds, Leave, GoTo
  <2> QED
    BY <2>1 DEF HeldInSession, Inv, TypeOK
<1> QED
  BY <1>1, <1>2, <1>3, <1>4, <1>5, <1>6 DEF Next, Step

\* What a migrator at work has left to reach is finite, and part of what it
\* was deployed with.
LEMMA TodoIsFinite ==
    ASSUME Inv, NEW m \in Migrators, pc[m] \in {"lock"} \cup InSession
    PROVE  /\ IsFiniteSet(todo[m])
           /\ Cardinality(todo[m]) \in Nat
           /\ Cardinality(migrations[m]) \in Nat
           /\ Cardinality(todo[m]) <= Cardinality(migrations[m])
<1>1. IsFiniteSet(migrations[m]) /\ todo[m] \in SUBSET migrations[m]
  BY DirectoryAssumption DEF Inv, AtWork
<1> QED
  BY <1>1, FS_Subset, FS_CardinalityType

\* A file that a migrator has done with leaves one less to reach.
LEMMA OneLess ==
    ASSUME Inv, NEW m \in Migrators, pc[m] \in InSession,
           todo[m] # {}, todo'[m] = todo[m] \ {NextFile(m)}
    PROVE  /\ Cardinality(todo[m]) \in Nat \ {0}
           /\ Cardinality(todo'[m]) = Cardinality(todo[m]) - 1
<1>1. IsFiniteSet(todo[m]) /\ Cardinality(todo[m]) \in Nat
  BY TodoIsFinite
<1>2. NextFile(m) \in todo[m]
  BY NextIsLowest DEF Inv, TypeOK, AtWork
<1>3. Cardinality(todo[m]) # 0
  BY <1>1, FS_EmptySet
<1> QED
  BY <1>1, <1>2, <1>3, FS_RemoveElement

LEMMA LeftIs ==
    ASSUME Inv, NEW m \in Migrators, pc[m] \in {"lock"} \cup InSession
    PROVE  /\ StepsLeft(m) \in Nat \ {0}
           /\ pc[m] \in InSession =>
                 StepsLeft(m) <= 3 * Cardinality(migrations[m]) + 3
<1> DEFINE n == Cardinality(todo[m])
           d == Cardinality(migrations[m])
<1>1. n \in Nat /\ d \in Nat /\ n <= d
  BY TodoIsFinite
<1>2. CASE pc[m] = "unlock"
  <2>1. StepsLeft(m) = 1
    BY <1>2 DEF StepsLeft, Rank
  <2> HIDE DEF n, d
  <2>2. 1 <= 3 * d + 3
    BY <1>1
  <2> QED
    BY <2>1, <2>2 DEF d
<1>3. CASE pc[m] \in {"lock", "ledger", "files"}
  <2>1. /\ StepsLeft(m) = 3 * n + Rank[pc[m]]
        /\ Rank[pc[m]] \in 2..4
        /\ pc[m] \in InSession => Rank[pc[m]] <= 3
    BY <1>3 DEF StepsLeft, Rank, InSession, InLoop
  <2> HIDE DEF n, d
  <2>2. /\ 3 * n + Rank[pc[m]] \in Nat \ {0}
        /\ Rank[pc[m]] <= 3 => 3 * n + Rank[pc[m]] <= 3 * d + 3
    BY <1>1, <2>1
  <2> QED
    BY <2>1, <2>2 DEF d
<1>4. CASE pc[m] \in {"execute", "commit"}
  <2>1. StepsLeft(m) = 3 * n + Rank[pc[m]] /\ Rank[pc[m]] \in 0..1
    BY <1>4 DEF StepsLeft, Rank
  <2>2. n # 0
    <3>1. IsFiniteSet(todo[m]) /\ todo[m] # {}
      BY <1>4, TodoIsFinite DEF Inv, AtWork
    <3> QED
      BY <3>1, FS_EmptySet
  <2> HIDE DEF n, d
  <2>3. /\ 3 * n + Rank[pc[m]] \in Nat \ {0}
        /\ 3 * n + Rank[pc[m]] <= 3 * d + 3
    BY <1>1, <2>1, <2>2
  <2> QED
    BY <2>1, <2>3 DEF d
<1> QED
  BY <1>2, <1>3, <1>4 DEF InSession, InLoop

\* Going on with the same files left takes a step away.
LEMMA GoingOnShortens ==
    ASSUME Inv, NEW m \in Migrators, pc[m] \in {"lock"} \cup InSession,
           NEW from \in DOMAIN Rank, NEW to \in DOMAIN Rank,
           Rank[to] < Rank[from], pc[m] = from, pc'[m] = to,
           todo'[m] = todo[m]
    PROVE  StepsLeft(m)' < StepsLeft(m)
<1> DEFINE n == Cardinality(todo[m])
<1>1. n \in Nat
  BY TodoIsFinite
<1>2. StepsLeft(m) = 3 * n + Rank[from] /\ StepsLeft(m)' = 3 * n + Rank[to]
  BY DEF StepsLeft
<1>3. Rank[from] \in Nat /\ Rank[to] \in Nat
  BY DEF Rank
<1> HIDE DEF n
<1> QED
  BY <1>1, <1>2, <1>3

\* So does coming back to the loop with one file less.
LEMMA NextRoundShortens ==
    ASSUME Inv, NEW m \in Migrators, pc[m] \in {"files", "commit"},
           todo[m] # {}, todo'[m] = todo[m] \ {NextFile(m)},
           pc'[m] = "files"
    PROVE  StepsLeft(m)' < StepsLeft(m)
<1> DEFINE n == Cardinality(todo[m])
<1>1. n \in Nat \ {0} /\ Cardinality(todo'[m]) = n - 1
  BY OneLess DEF InSession, InLoop
<1>2. StepsLeft(m) = 3 * n + Rank[pc[m]] /\ Rank[pc[m]] \in {0, 2}
  BY DEF StepsLeft, Rank
<1>3. StepsLeft(m)' = 3 * (n - 1) + 2
  BY <1>1 DEF StepsLeft, Rank
<1> HIDE DEF n
<1> QED
  BY <1>1, <1>2, <1>3

\* And so does leaving the loop, or the session.
LEMMA LeavingShortens ==
    ASSUME Inv, NEW m \in Migrators, pc[m] \in {"lock"} \cup InSession,
           \/ pc'[m] \in Ended
           \/ pc'[m] = "unlock" /\ pc[m] \in InLoop
    PROVE  StepsLeft(m)' < StepsLeft(m)
<1>1. StepsLeft(m) \in Nat \ {0}
  BY LeftIs
<1>2. CASE pc'[m] \in Ended
  <2>1. StepsLeft(m)' = 0
    BY <1>2 DEF StepsLeft, Rank, Ended
  <2> QED
    BY <1>1, <2>1
<1>3. CASE pc'[m] = "unlock" /\ pc[m] \in InLoop
  <2>1. StepsLeft(m)' = 1
    BY <1>3 DEF StepsLeft, Rank
  <2> DEFINE n == Cardinality(todo[m])
  <2>2. n \in Nat
    BY TodoIsFinite
  <2>3. StepsLeft(m) = 3 * n + Rank[pc[m]] /\ Rank[pc[m]] \in 0..2
    BY <1>3 DEF StepsLeft, Rank, InLoop
  <2>4. n # 0 \/ Rank[pc[m]] = 2
    <3>1. CASE pc[m] = "files"
      BY <3>1 DEF Rank
    <3>2. CASE pc[m] \in {"execute", "commit"}
      <4>1. IsFiniteSet(todo[m]) /\ todo[m] # {}
        BY <3>2, TodoIsFinite DEF Inv, AtWork
      <4> QED
        BY <4>1, FS_EmptySet
    <3> QED
      BY <1>3, <3>1, <3>2 DEF InLoop
  <2> HIDE DEF n
  <2> QED
    BY <2>1, <2>2, <2>3, <2>4
<1> QED
  BY <1>2, <1>3

\* A step of a migrator, whatever comes of it, takes steps away from it.
LEMMA StepShortens ==
    ASSUME Inv, NEW m \in Migrators,
           Lock(m) \/ Step(m) \/ StatementFails(m) \/ SessionEnds(m)
    PROVE  StepsLeft(m)' < StepsLeft(m)
<1> USE DEF GoTo
<1>0. pc \in [Migrators -> {"idle", "lock"} \cup InSession \cup Ended]
      /\ todo \in [Migrators -> SUBSET Files]
  BY DEF Inv, TypeOK
<1>1. CASE Lock(m)
  BY <1>0, <1>1, GoingOnShortens DEF Lock, Rank, locals
<1>2. CASE ReadLedger(m)
  BY <1>0, <1>2, GoingOnShortens DEF ReadLedger, Rank, InSession
<1>3. CASE Compare(m)
  <2>1. pc[m] = "files" /\ todo[m] # {}
    BY <1>3 DEF Compare
  <2>2. \/ pc'[m] = "execute" /\ todo' = todo
        \/ pc'[m] = "unlock"
        \/ pc' = pc /\ todo'[m] = todo[m] \ {NextFile(m)}
    BY <1>0, <1>3 DEF Compare, Ends
  <2>3. CASE pc'[m] = "execute" /\ todo' = todo
    BY <2>1, <2>3, GoingOnShortens DEF Rank, InSession, InLoop
  <2>4. CASE pc'[m] = "unlock"
    BY <2>1, <2>4, LeavingShortens DEF InSession, InLoop
  <2>5. CASE pc' = pc /\ todo'[m] = todo[m] \ {NextFile(m)}
    BY <2>1, <2>5, NextRoundShortens
  <2> QED
    BY <2>2, <2>3, <2>4, <2>5
<1>4. CASE Execute(m)
  BY <1>0, <1>4, GoingOnShortens DEF Execute, Rank, InSession, InLoop
<1>5. CASE Commit(m)
  <2>1. pc[m] = "commit" /\ todo[m] # {}
    BY <1>5 DEF Commit, Inv, AtWork
  <2>2. \/ pc'[m] = "unlock"
        \/ pc'[m] = "files" /\ todo'[m] = todo[m] \ {NextFile(m)}
    BY <1>0, <1>5 DEF Commit, Ends
  <2>3. CASE pc'[m] = "unlock"
    BY <2>1, <2>3, LeavingShortens DEF InSession, InLoop
  <2>4. CASE pc'[m] = "files" /\ todo'[m] = todo[m] \ {NextFile(m)}
    BY <2>1, <2>4, NextRoundShortens
  <2> QED
    BY <2>2, <2>3, <2>4
<1>6. CASE LoopEnds(m) \/ StatementFails(m)
  <2>1. pc[m] \in InLoop /\ pc'[m] = "unlock"
    BY <1>0, <1>6 DEF LoopEnds, StatementFails, Ends, InLoop
  <2> QED
    BY <2>1, LeavingShortens DEF InSession
<1>7. CASE Unlock(m) \/ SessionEnds(m)
  <2>1. pc[m] \in {"lock"} \cup InSession /\ pc'[m] \in Ended
    BY <1>0, <1>7 DEF Unlock, SessionEnds, Leave, InSession, Ended
  <2> QED
    BY <2>1, LeavingShortens
<1> QED
  BY <1>1, <1>2, <1>3, <1>4, <1>5, <1>6, <1>7 DEF Step

\* No step of another adds any.
LEMMA OthersKeepSteps ==
    ASSUME Inv, [Next]_vars, NEW n \in Migrators,
           pc[n] \in {"lock"} \cup InSession
    PROVE  StepsLeft(n)' <= StepsLeft(n)
<1>1. StepsLeft(n) \in Nat
  BY LeftIs
<1>2. CASE Lock(n) \/ Step(n) \/ StatementFails(n) \/ SessionEnds(n)
  <2>1. StepsLeft(n)' < StepsLeft(n)
    BY <1>2, StepShortens
  <2>2. StepsLeft(n)' \in Int
    <3>1. Inv'
      BY NextInv
    <3>2. pc'[n] \in {"idle", "lock"} \cup InSession \cup Ended
      BY <3>1 DEF Inv, TypeOK
    <3>3. CASE pc'[n] \in {"lock"} \cup InSession
      <4>1. IsFiniteSet(migrations'[n]) /\ todo'[n] \subseteq migrations'[n]
        BY <3>1, <3>3, DirectoryAssumption DEF Inv, AtWork
      <4> DEFINE k == Cardinality(todo'[n])
      <4>2. k \in Nat
        BY <4>1, FS_Subset, FS_CardinalityType
      <4>3. \/ StepsLeft(n)' = 1
            \/ StepsLeft(n)' = 3 * k + Rank[pc'[n]] /\ Rank[pc'[n]] \in Nat
        BY <3>3 DEF StepsLeft, Rank, InSession, InLoop
      <4> HIDE DEF k
      <4> QED
        BY <4>2, <4>3
    <3>4. CASE pc'[n] \in {"idle"} \cup Ended
      BY <3>4 DEF StepsLeft, Rank, Ended
    <3> QED
      BY <3>2, <3>3, <3>4
  <2> QED
    BY <1>1, <2>1, <2>2
<1>3. ASSUME pc'[n] = pc[n], todo'[n] = todo[n]
      PROVE  StepsLeft(n)' <= StepsLeft(n)
  <2>1. StepsLeft(n)' = StepsLeft(n)
    BY <1>3 DEF StepsLeft
  <2> QED
    BY <1>1, <2>1
<1>4. ASSUME NEW m \in Migrators, m # n,
             \/ Load(m) \/ Lock(m) \/ Step(m)
             \/ StatementFails(m) \/ SessionEnds(m)
      PROVE  pc'[n] = pc[n] /\ todo'[n] = todo[n]
  BY <1>4 DEF Load, Lock, Step, StatementFails, SessionEnds, ReadLedger,
     Compare, Execute, Commit, LoopEnds, Unlock, Ends, Leave, GoTo, locals,
     Inv, TypeOK
<1>5. ~Load(n)
  BY DEF Load, InSession, InLoop, Ended
<1>6. CASE UNCHANGED vars
  BY <1>3, <1>6 DEF vars, locals
<1> QED
  BY <1>2, <1>3, <1>4, <1>5, <1>6 DEF Next

\* Whoever has the lock is at work, and gives it back after three steps for
\* each of its files and three more at the most, whatever the others do, which
\* files fail, and where the ledger stood.
THEOREM LockIsGivenBack == Spec => []LockIsBounded /\ StepsRunOut
<1> DEFINE Shorter == \A m \in Migrators :
               /\ Lock(m) \/ Step(m) => StepsLeft(m)' < StepsLeft(m)
               /\ pc[m] \in {"lock"} \cup InSession =>
                     StepsLeft(m)' <= StepsLeft(m)
<1>1. Init => HeldInSession
  BY DEF Init, HeldInSession
<1>2. Inv /\ HeldInSession /\ [Next]_vars => HeldInSession'
  BY NextHeld
<1>3. ASSUME Inv, HeldInSession PROVE LockIsBounded
  <2> SUFFICES ASSUME NEW m \in Migrators, lock = m
               PROVE  /\ pc[m] \in InSession
                      /\ StepsLeft(m) \in
                            1..(3 * Cardinality(migrations[m]) + 3)
    BY DEF LockIsBounded
  <2>1. pc[m] \in InSession
    BY <1>3, MigratorAssumption DEF HeldInSession
  <2> DEFINE d == Cardinality(migrations[m])
  <2>2. d \in Nat /\ StepsLeft(m) \in Nat \ {0} /\ StepsLeft(m) <= 3 * d + 3
    BY <1>3, <2>1, LeftIs, TodoIsFinite
  <2> HIDE DEF d
  <2>3. StepsLeft(m) \in 1..(3 * d + 3)
    BY <2>2
  <2> QED
    BY <2>1, <2>3 DEF d
<1>4. Inv /\ [Next]_vars => [Shorter]_vars
  BY StepShortens, OthersKeepSteps
<1> QED
  BY <1>1, <1>2, <1>3, <1>4, SpecInv, PTL DEF Spec, StepsRunOut
=============================================================================
