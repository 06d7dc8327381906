--------------------------- MODULE SchemaHistory ---------------------------
(***************************************************************************)
(* What the migration runner promises of a database, whoever migrates it   *)
(* and whatever fails meanwhile: its schema grows one file at a time,      *)
(* together with the ledger, and a file goes on top of the lower ones of   *)
(* the directory it comes from.                                            *)
(***************************************************************************)
EXTENDS Naturals, Sequences

CONSTANTS
    checksumOf,     \* of the contents of a file
    Directories     \* sets of files [version, sql] that may be deployed

VARIABLES
    ledger,         \* rows of schema_migrations
    schema          \* the files whose statements are in effect, in order

LedgerRow(f) == [version |-> f.version, checksum |-> checksumOf[f.sql]]

HistoryInit == ledger = {} /\ schema = << >>

\* A deployment of directory d puts its file f on the schema.
Apply(d, f) ==
    /\ \A row \in ledger : row.version # f.version
    /\ \A g \in d : g.version < f.version => LedgerRow(g) \in ledger
    /\ ledger' = ledger \cup {LedgerRow(f)}
    /\ schema' = Append(schema,
                        [version |-> f.version, sql |-> f.sql, dir |-> d])

HistoryNext == \E d \in Directories : \E f \in d : Apply(d, f)

HistorySpec == HistoryInit /\ [][HistoryNext]_<<ledger, schema>>
=============================================================================
