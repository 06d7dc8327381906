---------------------------- MODULE EventJournal ----------------------------
(***************************************************************************)
(* What the ingestion of lifecycle events promises to those who call it,   *)
(* with statements, transactions and failures left out.  A call is given   *)
(* an order: the events it is to take in.  An event is entered in the      *)
(* journal, together with its audit row, before it is carried out on its   *)
(* ticket; entries are never changed.  A call carries out its events one   *)
(* after the other, each once, and some perhaps not.  A ticket shows what  *)
(* an event says right after that was carried out, and changes in no other *)
(* way.  "ok" is answered when the whole order is carried out, and after   *)
(* its answer a call does nothing more.                                    *)
(***************************************************************************)
EXTENDS Integers, Sequences

CONSTANTS
    Calls,
    Orders,     \* sequences of items a call may be given
    Junk,       \* an item that is no event
    RowOf(_),   \* the journal's row for an event
    Owner       \* whose each ticket is

VARIABLES
    tickets,    \* the rows of the tickets
    journal,    \* the events entered, in order
    audit,      \* the audit rows of the journal
    asked,      \* the order of each call
    carriedOut, \* <<call, position in its order>> of the events carried out
    answer      \* what each call has answered

journalVars == <<tickets, journal, audit, asked, carriedOut, answer>>

\* Rows of one content are one event to the journal, whatever their ids.
ContentOf(row) == <<row.tenant_id, row.ticket_id, row.event, row.occurred_at>>

Entered(row) ==
    \E i \in DOMAIN journal : ContentOf(journal[i]) = ContentOf(row)

AuditOf(row) == [tenant_id       |-> row.tenant_id,
                 target_id       |-> row.ticket_id,
                 event_id        |-> row.event_id,
                 ticket_sequence |-> row.ticket_sequence]

Shows(ticket, change) ==
    IF change.kind = "status_changed"
    THEN ticket.status = change.target_status
    ELSE ticket.priority = change.target_priority

\* An event is taken in for the tenant that owns its ticket or not at all.
IsOwn(row) == Owner[row.ticket_id] = row.tenant_id

JournalInit ==
    /\ journal = << >>
    /\ audit = << >>
    /\ asked = [c \in Calls |-> << >>]
    /\ carriedOut = {}
    /\ answer = [c \in Calls |-> "none"]

Ask(c) ==
    /\ asked[c] = << >>
    /\ answer[c] = "none"
    /\ \E order \in Orders : asked' = [asked EXCEPT ![c] = order]
    /\ UNCHANGED <<tickets, journal, audit, carriedOut, answer>>

Enter(c, k) ==
    LET row == RowOf(asked[c][k])
    IN  /\ answer[c] = "none"
        /\ asked[c][k] # Junk
        /\ journal' = Append(journal, row)
        /\ audit' = Append(audit, AuditOf(row))
        /\ IsOwn(row)
        /\ UNCHANGED <<tickets, asked, carriedOut, answer>>

CarryOut(c, k) ==
    LET row == RowOf(asked[c][k])
    IN  /\ answer[c] = "none"
        /\ asked[c][k] # Junk
        /\ \A j \in DOMAIN asked[c] : <<c, j>> \in carriedOut => j < k
        /\ carriedOut' = carriedOut \cup {<<c, k>>}
        /\ IsOwn(row)
        /\ Entered(row)
        /\ tickets' =
              [tickets EXCEPT ![row.ticket_id] = tickets'[row.ticket_id]]
        /\ Shows(tickets'[row.ticket_id], row.event)
        /\ UNCHANGED <<journal, audit, asked, answer>>

AnswerOk(c) ==
    /\ answer[c] = "none"
    /\ \A k \in DOMAIN asked[c] : <<c, k>> \in carriedOut
    /\ answer' = [answer EXCEPT ![c] = "ok"]
    /\ UNCHANGED <<tickets, journal, audit, asked, carriedOut>>

AnswerError(c) ==
    /\ answer[c] = "none"
    /\ answer' = [answer EXCEPT ![c] = "error"]
    /\ UNCHANGED <<tickets, journal, audit, asked, carriedOut>>

JournalNext ==
    \E c \in Calls :
        \/ Ask(c)
        \/ \E k \in DOMAIN asked[c] : Enter(c, k) \/ CarryOut(c, k)
        \/ AnswerOk(c)
        \/ AnswerError(c)

JournalSpec == JournalInit /\ [][JournalNext]_journalVars
=============================================================================
