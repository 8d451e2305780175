------------------------------- MODULE Ledger --------------------------------
(***************************************************************************)
(* What the store promises its users: an append-only log of audited        *)
(* changes and a table that always shows the latest audited content of     *)
(* every record.  Log and table move together, in one step, or not at all. *)
(***************************************************************************)
EXTENDS Naturals, Sequences

CONSTANTS
  Entities,  \* records, attachments and the policy
  Contents,  \* what one of them can hold
  Absent     \* a record that does not exist

VARIABLES
  log,    \* audit events in order
  table   \* content of each entity

Event == [seq: Nat, entity: Entities, content: Contents]

\* The latest audited content of an entity.
Latest(events, e) ==
  LET about == {i \in 1 .. Len(events) : events[i].entity = e} IN
  IF about = {} THEN Absent
  ELSE events[CHOOSE i \in about : \A j \in about : j =< i].content

Agree(events, rows) == rows = [e \in Entities |-> Latest(events, e)]

\* Positions are numbered from one without a gap.
Contiguous(events) == \A i \in 1 .. Len(events) : events[i].seq = i

Extends(longer, shorter) ==
  /\ Len(longer) > Len(shorter)
  /\ \A i \in 1 .. Len(shorter) : longer[i] = shorter[i]

LedgerInit ==
  /\ log = << >>
  /\ table = [e \in Entities |-> Absent]

Record ==
  /\ log' \in Seq(Event)
  /\ Extends(log', log)
  /\ Contiguous(log')
  /\ Agree(log', table')

LedgerSpec == LedgerInit /\ [][Record]_<< log, table >>

==============================================================================
