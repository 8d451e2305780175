----------------------------- MODULE AuditChain ------------------------------
(***************************************************************************)
(* The history of the database as those see it who keep something outside  *)
(* of it: a chain of events, which may be put back to a backup and go on   *)
(* from there.  Records are what their last event says (AuditedStore); a   *)
(* digest is modelled by the document it digests.                          *)
(***************************************************************************)
EXTENDS Naturals, Sequences

CONSTANTS
  Waivers,    \* of the one check stream
  Texts,      \* what a waiver or the policy can say
  Snapshots,  \* identifiers of snapshots
  Genesis,    \* hash before the first event
  None,       \* not audited, backed up or signed
  MaxEvents,  \* bound on the history
  MaxTime     \* bound on the clock

VARIABLES
  audit,   \* the events of the database
  backup,  \* the last copy of them
  frozen,  \* identifiers drawn for snapshots so far
  now

chainVars == << audit, backup, frozen, now >>

------------------------------------------------------------------------------
(* The chain of events *)

\* Mutant: the hash of an event does not cover the event before it.
HashOfEvent(event) == [event EXCEPT !.previous = Genesis]

\* digest(event): the event holds the hash of the one before.
Hash(event) == event

HeadOf(events) == IF events = << >> THEN Genesis ELSE Hash(events[Len(events)])

Recorded(events, entity, id, content) ==
  Append(events, [seq |-> Len(events) + 1, previous |-> HeadOf(events), entity |-> entity,
                  id |-> id, content |-> content, at |-> now])

\* The last audited content; None before the first.
Seen(events, entity, id) ==
  LET about == {i \in 1 .. Len(events) : events[i].entity = entity /\ events[i].id = id} IN
  IF about = {} THEN None
  ELSE events[CHOOSE i \in about : \A j \in about : j =< i].content

Chained(events) ==
  /\ events # << >>
  /\ \A i \in 1 .. Len(events) :
       events[i].seq = i /\ events[i].previous = HeadOf(SubSeq(events, 1, i - 1))

------------------------------------------------------------------------------
(* The database *)

ChainInit ==
  /\ now = 0
  /\ audit \in {Recorded(<< >>, "policy", "policy", text) : text \in Texts}
  /\ backup = None
  /\ frozen = {}

Record(entity, id, content) ==
  /\ Len(audit) < MaxEvents
  /\ audit' = Recorded(audit, entity, id, content)
  /\ UNCHANGED << backup, now >>

Change(entity, id, text) == Record(entity, id, text) /\ UNCHANGED frozen

\* freeze(): what is in the snapshot is read in the transaction that records
\* it.  The run, which never changes, is left out.
Freeze(id) ==
  /\ id \notin frozen
  /\ frozen' = frozen \cup {id}
  /\ Record("snapshots", id,
       [id |-> id, policy |-> Seen(audit, "policy", "policy"), audit_head |-> HeadOf(audit),
        waivers |-> [w \in {v \in Waivers : Seen(audit, "waivers", v) # None} |->
                       Seen(audit, "waivers", w)]])

BackUp ==
  /\ backup' = audit
  /\ UNCHANGED << audit, frozen, now >>

Restore ==
  /\ backup # None
  /\ audit' = backup
  /\ UNCHANGED << backup, frozen, now >>

Tick ==
  /\ now < MaxTime
  /\ now' = now + 1
  /\ UNCHANGED << audit, backup, frozen >>

ChainNext ==
  \/ \E text \in Texts :
       Change("policy", "policy", text) \/ \E w \in Waivers : Change("waivers", w, text)
  \/ \E id \in Snapshots : Freeze(id)
  \/ BackUp \/ Restore \/ Tick

==============================================================================
