---------------------------- MODULE AuditedStore -----------------------------
(***************************************************************************)
(* store.py: the SQLite transactions that keep rows and audit events       *)
(* together.  Several processes (the API server and command-line calls)    *)
(* share one database file.  A writer takes SQLite's write lock with BEGIN *)
(* IMMEDIATE, works on its own copy of the pages, and publishes it at      *)
(* commit; a reader (BEGIN) sees the database as of its first SELECT.  A   *)
(* process may fail or be killed between any two statements.               *)
(*                                                                         *)
(* An audit hash stands for the whole history up to its event, so a chain  *)
(* of hashes is modelled by the sequence of events itself.                 *)
(***************************************************************************)
EXTENDS Naturals, Sequences

CONSTANTS
  Processes,  \* processes that open the database
  Entities,   \* records, attachments and the policy
  Contents,   \* what one of them can hold
  Absent,     \* a record that does not exist
  Policy,     \* the entity that holds the policy
  Default,    \* the content of Policy()
  Scripts,    \* the writes of each kind of operation, in order
  Nobody,     \* no process, no entity
  MaxEvents   \* bound on the audit history

Write == [entity: Entities, content: Contents]

ASSUME StoreAssumption ==
  /\ Policy \in Entities /\ Default \in Contents
  /\ Absent \notin Contents
  /\ Nobody \notin Processes /\ Nobody \notin Entities
  /\ Scripts \subseteq Seq(Write) /\ << >> \notin Scripts
  /\ MaxEvents \in Nat

VARIABLES
  log,      \* committed audit events
  table,    \* committed rows
  lock,     \* holder of the write lock
  phase,    \* what each process is doing
  pages,    \* the copy [log, table] each process works on
  todo,     \* writes left in each process's operation
  owed      \* the entity whose row is written and whose event is not

vars == << log, table, lock, phase, pages, todo, owed >>

L == INSTANCE Ledger WITH
  log <- log, table <- table,
  Entities <- Entities, Contents <- Contents, Absent <- Absent

Phases ==
  {"down", "opening", "creating", "idle", "waiting", "checking", "writing",
   "reading", "scanned"}

Empty == [log |-> << >>, table |-> [e \in Entities |-> Absent]]

Committed == [log |-> log, table |-> table]

TypeOK ==
  /\ log \in Seq(L!Event)
  /\ table \in [Entities -> Contents \cup {Absent}]
  /\ lock \in Processes \cup {Nobody}
  /\ phase \in [Processes -> Phases]
  /\ pages \in [Processes -> [log: Seq(L!Event),
                              table: [Entities -> Contents \cup {Absent}]]]
  /\ todo \in [Processes -> Seq(Write)]
  /\ owed \in [Processes -> Entities \cup {Nobody}]

Init ==
  /\ log = << >>
  /\ table = [e \in Entities |-> Absent]
  /\ lock = Nobody
  /\ phase = [p \in Processes |-> "down"]
  /\ pages = [p \in Processes |-> Empty]
  /\ todo = [p \in Processes |-> << >>]
  /\ owed = [p \in Processes |-> Nobody]

------------------------------------------------------------------------------
(* Transactions *)

Enter(p, from, to) == phase[p] = from /\ phase' = [phase EXCEPT ![p] = to]

\* Mutant: a deferred BEGIN that does not wait for the other writer.
LocksDeferred(p) ==
  /\ lock' = p
  /\ pages' = [pages EXCEPT ![p] = Committed]

\* BEGIN IMMEDIATE succeeds: the process has the lock and the latest pages.
Locks(p) ==
  /\ lock = Nobody
  /\ lock' = p
  /\ pages' = [pages EXCEPT ![p] = Committed]

\* COMMIT publishes rows and events together and releases the lock.
Publish(p) ==
  /\ log' = pages[p].log
  /\ table' = pages[p].table
  /\ lock' = Nobody

\* Store.verify finds the history whole and equal to the rows.
Verifies(d) ==
  /\ d.log # << >>
  /\ L!Contiguous(d.log)
  /\ L!Agree(d.log, d.table)

\* Mutant: a failed transaction that keeps its lock.
ForgetKeepingLock(p) ==
  /\ lock' = lock
  /\ pages' = [pages EXCEPT ![p] = Empty]
  /\ todo' = [todo EXCEPT ![p] = << >>]
  /\ owed' = [owed EXCEPT ![p] = Nobody]

\* The process's copy and its plan are gone, and so is its lock.
Forget(p) ==
  /\ lock' = IF lock = p THEN Nobody ELSE lock
  /\ pages' = [pages EXCEPT ![p] = Empty]
  /\ todo' = [todo EXCEPT ![p] = << >>]
  /\ owed' = [owed EXCEPT ![p] = Nobody]

------------------------------------------------------------------------------
(* Opening the database: Store.__init__ *)

Open(p) ==
  /\ Enter(p, "down", "opening")
  /\ UNCHANGED << log, table, lock, pages, todo, owed >>

\* Mutant: the policy is created without looking for one.
CreateAlways(p) ==
  /\ Enter(p, "opening", "creating")
  /\ Locks(p)
  /\ todo' = [todo EXCEPT ![p] = << [entity |-> Policy, content |-> Default] >>]
  /\ UNCHANGED << log, table, owed >>

\* The schema exists; a missing policy is created and audited in one
\* transaction, by whichever process gets there first.
Create(p) ==
  /\ Enter(p, "opening", "creating")
  /\ Locks(p)
  /\ todo' = [todo EXCEPT ![p] =
       IF table[Policy] = Absent
         THEN << [entity |-> Policy, content |-> Default] >> ELSE << >>]
  /\ UNCHANGED << log, table, owed >>

------------------------------------------------------------------------------
(* Writing *)

Call(p) ==
  /\ Enter(p, "idle", "waiting")
  /\ UNCHANGED << log, table, lock, pages, todo, owed >>

BeginWrite(p) ==
  /\ Enter(p, "waiting", "checking")
  /\ Locks(p)
  /\ UNCHANGED << log, table, todo, owed >>

\* Mutant: a caller waits for the lock without a limit.
BusyForever(p) ==
  /\ lock # Nobody
  /\ Enter(p, "opening", "down")
  /\ UNCHANGED << log, table, lock, pages, todo, owed >>

\* busy_timeout runs out while another process holds the lock.
Busy(p) ==
  /\ lock # Nobody
  /\ \/ Enter(p, "waiting", "idle")
     \/ Enter(p, "opening", "down")
  /\ UNCHANGED << log, table, lock, pages, todo, owed >>

\* Every operation verifies the database before it decides what to write.
Decide(p, script) ==
  /\ Enter(p, "checking", "writing")
  /\ Verifies(pages[p])
  /\ Len(pages[p].log) + Len(script) =< MaxEvents
  /\ todo' = [todo EXCEPT ![p] = script]
  /\ UNCHANGED << log, table, lock, pages, owed >>

\* INSERT or UPDATE of a row, the first half of Store.save.
WriteRow(p) ==
  /\ phase[p] \in {"creating", "writing"}
  /\ todo[p] # << >> /\ owed[p] = Nobody
  /\ pages' = [pages EXCEPT ![p].table[Head(todo[p]).entity] = Head(todo[p]).content]
  /\ owed' = [owed EXCEPT ![p] = Head(todo[p]).entity]
  /\ UNCHANGED << log, table, lock, phase, todo >>

\* Store.event, the second half: number the event after the last one.
AppendEvent(p) ==
  /\ owed[p] # Nobody
  /\ pages' = [pages EXCEPT ![p].log =
       Append(@, [seq |-> Len(@) + 1, entity |-> owed[p],
                  content |-> pages[p].table[owed[p]]])]
  /\ todo' = [todo EXCEPT ![p] = Tail(@)]
  /\ owed' = [owed EXCEPT ![p] = Nobody]
  /\ UNCHANGED << log, table, lock, phase >>

\* Mutant: a commit that does not wait for the event of the last row.
CommitEarly(p) ==
  /\ \/ Enter(p, "creating", "idle")
     \/ Enter(p, "writing", "idle")
  /\ Publish(p)
  /\ pages' = [pages EXCEPT ![p] = Empty]
  /\ todo' = [todo EXCEPT ![p] = << >>]
  /\ owed' = [owed EXCEPT ![p] = Nobody]

Commit(p) ==
  /\ \/ Enter(p, "creating", "idle")
     \/ Enter(p, "writing", "idle")
  /\ todo[p] = << >> /\ owed[p] = Nobody
  /\ Publish(p)
  /\ pages' = [pages EXCEPT ![p] = Empty]
  /\ UNCHANGED << todo, owed >>

------------------------------------------------------------------------------
(* Reading *)

\* The first SELECT of a deferred transaction fixes what it sees.
BeginRead(p) ==
  /\ Enter(p, "idle", "reading")
  /\ pages' = [pages EXCEPT ![p] = Committed]
  /\ UNCHANGED << log, table, lock, todo, owed >>

\* Mutant: each statement reads the latest commit.
ScanRowsLater(p) ==
  /\ Enter(p, "reading", "scanned")
  /\ pages' = [pages EXCEPT ![p].table = table]
  /\ UNCHANGED << log, table, lock, todo, owed >>

\* verify() has read the history; the rows come from later statements, which
\* read the same snapshot.
ScanRows(p) ==
  /\ Enter(p, "reading", "scanned")
  /\ UNCHANGED << log, table, lock, pages, todo, owed >>

EndRead(p) ==
  /\ Enter(p, "scanned", "idle")
  /\ pages' = [pages EXCEPT ![p] = Empty]
  /\ UNCHANGED << log, table, lock, todo, owed >>

------------------------------------------------------------------------------
(* Failure *)

\* An exception: rollback, and the process goes on (or its constructor fails).
Rollback(p) ==
  /\ \/ /\ phase[p] \in {"checking", "writing", "reading", "scanned"}
        /\ phase' = [phase EXCEPT ![p] = "idle"]
     \/ Enter(p, "creating", "down")
  /\ Forget(p)
  /\ UNCHANGED << log, table >>

\* The process is killed; SQLite discards what was not committed.
Crash(p) ==
  /\ phase[p] # "down"
  /\ phase' = [phase EXCEPT ![p] = "down"]
  /\ Forget(p)
  /\ UNCHANGED << log, table >>

------------------------------------------------------------------------------

\* What a process that runs goes on to do.
Work(p) ==
  \/ Create(p)
  \/ BeginWrite(p)
  \/ Busy(p)
  \/ \E script \in Scripts : Decide(p, script)
  \/ WriteRow(p)
  \/ AppendEvent(p)
  \/ Commit(p)
  \/ ScanRows(p)
  \/ EndRead(p)
  \/ Rollback(p)

Next ==
  \E p \in Processes : Open(p) \/ Call(p) \/ BeginRead(p) \/ Work(p) \/ Crash(p)

Spec == Init /\ [][Next]_vars

\* A process that has entered a transaction keeps executing statements; it
\* opens the database, calls or crashes when it pleases.
FairSpec == Spec /\ \A p \in Processes : WF_vars(Work(p))

------------------------------------------------------------------------------
(* Properties *)

\* In every committed state the rows are exactly what the audit history last
\* recorded, and the history has no gap: no failure between a row and its
\* event, and no order of two writers, commits one without the other.
AuditMatchesRows == L!Contiguous(log) /\ L!Agree(log, table)

\* A transaction, reading or writing, works on one whole committed state:
\* verify() never fails for a reason that lies in the program itself, also
\* when other processes commit between its statements.
VerifyNeverFails ==
  \A p \in Processes :
    phase[p] \in {"checking", "reading", "scanned"} => Verifies(pages[p])

\* Whoever is inside a write transaction holds the lock, and his copy continues
\* the committed history: his commit overwrites no event of another writer.
WriterIsCurrent ==
  \A p \in Processes :
    phase[p] \in {"creating", "checking", "writing"} =>
      /\ lock = p
      /\ pages[p].log = log \/ L!Extends(pages[p].log, log)

Creation == [seq |-> 1, entity |-> Policy, content |-> Default]

\* However many processes open a new database at once, and in whatever order
\* they fail, the history begins with one creation of the policy, and nobody
\* who opens the database later adds to it.
PolicyCreatedOnce ==
  [][log' # log =>
       \/ log = << >> /\ log' = << Creation >>
       \/ log # << >> /\ \A p \in Processes : ~Enter(p, "creating", "idle")]_vars

\* The store implements the ledger: commits are its only visible steps, and
\* each appends to the history and moves the rows with it.
LedgerImplemented == L!LedgerSpec

\* The write lock is always released again, also by a process that fails or
\* is killed while it holds it.
LockIsReleased == \A p \in Processes : lock = p ~> lock # p

\* Every call that enters the store comes back, with a commit, a refusal or
\* the busy timeout, even if other processes keep taking the lock.
CallsEnd ==
  \A p \in Processes :
    phase[p] \notin {"down", "idle"} ~> phase[p] \in {"down", "idle"}

\* Nobody waits for ever, neither for the lock nor for an answer.
NobodyWaitsForever == LockIsReleased /\ CallsEnd

==============================================================================
