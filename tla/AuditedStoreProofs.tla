-------------------------- MODULE AuditedStoreProofs --------------------------
(***************************************************************************)
(* Proofs about the store, for any number of processes, entities and       *)
(* events: types, agreement of rows and history, exclusion of writers, and *)
(* that the store implements the ledger.                                   *)
(***************************************************************************)
EXTENDS AuditedStore, SequenceTheorems, WellFoundedInduction, TLAPS

------------------------------------------------------------------------------
(* The latest content of an entity *)

\* A nonempty set of positions has a last one.
LEMMA LastExists ==
  ASSUME NEW n \in Nat, NEW S \in SUBSET (1 .. n), S # {}
  PROVE  \E i \in S : \A j \in S : j =< i
<1> DEFINE T == {k \in Nat : n - k \in S}
<1>1. PICK s \in S : TRUE
  OBVIOUS
<1>2. n - s \in T
  <2>1. n - s \in Nat /\ n - (n - s) = s
    BY <1>1
  <2> QED
    BY <2>1, <1>1
<1>3. PICK k \in T : \A y \in T : ~ (<< y, k >> \in OpToRel(<, Nat))
  <2>1. T \subseteq Nat /\ T # {}
    BY <1>2
  <2> HIDE DEF T
  <2> QED
    BY <2>1, NatLessThanWellFounded, WFMin
<1>4. \A y \in T : k =< y
  <2> TAKE y \in T
  <2>1. ~ (<< y, k >> \in {ss \in Nat \X Nat : ss[1] < ss[2]})
    BY <1>3 DEF OpToRel
  <2> QED
    BY <2>1
<1>5. \A j \in S : j =< n - k
  <2> TAKE j \in S
  <2>1. n - j \in Nat /\ n - (n - j) = j
    OBVIOUS
  <2>2. k =< n - j
    BY <2>1, <1>4
  <2> QED
    BY <2>2
<1> QED
  BY <1>5

\* An event changes the latest content of its entity and of no other.
LEMMA LatestAppend ==
  ASSUME NEW s \in Seq(L!Event), NEW ev \in L!Event, NEW e \in Entities
  PROVE  L!Latest(Append(s, ev), e)
           = IF e = ev.entity THEN ev.content ELSE L!Latest(s, e)
<1> DEFINE t == Append(s, ev)
           old == {i \in 1 .. Len(s) : s[i].entity = e}
           new == {i \in 1 .. Len(t) : t[i].entity = e}
<1>1. /\ Len(t) = Len(s) + 1 /\ Len(s) \in Nat
      /\ t[Len(s) + 1] = ev
      /\ \A i \in 1 .. Len(s) : t[i] = s[i]
  BY AppendProperties
<1> HIDE DEF t
<1>2. CASE e = ev.entity
  <2>1. Len(s) + 1 \in new /\ new # {}
    BY <1>1, <1>2
  <2>2. (CHOOSE i \in new : \A j \in new : j =< i) = Len(s) + 1
    <3>1. \A i \in new : (\A j \in new : j =< i) <=> i = Len(s) + 1
      BY <1>1, <2>1
    <3> HIDE DEF new
    <3> QED
      BY <3>1, <2>1
  <2>3. L!Latest(t, e) = t[CHOOSE i \in new : \A j \in new : j =< i].content
    BY <2>1 DEF L!Latest
  <2> QED
    BY <2>2, <2>3, <1>1, <1>2 DEF t
<1>3. CASE e # ev.entity
  <2>1. new = old
    BY <1>1, <1>3
  <2>2. CASE old = {}
    BY <2>1, <2>2, <1>3 DEF L!Latest, t
  <2>3. CASE old # {}
    <3> DEFINE last == CHOOSE i \in old : \A j \in old : j =< i
    <3>1. last \in old
      <4>1. \E i \in old : \A j \in old : j =< i
        BY <1>1, <2>3, LastExists
      <4> QED
        BY <4>1
    <3>2. t[last] = s[last]
      BY <1>1, <3>1
    <3>3. L!Latest(t, e) = t[last].content
      BY <2>1, <2>3 DEF L!Latest
    <3>4. L!Latest(s, e) = s[last].content
      BY <2>3 DEF L!Latest
    <3> QED
      BY <3>2, <3>3, <3>4, <1>3 DEF t
  <2> QED
    BY <2>2, <2>3
<1> QED
  BY <1>2, <1>3

------------------------------------------------------------------------------
(* The invariant *)

Critical == {"creating", "checking", "writing"}

\* The rows of d follow its history, except the one row whose event is owed.
Follows(d, row) ==
  /\ L!Contiguous(d.log)
  /\ \A e \in Entities \ {row} : d.table[e] = L!Latest(d.log, e)

\* What p owes is the write it has just made.
OwesHead(p) ==
  /\ todo[p] # << >> => phase[p] \in {"creating", "writing"}
  /\ owed[p] # Nobody => /\ todo[p] # << >>
                         /\ owed[p] = Head(todo[p]).entity
                         /\ pages[p].table[owed[p]] = Head(todo[p]).content

\* Whoever has opened the database finds its first event.
HasHistory(p) ==
  /\ phase[p] \in {"idle", "waiting", "checking", "writing", "reading", "scanned"}
       => log # << >>
  /\ phase[p] \in {"checking", "writing", "reading", "scanned"}
       => pages[p].log # << >>
  /\ phase[p] = "creating" => todo[p] # << >> \/ pages[p].log # << >>

Current(p) ==
  phase[p] \in Critical =>
    /\ lock = p
    /\ pages[p].log = log \/ L!Extends(pages[p].log, log)

Sound(p) ==
  Follows(pages[p], owed[p]) /\ OwesHead(p) /\ HasHistory(p) /\ Current(p)

StoreInv ==
  /\ TypeOK
  /\ AuditMatchesRows
  /\ \A p \in Processes : Sound(p)

\* The step changes nothing of a process other than p.
OnlyFor(p) ==
  \A q \in Processes \ {p} :
    /\ phase'[q] = phase[q] /\ pages'[q] = pages[q]
    /\ todo'[q] = todo[q] /\ owed'[q] = owed[q]

\* A process stays sound while another one acts, commits included.
LEMMA FrameSound ==
  ASSUME StoreInv, NEW p \in Processes, OnlyFor(p),
         NEW q \in Processes \ {p},
         log # << >> => log' # << >>,
         \/ log' = log /\ (lock = q => lock' = q)
         \/ lock = p
  PROVE  Sound(q)'
<1>1. Sound(q)
  BY DEF StoreInv
<1>2. /\ phase'[q] = phase[q] /\ pages'[q] = pages[q]
      /\ todo'[q] = todo[q] /\ owed'[q] = owed[q]
  BY DEF OnlyFor
<1>3. Follows(pages[q], owed[q])' /\ OwesHead(q)'
  BY <1>1, <1>2 DEF Sound, OwesHead
<1>4. HasHistory(q)'
  BY <1>1, <1>2 DEF Sound, HasHistory
<1>5. Current(q)'
  <2>1. CASE lock = p
    BY <1>1, <1>2, <2>1 DEF Sound, Current, Critical
  <2>2. CASE log' = log /\ (lock = q => lock' = q)
    BY <1>1, <1>2, <2>2 DEF Sound, Current, L!Extends
  <2> QED
    BY <2>1, <2>2
<1> QED
  BY <1>3, <1>4, <1>5 DEF Sound

\* The invariant is kept when the committed state is and p stays sound.
LEMMA FrameInv ==
  ASSUME StoreInv, NEW p \in Processes, OnlyFor(p), TypeOK', Sound(p)',
         log' = log, table' = table,
         \A q \in Processes \ {p} : lock = q => lock' = q
  PROVE  StoreInv'
<1>1. AuditMatchesRows'
  BY DEF StoreInv, AuditMatchesRows, L!Contiguous, L!Agree, L!Latest
<1>2. \A q \in Processes \ {p} : Sound(q)'
  BY FrameSound
<1> QED
  BY <1>1, <1>2 DEF StoreInv

\* The empty copy follows the empty history.
LEMMA EmptyFollows ==
  /\ Empty \in [log: Seq(L!Event), table: [Entities -> Contents \cup {Absent}]]
  /\ Empty.log = << >> /\ L!Contiguous(<< >>)
  /\ \A row : Follows(Empty, row)
  /\ \A e \in Entities : Empty.table[e] = Absent /\ L!Latest(<< >>, e) = Absent
<1>1. \A e \in Entities : {i \in 1 .. Len(<< >>) : << >>[i].entity = e} = {}
  OBVIOUS
<1>2. \A e \in Entities : L!Latest(<< >>, e) = Absent
  BY <1>1 DEF L!Latest
<1> QED
  BY <1>2 DEF Empty, Follows, L!Contiguous

\* The committed state follows its history entirely.
LEMMA CommittedFollows ==
  ASSUME StoreInv
  PROVE  /\ Committed \in [log: Seq(L!Event),
                           table: [Entities -> Contents \cup {Absent}]]
         /\ Committed.log = log /\ Committed.table = table
         /\ \A row : Follows(Committed, row)
         /\ table[Policy] # Absent => log # << >>
BY EmptyFollows, StoreAssumption
DEF Committed, Follows, StoreInv, TypeOK, AuditMatchesRows, L!Agree

------------------------------------------------------------------------------
(* One lemma per kind of step *)

\* A database file that nobody has opened yet.
LEMMA InitSound == Init => StoreInv
<1> SUFFICES ASSUME Init PROVE StoreInv
  OBVIOUS
<1>1. TypeOK
  BY EmptyFollows DEF Init, TypeOK, Phases
<1>2. AuditMatchesRows
  BY EmptyFollows DEF Init, AuditMatchesRows, L!Agree
<1>3. ASSUME NEW p \in Processes PROVE Sound(p)
  BY <1>3, EmptyFollows
  DEF Init, Sound, OwesHead, HasHistory, Current, Critical
<1> QED
  BY <1>1, <1>2, <1>3 DEF StoreInv

\* A step that only moves p between phases outside a transaction.
LEMMA MoveSound ==
  ASSUME StoreInv, NEW p \in Processes, NEW from, NEW to \in Phases,
         Enter(p, from, to),
         UNCHANGED << log, table, lock, pages, todo, owed >>,
         << from, to >> \in {<< "down", "opening" >>, << "opening", "down" >>,
                             << "idle", "waiting" >>, << "waiting", "idle" >>,
                             << "reading", "scanned" >>}
  PROVE  StoreInv'
<1>1. /\ phase[p] = from /\ phase'[p] = to
      /\ \A q \in Processes \ {p} : phase'[q] = phase[q]
      /\ phase' \in [Processes -> Phases]
  BY DEF Enter, StoreInv, TypeOK
<1>2. TypeOK'
  BY <1>1 DEF StoreInv, TypeOK
<1>3. Sound(p)
  BY DEF StoreInv
<1>4. Sound(p)'
  BY <1>1, <1>3
  DEF Sound, OwesHead, HasHistory, Current, Critical, L!Extends
<1>5. OnlyFor(p)
  BY <1>1 DEF OnlyFor
<1> QED
  BY <1>2, <1>4, <1>5, FrameInv

\* A transaction starts from the committed state.
LEMMA StartSound ==
  ASSUME StoreInv, NEW p \in Processes,
         Create(p) \/ BeginWrite(p) \/ BeginRead(p)
  PROVE  StoreInv'
<1>1. /\ phase' = [phase EXCEPT ![p] = phase'[p]]
      /\ \/ phase[p] = "opening" /\ phase'[p] = "creating" /\ lock' = p
         \/ phase[p] = "waiting" /\ phase'[p] = "checking" /\ lock' = p
         \/ phase[p] = "idle" /\ phase'[p] = "reading" /\ lock' = lock
  BY DEF Create, BeginWrite, BeginRead, Enter, Locks, StoreInv, TypeOK
<1>2. /\ pages' = [pages EXCEPT ![p] = Committed]
      /\ UNCHANGED << log, table, owed >>
      /\ lock' # lock => lock = Nobody
  BY DEF Create, BeginWrite, BeginRead, Locks
<1>3. Sound(p)
  BY DEF StoreInv
<1>4. /\ todo' = [todo EXCEPT ![p] = todo'[p]] /\ todo'[p] \in Seq(Write)
      /\ todo'[p] # << >> => phase'[p] = "creating"
      /\ phase'[p] = "creating" => todo'[p] # << >> \/ table[Policy] # Absent
  <2>1. CASE Create(p)
    <3> DEFINE plan == IF table[Policy] = Absent
                         THEN << [entity |-> Policy, content |-> Default] >>
                         ELSE << >>
    <3>1. plan \in Seq(Write) /\ (plan # << >> \/ table[Policy] # Absent)
      <4>1. [entity |-> Policy, content |-> Default] \in Write
        BY StoreAssumption DEF Write
      <4>2. CASE table[Policy] = Absent
        BY <4>1, <4>2
      <4>3. CASE table[Policy] # Absent
        BY <4>3
      <4> QED
        BY <4>2, <4>3
    <3>2. todo' = [todo EXCEPT ![p] = plan] /\ phase'[p] = "creating"
      BY <2>1 DEF Create, Enter, StoreInv, TypeOK
    <3> HIDE DEF plan
    <3> QED
      BY <3>1, <3>2 DEF StoreInv, TypeOK
  <2>2. CASE BeginWrite(p) \/ BeginRead(p)
    BY <2>2, <1>3 DEF BeginWrite, BeginRead, StoreInv, TypeOK, Sound, OwesHead, Enter
  <2> QED
    BY <2>1, <2>2
<1>5. TypeOK'
  BY <1>1, <1>2, <1>4, CommittedFollows DEF StoreInv, TypeOK, Phases
<1>6. owed[p] = Nobody
  BY <1>1, <1>3 DEF Sound, OwesHead
<1>7. table[Policy] # Absent => log # << >>
  BY CommittedFollows
<1>8. /\ pages'[p] = Committed /\ owed'[p] = Nobody
      /\ OnlyFor(p)
  BY <1>1, <1>2, <1>4, <1>6 DEF StoreInv, TypeOK, OnlyFor
<1>9. Sound(p)'
  <2>1. Follows(pages[p], owed[p])'
    BY <1>8, CommittedFollows
  <2>2. OwesHead(p)'
    BY <1>4, <1>8 DEF OwesHead
  <2>3. HasHistory(p)'
    BY <1>1, <1>2, <1>3, <1>4, <1>7, <1>8, CommittedFollows
    DEF Sound, HasHistory
  <2>4. Current(p)'
    BY <1>1, <1>2, <1>8, CommittedFollows DEF Current, Critical
  <2> QED
    BY <2>1, <2>2, <2>3, <2>4 DEF Sound
<1>10. \A q \in Processes \ {p} : lock = q => lock' = q
  BY <1>1, <1>2, StoreAssumption
<1> QED
  BY <1>2, <1>5, <1>8, <1>9, <1>10, FrameInv

\* The operation has verified the copy and chosen its writes.
LEMMA DecideSound ==
  ASSUME StoreInv, NEW p \in Processes, NEW script \in Scripts,
         Decide(p, script)
  PROVE  StoreInv'
<1>1. /\ phase[p] = "checking" /\ phase'[p] = "writing"
      /\ phase' \in [Processes -> Phases]
      /\ todo' \in [Processes -> Seq(Write)] /\ todo'[p] = script
      /\ OnlyFor(p)
      /\ UNCHANGED << log, table, lock, pages, owed >>
  BY StoreAssumption DEF Decide, Enter, OnlyFor, StoreInv, TypeOK, Phases
<1>2. TypeOK'
  BY <1>1 DEF StoreInv, TypeOK
<1>3. Sound(p)
  BY DEF StoreInv
<1>4. Sound(p)'
  BY <1>1, <1>3
  DEF Sound, OwesHead, HasHistory, Current, Critical, L!Extends
<1> QED
  BY <1>1, <1>2, <1>4, FrameInv

\* The head of what p has to write.
LEMMA HeadIsWrite ==
  ASSUME StoreInv, NEW p \in Processes, todo[p] # << >>
  PROVE  /\ Head(todo[p]) \in Write /\ Tail(todo[p]) \in Seq(Write)
         /\ Head(todo[p]).entity \in Entities
         /\ Head(todo[p]).content \in Contents
<1>1. todo[p] \in Seq(Write)
  BY DEF StoreInv, TypeOK
<1>2. Head(todo[p]) \in Write /\ Tail(todo[p]) \in Seq(Write)
  BY <1>1, HeadTailProperties
<1> QED
  BY <1>2 DEF Write

\* The row of a write is in place and its event is owed (Store.save).
LEMMA WriteRowSound ==
  ASSUME StoreInv, NEW p \in Processes, WriteRow(p)
  PROVE  StoreInv'
<1> DEFINE w == Head(todo[p])
           rows == [pages[p].table EXCEPT ![w.entity] = w.content]
           d == [pages[p] EXCEPT !.table = rows]
<1>1. /\ w.entity \in Entities /\ w.content \in Contents
      /\ todo[p] # << >> /\ owed[p] = Nobody
      /\ UNCHANGED << log, table, lock, phase, todo >>
  BY HeadIsWrite DEF WriteRow
<1>2. /\ pages[p] \in [log: Seq(L!Event),
                       table: [Entities -> Contents \cup {Absent}]]
      /\ Sound(p)
  BY DEF StoreInv, TypeOK
<1>3. /\ rows \in [Entities -> Contents \cup {Absent}]
      /\ rows[w.entity] = w.content
      /\ \A e \in Entities \ {w.entity} : rows[e] = pages[p].table[e]
  BY <1>1, <1>2
<1>4. /\ d \in [log: Seq(L!Event), table: [Entities -> Contents \cup {Absent}]]
      /\ d.log = pages[p].log /\ d.table = rows
  BY <1>2, <1>3
<1>5. pages' = [pages EXCEPT ![p] = d] /\ owed' = [owed EXCEPT ![p] = w.entity]
  BY DEF WriteRow
<1> HIDE DEF d, rows
<1>6. /\ pages'[p] = d /\ owed'[p] = w.entity
      /\ OnlyFor(p)
  BY <1>1, <1>5 DEF OnlyFor, StoreInv, TypeOK
<1>7. TypeOK'
  BY <1>1, <1>4, <1>5 DEF StoreInv, TypeOK
<1>8. Follows(d, w.entity)
  BY <1>1, <1>2, <1>3, <1>4, StoreAssumption DEF Sound, Follows
<1>9. Sound(p)'
  <2>1. OwesHead(p)'
    BY <1>1, <1>2, <1>3, <1>4, <1>6 DEF Sound, OwesHead
  <2>2. HasHistory(p)' /\ Current(p)'
    BY <1>1, <1>2, <1>4, <1>6 DEF Sound, HasHistory, Current, L!Extends
  <2> QED
    BY <1>6, <1>8, <2>1, <2>2 DEF Sound
<1> QED
  BY <1>1, <1>6, <1>7, <1>9, FrameInv

\* Extension of histories is transitive.
LEMMA ExtendsFurther ==
  ASSUME NEW r \in Seq(L!Event), NEW s \in Seq(L!Event), NEW t \in Seq(L!Event),
         L!Extends(t, s), L!Extends(s, r)
  PROVE  L!Extends(t, r)
BY DEF L!Extends

\* The owed event follows its row (Store.event).
LEMMA AppendEventSound ==
  ASSUME StoreInv, NEW p \in Processes, AppendEvent(p)
  PROVE  StoreInv'
<1> DEFINE s == pages[p].log
           ev == [seq |-> Len(s) + 1, entity |-> owed[p],
                  content |-> pages[p].table[owed[p]]]
           d == [pages[p] EXCEPT !.log = Append(s, ev)]
<1>1. /\ pages[p] \in [log: Seq(L!Event),
                       table: [Entities -> Contents \cup {Absent}]]
      /\ Sound(p) /\ owed[p] # Nobody
      /\ UNCHANGED << log, table, lock, phase >>
  BY DEF AppendEvent, StoreInv, TypeOK
<1>2. /\ todo[p] # << >> /\ owed[p] \in Entities
      /\ phase[p] \in {"creating", "writing"}
      /\ pages[p].table[owed[p]] \in Contents
      /\ Tail(todo[p]) \in Seq(Write)
  BY <1>1, HeadIsWrite DEF Sound, OwesHead
<1>3. ev \in L!Event /\ s \in Seq(L!Event) /\ Len(s) \in Nat
  BY <1>1, <1>2 DEF L!Event
<1>4. /\ d \in [log: Seq(L!Event), table: [Entities -> Contents \cup {Absent}]]
      /\ d.log = Append(s, ev) /\ d.table = pages[p].table
  BY <1>1, <1>3, AppendProperties
<1>5. /\ pages' = [pages EXCEPT ![p] = d]
      /\ todo' = [todo EXCEPT ![p] = Tail(todo[p])]
      /\ owed' = [owed EXCEPT ![p] = Nobody]
  BY DEF AppendEvent
<1>6. Follows(d, Nobody)
  <2>1. \A e \in Entities : d.table[e] = L!Latest(Append(s, ev), e)
    <3> TAKE e \in Entities
    <3>1. L!Latest(Append(s, ev), e)
            = IF e = ev.entity THEN ev.content ELSE L!Latest(s, e)
      BY <1>3, LatestAppend
    <3>2. e # owed[p] => pages[p].table[e] = L!Latest(s, e)
      BY <1>1 DEF Sound, Follows
    <3> QED
      BY <1>4, <3>1, <3>2
  <2>2. L!Contiguous(Append(s, ev))
    BY <1>1, <1>3, AppendProperties DEF Sound, Follows, L!Contiguous
  <2> QED
    BY <1>4, <2>1, <2>2 DEF Follows
<1>7. Append(s, ev) # << >> /\ L!Extends(Append(s, ev), s)
  BY <1>3, AppendProperties DEF L!Extends
<1> HIDE DEF d, ev
<1>8. /\ pages'[p] = d /\ todo'[p] = Tail(todo[p]) /\ owed'[p] = Nobody
      /\ OnlyFor(p)
  BY <1>1, <1>5 DEF OnlyFor, StoreInv, TypeOK
<1>9. TypeOK'
  BY <1>1, <1>2, <1>4, <1>5 DEF StoreInv, TypeOK
<1>10. Sound(p)'
  <2>1. OwesHead(p)'
    BY <1>1, <1>2, <1>8 DEF Sound, OwesHead
  <2>2. HasHistory(p)'
    BY <1>1, <1>2, <1>4, <1>7, <1>8 DEF Sound, HasHistory
  <2>3. Current(p)'
    <3>1. s = log \/ L!Extends(s, log)
      BY <1>1, <1>2 DEF Sound, Current, Critical
    <3>2. log \in Seq(L!Event) /\ Append(s, ev) \in Seq(L!Event)
      BY <1>4 DEF StoreInv, TypeOK
    <3>3. L!Extends(Append(s, ev), log)
      BY <1>3, <1>7, <3>1, <3>2, ExtendsFurther
    <3> QED
      BY <1>1, <1>2, <1>4, <1>8, <3>3 DEF Sound, Current, Critical, L!Extends
  <2> QED
    BY <1>6, <1>8, <2>1, <2>2, <2>3 DEF Sound
<1> QED
  BY <1>1, <1>8, <1>9, <1>10, FrameInv

\* A commit publishes a longer history, or the same one, with rows that agree.
LEMMA CommitEffect ==
  ASSUME StoreInv, NEW p \in Processes, Commit(p)
  PROVE  /\ lock = p /\ log' \in Seq(L!Event) /\ log' # << >>
         /\ table' \in [Entities -> Contents \cup {Absent}]
         /\ log' = log \/ L!Extends(log', log)
         /\ L!Contiguous(log') /\ L!Agree(log', table')
<1>1. /\ pages[p] \in [log: Seq(L!Event),
                       table: [Entities -> Contents \cup {Absent}]]
      /\ Sound(p) /\ owed[p] = Nobody /\ todo[p] = << >>
      /\ phase[p] \in {"creating", "writing"}
      /\ log' = pages[p].log /\ table' = pages[p].table
  BY DEF Commit, Enter, Publish, StoreInv, TypeOK
<1> DEFINE newLog == pages[p].log
           newRows == pages[p].table
<1>2. /\ newLog \in Seq(L!Event) /\ newLog # << >> /\ lock = p
      /\ newRows \in [Entities -> Contents \cup {Absent}]
      /\ newLog = log \/ L!Extends(newLog, log)
  BY <1>1 DEF Sound, HasHistory, Current, Critical
<1>3. L!Contiguous(newLog) /\ L!Agree(newLog, newRows)
  BY <1>1, <1>2, StoreAssumption DEF Sound, Follows, L!Agree
<1> HIDE DEF newLog, newRows
<1>4. log' = newLog /\ table' = newRows
  BY <1>1 DEF newLog, newRows
<1> QED
  BY <1>2, <1>3, <1>4

\* Publishing disturbs nobody, since nobody else is writing.
LEMMA CommitSound ==
  ASSUME StoreInv, NEW p \in Processes, Commit(p)
  PROVE  StoreInv'
<1>1. /\ pages' = [pages EXCEPT ![p] = Empty] /\ UNCHANGED << todo, owed >>
      /\ phase' = [phase EXCEPT ![p] = "idle"] /\ lock' = Nobody
      /\ todo[p] = << >> /\ owed[p] = Nobody
  BY DEF Commit, Enter, Publish
<1>2. /\ pages'[p] = Empty /\ phase'[p] = "idle" /\ OnlyFor(p)
  BY <1>1 DEF StoreInv, TypeOK, OnlyFor
<1>3. TypeOK'
  BY <1>1, CommitEffect, EmptyFollows DEF StoreInv, TypeOK, Phases
<1>4. AuditMatchesRows'
  BY CommitEffect DEF AuditMatchesRows
<1>5. Sound(p)'
  BY <1>1, <1>2, CommitEffect, EmptyFollows
  DEF Sound, OwesHead, HasHistory, Current, Critical
<1>6. \A q \in Processes \ {p} : Sound(q)'
  BY <1>2, CommitEffect, FrameSound
<1> QED
  BY <1>3, <1>4, <1>5, <1>6 DEF StoreInv

\* A transaction ends without a commit: its reader is done, it fails, or its
\* process dies.
LEMMA LeaveSound ==
  ASSUME StoreInv, NEW p \in Processes, EndRead(p) \/ Rollback(p) \/ Crash(p)
  PROVE  StoreInv'
<1>1. Sound(p)
  BY DEF StoreInv
<1>2. /\ phase' = [phase EXCEPT ![p] = phase'[p]]
      /\ phase'[p] \in {"idle", "down"}
      /\ phase'[p] = "idle" => log # << >>
  BY <1>1
  DEF EndRead, Rollback, Crash, Enter, StoreInv, TypeOK, Sound, HasHistory
<1>3. /\ pages' = [pages EXCEPT ![p] = Empty]
      /\ UNCHANGED << log, table >>
      /\ lock' = lock \/ (lock = p /\ lock' = Nobody)
  BY DEF EndRead, Rollback, Crash, Forget
<1>4. /\ todo' = [todo EXCEPT ![p] = << >>]
      /\ owed' = [owed EXCEPT ![p] = Nobody]
  <2>1. CASE EndRead(p)
    BY <1>1, <2>1 DEF EndRead, Enter, Sound, OwesHead, StoreInv, TypeOK
  <2>2. CASE Rollback(p) \/ Crash(p)
    BY <2>2 DEF Rollback, Crash, Forget
  <2> QED
    BY <2>1, <2>2
<1>5. /\ pages'[p] = Empty /\ todo'[p] = << >> /\ owed'[p] = Nobody
      /\ OnlyFor(p)
  BY <1>2, <1>3, <1>4 DEF StoreInv, TypeOK, OnlyFor
<1>6. TypeOK'
  <2>1. phase' \in [Processes -> Phases]
    BY <1>2 DEF StoreInv, TypeOK, Phases
  <2>2. pages' \in [Processes -> [log: Seq(L!Event),
                                 table: [Entities -> Contents \cup {Absent}]]]
    BY <1>3, EmptyFollows DEF StoreInv, TypeOK
  <2>3. /\ todo' \in [Processes -> Seq(Write)]
        /\ owed' \in [Processes -> Entities \cup {Nobody}]
    BY <1>4 DEF StoreInv, TypeOK
  <2> QED
    BY <1>3, <2>1, <2>2, <2>3 DEF StoreInv, TypeOK
<1>7. Sound(p)'
  BY <1>2, <1>3, <1>5, EmptyFollows
  DEF Sound, OwesHead, HasHistory, Current, Critical
<1> QED
  BY <1>3, <1>5, <1>6, <1>7, FrameInv

------------------------------------------------------------------------------
(* Theorems *)

\* The invariant is inductive.
LEMMA StepSound == StoreInv /\ [Next]_vars => StoreInv'
<1> SUFFICES ASSUME StoreInv, [Next]_vars PROVE StoreInv'
  OBVIOUS
<1>1. CASE UNCHANGED vars
  BY <1>1 DEF vars, StoreInv, TypeOK, AuditMatchesRows, Sound, OwesHead,
              HasHistory, Current
<1>2. CASE Next
  <2>1. PICK p \in Processes :
          Open(p) \/ Call(p) \/ BeginRead(p) \/ Work(p) \/ Crash(p)
    BY <1>2 DEF Next
  <2>2. CASE Open(p) \/ Call(p) \/ Busy(p) \/ ScanRows(p)
    BY <2>2, MoveSound DEF Open, Call, Busy, ScanRows, Phases
  <2>3. CASE Create(p) \/ BeginWrite(p) \/ BeginRead(p)
    BY <2>3, StartSound
  <2>4. CASE \E script \in Scripts : Decide(p, script)
    BY <2>4, DecideSound
  <2>5. CASE WriteRow(p)
    BY <2>5, WriteRowSound
  <2>6. CASE AppendEvent(p)
    BY <2>6, AppendEventSound
  <2>7. CASE Commit(p)
    BY <2>7, CommitSound
  <2>8. CASE EndRead(p) \/ Rollback(p) \/ Crash(p)
    BY <2>8, LeaveSound
  <2> QED
    BY <2>1, <2>2, <2>3, <2>4, <2>5, <2>6, <2>7, <2>8 DEF Work
<1> QED
  BY <1>1, <1>2

\* The invariant holds throughout every behaviour of the store.
LEMMA StoreSound == Spec => []StoreInv
<1> QED
  BY InitSound, StepSound, PTL DEF Spec

\* Every reachable state of the store is well typed: each copy a transaction
\* works on holds rows and events of the right kind.
THEOREM StoreTyped == Spec => []TypeOK
<1>1. StoreInv => TypeOK
  BY DEF StoreInv
<1> QED
  BY <1>1, StoreSound, PTL

\* After any commits, failures and crashes the committed rows are what the
\* committed audit history last recorded, and that history has no gap.
THEOREM RowsAudited == Spec => []AuditMatchesRows
<1>1. StoreInv => AuditMatchesRows
  BY DEF StoreInv
<1> QED
  BY <1>1, StoreSound, PTL

\* BEGIN IMMEDIATE makes writers exclude one another, and no writer's copy
\* misses an event that another one has committed.
THEOREM WritersExclude == Spec => []WriterIsCurrent
<1>1. StoreInv => WriterIsCurrent
  BY DEF StoreInv, Sound, Current, Critical, WriterIsCurrent
<1> QED
  BY <1>1, StoreSound, PTL

\* Store.verify never fails inside a transaction of the program, whatever the
\* other processes commit while it reads.
THEOREM VerifySucceeds == Spec => []VerifyNeverFails
<1>1. ASSUME StoreInv, NEW p \in Processes,
             phase[p] \in {"checking", "reading", "scanned"}
      PROVE  Verifies(pages[p])
  <2>1. /\ Sound(p)
        /\ pages[p].table \in [Entities -> Contents \cup {Absent}]
    BY <1>1 DEF StoreInv, TypeOK
  <2>2. owed[p] = Nobody
    BY <1>1, <2>1 DEF Sound, OwesHead
  <2> QED
    BY <1>1, <2>1, <2>2, StoreAssumption
    DEF Sound, Follows, HasHistory, Verifies, L!Agree
<1>2. StoreInv => VerifyNeverFails
  BY <1>1 DEF VerifyNeverFails
<1> QED
  BY <1>2, StoreSound, PTL

\* The transactions of store.py implement the ledger: only commits are
\* visible, and each appends audited changes and moves the rows with them.
THEOREM ImplementsLedger == Spec => LedgerImplemented
<1>1. Init => L!LedgerInit
  BY DEF Init, L!LedgerInit
<1>2. ASSUME StoreInv, Next
      PROVE  L!Record \/ UNCHANGED << log, table >>
  <2>1. PICK p \in Processes :
          Open(p) \/ Call(p) \/ BeginRead(p) \/ Work(p) \/ Crash(p)
    BY <1>2 DEF Next
  <2>2. CASE Commit(p)
    <3>1. CASE log' = log
      BY <1>2, <2>2, <3>1, CommitEffect
      DEF L!Agree, StoreInv, AuditMatchesRows
    <3>2. CASE L!Extends(log', log)
      BY <1>2, <2>2, <3>2, CommitEffect DEF L!Record
    <3> QED
      BY <1>2, <2>2, <3>1, <3>2, CommitEffect
  <2>3. CASE ~ Commit(p)
    BY <2>1, <2>3
    DEF Open, Call, BeginRead, Crash, Work, Create, BeginWrite, Busy, Decide,
        WriteRow, AppendEvent, ScanRows, EndRead, Rollback
  <2> QED
    BY <2>2, <2>3
<1>3. StoreInv /\ [Next]_vars => [L!Record]_<< log, table >>
  BY <1>2 DEF vars
<1> QED
  BY <1>1, <1>3, StoreSound, PTL DEF Spec, LedgerImplemented, L!LedgerSpec

------------------------------------------------------------------------------
(* Who creates the policy *)

\* How far p has come with creating the policy of an empty store.
Creates(p) ==
  /\ log = << >>
  /\ \/ /\ todo[p] = << [entity |-> Policy, content |-> Default] >>
        /\ pages[p].log = << >>
        /\ owed[p] # Nobody => owed[p] = Policy /\ pages[p].table[Policy] = Default
     \/ todo[p] = << >> /\ owed[p] = Nobody /\ pages[p].log = << Creation >>

\* p has found the policy there.
Finds(p) ==
  log # << >> /\ todo[p] = << >> /\ owed[p] = Nobody /\ pages[p].log = log

OpeningInv ==
  /\ log # << >> => log[1] = Creation
  /\ \A p \in Processes : phase[p] = "creating" => Creates(p) \/ Finds(p)

\* A history that begins with the policy has a latest policy.
LEMMA PolicyStays ==
  ASSUME StoreInv, OpeningInv, log # << >>
  PROVE  table[Policy] # Absent
<1> DEFINE about == {i \in 1 .. Len(log) : log[i].entity = Policy}
           last == CHOOSE i \in about : \A j \in about : j =< i
<1>1. log \in Seq(L!Event) /\ Len(log) \in Nat
  BY DEF StoreInv, TypeOK
<1>2. 1 \in about
  BY <1>1 DEF OpeningInv, Creation
<1>3. last \in about
  <2>1. \E i \in about : \A j \in about : j =< i
    BY <1>1, <1>2, LastExists
  <2> QED
    BY <2>1
<1>4. log[last].content \in Contents
  <2>1. log[last] \in L!Event
    BY <1>1, <1>3
  <2> QED
    BY <2>1 DEF L!Event
<1>5. L!Latest(log, Policy) = log[last].content
  BY <1>2 DEF L!Latest
<1> QED
  BY <1>4, <1>5, StoreAssumption DEF StoreInv, AuditMatchesRows, L!Agree

\* A process that opens the database creates the policy if the store is
\* empty, and otherwise finds it.
LEMMA CreateOpens ==
  ASSUME StoreInv, OpeningInv, NEW p \in Processes, Create(p)
  PROVE  Creates(p)' \/ Finds(p)'
<1>1. /\ pages'[p] = Committed /\ log' = log /\ owed' = owed /\ phase[p] = "opening"
      /\ todo'[p] = IF table[Policy] = Absent
                      THEN << [entity |-> Policy, content |-> Default] >> ELSE << >>
  BY DEF Create, Locks, Enter, StoreInv, TypeOK
<1>2. owed[p] = Nobody
  BY <1>1 DEF StoreInv, Sound, OwesHead
<1>3. CASE log = << >>
  <2>1. table[Policy] = Absent
    BY <1>3, EmptyFollows, StoreAssumption DEF StoreInv, AuditMatchesRows, L!Agree
  <2> QED
    BY <1>1, <1>2, <1>3, <2>1 DEF Creates, Committed
<1>4. CASE log # << >>
  BY <1>1, <1>2, <1>4, PolicyStays DEF Finds, Committed
<1> QED
  BY <1>3, <1>4

\* The statements of the creating transaction, row and event, go on with it.
LEMMA StatementCreates ==
  ASSUME StoreInv, NEW p \in Processes, Creates(p) \/ Finds(p),
         WriteRow(p) \/ AppendEvent(p)
  PROVE  Creates(p)'
<1>1. /\ todo[p] # << >> /\ UNCHANGED << log, table, lock, phase >>
      /\ pages[p] \in [log: Seq(L!Event), table: [Entities -> Contents \cup {Absent}]]
  BY DEF WriteRow, AppendEvent, StoreInv, TypeOK, Sound, OwesHead
<1>2. /\ todo[p] = << [entity |-> Policy, content |-> Default] >>
      /\ pages[p].log = << >> /\ log = << >>
      /\ owed[p] # Nobody => owed[p] = Policy /\ pages[p].table[Policy] = Default
  BY <1>1 DEF Creates, Finds
<1>3. Head(todo[p]) = [entity |-> Policy, content |-> Default] /\ Tail(todo[p]) = << >>
  BY <1>2
<1>4. CASE WriteRow(p)
  <2>1. /\ todo' = todo /\ owed'[p] = Policy
        /\ pages' = [pages EXCEPT ![p].table[Policy] = Default]
    <3> DEFINE w == Head(todo[p])
    <3>1. w.entity = Policy /\ w.content = Default
      BY <1>3
    <3>2. /\ todo' = todo /\ owed' = [owed EXCEPT ![p] = w.entity]
          /\ pages' = [pages EXCEPT ![p].table[w.entity] = w.content]
      BY <1>4 DEF WriteRow
    <3> HIDE DEF w
    <3> QED
      BY <3>1, <3>2 DEF StoreInv, TypeOK
  <2>2. pages'[p].log = << >> /\ pages'[p].table[Policy] = Default
    BY <1>1, <1>2, <2>1, StoreAssumption DEF StoreInv, TypeOK
  <2> QED
    BY <1>1, <1>2, <2>1, <2>2 DEF Creates
<1>5. CASE AppendEvent(p)
  <2>1. /\ todo'[p] = << >> /\ owed'[p] = Nobody
        /\ pages' = [pages EXCEPT ![p].log =
             Append(@, [seq |-> Len(@) + 1, entity |-> owed[p],
                        content |-> pages[p].table[owed[p]]])]
        /\ owed[p] # Nobody
    BY <1>3, <1>5 DEF AppendEvent, StoreInv, TypeOK
  <2>2. pages'[p].log = Append(<< >>, Creation)
    BY <1>1, <1>2, <2>1 DEF StoreInv, TypeOK, Creation
  <2> QED
    BY <1>1, <1>2, <2>1, <2>2 DEF Creates
<1> QED
  BY <1>4, <1>5

\* What a commit adds to the history.
LEMMA CommitOpens ==
  ASSUME StoreInv, OpeningInv, NEW p \in Processes, Commit(p)
  PROVE  /\ log' # log => \/ log = << >> /\ log' = << Creation >>
                          \/ log # << >> /\ ~Enter(p, "creating", "idle")
         /\ log' # << >> /\ log'[1] = Creation
<1>1. /\ log' = pages[p].log /\ todo[p] = << >> /\ owed[p] = Nobody
      /\ phase[p] \in {"creating", "writing"}
  BY DEF Commit, Publish, Enter
<1>2. CASE phase[p] = "creating"
  <2>1. Creates(p) \/ Finds(p)
    BY <1>2 DEF OpeningInv
  <2>2. \/ log = << >> /\ log' = << Creation >>
        \/ log # << >> /\ log' = log
    BY <1>1, <2>1 DEF Creates, Finds
  <2> QED
    BY <2>2 DEF OpeningInv
<1>3. CASE phase[p] = "writing"
  <2>1. log # << >> /\ log \in Seq(L!Event)
    BY <1>3 DEF StoreInv, Sound, HasHistory, TypeOK
  <2>2. log' # << >> /\ log'[1] = log[1]
    BY <2>1, CommitEffect DEF L!Extends
  <2> QED
    BY <1>3, <2>1, <2>2 DEF OpeningInv, Enter
<1> QED
  BY <1>1, <1>2, <1>3

\* While one process acts, the others that open the database stay where they
\* are; the history moves only for the holder of the lock.
LEMMA OpeningFrame ==
  ASSUME StoreInv, OpeningInv, NEW p \in Processes, NEW q \in Processes \ {p},
         phase'[q] = "creating", OnlyFor(p), log' = log \/ Commit(p)
  PROVE  Creates(q)' \/ Finds(q)'
<1>1. /\ phase[q] = "creating" /\ pages'[q] = pages[q]
      /\ todo'[q] = todo[q] /\ owed'[q] = owed[q]
  BY DEF OnlyFor
<1>2. lock = q
  BY <1>1 DEF StoreInv, Sound, Current, Critical
<1>3. log' = log
  BY <1>2, CommitEffect
<1> QED
  BY <1>1, <1>3 DEF OpeningInv, Creates, Finds

\* The inductive invariant of opening.
LEMMA OpeningSound == Spec => []OpeningInv
<1>1. Init => OpeningInv
  BY DEF Init, OpeningInv
<1>2. StoreInv /\ OpeningInv /\ [Next]_vars => OpeningInv'
  <2> SUFFICES ASSUME StoreInv, OpeningInv, Next
               PROVE  OpeningInv'
    BY DEF vars, OpeningInv, Creates, Finds
  <2>1. PICK p \in Processes :
          Open(p) \/ Call(p) \/ BeginRead(p) \/ Work(p) \/ Crash(p)
    BY DEF Next
  <2>2. OnlyFor(p)
    BY <2>1
    DEF OnlyFor, StoreInv, TypeOK, Open, Call, BeginRead, Crash, Work, Create,
        BeginWrite, Busy, Decide, WriteRow, AppendEvent, Commit, ScanRows, EndRead,
        Rollback, Enter, Locks, Forget
  <2>3. log' = log \/ Commit(p)
    BY <2>1
    DEF Open, Call, BeginRead, Crash, Work, Create, BeginWrite, Busy, Decide,
        WriteRow, AppendEvent, ScanRows, EndRead, Rollback
  <2>4. log' # << >> => log'[1] = Creation
    BY <2>3, CommitOpens DEF OpeningInv
  <2>5. ASSUME phase'[p] = "creating"
        PROVE  Creates(p)' \/ Finds(p)'
    <3>1. CASE Create(p)
      BY <3>1, CreateOpens
    <3>2. CASE WriteRow(p) \/ AppendEvent(p)
      <4>1. phase[p] = "creating"
        BY <2>5, <3>2 DEF WriteRow, AppendEvent
      <4> QED
        BY <3>2, <4>1, StatementCreates DEF OpeningInv
    <3>3. CASE ~(Create(p) \/ WriteRow(p) \/ AppendEvent(p))
      BY <2>1, <2>5, <3>3
      DEF Open, Call, BeginRead, Crash, Work, BeginWrite, Busy, Decide, Commit,
          ScanRows, EndRead, Rollback, Enter, StoreInv, TypeOK
    <3> QED
      BY <3>1, <3>2, <3>3
  <2> QED
    BY <2>2, <2>3, <2>4, <2>5, OpeningFrame DEF OpeningInv
<1> QED
  BY <1>1, <1>2, StoreSound, PTL DEF Spec

\* Whoever opens a new database, how many at once and however they fail, the
\* policy is created once, as the first event.
THEOREM PolicyOnce == Spec => PolicyCreatedOnce
<1>1. StoreInv /\ OpeningInv /\ [Next]_vars
      => [log' # log =>
            \/ log = << >> /\ log' = << Creation >>
            \/ log # << >> /\ \A p \in Processes : ~Enter(p, "creating", "idle")]_vars
  <2> SUFFICES ASSUME StoreInv, OpeningInv, Next, log' # log
               PROVE  \/ log = << >> /\ log' = << Creation >>
                      \/ log # << >> /\ \A q \in Processes : ~Enter(q, "creating", "idle")
    BY DEF vars
  <2>1. PICK p \in Processes : Commit(p)
    BY DEF Next, Open, Call, BeginRead, Crash, Work, Create, BeginWrite, Busy, Decide,
           WriteRow, AppendEvent, ScanRows, EndRead, Rollback
  <2>2. \/ log = << >> /\ log' = << Creation >>
        \/ log # << >> /\ ~Enter(p, "creating", "idle")
    BY <2>1, CommitOpens
  <2>3. ASSUME NEW q \in Processes \ {p}
        PROVE  ~Enter(q, "creating", "idle")
    BY <2>1, CommitEffect DEF StoreInv, TypeOK, Sound, Current, Critical, Enter
  <2> QED
    BY <2>2, <2>3
<1> QED
  BY <1>1, StoreSound, OpeningSound, PTL DEF Spec, PolicyCreatedOnce

==============================================================================
