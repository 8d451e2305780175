-------------------------- MODULE BrowserPagesProofs --------------------------
(***************************************************************************)
(* What the pages of static/ show, in every order of clicks and answers,   *)
(* for any data, number of requests, connections and epochs.  Each page is *)
(* proved by itself; the last section puts them into one tab.              *)
(***************************************************************************)
EXTENDS BrowserPages, TLAPS

------------------------------------------------------------------------------
(* The dashboard: app.js *)

Selection == [run |-> run, filter |-> filter, offset |-> offset]

\* Requests for findings are numbered, none is newer than the last.
FindingsNumbered ==
  /\ requestGeneration \in Nat
  /\ \A q \in pending : q.kind = "findings" =>
       q.generation \in Nat /\ q.generation =< requestGeneration
  /\ \A p, q \in pending :
       p.kind = "findings" /\ q.kind = "findings" /\ p.generation = q.generation => p = q

\* The last request for findings is on its way with the present selection, or
\* its rows are on display.
LastIsOfSelection ==
  \/ \E q \in pending : q.kind = "findings" /\ Latest(q) /\ q.what = Selection
  \/ rows = Selection /\ \A q \in pending : q.kind = "findings" => ~Latest(q)

\* RowsAreOfSelection alone is not inductive: until everything has settled
\* the rows may be anything, and what makes them right is on its way.
RowsFollow ==
  \/ failed \/ typing
  \/ \E q \in pending : q.kind = "assessment"
  \/ LastIsOfSelection

DrawerWhole ==
  /\ content = drawer
  /\ history # Nothing => history = drawer

DashboardInv == FindingsNumbered /\ RowsFollow /\ DrawerWhole

\* A new request for the findings of the present selection (loadFindings).
LEMMA LoadKeeps ==
  ASSUME FindingsNumbered, NEW answered, LoadFindings(answered, run', filter', offset')
  PROVE  FindingsNumbered' /\ RowsFollow'
<1> DEFINE q == Request("findings", [run |-> run', filter |-> filter', offset |-> offset'],
                        requestGeneration + 1)
<1>1. /\ requestGeneration' = requestGeneration + 1
      /\ pending' = (pending \ answered) \cup {q}
  BY DEF LoadFindings, Send
<1>2. /\ q.kind = "findings" /\ q.generation = requestGeneration + 1
      /\ q.what = Selection'
  BY DEF Request, Selection
<1> HIDE DEF q
<1>3. FindingsNumbered'
  BY <1>1, <1>2 DEF FindingsNumbered
<1>4. LastIsOfSelection'
  BY <1>1, <1>2 DEF LastIsOfSelection, Latest
<1> QED
  BY <1>3, <1>4 DEF RowsFollow

\* Requests of the drawer come and go beside those of the table.
LEMMA DrawerKeeps ==
  ASSUME FindingsNumbered, RowsFollow,
         UNCHANGED << run, filter, offset, typing, requestGeneration, rows, failed >>,
         \A q \in pending : q.kind \in {"assessment", "findings"} => q \in pending',
         \A q \in pending' : q.kind = "findings" => q \in pending
  PROVE  FindingsNumbered' /\ RowsFollow'
<1>1. FindingsNumbered'
  BY DEF FindingsNumbered
<1>2. Selection' = Selection
  BY DEF Selection
<1>3. LastIsOfSelection => LastIsOfSelection'
  BY <1>2 DEF LastIsOfSelection, Latest
<1> QED
  BY <1>1, <1>3 DEF RowsFollow

\* An answer with findings is shown if it is the last one asked for.
LEMMA FindingsKeep ==
  ASSUME DashboardInv, NEW q \in pending, AnswerFindings(q)
  PROVE  FindingsNumbered' /\ RowsFollow'
<1>1. /\ pending' = pending \ {q} /\ q.kind = "findings"
      /\ rows' = IF Latest(q) THEN q.what ELSE rows
      /\ UNCHANGED << run, filter, offset, typing, requestGeneration, failed >>
  BY DEF AnswerFindings, Receive
<1>2. FindingsNumbered'
  BY <1>1 DEF DashboardInv, FindingsNumbered
<1>3. Selection' = Selection
  BY <1>1 DEF Selection
<1>4. LastIsOfSelection => LastIsOfSelection'
  BY <1>1, <1>3 DEF DashboardInv, FindingsNumbered, LastIsOfSelection, Latest
<1>5. (\E p \in pending : p.kind = "assessment") => (\E p \in pending' : p.kind = "assessment")
  BY <1>1
<1> QED
  BY <1>1, <1>2, <1>4, <1>5 DEF DashboardInv, RowsFollow

\* Every click, keystroke and answer of the dashboard keeps the invariant.
LEMMA DashboardStep ==
  ASSUME DashboardInv, [RunPageNext]_runPageVars
  PROVE  DashboardInv'
<1>1. ASSUME NEW r \in Runs, SelectRun(r)
      PROVE  DashboardInv'
  <2> DEFINE q == Request("assessment", r, 0)
  <2>1. /\ pending' = pending \cup {q} /\ q.kind = "assessment"
        /\ requestGeneration' = requestGeneration
    BY <1>1 DEF SelectRun, Send, Request
  <2> HIDE DEF q
  <2>2. FindingsNumbered' /\ RowsFollow'
    BY <2>1 DEF DashboardInv, FindingsNumbered, RowsFollow
  <2> QED
    BY <1>1, <2>2 DEF SelectRun, DashboardInv, DrawerWhole
<1>2. ASSUME NEW f \in Filters, ChangeFilter(f)
      PROVE  DashboardInv'
  BY <1>2, LoadKeeps DEF ChangeFilter, DashboardInv, DrawerWhole, drawerVars
<1>3. ASSUME NEW f \in Filters, Type(f)
      PROVE  DashboardInv'
  BY <1>3 DEF Type, DashboardInv, FindingsNumbered, RowsFollow, DrawerWhole, drawerVars
<1>4. ASSUME SearchTimer
      PROVE  DashboardInv'
  BY <1>4, LoadKeeps DEF SearchTimer, DashboardInv, DrawerWhole, drawerVars
<1>5. ASSUME NEW o, Turn(o)
      PROVE  DashboardInv'
  BY <1>5, LoadKeeps DEF Turn, DashboardInv, DrawerWhole, drawerVars
<1>6. ASSUME NEW id \in WaiverIds, ShowWaiver(id)
      PROVE  DashboardInv'
  <2> DEFINE q == Request("waiver", id, 0)
  <2>1. /\ pending' = pending \cup {q} /\ q.kind = "waiver"
        /\ UNCHANGED << run, filter, offset, typing, requestGeneration, rows,
                        failed, drawer, content, history >>
    BY <1>6 DEF ShowWaiver, Send, Request, drawerVars
  <2> HIDE DEF q
  <2>2. FindingsNumbered' /\ RowsFollow'
    BY <2>1, DrawerKeeps DEF DashboardInv
  <2> QED
    BY <2>1, <2>2 DEF DashboardInv, DrawerWhole
<1>7. ASSUME CloseDrawer
      PROVE  DashboardInv'
  BY <1>7, DrawerKeeps DEF CloseDrawer, DashboardInv, DrawerWhole
<1>8. ASSUME NEW q \in pending, AnswerAssessment(q)
      PROVE  DashboardInv'
  BY <1>8, LoadKeeps DEF AnswerAssessment, DashboardInv, DrawerWhole, drawerVars
<1>9. ASSUME NEW q \in pending, AnswerFindings(q)
      PROVE  DashboardInv'
  BY <1>9, FindingsKeep DEF AnswerFindings, DashboardInv, DrawerWhole, drawerVars
<1>10. ASSUME NEW q \in pending, AnswerWaiver(q)
       PROVE  DashboardInv'
  <2> DEFINE p == Request("history", q.what, 0)
  <2>1. /\ pending' = (pending \ {q}) \cup {p}
        /\ p.kind = "history" /\ q.kind = "waiver"
        /\ UNCHANGED << run, filter, offset, typing, requestGeneration, rows, failed >>
    BY <1>10 DEF AnswerWaiver, Send, Request
  <2> HIDE DEF p
  <2>2. FindingsNumbered' /\ RowsFollow'
    BY <2>1, DrawerKeeps DEF DashboardInv
  <2> QED
    BY <1>10, <2>2 DEF AnswerWaiver, DashboardInv, DrawerWhole
<1>11. ASSUME NEW q \in pending, AnswerHistory(q)
       PROVE  DashboardInv'
  BY <1>11, DrawerKeeps DEF AnswerHistory, Receive, StillOpen, DashboardInv, DrawerWhole
<1>12. ASSUME NEW q \in pending, Fail(q)
       PROVE  DashboardInv'
  BY <1>12 DEF Fail, Receive, DashboardInv, FindingsNumbered, RowsFollow, DrawerWhole,
     drawerVars
<1>13. CASE UNCHANGED runPageVars
  BY <1>13, DrawerKeeps DEF runPageVars, DashboardInv, DrawerWhole
<1> QED
  BY <1>1, <1>2, <1>3, <1>4, <1>5, <1>6, <1>7, <1>8, <1>9, <1>10, <1>11, <1>12, <1>13
  DEF RunPageNext

\* What the dashboard shows when it has settled is what the invariant says.
LEMMA DashboardShows == DashboardInv => DashboardSettles
BY DEF DashboardInv, RowsFollow, LastIsOfSelection, DrawerWhole, Selection,
   DashboardSettles, RowsAreOfSelection, Settled, HistoryIsOfDrawer

\* A loaded dashboard shows the findings of the run it has selected.
LEMMA DashboardStarts == RunPageInit => DashboardInv
BY DEF RunPageInit, DashboardInv, FindingsNumbered, RowsFollow, LastIsOfSelection,
   Selection, DrawerWhole

\* When nothing is pending the table shows the findings of the selected run,
\* filters and page, and a history in the drawer is always that of the record
\* above it, whatever was clicked while answers were on their way.  Which waiver
\* the drawer ends up with is not claimed.
THEOREM DashboardSound == RunPageSpec => []DashboardSettles
BY DashboardStarts, DashboardStep, DashboardShows, PTL DEF RunPageSpec

------------------------------------------------------------------------------
(* The page of review plans: plans.js *)

\* The digest the page holds or sends is that of a preview it has displayed.
ReviewedInv ==
  /\ reviewed # Nothing => reviewed \in displayed
  /\ \A q \in pending : q.kind = "apply" => q.digest \in displayed
  /\ AppliedWasDisplayed

\* Every click, edit and answer of the page of plans keeps the invariant.
LEMMA PlanPageStep ==
  ASSUME ReviewedInv, [PlanPageNext]_planPageVars
  PROVE  ReviewedInv'
<1>1. ASSUME NEW body \in Bodies, Edit(body)
      PROVE  ReviewedInv'
  BY <1>1 DEF Edit, InvalidatePlan, ReviewedInv, AppliedWasDisplayed
<1>2. ASSUME NEW body \in Bodies, AskTemplate(body)
      PROVE  ReviewedInv'
  BY <1>2 DEF AskTemplate, InvalidatePlan, AskServer, ReviewedInv, AppliedWasDisplayed
<1>3. CASE AskPreview
  BY <1>3 DEF AskPreview, InvalidatePlan, AskServer, ReviewedInv, AppliedWasDisplayed
<1>4. CASE AskApply
  BY <1>4 DEF AskApply, InvalidatePlan, AskServer, ReviewedInv, AppliedWasDisplayed
<1>5. CASE Elsewhere
  BY <1>5 DEF Elsewhere, ReviewedInv, AppliedWasDisplayed
<1>6. ASSUME NEW q \in pending, AnswerPlan(q)
      PROVE  ReviewedInv'
  <2>1. pending' \subseteq pending
    BY <1>6 DEF AnswerPlan
  <2>2. CASE AnswerTemplate(q) \/ Refuse
    BY <2>1, <2>2 DEF AnswerTemplate, Refuse, ReviewedInv, AppliedWasDisplayed
  <2>3. CASE AnswerPreview(q)
    BY <2>1, <2>3 DEF AnswerPreview, ReviewedInv, AppliedWasDisplayed
  <2>4. CASE AnswerApply(q)
    BY <2>1, <2>4 DEF AnswerApply, Accepts, ReviewedInv, AppliedWasDisplayed
  <2> QED
    BY <1>6, <2>2, <2>3, <2>4 DEF AnswerPlan
<1>7. CASE UNCHANGED planPageVars
  BY <1>7 DEF planPageVars, ReviewedInv, AppliedWasDisplayed
<1> QED
  BY <1>1, <1>2, <1>3, <1>4, <1>5, <1>6, <1>7 DEF PlanPageNext

\* A new page has displayed and reviewed nothing.
LEMMA PlanPageStarts == PlanPageInit => ReviewedInv
BY DEF PlanPageInit, ReviewedInv, AppliedWasDisplayed

\* The server applies only a text whose own preview the page has displayed.
THEOREM AppliedDisplayed == PlanPageSpec => []AppliedWasDisplayed
<1>1. ReviewedInv => AppliedWasDisplayed
  BY DEF ReviewedInv
<1> QED
  BY <1>1, PlanPageStarts, PlanPageStep, PTL DEF PlanPageSpec

------------------------------------------------------------------------------
(* The page of release decisions: releases.js *)

\* Nothing pending is of a later epoch, and an epoch starts one task.
TasksOrdered ==
  /\ epoch \in Nat
  /\ \A task \in pending : task.generation \in Nat /\ task.generation =< epoch
  /\ \A a, b \in pending : a.generation = b.generation => a = b

\* The evaluation of this epoch asks about the inputs as they are.
AsksForInputs ==
  \A task \in pending : task.kind = "evaluate" /\ Current(task) => task.what = Inputs

\* While a decision is on display, nothing of its epoch can still arrive.
\* DecisionIsOfInputs alone is not inductive: a file read of the same epoch
\* would replace an input without a new epoch.
Decided ==
  evaluation # Nothing =>
    evaluation = Inputs /\ \A task \in pending : ~Current(task)

ReleaseInv == TasksOrdered /\ AsksForInputs /\ Decided

\* A new epoch leaves behind whatever ran, and starts at most one task, which
\* asks about the new inputs if it is an evaluation (invalidate).
LEMMA NewEpoch ==
  ASSUME ReleaseInv, epoch' = epoch + 1, evaluation' = Nothing,
         \/ pending' \subseteq pending
         \/ \E task : /\ pending' \subseteq pending \cup {task}
                      /\ task.generation = epoch + 1
                      /\ task.kind = "evaluate" => task.what = Inputs'
  PROVE  ReleaseInv'
<1>1. TasksOrdered'
  BY DEF ReleaseInv, TasksOrdered
<1>2. AsksForInputs'
  BY DEF ReleaseInv, TasksOrdered, AsksForInputs, Current
<1>3. Decided'
  BY DEF Decided
<1> QED
  BY <1>1, <1>2, <1>3 DEF ReleaseInv

\* The end of a task keeps the invariant (the continuations of the page).
LEMMA EndKeeps ==
  ASSUME ReleaseInv, NEW task \in pending, Ends(task)
  PROVE  ReleaseInv'
<1>1. pending' \subseteq pending /\ task \notin pending'
  BY DEF Ends, End
<1>2. CASE Ignore(task) \/ Identified(task) \/ Failed(task)
  <2>1. UNCHANGED << token, fields, epoch, evaluation >>
    BY <1>2 DEF Ignore, Identified, Failed
  <2> QED
    BY <1>1, <2>1 DEF ReleaseInv, TasksOrdered, AsksForInputs, Decided, Current, Inputs
<1>3. CASE Unidentified(task)
  BY <1>1, <1>3, NewEpoch DEF Unidentified, Invalidate
<1>4. CASE Loaded(task)
  <2>1. Current(task) /\ UNCHANGED << epoch, evaluation >>
    BY <1>4 DEF Loaded
  <2>2. \A other \in pending' : ~Current(other)'
    BY <1>1, <2>1 DEF ReleaseInv, TasksOrdered, Current
  <2>3. evaluation' = Nothing
    BY <2>1 DEF ReleaseInv, Decided
  <2> QED
    BY <1>1, <2>1, <2>2, <2>3 DEF ReleaseInv, TasksOrdered, AsksForInputs, Decided
<1>5. CASE Evaluated(task)
  <2>1. Current(task) /\ evaluation' = task.what /\ UNCHANGED << token, fields, epoch >>
    BY <1>5 DEF Evaluated
  <2>2. \A other \in pending' : ~Current(other)'
    BY <1>1, <2>1 DEF ReleaseInv, TasksOrdered, Current
  <2>3. evaluation' = Inputs'
    BY <1>5, <2>1 DEF ReleaseInv, AsksForInputs, Evaluated, Inputs
  <2> QED
    BY <1>1, <2>1, <2>2, <2>3 DEF ReleaseInv, TasksOrdered, AsksForInputs, Decided
<1> QED
  BY <1>2, <1>3, <1>4, <1>5 DEF Ends

\* Every step of the page keeps the invariant (static/releases.js).
LEMMA ReleaseStep ==
  ASSUME ReleaseInv, [ReleasePageNext]_releaseVars
  PROVE  ReleaseInv'
<1>1. CASE UNCHANGED releaseVars
  BY <1>1 DEF ReleaseInv, TasksOrdered, AsksForInputs, Decided, Current, Inputs, releaseVars
<1>2. ASSUME NEW t \in Tokens, Login(t)
      PROVE  ReleaseInv'
  BY <1>2, NewEpoch DEF Login, Invalidate, Start, Task
<1>3. CASE Disconnect
  BY <1>3, NewEpoch DEF Disconnect, Invalidate
<1>4. ASSUME NEW f \in Fields, NEW doc \in Documents, Input(f, doc)
      PROVE  ReleaseInv'
  BY <1>4, NewEpoch DEF Input, Invalidate
<1>5. ASSUME NEW f \in Fields, NEW doc \in Documents, PickFile(f, doc)
      PROVE  ReleaseInv'
  BY <1>5, NewEpoch DEF PickFile, Invalidate, Start, Task
<1>6. CASE Evaluate
  BY <1>6, NewEpoch DEF Evaluate, Start, Task, Inputs
<1>7. CASE EvaluateNonsense
  BY <1>7, NewEpoch DEF EvaluateNonsense, Invalidate
<1>8. ASSUME NEW task \in pending, Ends(task)
      PROVE  ReleaseInv'
  BY <1>8, EndKeeps
<1> QED
  BY <1>1, <1>2, <1>3, <1>4, <1>5, <1>6, <1>7, <1>8 DEF ReleasePageNext

\* A new page has nothing on its way and no decision on display.
LEMMA ReleaseStarts == ReleasePageInit => ReleaseInv
BY DEF ReleasePageInit, ReleaseInv, TasksOrdered, AsksForInputs, Decided

\* The decision that releases.js displays is that of the contract, receipts
\* and token of the page, in every order of edits, reads and answers.
THEOREM DecisionBound == ReleasePageSpec => []DecisionIsOfInputs
<1>1. ReleaseInv => DecisionIsOfInputs
  BY DEF ReleaseInv, Decided, DecisionIsOfInputs
<1> QED
  BY <1>1, ReleaseStarts, ReleaseStep, PTL DEF ReleasePageSpec

------------------------------------------------------------------------------
(* The page of retained geometry: physical.js *)

FetchTyped(f) ==
  f \in [kind : Questions \cup {"me", "runs"}, token : Tokens \cup {Nothing},
         generation : Nat, number : Nat, id : Nat, stage : {"head", "body"}]

ConnectionTyped ==
  /\ access \in Tokens \cup {Nothing} /\ generation \in Nat
  /\ asked \in [Questions -> Nat] /\ clicks \in Nat
  /\ DOMAIN display = Questions
  /\ \A f \in pending : FetchTyped(f) /\ f.generation =< generation

\* What a question of this connection brings was read with its token.
AskedWithAccess ==
  \A f \in pending :
    f.kind \in Questions /\ f.generation = generation => f.token = access

\* A question whose answer is not the one on display is still on its way.
AnswersFollow ==
  \/ refused
  \/ \A q \in Questions :
       \/ display[q] # Nothing => display[q].number = asked[q]
       \/ \E f \in pending : f.kind = q /\ Awaited(f)

GeometryInv ==
  ConnectionTyped /\ AskedWithAccess /\ EvidenceIsOfConnection /\ AnswersFollow

\* Signing in or out forgets what was asked and shown (clear).
LEMMA ResetKeeps ==
  ASSUME GeometryInv, NEW t \in Tokens \cup {Nothing}, Click, Reset(t),
         \/ pending' = pending
         \/ pending' = pending \cup {Fetch("me", t, generation + 1, 0)}
  PROVE  GeometryInv'
<1>1. ASSUME NEW f \in pending'
      PROVE  /\ FetchTyped(f) /\ f.generation =< generation'
             /\ f.kind \in Questions => f.generation =< generation
  <2>1. CASE f \in pending
    <3>1. /\ FetchTyped(f) /\ f.generation =< generation
          /\ generation \in Nat /\ generation' = generation + 1
      BY <2>1 DEF GeometryInv, ConnectionTyped, Reset
    <3>2. f.generation \in Nat
      BY <3>1 DEF FetchTyped
    <3> QED
      BY <3>1, <3>2
  <2>2. CASE f = Fetch("me", t, generation + 1, 0)
    BY <2>2 DEF GeometryInv, ConnectionTyped, Reset, Fetch, FetchTyped, Questions
  <2> QED
    BY <2>1, <2>2
<1>2. ConnectionTyped'
  BY <1>1 DEF GeometryInv, ConnectionTyped, Click, Reset
<1>3. AskedWithAccess'
  BY <1>1 DEF GeometryInv, ConnectionTyped, AskedWithAccess, Reset
<1> QED
  BY <1>2, <1>3 DEF GeometryInv, EvidenceIsOfConnection, AnswersFollow, Reset

\* A question is asked under the token in use, and awaited from then on.
LEMMA AskKeeps ==
  ASSUME GeometryInv, NEW q \in Questions, AskFor(q)
  PROVE  GeometryInv'
<1> DEFINE f == Fetch(q, access, generation, asked[q] + 1)
<1>1. /\ FetchTyped(f) /\ f.kind = q /\ f.token = access
      /\ f.generation = generation /\ f.number = asked[q] + 1
  BY DEF GeometryInv, ConnectionTyped, Fetch, FetchTyped, Questions
<1>2. /\ \/ pending' = pending \cup {f} /\ refused' = refused
         \/ pending' = pending /\ refused'
      /\ asked' = [asked EXCEPT ![q] = asked[q] + 1] /\ clicks' = clicks + 1
      /\ UNCHANGED << access, generation, display >>
  BY DEF AskFor, Click
<1> HIDE DEF f
<1>3. ConnectionTyped'
  BY <1>1, <1>2 DEF GeometryInv, ConnectionTyped
<1>4. AskedWithAccess' /\ EvidenceIsOfConnection'
  BY <1>1, <1>2 DEF GeometryInv, AskedWithAccess, EvidenceIsOfConnection
<1>5. AnswersFollow'
  BY <1>1, <1>2 DEF GeometryInv, ConnectionTyped, AnswersFollow, Awaited
<1> QED
  BY <1>3, <1>4, <1>5 DEF GeometryInv

\* Requests that are no question, or only get their head, change no answer.
LEMMA PassKeeps ==
  ASSUME GeometryInv, NEW f \in pending, NEW g,
         FetchTyped(g), g.generation =< generation,
         \/ f.kind \notin Questions /\ g.kind \notin Questions
         \/ /\ g.kind = f.kind /\ g.token = f.token /\ g.number = f.number
            /\ g.generation = f.generation,
         pending' = (pending \ {f}) \cup {g},
         UNCHANGED << access, generation, asked, display, clicks, refused >>
  PROVE  GeometryInv'
<1>1. ConnectionTyped'
  BY DEF GeometryInv, ConnectionTyped
<1>2. AskedWithAccess' /\ EvidenceIsOfConnection'
  BY DEF GeometryInv, AskedWithAccess, EvidenceIsOfConnection
<1>3. AnswersFollow'
  BY DEF GeometryInv, AnswersFollow, Awaited
<1> QED
  BY <1>1, <1>2, <1>3 DEF GeometryInv

\* A request that ends leaves the invariant, whatever it brought.
LEMMA FetchEnds ==
  ASSUME GeometryInv, NEW f \in pending, Suggest(f) \/ AnswerFor(f) \/ Fails(f)
  PROVE  GeometryInv'
<1>1. /\ pending' = pending \ {f}
      /\ UNCHANGED << access, generation, asked, clicks >>
  BY DEF Suggest, AnswerFor, Fails, Finishes, connection
<1>2. f.number \in Nat /\ FetchTyped(f)
  BY DEF GeometryInv, ConnectionTyped, FetchTyped
<1>3. CASE Suggest(f)
  <2>1. f.kind \notin Questions /\ UNCHANGED << display, refused >>
    BY <1>3 DEF Suggest, Questions
  <2> QED
    BY <1>1, <2>1 DEF GeometryInv, ConnectionTyped, AskedWithAccess,
       EvidenceIsOfConnection, AnswersFollow, Awaited
<1>4. CASE AnswerFor(f) /\ ~Awaited(f)
  <2>1. UNCHANGED << display, refused >>
    BY <1>4 DEF AnswerFor
  <2> QED
    BY <1>1, <1>4, <2>1 DEF GeometryInv, ConnectionTyped, AskedWithAccess,
       EvidenceIsOfConnection, AnswersFollow, Awaited
<1>5. CASE AnswerFor(f) /\ Awaited(f)
  <2> DEFINE shown == [token |-> f.token, number |-> f.number]
  <2>1. /\ f.kind \in Questions /\ refused' = refused
        /\ display' = [display EXCEPT ![f.kind] = shown]
        /\ f.generation = generation /\ f.number = asked[f.kind]
    BY <1>5 DEF AnswerFor, Awaited
  <2>2. shown.token = access /\ shown.number = asked[f.kind]
    BY <2>1 DEF GeometryInv, AskedWithAccess
  <2> HIDE DEF shown
  <2>3. ConnectionTyped' /\ AskedWithAccess'
    BY <1>1, <2>1 DEF GeometryInv, ConnectionTyped, AskedWithAccess
  <2>4. EvidenceIsOfConnection'
    BY <1>1, <2>1, <2>2 DEF GeometryInv, ConnectionTyped, EvidenceIsOfConnection
  <2>5. AnswersFollow'
    BY <1>1, <2>1, <2>2 DEF GeometryInv, ConnectionTyped, AnswersFollow, Awaited
  <2> QED
    BY <2>3, <2>4, <2>5 DEF GeometryInv
<1>6. CASE Fails(f)
  <2>1. display' = display /\ refused' = (f.generation = generation \/ refused)
    BY <1>6 DEF Fails, connection
  <2>2. ConnectionTyped' /\ AskedWithAccess' /\ EvidenceIsOfConnection'
    BY <1>1, <2>1 DEF GeometryInv, ConnectionTyped, AskedWithAccess, EvidenceIsOfConnection
  <2>3. AnswersFollow'
    BY <1>1, <2>1 DEF GeometryInv, AnswersFollow, Awaited
  <2> QED
    BY <2>2, <2>3 DEF GeometryInv
<1> QED
  BY <1>3, <1>4, <1>5, <1>6

\* Every click and every response of the page keeps the invariant.
LEMMA GeometryStep ==
  ASSUME GeometryInv, [PhysicalPageNext]_physicalPageVars
  PROVE  GeometryInv'
<1>1. ASSUME NEW t \in Tokens, SignIn(t)
      PROVE  GeometryInv'
  BY <1>1, ResetKeeps DEF SignIn
<1>2. CASE SignOut
  BY <1>2, ResetKeeps DEF SignOut
<1>3. ASSUME NEW q \in Questions, AskFor(q)
      PROVE  GeometryInv'
  BY <1>3, AskKeeps
<1>4. ASSUME NEW f \in pending, Head(f)
      PROVE  GeometryInv'
  <2> DEFINE g == [f EXCEPT !.stage = "body"]
  <2>1. FetchTyped(f) /\ f.generation =< generation
    BY DEF GeometryInv, ConnectionTyped
  <2>2. /\ FetchTyped(g) /\ g.kind = f.kind /\ g.token = f.token
        /\ g.number = f.number /\ g.generation = f.generation
    BY <2>1 DEF FetchTyped
  <2> HIDE DEF g
  <2> QED
    BY <1>4, <2>1, <2>2, PassKeeps DEF Head, connection, g
<1>5. ASSUME NEW f \in pending, Recognised(f)
      PROVE  GeometryInv'
  <2>1. f.kind \notin Questions /\ FetchTyped(f)
    BY <1>5 DEF Recognised, Questions, GeometryInv, ConnectionTyped
  <2>2. UNCHANGED << access, generation, asked, display, clicks >>
    BY <1>5 DEF Recognised
  <2>3. CASE access = Nothing
    <3>1. refused' /\ pending' = pending \ {f}
      BY <1>5, <2>3 DEF Recognised
    <3> QED
      BY <2>2, <3>1 DEF GeometryInv, ConnectionTyped, AskedWithAccess,
         EvidenceIsOfConnection, AnswersFollow
  <2>4. CASE access # Nothing
    <3> DEFINE g == [Fetch("runs", access, generation, 0) EXCEPT !.id = f.id]
    <3>1. FetchTyped(g) /\ g.kind = "runs" /\ g.generation = generation
      BY <2>1 DEF GeometryInv, ConnectionTyped, Fetch, FetchTyped
    <3>2. g.kind \notin Questions /\ g.generation =< generation
      BY <3>1 DEF Questions, GeometryInv, ConnectionTyped
    <3>3. pending' = (pending \ {f}) \cup {g} /\ refused' = refused
      BY <1>5, <2>4 DEF Recognised
    <3> HIDE DEF g
    <3> QED
      BY <2>1, <2>2, <3>1, <3>2, <3>3, PassKeeps
  <2> QED
    BY <2>3, <2>4
<1>6. ASSUME NEW f \in pending, Suggest(f) \/ AnswerFor(f) \/ Fails(f)
      PROVE  GeometryInv'
  BY <1>6, FetchEnds
<1>7. CASE UNCHANGED physicalPageVars
  BY <1>7 DEF physicalPageVars, connection, GeometryInv, ConnectionTyped,
     AskedWithAccess, EvidenceIsOfConnection, AnswersFollow, Awaited
<1> QED
  BY <1>1, <1>2, <1>3, <1>4, <1>5, <1>6, <1>7 DEF PhysicalPageNext

\* A new page has no connection, asks nothing and draws nothing.
LEMMA GeometryStarts == PhysicalPageInit => GeometryInv
BY DEF PhysicalPageInit, GeometryInv, ConnectionTyped, AskedWithAccess,
   EvidenceIsOfConnection, AnswersFollow

\* Once nothing is on its way, what is drawn is what was asked for last.
LEMMA GeometryShows == GeometryInv => EvidenceIsCurrent
BY DEF GeometryInv, AnswersFollow, EvidenceIsCurrent, LastAskedIsShown

\* No geometry of an earlier connection is drawn, and the last question wins,
\* in every order of clicks, response heads and response bodies.
THEOREM GeometryCurrent == PhysicalPageSpec => []EvidenceIsCurrent
BY GeometryStarts, GeometryStep, GeometryShows, PTL DEF PhysicalPageSpec

------------------------------------------------------------------------------
(* One tab: the pages share the browser, and one of them is open *)

\* What a page shows when it is another one that is open.
DashboardIdle == rows = Selection /\ history = Nothing
PlansIdle == applied = {}
ReleaseIdle == evaluation = Nothing
GeometryIdle == display = [q \in Questions |-> Nothing]

\* The invariant of the open page, and that the others show nothing.
TabInv ==
  /\ page = "dashboard" => DashboardInv
  /\ page # "dashboard" => DashboardIdle
  /\ page = "plans" => ReviewedInv
  /\ page # "plans" => PlansIdle
  /\ page = "releases" => ReleaseInv
  /\ page # "releases" => ReleaseIdle
  /\ page = "physical" => GeometryInv
  /\ page # "physical" => GeometryIdle

\* A step of the open page keeps its invariant and leaves the others alone.
LEMMA TabStep ==
  ASSUME TabInv, [PagesNext]_tabVars
  PROVE  TabInv'
<1>1. page' = page
  BY DEF PagesNext, tabVars
<1>2. page = "dashboard" => DashboardInv'
  <2>1. page = "dashboard" => [RunPageNext]_runPageVars
    BY DEF PagesNext, tabVars, Dashboard
  <2> QED
    BY <2>1, DashboardStep DEF TabInv
<1>3. page = "plans" => ReviewedInv'
  <2>1. page = "plans" => [PlanPageNext]_planPageVars
    BY DEF PagesNext, tabVars, Planning
  <2> QED
    BY <2>1, PlanPageStep DEF TabInv
<1>4. page = "releases" => ReleaseInv'
  <2>1. page = "releases" => [ReleasePageNext]_releaseVars
    BY DEF PagesNext, tabVars, Releasing
  <2> QED
    BY <2>1, ReleaseStep DEF TabInv
<1>5. page = "physical" => GeometryInv'
  <2>1. page = "physical" => [PhysicalPageNext]_physicalPageVars
    BY DEF PagesNext, tabVars, Inspecting
  <2> QED
    BY <2>1, GeometryStep DEF TabInv
<1>6. page # "dashboard" => UNCHANGED runOnly
  BY DEF PagesNext, tabVars, Planning, Releasing, Inspecting, runOnly, runPageVars
<1>7. page # "plans" => UNCHANGED planOnly
  BY DEF PagesNext, tabVars, Dashboard, Releasing, Inspecting, planOnly, planPageVars
<1>8. page # "releases" => UNCHANGED releaseOnly
  BY DEF PagesNext, tabVars, Dashboard, Planning, Inspecting, releaseOnly, releaseVars
<1>9. page # "physical" => UNCHANGED physicalOnly
  BY DEF PagesNext, tabVars, Dashboard, Planning, Releasing, physicalOnly,
     physicalPageVars, connection
<1>10. /\ page # "dashboard" => DashboardIdle'
       /\ page # "plans" => PlansIdle'
       /\ page # "releases" => ReleaseIdle'
       /\ page # "physical" => GeometryIdle'
  BY <1>6, <1>7, <1>8, <1>9 DEF TabInv, DashboardIdle, Selection, PlansIdle,
     ReleaseIdle, GeometryIdle, runOnly, planOnly, releaseOnly, physicalOnly, connection
<1> QED
  BY <1>1, <1>2, <1>3, <1>4, <1>5, <1>10 DEF TabInv

\* A tab opens on one page, and shows nothing of the others.
LEMMA TabStarts == PagesInit => TabInv
<1> SUFFICES ASSUME PagesInit PROVE TabInv
  OBVIOUS
<1>1. DashboardInv /\ ReviewedInv /\ ReleaseInv /\ GeometryInv
  BY DashboardStarts, PlanPageStarts, ReleaseStarts, GeometryStarts DEF PagesInit
<1>2. DashboardIdle /\ PlansIdle /\ ReleaseIdle /\ GeometryIdle
  BY DEF PagesInit, RunPageInit, PlanPageInit, ReleasePageInit, PhysicalPageInit,
     DashboardIdle, Selection, PlansIdle, ReleaseIdle, GeometryIdle
<1> QED
  BY <1>1, <1>2 DEF TabInv

\* What the open page shows is right, and so is what the others do not show.
LEMMA TabShows ==
  TabInv => /\ DashboardSettles /\ AppliedWasDisplayed
            /\ DecisionIsOfInputs /\ EvidenceIsCurrent
<1> SUFFICES ASSUME TabInv
             PROVE  /\ DashboardSettles /\ AppliedWasDisplayed
                    /\ DecisionIsOfInputs /\ EvidenceIsCurrent
  OBVIOUS
<1>1. DashboardSettles
  BY DashboardShows DEF TabInv, DashboardIdle, Selection, DashboardSettles,
     RowsAreOfSelection, HistoryIsOfDrawer
<1>2. AppliedWasDisplayed
  BY DEF TabInv, PlansIdle, ReviewedInv, AppliedWasDisplayed
<1>3. DecisionIsOfInputs
  BY DEF TabInv, ReleaseIdle, ReleaseInv, Decided, DecisionIsOfInputs
<1>4. EvidenceIsCurrent
  BY GeometryShows DEF TabInv, GeometryIdle, EvidenceIsCurrent,
     EvidenceIsOfConnection, LastAskedIsShown
<1> QED
  BY <1>1, <1>2, <1>3, <1>4

\* Whichever page a tab has open, what it shows is of the present selection,
\* preview, inputs and connection.
THEOREM TabSound ==
  PagesSpec => [](/\ DashboardSettles /\ AppliedWasDisplayed
                  /\ DecisionIsOfInputs /\ EvidenceIsCurrent)
BY TabStarts, TabStep, TabShows, PTL DEF PagesSpec

==============================================================================
