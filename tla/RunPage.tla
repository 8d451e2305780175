------------------------------- MODULE RunPage -------------------------------
(***************************************************************************)
(* static/app.js: the dashboard of one browser tab.  Every request is a    *)
(* promise: it is answered or fails at any later time, in any order, and   *)
(* its continuation then reads and writes the state of the page as it is   *)
(* by then.  An answer is modelled by the request it answers.              *)
(***************************************************************************)
EXTENDS Browser

CONSTANTS
  Runs,         \* runs of the workspace
  WaiverIds,    \* waivers that can be opened
  Filters,      \* settings of the search and filter fields
  Pages         \* number of pages of findings

VARIABLES
  run,         \* state.run
  assessment,  \* run of state.assessment, which the overview shows
  filter,      \* the search and filter fields
  offset,      \* state.offset, in pages
  typing,      \* a search timer is running
  requestGeneration,  \* the number of the last request for findings
  rows,        \* the request whose rows the table shows
  drawer,      \* waiver of state.drawer
  content,     \* waiver whose record and buttons the drawer shows
  history,     \* waiver whose history the drawer shows
  sent,        \* how many requests were sent
  failed       \* a request has failed

runPageVars == << run, assessment, filter, offset, typing, requestGeneration,
                  rows, drawer, content, history, pending, sent, failed >>

RunPageInit ==
  /\ run = CHOOSE r \in Runs : TRUE
  /\ assessment = run
  /\ filter = CHOOSE f \in Filters : TRUE
  /\ offset = 0 /\ typing = FALSE /\ requestGeneration = 0
  /\ rows = [run |-> run, filter |-> filter, offset |-> 0]
  /\ drawer = Nothing /\ content = Nothing /\ history = Nothing
  /\ pending = {} /\ sent = 0 /\ failed = FALSE

------------------------------------------------------------------------------
(* Requests *)

Request(kind, what, number) ==
  [kind |-> kind, what |-> what, generation |-> number, id |-> sent + 1]

\* The answered requests give way to the next one.
Send(answered, request) ==
  /\ sent < MaxRequests
  /\ sent' = sent + 1
  /\ pending' = (pending \ answered) \cup {request}

Receive(q) == pending' = pending \ {q} /\ UNCHANGED sent

\* loadFindings(), called with this run, filter and offset.
LoadFindings(answered, r, f, o) ==
  /\ requestGeneration' = requestGeneration + 1
  /\ Send(answered, Request("findings", [run |-> r, filter |-> f, offset |-> o], requestGeneration + 1))

drawerVars == << drawer, content, history >>

------------------------------------------------------------------------------
(* What the user does *)

\* run-select.onchange: loadRun() asks for the assessment of the new run.
SelectRun(r) ==
  /\ run' = r
  /\ drawer' = Nothing /\ content' = Nothing /\ history' = Nothing
  /\ Send({}, Request("assessment", r, 0))
  /\ UNCHANGED << assessment, filter, offset, typing, requestGeneration, rows, failed >>

\* The category and status filters load at once, the search after a pause.
ChangeFilter(f) ==
  /\ filter' = f /\ offset' = 0
  /\ LoadFindings({}, run, f, 0)
  /\ UNCHANGED << run, assessment, typing, rows, drawerVars, failed >>

Type(f) ==
  /\ filter' = f /\ typing' = TRUE
  /\ UNCHANGED << run, assessment, offset, requestGeneration, rows, drawerVars,
                  pending, sent, failed >>

SearchTimer ==
  /\ typing
  /\ typing' = FALSE /\ offset' = 0
  /\ LoadFindings({}, run, filter, 0)
  /\ UNCHANGED << run, assessment, filter, rows, drawerVars, failed >>

Turn(o) ==
  /\ offset' = o
  /\ LoadFindings({}, run, filter, o)
  /\ UNCHANGED << run, assessment, filter, typing, rows, drawerVars, failed >>

ShowWaiver(id) ==
  /\ Send({}, Request("waiver", id, 0))
  /\ UNCHANGED << run, assessment, filter, offset, typing, requestGeneration, rows,
                  drawerVars, failed >>

CloseDrawer ==
  /\ drawer' = Nothing /\ content' = Nothing /\ history' = Nothing
  /\ UNCHANGED << run, assessment, filter, offset, typing, requestGeneration, rows,
                  pending, sent, failed >>

------------------------------------------------------------------------------
(* Answers *)

\* The rest of loadRun(): the findings of the run selected by now.
AnswerAssessment(q) ==
  /\ q \in pending /\ q.kind = "assessment"
  /\ assessment' = q.what
  /\ offset' = 0
  /\ LoadFindings({q}, run, filter, 0)
  /\ UNCHANGED << run, filter, typing, rows, drawerVars, failed >>

\* Mutant: whatever arrives is shown.
LatestOrNot(q) == q.generation =< requestGeneration

Latest(q) == q.generation = requestGeneration

AnswerFindings(q) ==
  /\ q \in pending /\ q.kind = "findings"
  /\ rows' = IF Latest(q) THEN q.what ELSE rows
  /\ Receive(q)
  /\ UNCHANGED << run, assessment, filter, offset, typing, requestGeneration,
                  drawerVars, failed >>

\* showWaiver(): the record fills the drawer, then its history is asked for.
AnswerWaiver(q) ==
  /\ q \in pending /\ q.kind = "waiver"
  /\ drawer' = q.what /\ content' = q.what /\ history' = Nothing
  /\ Send({q}, Request("history", q.what, 0))
  /\ UNCHANGED << run, assessment, filter, offset, typing, requestGeneration, rows, failed >>

\* Mutant: the history goes to whatever drawer is open.
StillOpenOrNot(id) == id \in WaiverIds /\ drawer # Nothing

StillOpen(id) == drawer = id

AnswerHistory(q) ==
  /\ q \in pending /\ q.kind = "history"
  /\ history' = IF StillOpen(q.what) THEN q.what ELSE history
  /\ Receive(q)
  /\ UNCHANGED << run, assessment, filter, offset, typing, requestGeneration, rows,
                  drawer, content, failed >>

\* guard() reports the failure and nothing else happens.
Fail(q) ==
  /\ failed' = TRUE
  /\ Receive(q)
  /\ UNCHANGED << run, assessment, filter, offset, typing, requestGeneration, rows,
                  drawerVars >>

RunPageNext ==
  \/ \E r \in Runs \ {run} : SelectRun(r)
  \/ \E f \in Filters \ {filter} : ChangeFilter(f) \/ Type(f)
  \/ SearchTimer
  \/ \E o \in 0 .. Pages - 1 : o # offset /\ Turn(o)
  \/ \E id \in WaiverIds : ShowWaiver(id)
  \/ CloseDrawer
  \/ \E q \in pending : \/ AnswerAssessment(q) \/ AnswerFindings(q)
                        \/ AnswerWaiver(q) \/ AnswerHistory(q) \/ Fail(q)

RunPageSpec == RunPageInit /\ [][RunPageNext]_runPageVars

------------------------------------------------------------------------------
(* Properties *)

Settled == pending = {} /\ ~typing /\ ~failed

\* Once everything asked for has been answered, the table shows the findings
\* of the selected run, with the filters and the page that the page displays,
\* in whatever order the answers came.
RowsAreOfSelection ==
  Settled => rows = [run |-> run, filter |-> filter, offset |-> offset]

\* A history in the drawer is that of the waiver whose record and buttons are
\* above it.  Which waiver that is, is another matter: showWaiver compares no
\* generation (app.js:126), so of two waivers opened one after the other the
\* one whose record arrives last stays.
HistoryIsOfDrawer ==
  history # Nothing => history = content /\ content = drawer

\* The table of findings settles on the selected run, filters and page
\* (loadFindings, app.js:93), and the drawer never joins the record of one
\* waiver with the history of another (showWaiver, app.js:130).
DashboardSettles == RowsAreOfSelection /\ HistoryIsOfDrawer

\* "effective state is evaluated for the selected run" (app.js:105): once
\* everything asked for has been answered, overview and register show the
\* assessment of the selected run.
OverviewIsOfSelection == Settled => assessment = run

==============================================================================
