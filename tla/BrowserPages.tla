---------------------------- MODULE BrowserPages ----------------------------
(***************************************************************************)
(* The pages of static/ in one browser tab: a tab shows one page at a time *)
(* and they share no data, so a behaviour shows what happens on one.       *)
(***************************************************************************)
EXTENDS RunPage, PlanPage, ReleasePage, PhysicalPage

VARIABLE page  \* the page of this tab

tabVars == << page, runPageVars, planPageVars, releaseVars, physicalPageVars >>

PagesInit ==
  /\ RunPageInit /\ PlanPageInit /\ ReleasePageInit /\ PhysicalPageInit
  /\ page \in {"dashboard", "plans", "releases", "physical"}

runOnly == << run, assessment, filter, offset, typing, requestGeneration, rows,
              drawer, content, history, sent, failed >>
planOnly == << head, text, reviewed, enabled, asks, displayed, applied >>
releaseOnly == << token, fields, epoch, evaluation, ready >>
physicalOnly == << connection, clicks, refused >>

Dashboard == RunPageNext /\ UNCHANGED << planOnly, releaseOnly, physicalOnly >>
Planning == PlanPageNext /\ UNCHANGED << runOnly, releaseOnly, physicalOnly >>
Releasing == ReleasePageNext /\ UNCHANGED << runOnly, planOnly, physicalOnly >>
Inspecting == PhysicalPageNext /\ UNCHANGED << runOnly, planOnly, releaseOnly >>

PagesNext ==
  /\ \/ page = "dashboard" /\ Dashboard
     \/ page = "plans" /\ Planning
     \/ page = "releases" /\ Releasing
     \/ page = "physical" /\ Inspecting
  /\ UNCHANGED page

\* What the release page asked for ends.
AnswersEnd ==
  /\ page = "releases"
  /\ \E task \in pending : Ends(task)
  /\ UNCHANGED << page, runOnly, planOnly, physicalOnly >>

PagesSpec == PagesInit /\ [][PagesNext]_tabVars /\ WF_tabVars(AnswersEnd)

==============================================================================
