------------------------------ MODULE PlanPage -------------------------------
(***************************************************************************)
(* static/plans.js: the page that writes, previews and applies one review  *)
(* plan.  A plan's text has a body and the audit head it is pinned to, so  *)
(* what a preview shows is a function of the text and the digest of the    *)
(* preview is modelled by the text it was computed from.  Answers arrive   *)
(* at any later time and in any order, and may fail.                       *)
(***************************************************************************)
EXTENDS Browser

CONSTANTS
  Bodies,  \* operations a plan may have
  MaxHead  \* bound on the events of the workspace

VARIABLES
  head,       \* the audit head of the workspace
  text,       \* the value of #plan-yaml
  reviewed,   \* reviewedDigest
  enabled,    \* #apply-plan can be pressed
  asks,       \* how many requests were sent
  displayed,  \* texts whose preview the page has displayed
  applied     \* texts the server has applied

planPageVars == << head, text, reviewed, enabled, pending, asks, displayed, applied >>

Plan(body, at) == [body |-> body, head |-> at]

PlanPageInit ==
  /\ head = 1
  /\ text = Plan(CHOOSE body \in Bodies : TRUE, 1)
  /\ reviewed = Nothing /\ enabled = FALSE
  /\ pending = {} /\ asks = 0
  /\ displayed = {} /\ applied = {}

InvalidatePlan == reviewed' = Nothing /\ enabled' = FALSE

AskServer(kind, plan, digest) ==
  /\ asks < MaxRequests
  /\ asks' = asks + 1
  /\ pending' = pending \cup
       {[kind |-> kind, plan |-> plan, digest |-> digest, at |-> head, id |-> asks + 1]}

------------------------------------------------------------------------------
(* What the user does *)

Edit(body) ==
  /\ text' = [text EXCEPT !.body = body]
  /\ InvalidatePlan
  /\ UNCHANGED << head, pending, asks, displayed, applied >>

AskTemplate(body) ==
  /\ InvalidatePlan
  /\ AskServer("template", Plan(body, head), Nothing)
  /\ UNCHANGED << head, text, displayed, applied >>

AskPreview ==
  /\ InvalidatePlan
  /\ AskServer("preview", text, Nothing)
  /\ UNCHANGED << head, text, displayed, applied >>

AskApply ==
  /\ enabled /\ reviewed # Nothing
  /\ InvalidatePlan
  /\ AskServer("apply", text, reviewed)
  /\ UNCHANGED << head, text, displayed, applied >>

------------------------------------------------------------------------------
(* What the server does, and what the page makes of it *)

\* Any other change of the workspace.
Elsewhere ==
  /\ head < MaxHead
  /\ head' = head + 1
  /\ UNCHANGED << text, reviewed, enabled, pending, asks, displayed, applied >>

\* The template replaces the text, and nothing else is reset.
AnswerTemplate(q) ==
  /\ q.kind = "template"
  /\ \E at \in q.at .. head : text' = Plan(q.plan.body, at)
  /\ UNCHANGED << head, reviewed, enabled, displayed, applied >>

IsStale(q) == q.plan # text

\* The server has computed the preview at some time since it was asked.
AnswerPreview(q) ==
  /\ q.kind = "preview"
  /\ q.plan.head = q.at
  /\ IF IsStale(q)
       THEN UNCHANGED << reviewed, enabled, displayed >>
       ELSE reviewed' = q.plan /\ enabled' = TRUE
            /\ displayed' = displayed \cup {q.plan}
  /\ UNCHANGED << head, text, applied >>

\* Mutant: only the audit head is compared.
AcceptsHead(q) == q.plan.head = head /\ q.digest # Nothing

Accepts(q) == q.plan.head = head /\ q.digest = q.plan

\* The server applies the plan; the page then reloads the register.
AnswerApply(q) ==
  /\ q.kind = "apply"
  /\ Accepts(q)
  /\ head < MaxHead
  /\ head' = head + 1
  /\ applied' = applied \cup {q.plan}
  /\ UNCHANGED << text, reviewed, enabled, displayed >>

Refuse == UNCHANGED << head, text, reviewed, enabled, displayed, applied >>

AnswerPlan(q) ==
  /\ AnswerTemplate(q) \/ AnswerPreview(q) \/ AnswerApply(q) \/ Refuse
  /\ pending' = pending \ {q}
  /\ UNCHANGED asks

PlanPageNext ==
  \/ \E body \in Bodies : Edit(body) \/ AskTemplate(body)
  \/ AskPreview \/ AskApply \/ Elsewhere
  \/ \E q \in pending : AnswerPlan(q)

PlanPageSpec == PlanPageInit /\ [][PlanPageNext]_planPageVars

------------------------------------------------------------------------------
(* Properties *)

\* However the answers are ordered, whatever the user edits meanwhile and
\* whatever others commit, the server applies only a text whose own preview
\* the page has displayed (plans.py apply_plan, plans.js apply).
AppliedWasDisplayed == applied \subseteq displayed

\* "Review the YAML, then preview" (plans.js:42): a text that can be applied
\* is the one that was previewed.
ApplyMeansPreviewed == enabled => reviewed = text

==============================================================================
