----------------------------- MODULE ReleasePage -----------------------------
(***************************************************************************)
(* static/releases.js: the page that shows a release decision.  Whatever   *)
(* changes its inputs starts a new epoch, and the continuation of a        *)
(* request or of a file read counts only in the epoch that started it.     *)
(* Aborting a request makes it fail, unless its answer is already there:   *)
(* both are left possible.                                                 *)
(***************************************************************************)
EXTENDS Browser

CONSTANTS
  Documents,  \* contracts and receipt lists
  MaxEpoch    \* bound on the epochs

ASSUME PageAssumption == Nothing \notin Tokens \cup Documents /\ MaxEpoch \in Nat

VARIABLES
  token,       \* the token in use
  fields,      \* the contract and the receipts in the text areas
  epoch,       \* epoch
  evaluation,  \* inputs of the decision on display
  ready        \* #evaluate can be pressed

releaseVars == << token, fields, epoch, evaluation, ready, pending >>

Fields == {"contract", "receipts"}
Blank == [f \in Fields |-> Nothing]

ReleasePageInit ==
  /\ token = Nothing /\ fields = Blank
  /\ epoch = 0 /\ evaluation = Nothing /\ ready = FALSE
  /\ pending = {}

\* invalidate(), with the token as it is by then.
Invalidate(t) ==
  /\ epoch < MaxEpoch
  /\ epoch' = epoch + 1
  /\ evaluation' = Nothing
  /\ ready' = (t # Nothing)

Start(task) == pending' = pending \cup {task}
Task(kind, what) == [kind |-> kind, what |-> what, generation |-> epoch + 1]
Inputs == [token |-> token, fields |-> fields]

------------------------------------------------------------------------------
(* What the user does *)

Login(t) ==
  /\ token' = t
  /\ Invalidate(t)
  /\ Start(Task("me", t))
  /\ UNCHANGED fields

Disconnect ==
  /\ token' = Nothing /\ fields' = Blank
  /\ Invalidate(Nothing)
  /\ UNCHANGED pending

Input(f, doc) ==
  /\ fields' = [fields EXCEPT ![f] = doc]
  /\ Invalidate(token)
  /\ UNCHANGED << token, pending >>

\* A file too large, and no file at all, leave the page invalidated.
PickFile(f, doc) ==
  /\ Invalidate(token)
  /\ Start(Task("file", [field |-> f, doc |-> doc])) \/ UNCHANGED pending
  /\ UNCHANGED << token, fields >>

Evaluate ==
  /\ ready
  /\ epoch < MaxEpoch
  /\ epoch' = epoch + 1 /\ evaluation' = Nothing
  /\ ready' = FALSE
  /\ Start(Task("evaluate", Inputs))
  /\ UNCHANGED << token, fields >>

\* Text that is no JSON fails before a request is made.
EvaluateNonsense ==
  /\ ready
  /\ Invalidate(token)
  /\ UNCHANGED << token, fields, pending >>

------------------------------------------------------------------------------
(* How requests and reads end *)

End(task) == pending' = pending \ {task}

\* Mutant: the page remembers only that something was asked.
CurrentOrLate(task) == task.generation =< epoch

Current(task) == task.generation = epoch

\* What came too late is ignored, whether it succeeded or failed.
Ignore(task) ==
  /\ ~Current(task)
  /\ UNCHANGED << token, fields, epoch, evaluation, ready >>

Identified(task) ==
  /\ task.kind = "me"
  /\ Current(task)
  /\ UNCHANGED << token, fields, epoch, evaluation, ready >>

\* A token that is refused disconnects.
Unidentified(task) ==
  /\ task.kind = "me"
  /\ Current(task)
  /\ token' = Nothing /\ fields' = Blank
  /\ Invalidate(Nothing)

Loaded(task) ==
  /\ task.kind = "file"
  /\ Current(task)
  /\ fields' = [fields EXCEPT ![task.what.field] = task.what.doc]
  /\ UNCHANGED << token, epoch, evaluation, ready >>

Evaluated(task) ==
  /\ task.kind = "evaluate"
  /\ Current(task)
  /\ evaluation' = task.what
  /\ ready' = (token # Nothing)
  /\ UNCHANGED << token, fields, epoch >>

\* Mutant: only an answer gives the button back.
KeepsButton(task) == UNCHANGED ready /\ task.kind = "evaluate"

\* finally { ... }
GivesButton(task) == ready' = (token # Nothing) /\ task.kind = "evaluate"

Failed(task) ==
  /\ Current(task)
  /\ \/ GivesButton(task)
     \/ task.kind = "file" /\ UNCHANGED ready
  /\ UNCHANGED << token, fields, epoch, evaluation >>

Ends(task) ==
  /\ \/ Ignore(task) \/ Identified(task) \/ Unidentified(task)
     \/ Loaded(task) \/ Evaluated(task) \/ Failed(task)
  /\ End(task)

ReleasePageNext ==
  \/ \E t \in Tokens : Login(t)
  \/ Disconnect
  \/ \E f \in Fields, doc \in Documents : Input(f, doc) \/ PickFile(f, doc)
  \/ Evaluate \/ EvaluateNonsense
  \/ \E task \in pending : Ends(task)

ReleasePageSpec ==
  /\ ReleasePageInit /\ [][ReleasePageNext]_releaseVars
  /\ WF_releaseVars(\E task \in pending : Ends(task))

------------------------------------------------------------------------------
(* Properties *)

\* A decision on display answers the contract, the receipts and the token
\* that the page has now, whatever was edited, loaded or asked in between
\* (invalidate, render).
DecisionIsOfInputs == evaluation # Nothing => evaluation = Inputs

Running == \E task \in pending : task.kind = "evaluate" /\ Current(task)

\* Every evaluation ends, if requests do: the button comes back or the page
\* is disconnected (the finally block of #evaluate).
ButtonComesBack == Running ~> (ready \/ token = Nothing)

==============================================================================
