---------------------------- MODULE PhysicalPage -----------------------------
(***************************************************************************)
(* static/physical.js: the page that draws and compares retained geometry. *)
(* api() checks the generation when the head of a response arrives and     *)
(* then waits for its body, so there are two later moments at which the    *)
(* person may have disconnected.  What is shown is modelled by the request *)
(* that brought it; the two requests of an inspection, whose answers are   *)
(* used together, are one.                                                 *)
(***************************************************************************)
EXTENDS Browser

CONSTANT
  MaxClicks  \* bound on what the person does

VARIABLES
  access,      \* access
  generation,  \* generation
  asked,       \* inspection and comparison, by what is asked
  identity,    \* the token whose identity is shown
  suggested,   \* the tokens whose runs are suggested
  display,     \* what the drawings and the comparison show
  clicks,      \* how much the person did
  refused      \* something asked was refused, here or by the server

connection == << access, generation, asked, identity, suggested, display >>
physicalPageVars == << connection, pending, clicks, refused >>

Questions == {"inspection", "comparison"}

PhysicalPageInit ==
  /\ access = Nothing /\ generation = 0
  /\ asked = [q \in Questions |-> 0]
  /\ identity = Nothing /\ suggested = {}
  /\ display = [q \in Questions |-> Nothing]
  /\ pending = {} /\ clicks = 0 /\ refused = FALSE

Fetch(kind, token, epoch, number) ==
  [kind |-> kind, token |-> token, generation |-> epoch, number |-> number,
   id |-> clicks, stage |-> "head"]

Click == clicks < MaxClicks /\ clicks' = clicks + 1

------------------------------------------------------------------------------
(* What the person does *)

\* clear(), then the token entered, or none.
Reset(t) ==
  /\ access' = t /\ generation' = generation + 1
  /\ asked' = [q \in Questions |-> asked[q] + 1]
  /\ identity' = Nothing /\ suggested' = {}
  /\ display' = [q \in Questions |-> Nothing]
  /\ refused' = FALSE

SignIn(t) ==
  /\ Click /\ Reset(t)
  /\ pending' = pending \cup {Fetch("me", t, generation + 1, 0)}

SignOut == Click /\ Reset(Nothing) /\ UNCHANGED pending

\* Without a token api() throws before it asks.
AskFor(q) ==
  /\ Click
  /\ asked' = [asked EXCEPT ![q] = @ + 1]
  /\ IF access = Nothing
       THEN refused' = TRUE /\ UNCHANGED pending
       ELSE /\ pending' = pending \cup {Fetch(q, access, generation, asked[q] + 1)}
            /\ UNCHANGED refused
  /\ UNCHANGED << access, generation, identity, suggested, display >>

------------------------------------------------------------------------------
(* How requests end *)

\* A response of an earlier connection is discarded.
Head(f) ==
  /\ f.stage = "head" /\ f.generation = generation
  /\ pending' = (pending \ {f}) \cup {[f EXCEPT !.stage = "body"]}
  /\ UNCHANGED << connection, clicks, refused >>

Finishes(f) == f.stage = "body" /\ pending' = pending \ {f}

Recognised(f) ==
  /\ f.kind = "me" /\ f.stage = "body"
  /\ identity' = f.token
  /\ IF access = Nothing
       THEN refused' = TRUE /\ pending' = pending \ {f}
       ELSE /\ pending' = (pending \ {f}) \cup {[Fetch("runs", access, generation, 0) EXCEPT !.id = f.id]}
            /\ UNCHANGED refused
  /\ UNCHANGED << access, generation, asked, suggested, display, clicks >>

Suggest(f) ==
  /\ f.kind = "runs" /\ Finishes(f)
  /\ suggested' = suggested \cup {f.token}
  /\ UNCHANGED << access, generation, asked, identity, display, clicks, refused >>

\* Mutant: only the connection is compared.
AwaitedOrOlder(f) == f.generation = generation

\* Mutant: only the number of the question is compared, and clear() is
\* trusted to change it.
AwaitedAnywhere(f) == f.number =< asked[f.kind]

Awaited(f) == f.generation = generation /\ f.number = asked[f.kind]

AnswerFor(f) ==
  /\ f.kind \in Questions /\ Finishes(f)
  /\ display' = IF Awaited(f)
                  THEN [display EXCEPT ![f.kind] = [token |-> f.token, number |-> f.number]]
                  ELSE display
  /\ UNCHANGED << access, generation, asked, identity, suggested, clicks, refused >>

\* Refused, unreachable or discarded: guard() only reports it.
Fails(f) ==
  /\ pending' = pending \ {f}
  /\ refused' = (f.generation = generation \/ refused)
  /\ UNCHANGED << connection, clicks >>

PhysicalPageNext ==
  \/ \E t \in Tokens : SignIn(t)
  \/ SignOut
  \/ \E q \in Questions : AskFor(q)
  \/ \E f \in pending : Head(f) \/ Recognised(f) \/ Suggest(f) \/ AnswerFor(f) \/ Fails(f)

PhysicalPageSpec == PhysicalPageInit /\ [][PhysicalPageNext]_physicalPageVars

------------------------------------------------------------------------------
(* Properties *)

\* Geometry and comparisons on display were read with the token in use: an
\* answer that was on its way when the person disconnected is not drawn.
EvidenceIsOfConnection ==
  \A q \in Questions : display[q] # Nothing => display[q].token = access

\* Once everything asked for has been answered, the drawings and the
\* comparison are those asked for last, in whatever order answers came.
LastAskedIsShown ==
  pending = {} /\ ~refused =>
    \A q \in Questions : display[q] # Nothing => display[q].number = asked[q]

\* What is drawn is of this connection and of the last request.
EvidenceIsCurrent == EvidenceIsOfConnection /\ LastAskedIsShown

\* docs/V0.3.md: "Tokens stay in memory; disconnect clears the evidence view",
\* and the page then says "evidence and token cleared".
DisconnectClears ==
  access = Nothing => /\ identity = Nothing /\ suggested = {}
                      /\ \A q \in Questions : display[q] = Nothing

==============================================================================
