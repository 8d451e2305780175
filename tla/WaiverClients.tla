---------------------------- MODULE WaiverClients ----------------------------
(***************************************************************************)
(* People at their browsers and command lines.  Each reads a waiver, looks *)
(* at it for as long as he likes while others work, and then acts with the *)
(* version number of what he read; only the version travels with the       *)
(* request (static/app.js, api.py), and Service._load refuses a stale one. *)
(***************************************************************************)
EXTENDS WaiverProperties

VARIABLE views  \* the waiver each actor has before him

clientVars == << vars, views >>

ClientInit == Init /\ views = [actor \in Principals |-> NoWaiver]

\* GET /api/waivers/{id}: any role, granted projects only.
Look(actor, id) ==
  /\ id \in Known
  /\ Granted(actor, waivers[id].scope.project)
  /\ views' = [views EXCEPT ![actor] = waivers[id]]
  /\ UNCHANGED vars

\* A request about the waiver on the screen; the answer is not shown until
\* the actor looks again.
Act(actor) ==
  /\ views[actor] # NoWaiver
  /\ Edit(actor, views[actor].id, views[actor].version)
  /\ UNCHANGED views

ClientNext ==
  \/ /\ NextDay \/ \E actor \in Principals : Start(actor)
     /\ UNCHANGED views
  \/ \E actor \in Principals : Act(actor) \/ \E id \in WaiverIds : Look(actor, id)

ClientSpec == ClientInit /\ [][ClientNext]_clientVars

------------------------------------------------------------------------------

\* Optimistic versions prevent lost updates: whoever changes a waiver had
\* exactly the value he replaces before him, however many others voted,
\* attached, amended or rebound since he looked.
NoLostUpdate ==
  [][\A id \in Known :
       waivers'[id] # waivers[id] =>
         \E actor \in Principals : views[actor] = waivers[id]]_clientVars

\* A vote is cast by someone who had the content it binds before him.
VotesWereInformed ==
  [][\A id \in Known :
       Len(waivers'[id].approvals) > Len(waivers[id].approvals) =>
         LET votes == waivers'[id].approvals
             vote == votes[Len(votes)] IN
         \E actor \in Principals :
           /\ actor.name = vote.actor
           /\ views[actor] # NoWaiver
           /\ ApprovalDigest(views[actor]) = vote.content_digest]_clientVars

\* A version number names one value of a waiver: a view with the current
\* version shows the current waiver.
VersionNamesValue ==
  \A actor \in Principals :
    views[actor] # NoWaiver =>
      LET w == waivers[views[actor].id] IN
      /\ views[actor].version =< w.version
      /\ views[actor].version = w.version => views[actor] = w

==============================================================================
