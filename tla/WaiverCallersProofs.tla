------------------------- MODULE WaiverCallersProofs --------------------------
(***************************************************************************)
(* What a caller saw is what his action changes.  Optimistic versions, for *)
(* any number of people and waivers, and reviewed plans, for plans of any  *)
(* length and any operations between preview and application.              *)
(***************************************************************************)
EXTENDS WaiverClients, ReviewPlans, WaiverLifecycleProofs

------------------------------------------------------------------------------
(* People and the versions they have seen *)

\* What an operation on one waiver does to the others: nothing.
LEMMA EditsOne ==
  ASSUME TypeOK, BaselineIsImported, NEW actor \in Principals,
         NEW i, NEW version, Edit(actor, i, version)
  PROVE  /\ i \in Known /\ waivers[i].version = version
         /\ \A id \in Known \ {i} : waivers'[id] = waivers[id]
<1> DEFINE Others == \A id \in Known \ {i} : waivers'[id] = waivers[id]
<1>1. i \in Known /\ waivers[i].version = version
  BY DEF Edit, Amend, Attach, Submit, Review, Revoke, Rebind, Loads
<1>2. waivers[i] \in Waiver /\ waivers[i].id = i
  BY <1>1 DEF BaselineIsImported, TypeOK, Known
<1>3. ASSUME NEW w, w.id = i, Save(w)
      PROVE  Others
  BY <1>3 DEF Save, TypeOK, Known
<1>4. ASSUME NEW t \in Offers, Amend(actor, i, version, t)
      PROVE  Others
  <2>1. Revised(waivers[i], t).id = i
    BY <1>2 DEF Revised, Waiver, WaiverRecord
  <2> QED
    BY <1>3, <1>4, <2>1 DEF Amend
<1>5. ASSUME NEW blob \in Blobs, Attach(actor, i, version, blob)
      PROVE  Others
  <2>1. WithEvidence(waivers[i], blob).id = i
    BY <1>2 DEF WithEvidence, Waiver, WaiverRecord
  <2> QED
    BY <1>3, <1>5, <2>1 DEF Attach
<1>6. ASSUME Submit(actor, i, version)
      PROVE  Others
  <2>1. [waivers[i] EXCEPT !.status = "submitted", !.approvals = << >>].id = i
    BY <1>2 DEF Waiver, WaiverRecord
  <2> QED
    BY <1>3, <1>6, <2>1 DEF Submit
<1>7. ASSUME NEW decision \in Decisions, Review(actor, i, version, decision)
      PROVE  Others
  <2>1. Reviewed(waivers[i], Vote(actor, waivers[i], decision)).id = i
    BY <1>2 DEF Reviewed, Waiver, WaiverRecord
  <2> QED
    BY <1>3, <1>7, <2>1 DEF Review
<1>8. ASSUME NEW comment \in Words, Revoke(actor, i, version, comment)
      PROVE  Others
  <2>1. Revoked(waivers[i], comment).id = i
    BY <1>2 DEF Revoked, Waiver, WaiverRecord
  <2> QED
    BY <1>3, <1>8, <2>1 DEF Revoke
<1>9. ASSUME NEW r \in runs, NEW v \in r.violations, Rebind(actor, i, version, r, v)
      PROVE  Others
  <2>1. Rebound(waivers[i], r, v).id = i
    BY <1>2 DEF Rebound, Waiver, WaiverRecord
  <2> QED
    BY <1>3, <1>9, <2>1 DEF Rebind
<1> QED
  BY <1>1, <1>4, <1>5, <1>6, <1>7, <1>8, <1>9 DEF Edit

\* An import of a run or a proposal, or a new policy, changes no waiver there is.
LEMMA StartsNone ==
  ASSUME TypeOK, NEW actor \in Principals, Start(actor), NEW id \in Known
  PROVE  waivers'[id] = waivers[id]
<1>1. ASSUME NEW r \in Reports, ImportRun(actor, r)
      PROVE  waivers'[id] = waivers[id]
  BY <1>1 DEF ImportRun
<1>2. ASSUME NEW x \in WaiverIds, NEW r \in runs, NEW t \in Offers,
             NEW v \in r.violations,
             Propose(actor, x, r, v, t) \/ ImportProposal(actor, x, r, v, t)
      PROVE  waivers'[id] = waivers[id]
  BY <1>2, EnterCases, EnterEffect
<1>3. ASSUME NEW p \in Policies, SetPolicy(actor, p)
      PROVE  waivers'[id] = waivers[id]
  BY <1>3 DEF SetPolicy
<1> QED
  BY <1>1, <1>2, <1>3 DEF Start

\* A request is an operation of the service, whatever the screen showed.
LEMMA ClientStep ==
  ASSUME TypeOK, [ClientNext]_clientVars
  PROVE  [Next]_vars
<1>1. ASSUME NEW actor \in Principals, NEW i, NEW version, Edit(actor, i, version)
      PROVE  i \in WaiverIds /\ version \in 1 .. MaxVersion
  <2>1. /\ i \in Known /\ waivers[i].version = version
        /\ \E w : w.version = version /\ w.version < MaxVersion
    <3>1. i \in Known /\ waivers[i].version = version
      BY <1>1 DEF Edit, Amend, Attach, Submit, Review, Revoke, Rebind, Loads
    <3>2. waivers[i] \in Waiver
      BY <3>1 DEF Known, TypeOK
    <3>3. \E w : w.version = waivers[i].version /\ Save(w)
      BY <1>1, <3>2 DEF Edit, Amend, Attach, Submit, Review, Revoke, Rebind,
        Revised, WithEvidence, Reviewed, Revoked, Rebound, Waiver, WaiverRecord
    <3> QED
      BY <3>1, <3>3 DEF Save
  <2>2. waivers[i].version \in Nat \ {0} /\ i \in WaiverIds
    BY <2>1 DEF Known, TypeOK, Waiver, WaiverRecord
  <2> QED
    BY <2>1, <2>2, BoundAssumption
<1>2. ASSUME NEW actor \in Principals, Act(actor)
      PROVE  Next
  BY <1>1, <1>2 DEF Act, Next, Operation
<1> QED
  BY <1>2 DEF ClientNext, clientVars, Next, Operation, Look, vars

\* What people do at their browsers are histories of the service.
THEOREM ClientsImplementLifecycle == ClientSpec => Spec
<1>1. ClientInit => Init /\ TypeOK
  BY PolicyAssumption DEF ClientInit, Init, TypeOK
<1>2. TypeOK /\ [ClientNext]_clientVars => [Next]_vars
  BY ClientStep
<1>3. TypeOK /\ [Next]_vars => TypeOK'
  BY TypeStep
<1> QED
  BY <1>1, <1>2, <1>3, PTL DEF ClientSpec, Spec

------------------------------------------------------------------------------
(* What is on a screen *)

\* A screen shows some version of a known waiver, the present value if it is
\* the present version.
ShowsVersion(s) ==
  s # NoWaiver =>
    /\ s \in Waiver /\ s.id \in Known
    /\ s.version =< waivers[s.id].version
    /\ s.version = waivers[s.id].version => s = waivers[s.id]

ScreensTrue == /\ DOMAIN views = Principals
               /\ \A actor \in Principals : ShowsVersion(views[actor])

\* Whatever the service does, no screen becomes wrong.
LEMMA ScreenStays ==
  ASSUME TypeOK, BaselineIsImported, [Next]_vars, NEW s, ShowsVersion(s)
  PROVE  ShowsVersion(s)'
<1> SUFFICES ASSUME s # NoWaiver
             PROVE  /\ s.id \in Known'
                    /\ s.version =< waivers'[s.id].version
                    /\ s.version = waivers'[s.id].version => s = waivers'[s.id]
  BY DEF ShowsVersion
<1>1. /\ s \in Waiver /\ s.id \in Known
      /\ s.version =< waivers[s.id].version
      /\ s.version = waivers[s.id].version => s = waivers[s.id]
  BY DEF ShowsVersion
<1>2. waivers[s.id] \in Waiver
  BY <1>1 DEF Known, TypeOK
<1>3. s.version \in Nat /\ waivers[s.id].version \in Nat
  BY <1>1, <1>2 DEF Waiver, WaiverRecord
<1>4. /\ s.id \in Known'
      /\ \/ waivers'[s.id] = waivers[s.id]
         \/ waivers'[s.id].version = waivers[s.id].version + 1
  <2>1. s.id \in Known'
    BY <1>1, WhatChanges
  <2>2. ASSUME NEW x, Edited(s.id, x), waivers'[s.id] = [x EXCEPT !.version = x.version + 1]
        PROVE  waivers'[s.id].version = waivers[s.id].version + 1
    BY <2>2 DEF Edited, Continues, Waiver, WaiverRecord
  <2> QED
    BY <1>1, <2>1, <2>2, WhatChanges
<1> QED
  BY <1>1, <1>3, <1>4

\* No client step makes a screen wrong, a look included.
LEMMA ScreensStay ==
  ASSUME TypeOK, BaselineIsImported, ScreensTrue, [ClientNext]_clientVars
  PROVE  ScreensTrue'
<1>1. [Next]_vars
  BY ClientStep
<1>2. CASE views' = views
  <2>1. ASSUME NEW actor \in Principals
        PROVE  ShowsVersion(views[actor])'
    <3>1. PICK s : s = views[actor]
      OBVIOUS
    <3>2. ShowsVersion(s)
      BY <3>1 DEF ScreensTrue
    <3>3. ShowsVersion(s)'
      BY <1>1, <3>2, ScreenStays
    <3>4. views'[actor] = s
      BY <1>2, <3>1
    <3> QED
      BY <3>3, <3>4 DEF ShowsVersion
  <2> QED
    BY <1>2, <2>1 DEF ScreensTrue
<1>3. ASSUME NEW actor \in Principals, NEW id \in WaiverIds, Look(actor, id)
      PROVE  ScreensTrue'
  <2>1. /\ id \in Known /\ waivers' = waivers
        /\ views' = [views EXCEPT ![actor] = waivers[id]]
    BY <1>3 DEF Look, vars
  <2>2. waivers[id] \in Waiver /\ waivers[id].id = id
    BY <2>1 DEF BaselineIsImported, Known, TypeOK
  <2>3. waivers[id].version \in Nat
    BY <2>2 DEF Waiver, WaiverRecord
  <2>4. ShowsVersion(waivers[id])
    BY <2>1, <2>2, <2>3 DEF ShowsVersion
  <2>5. ASSUME NEW a \in Principals
        PROVE  ShowsVersion(views[a])'
    <3>1. PICK s : s = views'[a]
      OBVIOUS
    <3>2. ShowsVersion(s)
      BY <2>1, <2>4, <3>1 DEF ScreensTrue
    <3>3. ShowsVersion(s)'
      BY <2>1, <3>2 DEF ShowsVersion, Known
    <3> QED
      BY <3>1, <3>3 DEF ShowsVersion
  <2> QED
    BY <2>1, <2>5 DEF ScreensTrue
<1> QED
  BY <1>2, <1>3 DEF ClientNext, Act, clientVars

\* ScreensTrue holds of every history of the clients.
LEMMA ScreensInvariant == ClientSpec => [](TypeOK /\ BaselineIsImported /\ ScreensTrue)
<1>1. ClientInit => ScreensTrue
  BY DEF ClientInit, ScreensTrue, ShowsVersion
<1>2. TypeOK /\ BaselineIsImported /\ ScreensTrue /\ [ClientNext]_clientVars => ScreensTrue'
  BY ScreensStay
<1> QED
  BY <1>1, <1>2, ClientsImplementLifecycle, TypeCorrect, BaselineKept, PTL DEF ClientSpec

------------------------------------------------------------------------------
(* Properties *)

\* A view with the current version shows the current waiver, however long
\* ago it was read.
THEOREM VersionsName == ClientSpec => []VersionNamesValue
<1>1. ScreensTrue => VersionNamesValue
  BY DEF ScreensTrue, ShowsVersion, VersionNamesValue
<1> QED
  BY <1>1, ScreensInvariant, PTL

\* Whoever changes a waiver acts on it with its present value on his screen.
LEMMA ChangedByActor ==
  ASSUME TypeOK, BaselineIsImported, ScreensTrue, ClientNext,
         NEW id \in Known, waivers'[id] # waivers[id]
  PROVE  \E actor \in Principals :
           /\ views[actor] = waivers[id] /\ waivers[id] # NoWaiver
           /\ Edit(actor, id, waivers[id].version)
<1>1. PICK actor \in Principals : Act(actor)
  BY StartsNone DEF ClientNext, NextDay, Look, vars
<1> DEFINE s == views[actor]
<1>2. s # NoWaiver /\ Edit(actor, s.id, s.version)
  BY <1>1 DEF Act
<1>3. s.id \in Known /\ waivers[s.id].version = s.version /\ s.id = id
  BY <1>2, EditsOne
<1>4. s = waivers[id]
  BY <1>2, <1>3 DEF ScreensTrue, ShowsVersion
<1>5. waivers[id].id = id
  BY DEF BaselineIsImported
<1> QED
  BY <1>2, <1>3, <1>4, <1>5

\* No update is lost: whoever replaces the value of a waiver has that value
\* before him.
THEOREM UpdatesKept == ClientSpec => NoLostUpdate
<1>1. TypeOK /\ BaselineIsImported /\ ScreensTrue /\ [ClientNext]_clientVars
      => [\A id \in Known :
            waivers'[id] # waivers[id] =>
              \E actor \in Principals : views[actor] = waivers[id]]_clientVars
  BY ChangedByActor
<1> QED
  BY <1>1, ScreensInvariant, PTL DEF ClientSpec, NoLostUpdate

\* The only operation that adds a vote is that of the one who casts it.
LEMMA VoteCast ==
  ASSUME TypeOK, BaselineIsImported, NEW actor \in Principals, NEW id \in Known,
         NEW version, Edit(actor, id, version),
         Len(waivers'[id].approvals) > Len(waivers[id].approvals)
  PROVE  LET votes == waivers'[id].approvals
             vote == votes[Len(votes)] IN
         /\ vote.actor = actor.name
         /\ vote.content_digest = ApprovalDigest(waivers[id])
<1> DEFINE w == waivers[id]
           cast == waivers'[id].approvals
<1>1. w \in Waiver /\ w.id = id /\ id \in WaiverIds
  BY DEF BaselineIsImported, Known, TypeOK
<1>2. w.approvals \in Seq(Approval)
  BY <1>1 DEF Waiver, WaiverRecord
<1>3. ASSUME NEW x \in Waiver, x.id = id, Save(x)
      PROVE  cast = x.approvals
  <2>1. waivers'[id] = [x EXCEPT !.version = x.version + 1]
    BY <1>1, <1>3 DEF Save, TypeOK
  <2> QED
    BY <2>1 DEF Waiver, WaiverRecord
<1>4. cast # << >> /\ cast # w.approvals
  BY <1>2
<1> HIDE DEF cast
<1>5. ~ \E t \in Offers : Amend(actor, id, version, t)
  <2> SUFFICES ASSUME NEW t \in Offers, Amend(actor, id, version, t) PROVE FALSE
    OBVIOUS
  <2> DEFINE x == Revised(w, t)
  <2>1. x \in Waiver /\ Save(x)
    BY <1>1, RevisedType, OfferAssumption DEF Amend
  <2>2. x.id = id /\ x.approvals = << >>
    BY <1>1 DEF Revised, Waiver, WaiverRecord
  <2> QED
    BY <1>3, <1>4, <2>1, <2>2
<1>6. ~ \E blob \in Blobs : Attach(actor, id, version, blob)
  <2> SUFFICES ASSUME NEW blob \in Blobs, Attach(actor, id, version, blob) PROVE FALSE
    OBVIOUS
  <2> DEFINE x == WithEvidence(w, blob)
  <2>1. x \in Waiver /\ Save(x)
    BY <1>1, EvidenceType DEF Attach
  <2>2. x.id = id /\ x.approvals = << >>
    BY <1>1 DEF WithEvidence, Waiver, WaiverRecord
  <2> QED
    BY <1>3, <1>4, <2>1, <2>2
<1>7. ~ Submit(actor, id, version)
  <2> SUFFICES ASSUME Submit(actor, id, version) PROVE FALSE
    OBVIOUS
  <2> DEFINE x == [w EXCEPT !.status = "submitted", !.approvals = << >>]
  <2>1. x \in Waiver /\ Save(x)
    BY <1>1, SubmittedType DEF Submit
  <2>2. x.id = id /\ x.approvals = << >>
    BY <1>1 DEF Waiver, WaiverRecord
  <2> QED
    BY <1>3, <1>4, <2>1, <2>2
<1>8. ~ \E comment \in Words : Revoke(actor, id, version, comment)
  <2> SUFFICES ASSUME NEW comment \in Words, Revoke(actor, id, version, comment) PROVE FALSE
    OBVIOUS
  <2> DEFINE x == Revoked(w, comment)
  <2>1. x \in Waiver /\ Save(x)
    BY <1>1, RevokedType DEF Revoke
  <2>2. x.id = id /\ x.approvals = w.approvals
    BY <1>1 DEF Revoked, Waiver, WaiverRecord
  <2> QED
    BY <1>3, <1>4, <2>1, <2>2
<1>9. ~ \E r \in runs : \E v \in r.violations : Rebind(actor, id, version, r, v)
  <2> SUFFICES ASSUME NEW r \in runs, NEW v \in r.violations,
                      Rebind(actor, id, version, r, v)
               PROVE  FALSE
    OBVIOUS
  <2> DEFINE x == Rebound(w, r, v)
  <2>1. x \in Waiver /\ Save(x)
    BY <1>1, ReboundType DEF Rebind, TypeOK
  <2>2. x.id = id /\ x.approvals = << >>
    BY <1>1 DEF Rebound, Waiver, WaiverRecord
  <2> QED
    BY <1>3, <1>4, <2>1, <2>2
<1>10. PICK decision \in Decisions : Review(actor, id, version, decision)
  BY <1>5, <1>6, <1>7, <1>8, <1>9 DEF Edit
<1> DEFINE vote == Vote(actor, w, decision)
           x == Reviewed(w, vote)
<1>11. x \in Waiver /\ Save(x)
  BY <1>1, <1>10, ReviewedType, PrincipalAssumption DEF Review
<1>12. x.id = id /\ x.approvals = Append(w.approvals, vote)
  BY <1>1 DEF Reviewed, Waiver, WaiverRecord
<1>13. cast = Append(w.approvals, vote)
  BY <1>3, <1>11, <1>12
<1>14. vote \in Approval
  BY <1>1, <1>10, DigestType, PrincipalAssumption DEF Vote, Approval, Principal, Review
<1> HIDE DEF vote
<1>15. cast[Len(cast)] = vote
  BY <1>2, <1>13, <1>14
<1> QED
  BY <1>15 DEF vote, Vote, cast

\* A vote is cast by one who had the content it binds before him.
THEOREM VotesInformed == ClientSpec => VotesWereInformed
<1> DEFINE Informed(id) ==
      Len(waivers'[id].approvals) > Len(waivers[id].approvals) =>
        LET votes == waivers'[id].approvals
            vote == votes[Len(votes)] IN
        \E actor \in Principals :
          /\ actor.name = vote.actor
          /\ views[actor] # NoWaiver
          /\ ApprovalDigest(views[actor]) = vote.content_digest
<1>1. ASSUME TypeOK, BaselineIsImported, ScreensTrue, ClientNext, NEW id \in Known
      PROVE  Informed(id)
  <2> SUFFICES ASSUME Len(waivers'[id].approvals) > Len(waivers[id].approvals)
               PROVE  Informed(id)
    OBVIOUS
  <2>1. waivers[id].approvals \in Seq(Approval)
    BY <1>1 DEF Known, TypeOK, Waiver, WaiverRecord
  <2>2. waivers'[id] # waivers[id]
    BY <2>1
  <2>3. PICK actor \in Principals :
          /\ views[actor] = waivers[id] /\ waivers[id] # NoWaiver
          /\ Edit(actor, id, waivers[id].version)
    BY <1>1, <2>2, ChangedByActor
  <2> QED
    BY <1>1, <2>3, VoteCast
<1>2. TypeOK /\ BaselineIsImported /\ ScreensTrue /\ [ClientNext]_clientVars
      => [\A id \in Known : Informed(id)]_clientVars
  BY <1>1
<1> QED
  BY <1>2, ScreensInvariant, PTL DEF ClientSpec, VotesWereInformed

------------------------------------------------------------------------------
(* Plans.  A plan writes several waivers at once, so a history with plans  *)
(* is no history of the lifecycle alone: the invariants of the stored      *)
(* waivers are proved again for the step that applies one.                 *)

------------------------------------------------------------------------------
(* What is applied was previewed *)

\* A sequence that grows keeps its entries.
LEMMA Longer ==
  ASSUME NEW S, NEW s \in Seq(S), NEW e
  PROVE  /\ Append(s, e) \in Seq(S \cup {e})
         /\ DOMAIN Append(s, e) = DOMAIN s \cup {Len(s) + 1}
         /\ Len(s) + 1 \notin DOMAIN s
         /\ Append(s, e)[Len(s) + 1] = e
         /\ \A i \in DOMAIN s : Append(s, e)[i] = s[i]
<1>1. Len(s) \in Nat /\ DOMAIN s = 1 .. Len(s)
  OBVIOUS
<1>2. s \in Seq(S \cup {e}) /\ e \in S \cup {e}
  OBVIOUS
<1>3. Append(s, e) \in Seq(S \cup {e})
  BY <1>2
<1>4. Len(Append(s, e)) = Len(s) + 1
  BY <1>2
<1>5. DOMAIN Append(s, e) = 1 .. Len(s) + 1
  BY <1>3, <1>4
<1>6. 1 .. Len(s) + 1 = (1 .. Len(s)) \cup {Len(s) + 1}
  BY <1>1
<1> QED
  BY <1>1, <1>2, <1>3, <1>5, <1>6

\* A preview belongs to the database of its head for as long as that is the
\* head; what was applied is older than the head.
HeadInv ==
  /\ head \in Nat
  /\ \A p \in previews :
       /\ p = [preview |-> p.preview, of |-> p.of]
       /\ p.preview.plan.head \in Nat /\ p.preview.plan.head =< head
       /\ p.preview.plan.head = head => p.of = Database
  /\ \E S : applied \in Seq(S)
  /\ \A i \in DOMAIN applied :
       applied[i].preview.plan.head \in Nat /\ applied[i].preview.plan.head < head

PreviewInv == HeadInv /\ AppliedAsPreviewed

\* A preview records the plan, who asked for it and the present database.
LEMMA PreviewStep ==
  ASSUME PreviewInv, NEW actor, NEW plan, NEW ids, Preview(actor, plan, ids)
  PROVE  PreviewInv'
<1> DEFINE new == [preview |-> PreviewOf(actor, plan, ids), of |-> Database]
<1>1. /\ previews' = previews \cup {new} /\ head' = head /\ applied' = applied
      /\ Database' = Database
  BY DEF Preview, Database, vars
<1>2. plan.head = head /\ PreviewOf(actor, plan, ids).plan = plan
  BY DEF Preview, Prepared, UnchangedSince, PreviewOf
<1>3. /\ new = [preview |-> new.preview, of |-> new.of]
      /\ new.preview.plan = plan /\ new.of = Database
  BY <1>2
<1> HIDE DEF new, Database
<1> QED
  BY <1>1, <1>2, <1>3 DEF PreviewInv, HeadInv, AppliedAsPreviewed

\* A plan that is applied still has the head of its preview, so nothing came
\* between.
LEMMA ApplyStep ==
  ASSUME PreviewInv, NEW actor, NEW plan, NEW ids, NEW q \in previews,
         Apply(actor, plan, ids, q.preview)
  PROVE  PreviewInv'
<1> DEFINE shown == PreviewOf(actor, plan, ids)
           entry == [preview |-> shown, actor |-> actor.name, of |-> Database]
<1>1. /\ applied' = Append(applied, entry) /\ head' = head + 1
      /\ previews' = previews /\ q.preview = shown
  BY DEF Apply, Confirms
<1>2. plan.head = head /\ shown.plan = plan /\ shown.actor = actor.name
  BY DEF Apply, Prepared, UnchangedSince, PreviewOf
<1>3. /\ entry.preview = shown /\ entry.actor = actor.name /\ entry.of = Database
  OBVIOUS
<1> HIDE DEF shown, entry, Database
<1>4. q = [preview |-> shown, of |-> Database]
  BY <1>1, <1>2 DEF PreviewInv, HeadInv
<1>5. PICK S : applied \in Seq(S)
  BY DEF PreviewInv, HeadInv
<1>6. /\ applied' \in Seq(S \cup {entry})
      /\ DOMAIN applied' = DOMAIN applied \cup {Len(applied) + 1}
      /\ applied'[Len(applied) + 1] = entry
      /\ \A i \in DOMAIN applied : applied'[i] = applied[i]
  BY <1>1, <1>5, Longer
<1>7. HeadInv'
  <2>1. head' \in Nat
    BY <1>1 DEF PreviewInv, HeadInv
  <2>2. ASSUME NEW p \in previews
        PROVE  /\ p = [preview |-> p.preview, of |-> p.of]
               /\ p.preview.plan.head \in Nat /\ p.preview.plan.head =< head'
               /\ p.preview.plan.head # head'
    BY <1>1 DEF PreviewInv, HeadInv
  <2>3. ASSUME NEW i \in DOMAIN applied'
        PROVE  applied'[i].preview.plan.head \in Nat /\ applied'[i].preview.plan.head < head'
    BY <1>1, <1>2, <1>3, <1>6 DEF PreviewInv, HeadInv
  <2> QED
    BY <1>1, <1>6, <2>1, <2>2, <2>3 DEF HeadInv
<1>8. ASSUME NEW i \in DOMAIN applied'
      PROVE  /\ applied'[i].actor = applied'[i].preview.actor
             /\ [preview |-> applied'[i].preview, of |-> applied'[i].of] \in previews'
  BY <1>1, <1>2, <1>3, <1>4, <1>6 DEF PreviewInv, AppliedAsPreviewed
<1>9. ASSUME NEW i \in DOMAIN applied
      PROVE  applied[i].preview.plan # plan
  BY <1>2 DEF PreviewInv, HeadInv
<1> QED
  BY <1>2, <1>3, <1>6, <1>7, <1>8, <1>9 DEF PreviewInv, AppliedAsPreviewed

\* Every commit moves the head, and the calendar is no part of the database.
LEMMA OtherStep ==
  ASSUME PreviewInv, UNCHANGED << previews, applied >>,
         \/ head' = head + 1
         \/ head' = head /\ Database' = Database
  PROVE  PreviewInv'
<1>1. CASE head' = head + 1
  BY <1>1 DEF PreviewInv, HeadInv, AppliedAsPreviewed
<1>2. CASE head' = head /\ Database' = Database
  <2> HIDE DEF Database
  <2> QED
    BY <1>2 DEF PreviewInv, HeadInv, AppliedAsPreviewed
<1> QED
  BY <1>1, <1>2

\* PreviewInv holds in every history with plans.
LEMMA PreviewInvariant == PlanSpec => []PreviewInv
<1>1. PlanInit => PreviewInv
  <2>1. << >> \in Seq({}) /\ DOMAIN << >> = {}
    OBVIOUS
  <2> QED
    BY <2>1 DEF PlanInit, PreviewInv, HeadInv, AppliedAsPreviewed
<1>2. PreviewInv /\ [PlanNext]_planVars => PreviewInv'
  <2> SUFFICES ASSUME PreviewInv, [PlanNext]_planVars
               PROVE  PreviewInv'
    OBVIOUS
  <2>1. CASE UNCHANGED planVars
    BY <2>1, OtherStep DEF planVars, vars, Database
  <2>2. CASE NextDay /\ UNCHANGED << head, previews, applied >>
    BY <2>2, OtherStep DEF NextDay, Database
  <2>3. ASSUME NEW actor, head' = head + 1, UNCHANGED << previews, applied >>
        PROVE  PreviewInv'
    BY <2>3, OtherStep
  <2>4. ASSUME NEW actor, PlanStep(actor)
        PROVE  PreviewInv'
    BY <2>4, PreviewStep, ApplyStep DEF PlanStep
  <2> QED
    BY <2>1, <2>2, <2>3, <2>4 DEF PlanNext
<1> QED
  BY <1>1, <1>2, PTL DEF PlanSpec

\* A plan is applied once, by the person it was previewed for, as previewed,
\* to the very database the preview was computed from.
THEOREM PlansApplyAsPreviewed == PlanSpec => []AppliedAsPreviewed
<1>1. PreviewInv => AppliedAsPreviewed
  BY DEF PreviewInv
<1> QED
  BY <1>1, PreviewInvariant, PTL

------------------------------------------------------------------------------
(* Plans and previews are well formed *)

PlanTyped(plan) ==
  /\ plan.created_at \in Nat
  /\ \A k \in DOMAIN plan.ops : plan.ops[k].terms \in Terms

PreviewTyped(preview) ==
  /\ PlanTyped(preview.plan)
  /\ DOMAIN preview.changes = DOMAIN preview.plan.ops
  /\ \A k \in DOMAIN preview.changes : preview.changes[k].after.id \in WaiverIds

PreviewsTyped == \A p \in previews : PreviewTyped(p.preview)

\* Whoever writes a plan fills it with terms he may offer.
LEMMA DraftTyped ==
  ASSUME TypeOK, NEW plan \in Drafts
  PROVE  PlanTyped(plan)
<1> DEFINE amendments == {AmendOperation(t, waivers[id]) : t \in Offers, id \in Known}
           proposals == UNION {{ProposeOperation(t, v, r) :
                                  t \in Offers, v \in r.violations} : r \in runs}
<1>1. PICK n \in 1 .. MaxOperations, d \in 0 .. today :
        plan.created_at = d /\ plan.ops \in [1 .. n -> amendments \cup proposals]
  BY DEF Drafts
<1>2. plan.created_at \in Nat
  BY <1>1 DEF TypeOK
<1>3. ASSUME NEW op \in amendments \cup proposals
      PROVE  op.terms \in Terms
  <2>1. CASE op \in amendments
    BY <2>1, OfferAssumption DEF AmendOperation
  <2>2. CASE op \in proposals
    BY <2>2, OfferAssumption DEF ProposeOperation
  <2> QED
    BY <2>1, <2>2
<1> HIDE DEF amendments, proposals
<1> QED
  BY <1>1, <1>2, <1>3 DEF PlanTyped

------------------------------------------------------------------------------
(* What an operation of a plan writes *)

\* An imported run is valid and has an identifier of its own.
RunsDistinct ==
  \A r, s \in runs : r.id = s.id => r = s

RunsValid == \A r \in runs : ValidRun(r)

\* A proposal names one finding.
LEMMA NamedOnce ==
  ASSUME RunsDistinct, RunsValid, NEW op, NEW rv \in Named(op), NEW su \in Named(op)
  PROVE  /\ rv[1] \in runs /\ rv[2] \in rv[1].violations
         /\ Fingerprint(rv[2]) = op.expected_fingerprint
         /\ rv[1] = su[1] /\ rv[2] = su[2]
BY DEF Named, RunsDistinct, RunsValid, ValidRun

\* y continues the live waiver id on its target, or starts a waiver on a
\* target that no live one has.
OnTarget(id, y) ==
  \/ /\ id \in Known /\ waivers[id].status # "revoked"
     /\ y.scope = waivers[id].scope /\ y.fingerprint = waivers[id].fingerprint
  \/ id \notin Known /\ ~Taken(id, y.scope, y.fingerprint)

\* y is a draft of id, anchored in an imported run.
AnchoredDraft(id, y) ==
  /\ y \in Waiver /\ y.id = id
  /\ y.status = "proposed" /\ y.approvals = << >>
  /\ y.valid_revision \in {None, y.baseline_revision}
  /\ y.fingerprint = Fingerprint(y.target)
  /\ \E r \in runs : BasedOn(y, r)

\* What applying a plan writes is prepared under these circumstances.
Preparing(actor, plan, ids) ==
  /\ TypeOK /\ BaselineIsImported /\ RunsDistinct /\ RunsValid
  /\ actor \in Principals
  /\ PlanTyped(plan) /\ ids \in [DOMAIN plan.ops -> WaiverIds]
  /\ Prepared(actor, plan, ids)

\* An amendment of a plan is a draft of the waiver it amends.
LEMMA AmendmentPlanned ==
  ASSUME NEW actor, NEW plan, NEW ids, Preparing(actor, plan, ids),
         NEW k \in DOMAIN plan.ops, plan.ops[k].action = "amend"
  PROVE  LET w == waivers[ids[k]]
             y == Planned(actor, plan, k, ids[k]) IN
         /\ AnchoredDraft(ids[k], y) /\ OnTarget(ids[k], y)
         /\ y.version = w.version /\ ids[k] \in Known
<1> DEFINE op == plan.ops[k]
           id == ids[k]
           w == waivers[id]
           y == Planned(actor, plan, k, id)
<1>1. MayAmend(actor, plan, op, id)
  BY DEF Preparing, Prepared
<1>2. id \in Known /\ w \in Waiver /\ w.id = id /\ w.status # "revoked"
  BY <1>1, LoadedType DEF MayAmend, Loads, Preparing, BaselineIsImported
<1>3. y = Revised(w, op.terms) /\ op.terms \in Terms
  BY <1>1 DEF Planned, MayAmend, Preparing, PlanTyped
<1>4. y \in Waiver /\ SameTarget(w, y)
  BY <1>2, <1>3, RevisedType
<1>5. y.status = "proposed" /\ y.approvals = << >> /\ y.version = w.version
  BY <1>2, <1>3 DEF Revised, Waiver, WaiverRecord
<1>6. y.valid_revision \in {None, y.baseline_revision}
  BY DEF Preparing, Prepared, WithinBounds
<1>7. /\ w.fingerprint = Fingerprint(w.target)
      /\ \E r \in runs : BasedOn(w, r)
  BY <1>2 DEF Preparing, BaselineIsImported
<1> HIDE DEF y, w
<1>8. AnchoredDraft(id, y)
  BY <1>2, <1>4, <1>5, <1>6, <1>7 DEF AnchoredDraft, SameTarget, BasedOn
<1>9. OnTarget(id, y)
  BY <1>2, <1>4 DEF OnTarget, SameTarget, w
<1> QED
  BY <1>2, <1>5, <1>8, <1>9 DEF w, y

\* A proposal of a plan is a draft for the finding it names.
LEMMA ProposalPlanned ==
  ASSUME NEW actor, NEW plan, NEW ids, Preparing(actor, plan, ids),
         NEW k \in DOMAIN plan.ops, plan.ops[k].action = "propose"
  PROVE  LET y == Planned(actor, plan, k, ids[k]) IN
         /\ AnchoredDraft(ids[k], y) /\ OnTarget(ids[k], y)
         /\ ids[k] \notin Known
         /\ \E rv \in Named(plan.ops[k]) :
              y.scope = rv[1].scope /\ y.fingerprint = Fingerprint(rv[2])
<1> DEFINE op == plan.ops[k]
           id == ids[k]
           named == CHOOSE rv \in Named(op) : TRUE
           y == Planned(actor, plan, k, id)
<1>1. MayPropose(actor, plan, op, id)
  BY DEF Preparing, Prepared
<1>2. PICK rv \in Named(op) : ~Taken(id, rv[1].scope, op.expected_fingerprint)
  BY <1>1 DEF MayPropose
<1>3. named \in Named(op)
  BY <1>2
<1> DEFINE r == named[1]
           v == named[2]
<1>4. /\ r \in runs /\ v \in r.violations
      /\ Fingerprint(v) = op.expected_fingerprint /\ r = rv[1]
  BY <1>2, <1>3, NamedOnce DEF Preparing
<1>5. /\ op.terms \in Terms /\ plan.created_at \in Nat /\ id \in WaiverIds
      /\ r \in Run /\ today \in Nat /\ actor \in Principal
  BY <1>4, PrincipalAssumption DEF Preparing, PlanTyped, TypeOK
<1> HIDE DEF named
<1>6. y = PlannedProposal(actor, plan, id, r, v, op.terms)
  BY DEF Planned, named
<1> DEFINE x == Proposal(actor, id, r, v, op.terms)
<1>7. x \in Waiver
  BY <1>4, <1>5, ProposalType
<1>8. /\ x.id = id /\ x.status = "proposed" /\ x.approvals = << >>
      /\ x.fingerprint = Fingerprint(v) /\ x.target = v /\ x.scope = r.scope
      /\ BasedOn(x, r)
  BY <1>4 DEF Proposal, BasedOn
<1>9. y = [x EXCEPT !.created_at = plan.created_at]
  BY <1>6 DEF PlannedProposal
<1> HIDE DEF x, y
<1>10. /\ y \in Waiver /\ y.id = id /\ y.status = "proposed"
       /\ y.approvals = << >> /\ y.fingerprint = Fingerprint(v)
       /\ y.target = v /\ y.scope = r.scope /\ BasedOn(y, r)
  BY <1>5, <1>7, <1>8, <1>9 DEF Waiver, WaiverRecord, BasedOn
<1>11. y.valid_revision \in {None, y.baseline_revision}
  BY DEF Preparing, Prepared, WithinBounds, y
<1>12. AnchoredDraft(id, y)
  BY <1>4, <1>10, <1>11 DEF AnchoredDraft
<1>13. id \notin Known /\ ~Taken(id, y.scope, y.fingerprint)
  BY <1>1, <1>2, <1>4, <1>10 DEF MayPropose
<1> QED
  BY <1>3, <1>10, <1>12, <1>13 DEF OnTarget, y

\* Each operation of a plan has a waiver of its own.
LEMMA PlannedAll ==
  ASSUME NEW actor, NEW plan, NEW ids, Preparing(actor, plan, ids),
         NEW k \in DOMAIN plan.ops
  PROVE  LET y == Planned(actor, plan, k, ids[k]) IN
         /\ ids[k] \in WaiverIds
         /\ AnchoredDraft(ids[k], y) /\ OnTarget(ids[k], y)
         /\ plan.ops[k].action \in {"propose", "amend"}
         /\ \A j \in DOMAIN plan.ops : ids[j] = ids[k] => j = k
<1>1. plan.ops[k].action \in {"propose", "amend"}
  BY DEF Preparing, Prepared
<1>2. /\ ids[k] \in WaiverIds
      /\ \A j \in DOMAIN plan.ops : ids[j] = ids[k] => j = k
  BY DEF Preparing, Prepared, DistinctTargets
<1> QED
  BY <1>1, <1>2, AmendmentPlanned, ProposalPlanned

------------------------------------------------------------------------------
(* The invariants of the stored waivers, with plans *)

\* What the stored waivers are when one step may write several of them.
Drafted ==
  /\ waivers' = [id \in WaiverIds |-> waivers'[id]]
  /\ runs' = runs
  /\ \A id \in WaiverIds :
       \/ waivers'[id] = waivers[id]
       \/ AnchoredDraft(id, waivers'[id]) /\ OnTarget(id, waivers'[id])
  /\ \A x, y \in Known' \ Known :
       /\ waivers'[x].scope = waivers'[y].scope
       /\ waivers'[x].fingerprint = waivers'[y].fingerprint
       => x = y

\* The next version of a draft is a draft on the same target.
LEMMA NextDraft ==
  ASSUME NEW id, NEW y, AnchoredDraft(id, y), OnTarget(id, y),
         NEW z, z = [y EXCEPT !.version = @ + 1]
  PROVE  /\ AnchoredDraft(id, z) /\ OnTarget(id, z)
         /\ z.version = y.version + 1 /\ [z EXCEPT !.version = y.version] = y
<1>1. y \in Waiver
  BY DEF AnchoredDraft
<1>2. /\ z \in Waiver /\ z.version = y.version + 1
      /\ [z EXCEPT !.version = y.version] = y
  <2>1. z \in Waiver /\ z.version = y.version + 1
    BY <1>1 DEF Waiver, WaiverRecord
  <2>2. [z EXCEPT !.version = y.version] = [y EXCEPT !.version = y.version]
    BY <1>1 DEF Waiver, WaiverRecord
  <2>3. [y EXCEPT !.version = y.version] = y
    BY <1>1 DEF Waiver, WaiverRecord
  <2> QED
    BY <2>1, <2>2, <2>3
<1>3. /\ z.id = y.id /\ z.scope = y.scope /\ z.target = y.target
      /\ z.fingerprint = y.fingerprint /\ z.status = y.status
      /\ z.approvals = y.approvals /\ z.valid_revision = y.valid_revision
      /\ z.baseline_run_id = y.baseline_run_id
      /\ z.baseline_revision = y.baseline_revision
      /\ z.baseline_provenance = y.baseline_provenance
  BY <1>1 DEF Waiver, WaiverRecord
<1> QED
  BY <1>2, <1>3 DEF AnchoredDraft, OnTarget, BasedOn

\* Each operation of an applied plan is stored for its waiver: a proposal as
\* it is, an amendment under the next version.
LEMMA ApplyWrites ==
  ASSUME NEW actor, NEW plan, NEW ids, Preparing(actor, plan, ids),
         NEW expected, Apply(actor, plan, ids, expected)
  PROVE  /\ waivers' = [id \in WaiverIds |-> waivers'[id]] /\ runs' = runs
         /\ \A k \in DOMAIN plan.ops :
              LET y == Planned(actor, plan, k, ids[k]) IN
              waivers'[ids[k]] = IF plan.ops[k].action = "propose" THEN y
                                 ELSE [y EXCEPT !.version = @ + 1]
         /\ \A id \in WaiverIds :
              (\A k \in DOMAIN plan.ops : ids[k] # id) => waivers'[id] = waivers[id]
<1> DEFINE Value(id) ==
      IF \E i \in Written(plan) : ids[i] = id
        THEN LET i == CHOOSE k \in Written(plan) : ids[k] = id
                 w == Planned(actor, plan, i, id) IN
             IF plan.ops[i].action = "propose" THEN w
             ELSE [w EXCEPT !.version = @ + 1]
        ELSE waivers[id]
<1>1. waivers' = [id \in WaiverIds |-> Value(id)] /\ runs' = runs
  BY DEF Apply
<1>2. ASSUME NEW k \in DOMAIN plan.ops
      PROVE  LET y == Planned(actor, plan, k, ids[k]) IN
             Value(ids[k]) = IF plan.ops[k].action = "propose" THEN y
                             ELSE [y EXCEPT !.version = @ + 1]
  <2>1. \A j \in DOMAIN plan.ops : ids[j] = ids[k] => j = k
    BY PlannedAll
  <2>2. (CHOOSE j \in Written(plan) : ids[j] = ids[k]) = k
    BY <2>1 DEF Written
  <2> QED
    BY <2>2 DEF Written
<1>3. ASSUME NEW id \in WaiverIds, \A k \in DOMAIN plan.ops : ids[k] # id
      PROVE  Value(id) = waivers[id]
  BY <1>3 DEF Written
<1>4. \A k \in DOMAIN plan.ops : ids[k] \in WaiverIds
  BY PlannedAll
<1> HIDE DEF Value
<1> QED
  BY <1>1, <1>2, <1>3, <1>4

\* Applying a plan drafts the waivers it names and no two for one target.
LEMMA ApplyDrafts ==
  ASSUME NEW actor, NEW plan, NEW ids, Preparing(actor, plan, ids),
         NEW expected, Apply(actor, plan, ids, expected)
  PROVE  Drafted
<1>1. ASSUME NEW k \in DOMAIN plan.ops
      PROVE  AnchoredDraft(ids[k], waivers'[ids[k]]) /\ OnTarget(ids[k], waivers'[ids[k]])
  <2> DEFINE y == Planned(actor, plan, k, ids[k])
  <2>1. AnchoredDraft(ids[k], y) /\ OnTarget(ids[k], y)
    BY PlannedAll
  <2>2. waivers'[ids[k]] = y \/ waivers'[ids[k]] = [y EXCEPT !.version = @ + 1]
    BY ApplyWrites
  <2> HIDE DEF y
  <2> QED
    BY <2>1, <2>2, NextDraft
<1>2. ASSUME NEW x \in Known' \ Known
      PROVE  \E k \in DOMAIN plan.ops : /\ ids[k] = x /\ plan.ops[k].action = "propose"
                                        /\ waivers'[x] = Planned(actor, plan, k, x)
  <2>1. waivers'[x] # waivers[x] /\ x \in WaiverIds
    BY DEF Known
  <2>2. PICK k \in DOMAIN plan.ops : ids[k] = x
    BY <2>1, ApplyWrites
  <2>3. plan.ops[k].action = "propose"
    BY <2>2, PlannedAll, AmendmentPlanned
  <2> DEFINE y == Planned(actor, plan, k, ids[k])
  <2>4. waivers'[ids[k]] = IF plan.ops[k].action = "propose" THEN y
                           ELSE [y EXCEPT !.version = @ + 1]
    BY ApplyWrites
  <2> HIDE DEF y
  <2>5. waivers'[ids[k]] = y
    BY <2>3, <2>4
  <2> QED
    BY <2>2, <2>3, <2>5 DEF y
<1>3. ASSUME NEW x \in Known' \ Known, NEW y \in Known' \ Known,
             waivers'[x].scope = waivers'[y].scope,
             waivers'[x].fingerprint = waivers'[y].fingerprint
      PROVE  x = y
  <2>1. PICK k \in DOMAIN plan.ops : /\ ids[k] = x /\ plan.ops[k].action = "propose"
                                     /\ waivers'[x] = Planned(actor, plan, k, x)
    BY <1>2
  <2>2. PICK j \in DOMAIN plan.ops : /\ ids[j] = y /\ plan.ops[j].action = "propose"
                                     /\ waivers'[y] = Planned(actor, plan, j, y)
    BY <1>2
  <2>3. PICK rv \in Named(plan.ops[k]) :
          /\ waivers'[x].scope = rv[1].scope
          /\ waivers'[x].fingerprint = Fingerprint(rv[2])
    BY <2>1, ProposalPlanned
  <2>4. PICK su \in Named(plan.ops[j]) :
          /\ waivers'[y].scope = su[1].scope
          /\ waivers'[y].fingerprint = Fingerprint(su[2])
    BY <2>2, ProposalPlanned
  <2>5. k = j
    BY <1>3, <2>1, <2>2, <2>3, <2>4 DEF Preparing, Prepared, DistinctTargets
  <2> QED
    BY <2>1, <2>2, <2>5
<1>4. /\ waivers' = [id \in WaiverIds |-> waivers'[id]] /\ runs' = runs
      /\ \A id \in WaiverIds :
           (\A k \in DOMAIN plan.ops : ids[k] # id) => waivers'[id] = waivers[id]
  BY ApplyWrites
<1> QED
  BY <1>1, <1>3, <1>4 DEF Drafted

\* Drafting keeps every invariant of the stored waivers.
LEMMA DraftingKeeps ==
  ASSUME TypeOK, BaselineIsImported, ReviewInv, UniqueLiveTarget, Drafted
  PROVE  /\ waivers' \in [WaiverIds -> Waiver \cup {NoWaiver}]
         /\ BaselineIsImported' /\ ReviewInv' /\ UniqueLiveTarget'
<1>1. ASSUME NEW id \in WaiverIds
      PROVE  waivers'[id] \in Waiver \cup {NoWaiver}
  BY DEF Drafted, AnchoredDraft, TypeOK
<1>2. ASSUME NEW id \in Known
      PROVE  /\ id \in Known'
             /\ waivers'[id].scope = waivers[id].scope
             /\ waivers'[id].fingerprint = waivers[id].fingerprint
             /\ waivers'[id].status # "revoked" => waivers[id].status # "revoked"
  BY NoWaiverAssumption DEF Drafted, Known, OnTarget, AnchoredDraft
<1>3. ASSUME NEW id \in Known' \ Known
      PROVE  AnchoredDraft(id, waivers'[id]) /\ OnTarget(id, waivers'[id])
  BY DEF Drafted, Known
<1>4. BaselineIsImported'
  BY DEF Drafted, BaselineIsImported, AnchoredDraft, BasedOn, Known
<1>5. ReviewInv'
  BY ProposedSound DEF Drafted, ReviewInv, AnchoredDraft, Known
<1>6. ASSUME NEW x \in Known', NEW y \in Known',
             waivers'[x].scope = waivers'[y].scope,
             waivers'[x].fingerprint = waivers'[y].fingerprint,
             waivers'[x].status # "revoked", waivers'[y].status # "revoked"
      PROVE  x = y
  <2>1. CASE x \in Known /\ y \in Known
    BY <1>2, <1>6, <2>1 DEF UniqueLiveTarget
  <2>2. CASE x \notin Known /\ y \notin Known
    BY <1>6, <2>2 DEF Drafted
  <2>3. ASSUME NEW u \in Known, NEW v \in Known' \ Known,
               waivers'[u].scope = waivers'[v].scope,
               waivers'[u].fingerprint = waivers'[v].fingerprint,
               waivers'[u].status # "revoked"
        PROVE  FALSE
    BY <1>2, <1>3, <2>3 DEF OnTarget, Taken
  <2> QED
    BY <1>6, <2>1, <2>2, <2>3
<1> QED
  BY <1>1, <1>4, <1>5, <1>6 DEF Drafted, UniqueLiveTarget

PlanInv ==
  /\ TypeOK /\ BaselineIsImported /\ ReviewInv /\ UniqueLiveTarget
  /\ RunsDistinct /\ RunsValid
  /\ PreviewsTyped

\* A plan somebody wrote is prepared in the sense above.
LEMMA PreviewPrepares ==
  ASSUME PlanInv, NEW actor \in Principals, NEW plan \in Drafts,
         NEW ids \in [DOMAIN plan.ops -> WaiverIds], Preview(actor, plan, ids)
  PROVE  Preparing(actor, plan, ids)
BY DraftTyped DEF PlanInv, Preview, Preparing

\* So is a plan that is applied from its preview.
LEMMA ApplyPrepares ==
  ASSUME PlanInv, NEW actor \in Principals, NEW p \in previews, NEW expected,
         Apply(actor, p.preview.plan, Ids(p.preview), expected)
  PROVE  Preparing(actor, p.preview.plan, Ids(p.preview))
<1>1. PreviewTyped(p.preview)
  BY DEF PlanInv, PreviewsTyped
<1>2. Ids(p.preview) \in [DOMAIN p.preview.plan.ops -> WaiverIds]
  BY <1>1 DEF PreviewTyped, Ids
<1> QED
  BY <1>1, <1>2 DEF PlanInv, PreviewTyped, Apply, Preparing

\* What a preview shows is well formed.
LEMMA PreviewIsTyped ==
  ASSUME NEW actor, NEW plan, NEW ids, Preparing(actor, plan, ids)
  PROVE  PreviewTyped(PreviewOf(actor, plan, ids))
<1> DEFINE shown == PreviewOf(actor, plan, ids)
<1>1. shown.plan = plan /\ DOMAIN shown.changes = DOMAIN plan.ops
  BY DEF PreviewOf
<1>2. ASSUME NEW k \in DOMAIN plan.ops
      PROVE  shown.changes[k].after.id \in WaiverIds
  <2>1. shown.changes[k].after = Planned(actor, plan, k, ids[k])
    BY DEF PreviewOf
  <2> QED
    BY <2>1, PlannedAll DEF AnchoredDraft
<1> HIDE DEF shown
<1> QED
  BY <1>1, <1>2 DEF PreviewTyped, Preparing, shown

\* Every step keeps the stored waivers in order, plans included.
LEMMA PlanKeeps ==
  ASSUME PlanInv, [PlanNext]_planVars
  PROVE  PlanInv'
<1>1. ASSUME [Next]_vars, previews' = previews
      PROVE  PlanInv'
  <2>1. TypeOK' /\ BaselineIsImported' /\ ReviewInv' /\ UniqueLiveTarget'
    BY <1>1, TypeStep, BaselineStep, ReviewStep, UniqueStep DEF PlanInv
  <2>2. RunsDistinct' /\ RunsValid'
    BY <1>1, Onward DEF PlanInv, RunsDistinct, RunsValid
  <2>3. PreviewsTyped'
    BY <1>1 DEF PlanInv, PreviewsTyped
  <2> QED
    BY <2>1, <2>2, <2>3 DEF PlanInv
<1>2. ASSUME NEW actor \in Principals, NEW plan \in Drafts,
             NEW ids \in [DOMAIN plan.ops -> WaiverIds], Preview(actor, plan, ids)
      PROVE  PlanInv'
  <2>1. PreviewTyped(PreviewOf(actor, plan, ids))
    BY <1>2, PreviewPrepares, PreviewIsTyped
  <2>2. /\ previews' = previews \cup
              {[preview |-> PreviewOf(actor, plan, ids), of |-> Database]}
        /\ UNCHANGED vars
    BY <1>2 DEF Preview
  <2>3. PreviewsTyped'
    BY <2>1, <2>2 DEF PlanInv, PreviewsTyped
  <2> QED
    BY <2>2, <2>3 DEF PlanInv, vars, TypeOK, BaselineIsImported, ReviewInv,
       UniqueLiveTarget, RunsDistinct, RunsValid, Known
<1>3. ASSUME NEW actor \in Principals, NEW p \in previews, NEW q \in previews,
             Apply(actor, p.preview.plan, Ids(p.preview), q.preview)
      PROVE  PlanInv'
  <2>1. Drafted
    BY <1>3, ApplyPrepares, ApplyDrafts
  <2>2. UNCHANGED << runs, evidence, policy, today, previews >>
    BY <1>3 DEF Apply
  <2>3. /\ waivers' \in [WaiverIds -> Waiver \cup {NoWaiver}]
        /\ BaselineIsImported' /\ ReviewInv' /\ UniqueLiveTarget'
    BY <2>1, DraftingKeeps DEF PlanInv
  <2> QED
    BY <2>2, <2>3 DEF PlanInv, TypeOK, RunsDistinct, RunsValid, PreviewsTyped
<1>4. CASE UNCHANGED planVars
  BY <1>1, <1>4 DEF planVars
<1>5. CASE NextDay /\ UNCHANGED << head, previews, applied >>
  BY <1>1, <1>5 DEF Next
<1>6. ASSUME NEW actor \in Principals, Operation(actor), previews' = previews
      PROVE  PlanInv'
  BY <1>1, <1>6 DEF Next
<1> QED
  BY <1>2, <1>3, <1>4, <1>5, <1>6 DEF PlanNext, PlanStep

\* PlanInv holds in every history with plans.
LEMMA PlanInvariant == PlanSpec => []PlanInv
<1>1. PlanInit => PlanInv
  BY PolicyAssumption DEF PlanInit, Init, PlanInv, TypeOK, BaselineIsImported,
     ReviewInv, UniqueLiveTarget, RunsDistinct, RunsValid, PreviewsTyped, Known
<1>2. PlanInv /\ [PlanNext]_planVars => PlanInv'
  BY PlanKeeps
<1> QED
  BY <1>1, <1>2, PTL DEF PlanSpec

\* Plans keep what single operations keep: well-formed records, anchored in
\* imported runs, with votes bound to their content.
THEOREM PlansKeepRecords ==
  PlanSpec => [](TypeOK /\ BaselineIsImported /\ ReviewsAreSound)
<1>1. PlanInv => TypeOK /\ BaselineIsImported /\ ReviewsAreSound
  BY DEF PlanInv, ReviewInv, Sound, ReviewsAreSound, VotesBindContent, DecisionHistory
<1> QED
  BY <1>1, PlanInvariant, PTL

\* No plan gives a target a second live waiver, neither beside the register
\* nor inside the plan.
THEOREM PlansKeepTargets == PlanSpec => []UniqueLiveTarget
<1>1. PlanInv => UniqueLiveTarget
  BY DEF PlanInv
<1> QED
  BY <1>1, PlanInvariant, PTL

\* What an applied plan did to one waiver.
WholeFor(id, changes) ==
  \/ /\ waivers'[id] = waivers[id]
     /\ \A k \in DOMAIN changes : changes[k].after.id # id
  \/ \E k \in DOMAIN changes :
       /\ changes[k].after.id = id
       /\ changes[k].before = waivers[id]
       /\ id \in Known'
       /\ [waivers'[id] EXCEPT !.version = changes[k].after.version]
            = changes[k].after

\* Whatever a plan does not name stays, and what it names becomes what the
\* preview showed.
LEMMA ApplyWhole ==
  ASSUME NEW actor, NEW plan, NEW ids, Preparing(actor, plan, ids),
         NEW expected, Apply(actor, plan, ids, expected), NEW id \in WaiverIds
  PROVE  WholeFor(id, PreviewOf(actor, plan, ids).changes)
<1> DEFINE changes == PreviewOf(actor, plan, ids).changes
<1>1. /\ DOMAIN changes = DOMAIN plan.ops
      /\ \A k \in DOMAIN plan.ops : /\ changes[k].before = waivers[ids[k]]
                                    /\ changes[k].after = Planned(actor, plan, k, ids[k])
  BY DEF PreviewOf
<1> HIDE DEF changes
<1>2. \A k \in DOMAIN plan.ops : changes[k].after.id = ids[k]
  BY <1>1, PlannedAll DEF AnchoredDraft
<1>3. ASSUME \A k \in DOMAIN plan.ops : ids[k] # id
      PROVE  WholeFor(id, changes)
  BY <1>1, <1>2, <1>3, ApplyWrites DEF WholeFor
<1>4. ASSUME NEW k \in DOMAIN plan.ops, ids[k] = id
      PROVE  WholeFor(id, changes)
  <2> DEFINE y == Planned(actor, plan, k, id)
             z == waivers'[id]
  <2>1. AnchoredDraft(id, y) /\ OnTarget(id, y)
    BY <1>4, PlannedAll
  <2>2. z = y \/ z = [y EXCEPT !.version = @ + 1]
    BY <1>4, ApplyWrites
  <2>3. changes[k].after = y /\ changes[k].before = waivers[id]
    BY <1>1, <1>4
  <2> HIDE DEF y, z
  <2>4. [z EXCEPT !.version = y.version] = y
    <3>1. [y EXCEPT !.version = y.version] = y
      BY <2>1 DEF AnchoredDraft, Waiver, WaiverRecord
    <3> QED
      BY <2>1, <2>2, <3>1, NextDraft
  <2>5. z \in Waiver
    BY <2>1, <2>2, NextDraft DEF AnchoredDraft
  <2>6. id \in Known'
    BY <2>5, NoWaiverAssumption DEF Known, z
  <2> QED
    BY <1>1, <1>2, <1>4, <2>3, <2>4, <2>6 DEF WholeFor, z
<1> QED
  BY <1>3, <1>4 DEF changes

\* A plan is applied whole, as its preview says, and touches nothing else.
THEOREM PlansAreWhole == PlanSpec => PlanIsWhole
<1> DEFINE New == (DOMAIN applied)' \ DOMAIN applied
<1>1. ASSUME PlanInv, PreviewInv, [PlanNext]_planVars, NEW i \in New, NEW id \in WaiverIds
      PROVE  WholeFor(id, applied'[i].preview.changes)
  <2>1. applied' # applied
    OBVIOUS
  <2>2. PICK actor \in Principals, p \in previews, q \in previews :
          Apply(actor, p.preview.plan, Ids(p.preview), q.preview)
    BY <1>1, <2>1 DEF PlanNext, planVars, PlanStep, Preview
  <2> DEFINE plan == p.preview.plan
             ids == Ids(p.preview)
             entry == [preview |-> PreviewOf(actor, plan, ids),
                       actor |-> actor.name, of |-> Database]
  <2>3. applied' = Append(applied, entry)
    BY <2>2 DEF Apply
  <2>4. entry.preview = PreviewOf(actor, plan, ids)
    OBVIOUS
  <2> HIDE DEF entry
  <2>5. applied'[i] = entry
    BY <1>1, <2>3, Longer DEF PreviewInv, HeadInv
  <2> QED
    BY <1>1, <2>2, <2>4, <2>5, ApplyPrepares, ApplyWhole
<1>2. PlanInv /\ PreviewInv /\ [PlanNext]_planVars
      => [\A i \in (DOMAIN applied)' \ DOMAIN applied :
            LET changes == applied'[i].preview.changes IN
            \A id \in WaiverIds :
              \/ /\ waivers'[id] = waivers[id]
                 /\ \A k \in DOMAIN changes : changes[k].after.id # id
              \/ \E k \in DOMAIN changes :
                   /\ changes[k].after.id = id
                   /\ changes[k].before = waivers[id]
                   /\ id \in Known'
                   /\ [waivers'[id] EXCEPT !.version = changes[k].after.version]
                        = changes[k].after]_planVars
  BY <1>1 DEF WholeFor
<1> QED
  BY <1>2, PlanInvariant, PreviewInvariant, PTL DEF PlanSpec, PlanIsWhole

===============================================================================
