------------------------ MODULE WaiverLifecycleProofs ------------------------
(***************************************************************************)
(* Theorems of WaiverLifecycle, for every value of its constants: its      *)
(* invariants, what one step may do to one waiver and the action           *)
(* properties that follow, and that it implements WaiverReview.            *)
(***************************************************************************)
EXTENDS WaiverProperties, WaiverReview, FiniteSetTheorems, SequenceTheorems, TLAPS

\* What approval_digest covers is content a vote can bind.
LEMMA DigestType ==
  ASSUME NEW w \in Waiver
  PROVE  ApprovalDigest(w) \in Content
BY DEF ApprovalDigest, Content, Waiver, WaiverRecord

\* x is about the same finding, on the same baseline, as w.
SameTarget(w, x) ==
  /\ x.id = w.id /\ x.scope = w.scope
  /\ x.creator = w.creator /\ x.created_at = w.created_at
  /\ x.baseline_run_id = w.baseline_run_id
  /\ x.baseline_revision = w.baseline_revision
  /\ x.baseline_provenance = w.baseline_provenance
  /\ x.target = w.target /\ x.fingerprint = w.fingerprint

\* A waiver with new terms and no votes is a waiver on the same finding (amend).
LEMMA RevisedType ==
  ASSUME NEW w \in Waiver, NEW t \in Terms
  PROVE  /\ Revised(w, t) \in Waiver
         /\ SameTarget(w, Revised(w, t))
<1>1. << >> \in Seq(Approval)
  OBVIOUS
<1>2. /\ t.rationale \in Text /\ t.owner \in Names /\ t.reviewers \in SUBSET Names
      /\ t.expires_on \in Nat \cup {None} /\ t.tags \in Text
      /\ t.valid_revision \in Revisions \cup {None}
  BY DEF Terms
<1> QED
  BY <1>1, <1>2 DEF SameTarget, Revised, Waiver, WaiverRecord, Statuses

\* A waiver with one more vote is a waiver on the same finding (review).
LEMMA ReviewedType ==
  ASSUME NEW w \in Waiver, NEW actor \in Principal, NEW decision \in Decisions
  PROVE  /\ Reviewed(w, Vote(actor, w, decision)) \in Waiver
         /\ SameTarget(w, Reviewed(w, Vote(actor, w, decision)))
         /\ Reviewed(w, Vote(actor, w, decision)).valid_revision = w.valid_revision
<1> DEFINE vote == Vote(actor, w, decision)
<1>1. vote \in Approval
  BY DigestType DEF Vote, Approval, Principal
<1>2. w.approvals \in Seq(Approval)
  BY DEF Waiver, WaiverRecord
<1>3. Append(w.approvals, vote) \in Seq(Approval)
  BY <1>1, <1>2
<1> HIDE DEF vote
<1>4. /\ Reviewed(w, vote) \in Waiver
      /\ SameTarget(w, Reviewed(w, vote))
      /\ Reviewed(w, vote).valid_revision = w.valid_revision
  BY <1>3 DEF SameTarget, Reviewed, Waiver, WaiverRecord, Statuses
<1> QED BY <1>4 DEF vote

\* The record that create builds from a finding of a run is a waiver.
LEMMA ProposalType ==
  ASSUME NEW actor \in Principal, NEW id \in WaiverIds, NEW r \in Run,
         NEW v \in r.violations, NEW t \in Terms, today \in Nat
  PROVE  Proposal(actor, id, r, v, t) \in Waiver
<1>1. << >> \in Seq(Approval)
  OBVIOUS
<1>2. /\ r.scope \in Scope /\ r.id \in RunIds /\ r.revision \in Revisions
      /\ r.provenance \in Provenances /\ v \in Violation
  BY DEF Run
<1>3. Fingerprint(v) \in Identity
  BY <1>2 DEF Fingerprint, Identity, Violation
<1>4. actor.name \in Names
  BY DEF Principal
<1> QED
  BY <1>1, <1>2, <1>3, <1>4 DEF Proposal, Terms, Waiver, WaiverRecord, Statuses

\* A waiver with one more piece of evidence is a waiver on the same finding
\* (attach_evidence).
LEMMA EvidenceType ==
  ASSUME NEW w \in Waiver, NEW blob \in Blobs
  PROVE  /\ WithEvidence(w, blob) \in Waiver
         /\ SameTarget(w, WithEvidence(w, blob))
         /\ WithEvidence(w, blob).valid_revision = w.valid_revision
<1>1. << >> \in Seq(Approval)
  OBVIOUS
<1> QED
  BY <1>1 DEF SameTarget, WithEvidence, Waiver, WaiverRecord, Statuses

\* A waiver put to a vote is a waiver on the same finding (submit).
LEMMA SubmittedType ==
  ASSUME NEW w \in Waiver
  PROVE  LET x == [w EXCEPT !.status = "submitted", !.approvals = << >>] IN
         /\ x \in Waiver
         /\ SameTarget(w, x)
         /\ x.valid_revision = w.valid_revision
<1>1. << >> \in Seq(Approval)
  OBVIOUS
<1> QED
  BY <1>1 DEF SameTarget, Waiver, WaiverRecord, Statuses

\* Text that is cut is text ("[:limit]").
LEMMA CutType ==
  ASSUME NEW text \in Text, NEW limit \in Nat
  PROVE  Cut(text, limit) \in Text
BY DEF Cut, Text

\* A revoked waiver, its rationale cut, is a waiver on the same finding (revoke).
LEMMA RevokedType ==
  ASSUME NEW w \in Waiver, NEW comment \in Words
  PROVE  /\ Revoked(w, comment) \in Waiver
         /\ SameTarget(w, Revoked(w, comment))
         /\ Revoked(w, comment).valid_revision = w.valid_revision
<1>1. w.tags \in Text /\ w.rationale \in Text
  BY DEF Waiver, WaiverRecord
<1>2. Append(w.tags, "revoked") \in Text
  BY <1>1 DEF Text
<1>3. w.rationale \o << "revoked", comment >> \in Text
  BY <1>1 DEF Text
<1>4. /\ Cut(Append(w.tags, "revoked"), TagLimit) \in Text
      /\ Cut(w.rationale \o << "revoked", comment >>, RationaleLimit) \in Text
  BY <1>2, <1>3, CutType, LimitAssumption
<1> QED
  BY <1>4 DEF SameTarget, Revoked, Waiver, WaiverRecord, Statuses

\* A waiver moved to a finding of another run is a waiver (rebind).
LEMMA ReboundType ==
  ASSUME NEW w \in Waiver, NEW r \in Run, NEW v \in r.violations
  PROVE  Rebound(w, r, v) \in Waiver
<1>1. << >> \in Seq(Approval)
  OBVIOUS
<1>2. /\ r.id \in RunIds /\ r.revision \in Revisions
      /\ r.provenance \in Provenances /\ v \in Violation
  BY DEF Run
<1>3. Fingerprint(v) \in Identity
  BY <1>2 DEF Fingerprint, Identity, Violation
<1> QED
  BY <1>1, <1>2, <1>3 DEF Rebound, Waiver, WaiverRecord, Statuses

\* What _save stores under the next version keeps the table of waivers typed.
LEMMA SaveType ==
  ASSUME TypeOK, NEW w \in Waiver, Save(w)
  PROVE  waivers' \in [WaiverIds -> Waiver \cup {NoWaiver}]
<1>1. [w EXCEPT !.version = @ + 1] \in Waiver
  BY DEF Waiver, WaiverRecord
<1>2. w.id \in WaiverIds
  BY DEF Waiver, WaiverRecord
<1> QED
  BY <1>1, <1>2 DEF Save, TypeOK

\* Both ways to create a waiver enter it with well-formed terms.
LEMMA EnterCases ==
  ASSUME NEW actor \in Principals, NEW id \in WaiverIds, NEW r, NEW v,
         NEW t \in Offers,
         Propose(actor, id, r, v, t) \/ ImportProposal(actor, id, r, v, t)
  PROVE  \E terms \in Terms : Enter(actor, id, r, v, terms)
<1>1. t \in Terms /\ actor.name \in Names
  BY OfferAssumption, PrincipalAssumption DEF Principal
<1>2. [t EXCEPT !.owner = actor.name] \in Terms
  BY <1>1 DEF Terms
<1> QED
  BY <1>1, <1>2 DEF Propose, ImportProposal

\* What Loads() gives the operations that follow it.
LEMMA LoadedType ==
  ASSUME TypeOK, NEW actor, NEW id, NEW version, Loads(actor, id, version)
  PROVE  id \in WaiverIds /\ waivers[id] \in Waiver
BY DEF Loads, Known, TypeOK

\* Every operation of every actor stores records of the declared type only.
LEMMA TypeStep ==
  ASSUME TypeOK, [Next]_vars
  PROVE  TypeOK'
<1> USE DEF TypeOK
<1>1. CASE UNCHANGED vars
  BY <1>1 DEF vars
<1>2. CASE NextDay
  BY <1>2 DEF NextDay
<1>3. ASSUME NEW actor \in Principals, Operation(actor)
      PROVE  TypeOK'
  <2> USE PrincipalAssumption
  <2>1. ASSUME NEW r \in Reports, ImportRun(actor, r)
        PROVE  TypeOK'
    BY <2>1, ReportAssumption DEF ImportRun
  <2>2. ASSUME NEW id \in WaiverIds, NEW r \in runs, NEW t \in Terms,
               NEW v \in r.violations, Enter(actor, id, r, v, t)
        PROVE  TypeOK'
    <3>1. Proposal(actor, id, r, v, t) \in Waiver
      BY ProposalType
    <3> QED
      BY <2>2, <3>1 DEF Enter
  <2>3. ASSUME NEW id \in WaiverIds, NEW version, NEW t \in Offers,
               Amend(actor, id, version, t)
        PROVE  TypeOK'
    <3>1. Revised(waivers[id], t) \in Waiver
      BY <2>3, LoadedType, RevisedType, OfferAssumption DEF Amend
    <3> QED
      BY <2>3, <3>1, SaveType DEF Amend
  <2>4. ASSUME NEW id \in WaiverIds, NEW version, NEW blob \in Blobs,
               Attach(actor, id, version, blob)
        PROVE  TypeOK'
    <3>1. WithEvidence(waivers[id], blob) \in Waiver
      BY <2>4, LoadedType, EvidenceType DEF Attach
    <3> QED
      BY <2>4, <3>1, SaveType DEF Attach
  <2>5. ASSUME NEW id \in WaiverIds, NEW version, Submit(actor, id, version)
        PROVE  TypeOK'
    <3>1. [waivers[id] EXCEPT !.status = "submitted", !.approvals = << >>] \in Waiver
      BY <2>5, LoadedType, SubmittedType DEF Submit
    <3> QED
      BY <2>5, <3>1, SaveType DEF Submit
  <2>6. ASSUME NEW id \in WaiverIds, NEW version, NEW decision \in Decisions,
               Review(actor, id, version, decision)
        PROVE  TypeOK'
    <3>1. Reviewed(waivers[id], Vote(actor, waivers[id], decision)) \in Waiver
      BY <2>6, LoadedType, ReviewedType DEF Review
    <3> QED
      BY <2>6, <3>1, SaveType DEF Review
  <2>7. ASSUME NEW id \in WaiverIds, NEW version, NEW comment \in Words,
               Revoke(actor, id, version, comment)
        PROVE  TypeOK'
    <3>1. Revoked(waivers[id], comment) \in Waiver
      BY <2>7, LoadedType, RevokedType DEF Revoke
    <3> QED
      BY <2>7, <3>1, SaveType DEF Revoke
  <2>8. ASSUME NEW id \in WaiverIds, NEW version, NEW r \in runs,
               NEW v \in r.violations, Rebind(actor, id, version, r, v)
        PROVE  TypeOK'
    <3>1. Rebound(waivers[id], r, v) \in Waiver
      BY <2>8, LoadedType, ReboundType DEF Rebind
    <3> QED
      BY <2>8, <3>1, SaveType DEF Rebind
  <2>9. ASSUME NEW p \in Policies, SetPolicy(actor, p)
        PROVE  TypeOK'
    BY <2>9, PolicyAssumption DEF SetPolicy
  <2> QED
    BY <1>3, <2>1, <2>2, <2>3, <2>4, <2>5, <2>6, <2>7, <2>8, <2>9, EnterCases DEF Operation, Start, Edit
<1> QED
  BY <1>1, <1>2, <1>3 DEF Next

\* Every reachable state is well formed: the waiver store holds only records
\* of the declared type, through every operation of every actor.
THEOREM TypeCorrect == Spec => []TypeOK
<1>1. Init => TypeOK
  BY PolicyAssumption DEF Init, TypeOK
<1>2. TypeOK /\ [Next]_vars => TypeOK'
  BY TypeStep
<1> QED
  BY <1>1, <1>2, PTL DEF Spec

\* Runs are only imported, each with an identifier of its own, and the
\* calendar never goes back.
LEMMA Onward ==
  ASSUME TypeOK, [Next]_vars
  PROVE  /\ today =< today' /\ today' \in Nat
         /\ \/ runs' = runs
            \/ \E r \in Reports : /\ ValidRun(r) /\ r.id \notin {x.id : x \in runs}
                                  /\ runs' = runs \cup {r}
<1> DEFINE Goal == /\ today' = today
                   /\ \/ runs' = runs
                      \/ \E r \in Reports : /\ ValidRun(r)
                                            /\ r.id \notin {x.id : x \in runs}
                                            /\ runs' = runs \cup {r}
<1>1. CASE NextDay
  BY <1>1 DEF NextDay, TypeOK
<1>2. CASE UNCHANGED vars
  BY <1>2 DEF vars, TypeOK
<1>3. ASSUME NEW actor \in Principals, Start(actor)
      PROVE  Goal
  <2>1. ASSUME NEW r \in Reports, ImportRun(actor, r)
        PROVE  Goal
    BY <2>1 DEF ImportRun
  <2>2. ASSUME NEW id \in WaiverIds, NEW r \in runs, NEW t \in Offers,
               NEW v \in r.violations,
               Propose(actor, id, r, v, t) \/ ImportProposal(actor, id, r, v, t)
        PROVE  Goal
    BY <2>2, EnterCases DEF Enter
  <2>3. ASSUME NEW p \in Policies, SetPolicy(actor, p)
        PROVE  Goal
    BY <2>3 DEF SetPolicy
  <2> QED
    BY <1>3, <2>1, <2>2, <2>3 DEF Start
<1>4. ASSUME NEW actor \in Principals, NEW id \in WaiverIds,
             NEW version \in 1 .. MaxVersion, Edit(actor, id, version)
      PROVE  Goal
  BY <1>4 DEF Edit, Amend, Attach, Submit, Review, Revoke, Rebind
<1> HIDE DEF Goal
<1>5. Goal => /\ today =< today' /\ today' \in Nat
              /\ \/ runs' = runs
                 \/ \E r \in Reports : /\ ValidRun(r) /\ r.id \notin {x.id : x \in runs}
                                       /\ runs' = runs \cup {r}
  BY DEF Goal, TypeOK
<1> QED
  BY <1>1, <1>2, <1>3, <1>4, <1>5 DEF Next, Operation

------------------------------------------------------------------------------
(* What one save changes *)

\* Saving a new value of a known waiver changes that waiver only.
LEMMA SaveEffect ==
  ASSUME TypeOK, NEW w \in Waiver, w.id \in Known, Save(w)
  PROVE  /\ Known' = Known
         /\ waivers'[w.id] = [w EXCEPT !.version = w.version + 1]
         /\ \A x \in Known \ {w.id} : waivers'[x] = waivers[x]
<1>1. [w EXCEPT !.version = w.version + 1] \in Waiver
  BY DEF Waiver, WaiverRecord
<1>2. waivers' = [waivers EXCEPT ![w.id] = [w EXCEPT !.version = w.version + 1]]
  BY DEF Save
<1> QED
  BY <1>1, <1>2, NoWaiverAssumption DEF Known, TypeOK

\* The next version of a waiver keeps every other field.
LEMMA NextVersion ==
  ASSUME NEW w \in Waiver,
         NEW x, x = [w EXCEPT !.version = w.version + 1]
  PROVE  /\ x.id = w.id /\ x.scope = w.scope
         /\ x.baseline_run_id = w.baseline_run_id
         /\ x.baseline_revision = w.baseline_revision
         /\ x.baseline_provenance = w.baseline_provenance
         /\ x.target = w.target /\ x.fingerprint = w.fingerprint
         /\ x.owner = w.owner /\ x.reviewers = w.reviewers
         /\ x.creator = w.creator /\ x.created_at = w.created_at
         /\ x.valid_revision = w.valid_revision
         /\ x.expires_on = w.expires_on
         /\ x.evidence = w.evidence
         /\ x.status = w.status /\ x.approvals = w.approvals
         /\ ApprovalDigest(x) = ApprovalDigest(w)
BY DEF Waiver, WaiverRecord, ApprovalDigest

\* A proposal adds one waiver and leaves the others alone.
LEMMA EnterEffect ==
  ASSUME TypeOK, NEW actor \in Principals, NEW id \in WaiverIds, NEW r \in runs,
         NEW v \in r.violations, NEW t \in Terms, Enter(actor, id, r, v, t)
  PROVE  /\ id \notin Known
         /\ Known' = Known \cup {id}
         /\ waivers'[id] = Proposal(actor, id, r, v, t)
         /\ \A x \in Known : waivers'[x] = waivers[x]
<1>1. Proposal(actor, id, r, v, t) \in Waiver
  BY ProposalType, PrincipalAssumption DEF TypeOK
<1>2. waivers' = [waivers EXCEPT ![id] = Proposal(actor, id, r, v, t)]
  BY DEF Enter
<1>3. id \notin Known
  BY DEF Enter
<1> QED
  BY <1>1, <1>2, <1>3, NoWaiverAssumption DEF Known, TypeOK

------------------------------------------------------------------------------
(* The baseline of every waiver is an imported run *)

\* A save that keeps or re-establishes the anchor of the waiver it changes
\* keeps the anchors of all.
LEMMA AnchoredSave ==
  ASSUME TypeOK, BaselineIsImported, runs' = runs,
         NEW id \in Known, NEW w \in Waiver, w.id = id, Save(w),
         w.valid_revision \in {None, w.baseline_revision},
         w.fingerprint = Fingerprint(w.target),
         \E r \in runs : BasedOn(w, r)
  PROVE  BaselineIsImported'
<1> DEFINE x == [w EXCEPT !.version = w.version + 1]
<1>1. /\ Known' = Known /\ waivers'[id] = x
      /\ \A y \in Known \ {id} : waivers'[y] = waivers[y]
  BY SaveEffect
<1>2. /\ x.id = w.id /\ x.valid_revision = w.valid_revision
      /\ x.baseline_run_id = w.baseline_run_id
      /\ x.baseline_revision = w.baseline_revision
      /\ x.baseline_provenance = w.baseline_provenance
      /\ x.scope = w.scope /\ x.target = w.target
      /\ x.fingerprint = w.fingerprint
  BY NextVersion
<1> HIDE DEF x
<1> QED
  BY <1>1, <1>2 DEF BaselineIsImported, BasedOn

\* An edit that leaves the anchoring fields alone keeps every anchor.
LEMMA AnchoredEdit ==
  ASSUME TypeOK, BaselineIsImported, runs' = runs,
         NEW id \in Known, NEW w \in Waiver, Save(w),
         SameTarget(waivers[id], w),
         w.valid_revision \in {None, w.baseline_revision}
  PROVE  BaselineIsImported'
<1>1. w.id = id /\ w.fingerprint = Fingerprint(w.target)
  BY DEF BaselineIsImported, SameTarget
<1>2. \E r \in runs : BasedOn(w, r)
  BY DEF BaselineIsImported, BasedOn, SameTarget
<1> QED
  BY <1>1, <1>2, AnchoredSave

\* No operation of any actor leaves a waiver without its baseline.
LEMMA BaselineStep ==
  ASSUME TypeOK, BaselineIsImported, [Next]_vars
  PROVE  BaselineIsImported'
<1>1. CASE UNCHANGED vars
  BY <1>1 DEF vars, BaselineIsImported, Known
<1>2. CASE NextDay
  BY <1>2 DEF NextDay, BaselineIsImported, Known
<1>3. ASSUME NEW actor \in Principals, Operation(actor)
      PROVE  BaselineIsImported'
  <2> USE PrincipalAssumption
  <2>1. ASSUME NEW r \in Reports, ImportRun(actor, r)
        PROVE  BaselineIsImported'
    BY <2>1 DEF ImportRun, BaselineIsImported, Known
  <2>2. ASSUME NEW id \in WaiverIds, NEW r \in runs, NEW t \in Terms,
               NEW v \in r.violations, Enter(actor, id, r, v, t)
        PROVE  BaselineIsImported'
    <3> DEFINE w == Proposal(actor, id, r, v, t)
    <3>1. /\ Known' = Known \cup {id} /\ waivers'[id] = w
          /\ \A y \in Known : waivers'[y] = waivers[y]
      BY <2>2, EnterEffect
    <3>2. runs' = runs /\ w.valid_revision \in {None, w.baseline_revision}
      BY <2>2 DEF Enter, WithinBounds
    <3>3. w.id = id /\ w.fingerprint = Fingerprint(w.target) /\ BasedOn(w, r)
      BY DEF Proposal, BasedOn
    <3> HIDE DEF w
    <3> QED
      BY <3>1, <3>2, <3>3 DEF BaselineIsImported
  <2>3. ASSUME NEW id \in WaiverIds, NEW version, NEW t \in Offers,
               Amend(actor, id, version, t)
        PROVE  BaselineIsImported'
    <3> DEFINE w == Revised(waivers[id], t)
    <3>1. id \in Known /\ w \in Waiver /\ SameTarget(waivers[id], w)
      BY <2>3, LoadedType, RevisedType, OfferAssumption DEF Amend, Loads
    <3>2. w.valid_revision \in {None, w.baseline_revision}
      BY <2>3 DEF Amend, WithinBounds
    <3>3. Save(w) /\ runs' = runs
      BY <2>3 DEF Amend
    <3> HIDE DEF w
    <3> QED
      BY <3>1, <3>2, <3>3, AnchoredEdit
  <2>4. ASSUME NEW id \in WaiverIds, NEW version, NEW blob \in Blobs,
               Attach(actor, id, version, blob)
        PROVE  BaselineIsImported'
    <3> DEFINE w == WithEvidence(waivers[id], blob)
    <3>1. id \in Known /\ w \in Waiver /\ SameTarget(waivers[id], w)
      BY <2>4, LoadedType, EvidenceType DEF Attach, Loads
    <3>2. w.valid_revision \in {None, w.baseline_revision}
      BY <3>1, <2>4, LoadedType, EvidenceType DEF BaselineIsImported, SameTarget, Attach
    <3>3. Save(w) /\ runs' = runs
      BY <2>4 DEF Attach
    <3> HIDE DEF w
    <3> QED
      BY <3>1, <3>2, <3>3, AnchoredEdit
  <2>5. ASSUME NEW id \in WaiverIds, NEW version, Submit(actor, id, version)
        PROVE  BaselineIsImported'
    <3> DEFINE w == [waivers[id] EXCEPT !.status = "submitted", !.approvals = << >>]
    <3>1. id \in Known /\ w \in Waiver /\ SameTarget(waivers[id], w)
      BY <2>5, LoadedType, SubmittedType DEF Submit, Loads
    <3>2. w.valid_revision \in {None, w.baseline_revision}
      BY <3>1, <2>5, LoadedType, SubmittedType DEF BaselineIsImported, SameTarget, Submit
    <3>3. Save(w) /\ runs' = runs
      BY <2>5 DEF Submit
    <3> HIDE DEF w
    <3> QED
      BY <3>1, <3>2, <3>3, AnchoredEdit
  <2>6. ASSUME NEW id \in WaiverIds, NEW version, NEW decision \in Decisions,
               Review(actor, id, version, decision)
        PROVE  BaselineIsImported'
    <3> DEFINE w == Reviewed(waivers[id], Vote(actor, waivers[id], decision))
    <3>1. id \in Known /\ w \in Waiver /\ SameTarget(waivers[id], w)
      BY <2>6, LoadedType, ReviewedType DEF Review, Loads
    <3>2. w.valid_revision \in {None, w.baseline_revision}
      BY <3>1, <2>6, LoadedType, ReviewedType DEF BaselineIsImported, SameTarget, Review
    <3>3. Save(w) /\ runs' = runs
      BY <2>6 DEF Review
    <3> HIDE DEF w
    <3> QED
      BY <3>1, <3>2, <3>3, AnchoredEdit
  <2>7. ASSUME NEW id \in WaiverIds, NEW version, NEW comment \in Words,
               Revoke(actor, id, version, comment)
        PROVE  BaselineIsImported'
    <3> DEFINE w == Revoked(waivers[id], comment)
    <3>1. id \in Known /\ w \in Waiver /\ SameTarget(waivers[id], w)
      BY <2>7, LoadedType, RevokedType DEF Revoke, Loads
    <3>2. w.valid_revision \in {None, w.baseline_revision}
      BY <3>1, <2>7, LoadedType, RevokedType DEF BaselineIsImported, SameTarget, Revoke
    <3>3. Save(w) /\ runs' = runs
      BY <2>7 DEF Revoke
    <3> HIDE DEF w
    <3> QED
      BY <3>1, <3>2, <3>3, AnchoredEdit
  <2>8. ASSUME NEW id \in WaiverIds, NEW version, NEW r \in runs,
               NEW v \in r.violations, Rebind(actor, id, version, r, v)
        PROVE  BaselineIsImported'
    <3> DEFINE w == Rebound(waivers[id], r, v)
    <3>1. id \in Known /\ waivers[id] \in Waiver /\ w \in Waiver
      BY <2>8, LoadedType, ReboundType DEF Rebind, Loads, TypeOK
    <3>2. w.id = id /\ w.scope = r.scope
      BY <3>1, <2>8 DEF Rebind, Rebound, Waiver, WaiverRecord, BaselineIsImported
    <3>3. /\ w.baseline_run_id = r.id /\ w.baseline_revision = r.revision
          /\ w.baseline_provenance = r.provenance /\ w.target = v
          /\ w.fingerprint = Fingerprint(v)
          /\ w.valid_revision \in {None, r.revision}
      BY <3>1 DEF Rebound, Waiver, WaiverRecord
    <3>4. Save(w) /\ runs' = runs
      BY <2>8 DEF Rebind
    <3> HIDE DEF w
    <3>5. BasedOn(w, r)
      BY <3>2, <3>3 DEF BasedOn
    <3> QED
      BY <3>1, <3>2, <3>3, <3>4, <3>5, AnchoredSave
  <2>9. ASSUME NEW p \in Policies, SetPolicy(actor, p)
        PROVE  BaselineIsImported'
    BY <2>9 DEF SetPolicy, BaselineIsImported, Known
  <2> QED
    BY <1>3, <2>1, <2>2, <2>3, <2>4, <2>5, <2>6, <2>7, <2>8, <2>9, EnterCases DEF Operation, Start, Edit
<1> QED
  BY <1>1, <1>2, <1>3 DEF Next

\* Every waiver's identity, revision and provenance come from one imported
\* run of its scope, in every reachable state.
THEOREM BaselineKept == Spec => []BaselineIsImported
<1>1. Init => BaselineIsImported
  BY DEF Init, BaselineIsImported, Known
<1>2. TypeOK /\ BaselineIsImported /\ [Next]_vars => BaselineIsImported'
  BY BaselineStep
<1>3. QED
  BY <1>1, <1>2, TypeCorrect, PTL DEF Spec

------------------------------------------------------------------------------
(* Votes are bound to the content they decide *)

Sound(w) == (w.status \in UnderReview => VotesBound(w)) /\ HistoryShape(w)

ReviewInv == \A id \in Known : Sound(waivers[id])

\* A waiver put back to "proposed" without votes has nothing to be bound.
LEMMA ProposedSound ==
  ASSUME NEW w, w.status = "proposed", w.approvals = << >>
  PROVE  Sound(w)
BY DEF Sound, UnderReview, HistoryShape, OnlyApprovals

\* Saving a waiver whose votes are sound keeps the votes of all sound.
LEMMA SoundSave ==
  ASSUME TypeOK, BaselineIsImported, ReviewInv,
         NEW id \in Known, NEW w \in Waiver, w.id = id, Save(w), Sound(w)
  PROVE  ReviewInv'
<1> DEFINE x == [w EXCEPT !.version = w.version + 1]
<1>1. /\ Known' = Known /\ waivers'[id] = x
      /\ \A y \in Known \ {id} : waivers'[y] = waivers[y]
  BY SaveEffect
<1>2. /\ x.status = w.status /\ x.approvals = w.approvals
      /\ x.owner = w.owner /\ x.creator = w.creator
      /\ x.reviewers = w.reviewers
      /\ ApprovalDigest(x) = ApprovalDigest(w)
  BY NextVersion
<1> HIDE DEF x
<1>3. Sound(x)
  BY <1>2 DEF Sound, VotesBound, Independent, HistoryShape, OnlyApprovals
<1> QED
  BY <1>1, <1>3 DEF ReviewInv

\* A vote of a fresh independent reviewer on a sound submission leaves it
\* sound: the vote carries the digest of the content it decides.
LEMMA VoteSound ==
  ASSUME NEW w \in Waiver, Sound(w), w.status = "submitted",
         NEW actor \in Principal, NEW decision \in Decisions,
         actor.name \in w.reviewers \ {w.owner, w.creator},
         ~HasVoted(actor.name, w)
  PROVE  Sound(Reviewed(w, Vote(actor, w, decision)))
<1> DEFINE vote == Vote(actor, w, decision)
           x == Reviewed(w, vote)
           n == Len(w.approvals)
<1>1. w.approvals \in Seq(Approval) /\ n \in Nat
  BY DEF Waiver, WaiverRecord
<1>2. /\ vote.actor = actor.name /\ vote.decision = decision
      /\ vote.content_digest = ApprovalDigest(w)
  BY DEF Vote
<1>3. /\ x.approvals = Append(w.approvals, vote)
      /\ x.owner = w.owner /\ x.creator = w.creator
      /\ x.reviewers = w.reviewers
      /\ x.status \in UnderReview
      /\ x.status = "rejected" <=> decision = "reject"
      /\ ApprovalDigest(x) = ApprovalDigest(w)
  BY <1>2 DEF Reviewed, ApprovalDigest, Waiver, WaiverRecord, UnderReview
<1>4. /\ Len(x.approvals) = n + 1 /\ x.approvals[n + 1] = vote
      /\ \A i \in 1 .. n : x.approvals[i] = w.approvals[i]
  BY <1>1, <1>3
<1>5. VotesBound(w) /\ OnlyApprovals(w, n)
  BY DEF Sound, UnderReview, HistoryShape
<1> HIDE DEF vote, x, n
<1>6. VotesBound(x)
  <2>1. \A i \in 1 .. n + 1 : /\ x.approvals[i].content_digest = ApprovalDigest(x)
                              /\ x.approvals[i].actor \in Independent(x)
    <3> SUFFICES ASSUME NEW i \in 1 .. n + 1
                 PROVE  /\ x.approvals[i].content_digest = ApprovalDigest(x)
                        /\ x.approvals[i].actor \in Independent(x)
      OBVIOUS
    <3>1. CASE i = n + 1
      BY <3>1, <1>2, <1>3, <1>4 DEF Independent
    <3>2. CASE i \in 1 .. n
      BY <3>2, <1>3, <1>4, <1>5 DEF Independent, VotesBound, n
    <3> QED
      BY <3>1, <3>2, <1>1
  <2>2. \A i \in 1 .. n : x.approvals[i].actor # actor.name
    BY <1>4 DEF HasVoted, n
  <2>3. \A i, j \in 1 .. n + 1 :
          x.approvals[i].actor = x.approvals[j].actor => i = j
    <3>1. \A i, j \in 1 .. n :
            x.approvals[i].actor = x.approvals[j].actor => i = j
      BY <1>4, <1>5 DEF VotesBound, n
    <3>2. x.approvals[n + 1].actor = actor.name
      BY <1>2, <1>4
    <3>3. \A i \in 1 .. n + 1 : i \in 1 .. n \/ i = n + 1
      BY <1>1
    <3> QED
      BY <2>2, <3>1, <3>2, <3>3
  <2> QED
    BY <2>1, <2>3, <1>4 DEF VotesBound
<1>7. HistoryShape(x)
  <2>1. OnlyApprovals(x, n)
    BY <1>4, <1>5 DEF OnlyApprovals
  <2>2. x.approvals # << >>
    BY <1>4, <1>1
  <2>3. CASE decision = "reject"
    BY <2>1, <2>2, <2>3, <1>1, <1>2, <1>3, <1>4 DEF HistoryShape, UnderReview
  <2>4. CASE decision = "approve"
    <3>1. OnlyApprovals(x, n + 1)
      BY <2>1, <2>4, <1>1, <1>2, <1>4 DEF OnlyApprovals
    <3> QED
      BY <3>1, <2>2, <2>4, <1>3, <1>4 DEF HistoryShape, UnderReview
  <2> QED
    BY <2>3, <2>4 DEF Decisions
<1> QED
  BY <1>6, <1>7 DEF Sound, x, vote

\* No operation of any actor leaves a vote behind that its waiver outgrew.
LEMMA ReviewStep ==
  ASSUME TypeOK, BaselineIsImported, ReviewInv, [Next]_vars
  PROVE  ReviewInv'
<1>1. CASE UNCHANGED vars
  BY <1>1 DEF vars, ReviewInv, Known
<1>2. CASE NextDay
  BY <1>2 DEF NextDay, ReviewInv, Known
<1>3. ASSUME NEW actor \in Principals, Operation(actor)
      PROVE  ReviewInv'
  <2> USE PrincipalAssumption
  <2>1. ASSUME NEW r \in Reports, ImportRun(actor, r)
        PROVE  ReviewInv'
    BY <2>1 DEF ImportRun, ReviewInv, Known
  <2>2. ASSUME NEW id \in WaiverIds, NEW r \in runs, NEW t \in Terms,
               NEW v \in r.violations, Enter(actor, id, r, v, t)
        PROVE  ReviewInv'
    <3> DEFINE w == Proposal(actor, id, r, v, t)
    <3>1. /\ Known' = Known \cup {id} /\ waivers'[id] = w
          /\ \A y \in Known : waivers'[y] = waivers[y]
      BY <2>2, EnterEffect
    <3>2. Sound(w)
      BY ProposedSound DEF Proposal
    <3> HIDE DEF w
    <3> QED
      BY <3>1, <3>2 DEF ReviewInv
  <2>3. ASSUME NEW id \in WaiverIds, NEW version, NEW t \in Offers,
               Amend(actor, id, version, t)
        PROVE  ReviewInv'
    <3> DEFINE w == Revised(waivers[id], t)
    <3>1. /\ id \in Known /\ waivers[id] \in Waiver /\ w \in Waiver
          /\ SameTarget(waivers[id], w)
      BY <2>3, LoadedType, RevisedType, OfferAssumption DEF Amend, Loads
    <3>2. Sound(w)
      BY <3>1, ProposedSound DEF Revised, Waiver, WaiverRecord
    <3>3. Save(w) /\ w.id = id
      BY <2>3, <3>1 DEF Amend, SameTarget, BaselineIsImported
    <3> HIDE DEF w
    <3> QED
      BY <3>1, <3>2, <3>3, SoundSave
  <2>4. ASSUME NEW id \in WaiverIds, NEW version, NEW blob \in Blobs,
               Attach(actor, id, version, blob)
        PROVE  ReviewInv'
    <3> DEFINE w == WithEvidence(waivers[id], blob)
    <3>1. /\ id \in Known /\ waivers[id] \in Waiver /\ w \in Waiver
          /\ SameTarget(waivers[id], w)
      BY <2>4, LoadedType, EvidenceType DEF Attach, Loads
    <3>2. Sound(w)
      BY <3>1, ProposedSound DEF WithEvidence, Waiver, WaiverRecord
    <3>3. Save(w) /\ w.id = id
      BY <2>4, <3>1 DEF Attach, SameTarget, BaselineIsImported
    <3> HIDE DEF w
    <3> QED
      BY <3>1, <3>2, <3>3, SoundSave
  <2>5. ASSUME NEW id \in WaiverIds, NEW version, Submit(actor, id, version)
        PROVE  ReviewInv'
    <3> DEFINE w == [waivers[id] EXCEPT !.status = "submitted", !.approvals = << >>]
    <3>1. /\ id \in Known /\ waivers[id] \in Waiver /\ w \in Waiver
          /\ SameTarget(waivers[id], w)
      BY <2>5, LoadedType, SubmittedType DEF Submit, Loads
    <3>2. w.status = "submitted" /\ w.approvals = << >>
      BY <3>1 DEF Waiver, WaiverRecord
    <3>3. Save(w) /\ w.id = id
      BY <2>5, <3>1 DEF Submit, SameTarget, BaselineIsImported
    <3> HIDE DEF w
    <3>4. Sound(w)
      BY <3>2 DEF Sound, VotesBound, HistoryShape, OnlyApprovals
    <3> QED
      BY <3>1, <3>3, <3>4, SoundSave
  <2>6. ASSUME NEW id \in WaiverIds, NEW version, NEW decision \in Decisions,
               Review(actor, id, version, decision)
        PROVE  ReviewInv'
    <3> DEFINE w == Reviewed(waivers[id], Vote(actor, waivers[id], decision))
    <3>1. /\ id \in Known /\ waivers[id] \in Waiver /\ w \in Waiver
          /\ SameTarget(waivers[id], w)
      BY <2>6, LoadedType, ReviewedType DEF Review, Loads
    <3>2. Sound(w)
      BY <2>6, <3>1, VoteSound DEF Review, ReviewInv
    <3>3. Save(w) /\ w.id = id
      BY <2>6, <3>1 DEF Review, SameTarget, BaselineIsImported
    <3> HIDE DEF w
    <3> QED
      BY <3>1, <3>2, <3>3, SoundSave
  <2>7. ASSUME NEW id \in WaiverIds, NEW version, NEW comment \in Words,
               Revoke(actor, id, version, comment)
        PROVE  ReviewInv'
    <3> DEFINE w == Revoked(waivers[id], comment)
    <3>1. /\ id \in Known /\ waivers[id] \in Waiver /\ w \in Waiver
          /\ SameTarget(waivers[id], w)
      BY <2>7, LoadedType, RevokedType DEF Revoke, Loads
    <3>2. w.status = "revoked"
      BY <3>1 DEF Revoked, Waiver, WaiverRecord
    <3>3. Save(w) /\ w.id = id
      BY <2>7, <3>1 DEF Revoke, SameTarget, BaselineIsImported
    <3> HIDE DEF w
    <3>4. Sound(w)
      BY <3>2 DEF Sound, UnderReview, HistoryShape
    <3> QED
      BY <3>1, <3>3, <3>4, SoundSave
  <2>8. ASSUME NEW id \in WaiverIds, NEW version, NEW r \in runs,
               NEW v \in r.violations, Rebind(actor, id, version, r, v)
        PROVE  ReviewInv'
    <3> DEFINE w == Rebound(waivers[id], r, v)
    <3>1. id \in Known /\ waivers[id] \in Waiver /\ w \in Waiver
      BY <2>8, LoadedType, ReboundType DEF Rebind, Loads, TypeOK
    <3>2. Sound(w)
      BY <3>1, ProposedSound DEF Rebound, Waiver, WaiverRecord
    <3>3. Save(w) /\ w.id = id
      BY <2>8, <3>1 DEF Rebind, Rebound, Waiver, WaiverRecord, BaselineIsImported
    <3> HIDE DEF w
    <3> QED
      BY <3>1, <3>2, <3>3, SoundSave
  <2>9. ASSUME NEW p \in Policies, SetPolicy(actor, p)
        PROVE  ReviewInv'
    BY <2>9 DEF SetPolicy, ReviewInv, Known
  <2> QED
    BY <1>3, <2>1, <2>2, <2>3, <2>4, <2>5, <2>6, <2>7, <2>8, <2>9, EnterCases DEF Operation, Start, Edit
<1> QED
  BY <1>1, <1>2, <1>3 DEF Next

\* In every reachable state the votes of a waiver under review or decided
\* are bound to its present content, and its votes and status fit together.
THEOREM ReviewsSound == Spec => []ReviewsAreSound
<1>1. Init => ReviewInv
  BY DEF Init, ReviewInv, Known
<1>2. TypeOK /\ BaselineIsImported /\ ReviewInv /\ [Next]_vars => ReviewInv'
  BY ReviewStep
<1>3. ReviewInv => ReviewsAreSound
  BY DEF ReviewInv, Sound, ReviewsAreSound, VotesBindContent, DecisionHistory
<1>4. QED
  BY <1>1, <1>2, <1>3, TypeCorrect, BaselineKept, PTL DEF Spec

------------------------------------------------------------------------------
(* One live waiver per target *)

\* No other waiver that is not revoked has the target of w.
Alone(id, w) ==
  \A y \in Known \ {id} :
    waivers[y].scope = w.scope /\ waivers[y].fingerprint = w.fingerprint
    => waivers[y].status = "revoked"

\* A save of a waiver that is alone on its target keeps targets unique.
LEMMA UniqueSave ==
  ASSUME TypeOK, UniqueLiveTarget,
         NEW id \in Known, NEW w \in Waiver, w.id = id, Save(w), Alone(id, w)
  PROVE  UniqueLiveTarget'
<1> DEFINE x == [w EXCEPT !.version = w.version + 1]
<1>1. /\ Known' = Known /\ waivers'[id] = x
      /\ \A y \in Known \ {id} : waivers'[y] = waivers[y]
  BY SaveEffect
<1>2. x.scope = w.scope /\ x.fingerprint = w.fingerprint /\ x.status = w.status
  BY NextVersion
<1> HIDE DEF x
<1> QED
  BY <1>1, <1>2 DEF UniqueLiveTarget, Alone

\* A live waiver is alone on its target, and so is its edited value.
LEMMA AloneEdit ==
  ASSUME UniqueLiveTarget, NEW id \in Known, waivers[id].status # "revoked",
         NEW w, SameTarget(waivers[id], w)
  PROVE  Alone(id, w)
BY DEF UniqueLiveTarget, Alone, SameTarget

\* No operation of any actor gives a target a second live waiver.
LEMMA UniqueStep ==
  ASSUME TypeOK, BaselineIsImported, UniqueLiveTarget, [Next]_vars
  PROVE  UniqueLiveTarget'
<1>1. CASE UNCHANGED vars
  BY <1>1 DEF vars, UniqueLiveTarget, Known
<1>2. CASE NextDay
  BY <1>2 DEF NextDay, UniqueLiveTarget, Known
<1>3. ASSUME NEW actor \in Principals, Operation(actor)
      PROVE  UniqueLiveTarget'
  <2> USE PrincipalAssumption
  <2>1. ASSUME NEW r \in Reports, ImportRun(actor, r)
        PROVE  UniqueLiveTarget'
    BY <2>1 DEF ImportRun, UniqueLiveTarget, Known
  <2>2. ASSUME NEW id \in WaiverIds, NEW r \in runs, NEW t \in Terms,
               NEW v \in r.violations, Enter(actor, id, r, v, t)
        PROVE  UniqueLiveTarget'
    <3> DEFINE w == Proposal(actor, id, r, v, t)
    <3>1. /\ id \notin Known /\ Known' = Known \cup {id} /\ waivers'[id] = w
          /\ \A y \in Known : waivers'[y] = waivers[y]
      BY <2>2, EnterEffect
    <3>2. Alone(id, w)
      BY <2>2 DEF Enter, Taken, Alone
    <3> HIDE DEF w
    <3> QED
      BY <3>1, <3>2 DEF UniqueLiveTarget, Alone
  <2>3. ASSUME NEW id \in WaiverIds, NEW version, NEW t \in Offers,
               Amend(actor, id, version, t)
        PROVE  UniqueLiveTarget'
    <3> DEFINE w == Revised(waivers[id], t)
    <3>1. id \in Known /\ w \in Waiver /\ SameTarget(waivers[id], w)
      BY <2>3, LoadedType, RevisedType, OfferAssumption DEF Amend, Loads
    <3>2. Save(w) /\ w.id = id
      BY <2>3, <3>1 DEF Amend, SameTarget, BaselineIsImported
    <3>3. Alone(id, w)
      BY <2>3, <3>1, AloneEdit DEF Amend
    <3> QED
      BY <3>1, <3>2, <3>3, UniqueSave
  <2>4. ASSUME NEW id \in WaiverIds, NEW version, NEW blob \in Blobs,
               Attach(actor, id, version, blob)
        PROVE  UniqueLiveTarget'
    <3> DEFINE w == WithEvidence(waivers[id], blob)
    <3>1. id \in Known /\ w \in Waiver /\ SameTarget(waivers[id], w)
      BY <2>4, LoadedType, EvidenceType DEF Attach, Loads
    <3>2. Save(w) /\ w.id = id
      BY <2>4, <3>1 DEF Attach, SameTarget, BaselineIsImported
    <3>3. Alone(id, w)
      BY <2>4, <3>1, AloneEdit DEF Attach
    <3> QED
      BY <3>1, <3>2, <3>3, UniqueSave
  <2>5. ASSUME NEW id \in WaiverIds, NEW version, Submit(actor, id, version)
        PROVE  UniqueLiveTarget'
    <3> DEFINE w == [waivers[id] EXCEPT !.status = "submitted", !.approvals = << >>]
    <3>1. id \in Known /\ w \in Waiver /\ SameTarget(waivers[id], w)
      BY <2>5, LoadedType, SubmittedType DEF Submit, Loads
    <3>2. Save(w) /\ w.id = id
      BY <2>5, <3>1 DEF Submit, SameTarget, BaselineIsImported
    <3>3. Alone(id, w)
      BY <2>5, <3>1, AloneEdit DEF Submit
    <3> QED
      BY <3>1, <3>2, <3>3, UniqueSave
  <2>6. ASSUME NEW id \in WaiverIds, NEW version, NEW decision \in Decisions,
               Review(actor, id, version, decision)
        PROVE  UniqueLiveTarget'
    <3> DEFINE w == Reviewed(waivers[id], Vote(actor, waivers[id], decision))
    <3>1. id \in Known /\ w \in Waiver /\ SameTarget(waivers[id], w)
      BY <2>6, LoadedType, ReviewedType DEF Review, Loads
    <3>2. Save(w) /\ w.id = id
      BY <2>6, <3>1 DEF Review, SameTarget, BaselineIsImported
    <3>3. Alone(id, w)
      BY <2>6, <3>1, AloneEdit DEF Review
    <3> QED
      BY <3>1, <3>2, <3>3, UniqueSave
  <2>7. ASSUME NEW id \in WaiverIds, NEW version, NEW comment \in Words,
               Revoke(actor, id, version, comment)
        PROVE  UniqueLiveTarget'
    <3> DEFINE w == Revoked(waivers[id], comment)
    <3>1. id \in Known /\ w \in Waiver /\ SameTarget(waivers[id], w)
      BY <2>7, LoadedType, RevokedType DEF Revoke, Loads
    <3>2. Save(w) /\ w.id = id
      BY <2>7, <3>1 DEF Revoke, SameTarget, BaselineIsImported
    <3>3. Alone(id, w)
      BY <2>7, <3>1, AloneEdit DEF Revoke
    <3> QED
      BY <3>1, <3>2, <3>3, UniqueSave
  <2>8. ASSUME NEW id \in WaiverIds, NEW version, NEW r \in runs,
               NEW v \in r.violations, Rebind(actor, id, version, r, v)
        PROVE  UniqueLiveTarget'
    <3> DEFINE w == Rebound(waivers[id], r, v)
    <3>1. id \in Known /\ waivers[id] \in Waiver /\ w \in Waiver
      BY <2>8, LoadedType, ReboundType DEF Rebind, Loads, TypeOK
    <3>2. /\ w.id = id /\ w.scope = waivers[id].scope
          /\ w.fingerprint = Fingerprint(v)
      BY <3>1 DEF Rebound, Waiver, WaiverRecord, BaselineIsImported
    <3>3. Save(w)
      BY <2>8 DEF Rebind
    <3>4. Alone(id, w)
      BY <2>8, <3>2 DEF Rebind, Taken, Alone
    <3> QED
      BY <3>1, <3>2, <3>3, <3>4, UniqueSave
  <2>9. ASSUME NEW p \in Policies, SetPolicy(actor, p)
        PROVE  UniqueLiveTarget'
    BY <2>9 DEF SetPolicy, UniqueLiveTarget, Known
  <2> QED
    BY <1>3, <2>1, <2>2, <2>3, <2>4, <2>5, <2>6, <2>7, <2>8, <2>9, EnterCases DEF Operation, Start, Edit
<1> QED
  BY <1>1, <1>2, <1>3 DEF Next

\* No sequence of proposals, rebinds, amendments and revocations makes two
\* live waivers share a target.
THEOREM TargetsUnique == Spec => []UniqueLiveTarget
<1>1. Init => UniqueLiveTarget
  BY DEF Init, UniqueLiveTarget, Known
<1>2. TypeOK /\ BaselineIsImported /\ UniqueLiveTarget /\ [Next]_vars => UniqueLiveTarget'
  BY UniqueStep
<1>3. QED
  BY <1>1, <1>2, TypeCorrect, BaselineKept, PTL DEF Spec

------------------------------------------------------------------------------
(* Steps *)

\* w has just been entered under the unused identifier id.
Entered(id, w) ==
  /\ id \in WaiverIds \ Known
  /\ w \in Waiver
  /\ waivers' = [waivers EXCEPT ![id] = w]
  /\ w.version = 1 /\ w.status = "proposed"
  /\ w.evidence = {} /\ w.approvals = << >>
  /\ HasToken(w.creator, Contributors, w.scope.project)

\* x continues the record w.
Continues(w, x) ==
  /\ x.id = w.id /\ x.version = w.version /\ x.scope = w.scope
  /\ x.creator = w.creator /\ x.created_at = w.created_at
  /\ x.target.category = w.target.category /\ x.target.rule = w.target.rule
  /\ w.evidence \subseteq x.evidence
  /\ x.evidence \subseteq w.evidence \cup evidence'

\* x is w after the vote that completed its quorum.
Decided(w, x) ==
  /\ w.status = "submitted"
  /\ x = [w EXCEPT !.approvals = x.approvals, !.status = "approved"]
  /\ Len(x.approvals) >= Quorum(policy, w)
  /\ Approvable(w, policy, today)

\* x has just been saved as the next value of the live waiver id.
Edited(id, x) ==
  /\ id \in Known /\ waivers[id].status # "revoked"
  /\ x \in Waiver /\ Save(x)
  /\ Continues(waivers[id], x)
  /\ \A a \in Votes(x) :
       \/ a \in Votes(waivers[id])
       \/ HasToken(a.actor, Reviewing, x.scope.project)
  /\ x.status = "approved" => Decided(waivers[id], x)

\* A new record without votes names the actor who entered it.
LEMMA EnterFresh ==
  ASSUME TypeOK, NEW actor \in Principals, NEW id \in WaiverIds, NEW r \in runs,
         NEW v \in r.violations, NEW t \in Terms, Enter(actor, id, r, v, t),
         actor.role \in Contributors
  PROVE  Entered(id, Proposal(actor, id, r, v, t))
<1> DEFINE w == Proposal(actor, id, r, v, t)
<1>1. w \in Waiver
  BY ProposalType, PrincipalAssumption DEF TypeOK
<1>2. /\ w.version = 1 /\ w.status = "proposed" /\ w.evidence = {}
      /\ w.approvals = << >> /\ w.creator = actor.name /\ w.scope = r.scope
  BY DEF Proposal
<1>3. HasToken(w.creator, Contributors, w.scope.project)
  BY <1>2 DEF HasToken, Enter
<1> QED
  BY <1>1, <1>2, <1>3 DEF Entered, Enter, Known

\* An edit that clears the votes and stays on the category and rule.
LEMMA ResetEdited ==
  ASSUME NEW id \in Known, waivers[id].status # "revoked",
         NEW x \in Waiver, Save(x), Continues(waivers[id], x),
         x.approvals = << >>, x.status # "approved"
  PROVE  Edited(id, x)
<1>1. Votes(x) = {}
  BY DEF Votes
<1> QED
  BY <1>1 DEF Edited

\* The vote of a reviewer with a token edits the waiver, and approves it only
\* with a full quorum.
LEMMA ReviewEdited ==
  ASSUME TypeOK, NEW actor \in Principals, NEW id \in WaiverIds, NEW version,
         NEW decision \in Decisions, Review(actor, id, version, decision)
  PROVE  Edited(id, Reviewed(waivers[id], Vote(actor, waivers[id], decision)))
<1> DEFINE w == waivers[id]
           vote == Vote(actor, w, decision)
           x == Reviewed(w, vote)
<1>1. /\ id \in Known /\ w \in Waiver /\ w.approvals \in Seq(Approval)
      /\ x \in Waiver /\ Save(x) /\ w.status = "submitted"
      /\ Granted(actor, w.scope.project) /\ actor.role \in Reviewing
      /\ Approvable(w, policy, today)
  BY LoadedType, ReviewedType, PrincipalAssumption
  DEF Review, Loads, Waiver, WaiverRecord
<1>2. /\ x = [w EXCEPT !.approvals = x.approvals, !.status = x.status]
      /\ x.approvals = Append(w.approvals, vote)
      /\ Continues(w, x) /\ x.scope = w.scope
      /\ x.status = "approved" => Len(w.approvals) + 1 >= Quorum(policy, w)
  BY <1>1 DEF Reviewed, Continues, Waiver, WaiverRecord
<1>3. Len(x.approvals) = Len(w.approvals) + 1
  BY <1>1, <1>2
<1>4. HasToken(vote.actor, Reviewing, x.scope.project)
  BY <1>1, <1>2 DEF HasToken, Vote
<1> HIDE DEF vote, x
<1>5. \A a \in Votes(x) : a \in Votes(w) \/ a = vote
  BY <1>1, <1>2 DEF Votes
<1>6. x.status = "approved" => Decided(w, x)
  BY <1>1, <1>2, <1>3 DEF Decided
<1>7. Edited(id, x)
  BY <1>1, <1>2, <1>4, <1>5, <1>6 DEF Edited
<1> QED
  BY <1>7 DEF x, vote

\* Every step leaves all waivers alone, enters one, or edits one live one.
LEMMA StepEffect ==
  ASSUME TypeOK, [Next]_vars
  PROVE  /\ evidence \subseteq evidence'
         /\ \/ waivers' = waivers
            \/ \E id \in WaiverIds : \E w : Entered(id, w)
            \/ \E id \in WaiverIds : \E x : Edited(id, x)
<1> DEFINE Effect == /\ evidence \subseteq evidence'
                     /\ \/ waivers' = waivers
                        \/ \E id \in WaiverIds : \E w : Entered(id, w)
                        \/ \E id \in WaiverIds : \E x : Edited(id, x)
<1>1. CASE UNCHANGED vars
  BY <1>1 DEF vars
<1>2. CASE NextDay
  BY <1>2 DEF NextDay
<1>3. ASSUME NEW actor \in Principals, Operation(actor)
      PROVE  Effect
  <2>1. ASSUME NEW r \in Reports, ImportRun(actor, r)
        PROVE  Effect
    BY <2>1 DEF ImportRun
  <2>2. ASSUME NEW id \in WaiverIds, NEW r \in runs, NEW t \in Offers,
               NEW v \in r.violations,
               Propose(actor, id, r, v, t) \/ ImportProposal(actor, id, r, v, t)
        PROVE  Effect
    <3>1. PICK terms \in Terms : Enter(actor, id, r, v, terms)
      BY <2>2, EnterCases
    <3>2. actor.role \in Contributors
      BY <2>2 DEF Propose, ImportProposal
    <3> QED
      BY <3>1, <3>2, EnterFresh DEF Enter
  <2>3. ASSUME NEW id \in WaiverIds, NEW version, NEW t \in Offers,
               Amend(actor, id, version, t)
        PROVE  Effect
    <3> DEFINE x == Revised(waivers[id], t)
    <3>1. /\ id \in Known /\ waivers[id] \in Waiver /\ x \in Waiver /\ Save(x)
          /\ waivers[id].status # "revoked" /\ evidence' = evidence
      BY <2>3, LoadedType, RevisedType, OfferAssumption DEF Amend, Loads
    <3>2. /\ Continues(waivers[id], x) /\ x.approvals = << >>
          /\ x.status # "approved"
      BY <3>1 DEF Revised, Continues, Waiver, WaiverRecord
    <3> QED
      BY <3>1, <3>2, ResetEdited
  <2>4. ASSUME NEW id \in WaiverIds, NEW version, NEW blob \in Blobs,
               Attach(actor, id, version, blob)
        PROVE  Effect
    <3> DEFINE x == WithEvidence(waivers[id], blob)
    <3>1. /\ id \in Known /\ waivers[id] \in Waiver /\ x \in Waiver /\ Save(x)
          /\ waivers[id].status # "revoked" /\ evidence' = evidence \cup {blob}
      BY <2>4, LoadedType, EvidenceType DEF Attach, Loads
    <3>2. /\ Continues(waivers[id], x) /\ x.approvals = << >>
          /\ x.status # "approved"
      BY <3>1 DEF WithEvidence, Continues, Waiver, WaiverRecord
    <3> QED
      BY <3>1, <3>2, ResetEdited
  <2>5. ASSUME NEW id \in WaiverIds, NEW version, Submit(actor, id, version)
        PROVE  Effect
    <3> DEFINE x == [waivers[id] EXCEPT !.status = "submitted", !.approvals = << >>]
    <3>1. /\ id \in Known /\ waivers[id] \in Waiver /\ x \in Waiver /\ Save(x)
          /\ waivers[id].status # "revoked" /\ evidence' = evidence
      BY <2>5, LoadedType, SubmittedType DEF Submit, Loads
    <3>2. /\ Continues(waivers[id], x) /\ x.approvals = << >>
          /\ x.status # "approved"
      BY <3>1 DEF Continues, Waiver, WaiverRecord
    <3> QED
      BY <3>1, <3>2, ResetEdited
  <2>6. ASSUME NEW id \in WaiverIds, NEW version, NEW decision \in Decisions,
               Review(actor, id, version, decision)
        PROVE  Effect
    <3>1. evidence' = evidence
      BY <2>6 DEF Review
    <3> QED
      BY <2>6, <3>1, ReviewEdited
  <2>7. ASSUME NEW id \in WaiverIds, NEW version, NEW comment \in Words,
               Revoke(actor, id, version, comment)
        PROVE  Effect
    <3> DEFINE x == Revoked(waivers[id], comment)
    <3>1. /\ id \in Known /\ waivers[id] \in Waiver /\ x \in Waiver /\ Save(x)
          /\ waivers[id].status # "revoked" /\ evidence' = evidence
      BY <2>7, LoadedType, RevokedType DEF Revoke, Loads
    <3>2. /\ Continues(waivers[id], x) /\ x.approvals = waivers[id].approvals
          /\ x.status # "approved"
      BY <3>1 DEF Revoked, Continues, Waiver, WaiverRecord
    <3> HIDE DEF x
    <3>3. Edited(id, x)
      BY <3>1, <3>2 DEF Edited, Votes
    <3> QED
      BY <3>1, <3>3
  <2>8. ASSUME NEW id \in WaiverIds, NEW version, NEW r \in runs,
               NEW v \in r.violations, Rebind(actor, id, version, r, v)
        PROVE  Effect
    <3> DEFINE x == Rebound(waivers[id], r, v)
    <3>1. /\ id \in Known /\ waivers[id] \in Waiver /\ x \in Waiver /\ Save(x)
          /\ waivers[id].status # "revoked" /\ evidence' = evidence
          /\ v.category = waivers[id].target.category
          /\ v.rule = waivers[id].target.rule
      BY <2>8, LoadedType, ReboundType DEF Rebind, Loads, TypeOK
    <3>2. /\ Continues(waivers[id], x) /\ x.approvals = << >>
          /\ x.status # "approved"
      BY <3>1 DEF Rebound, Continues, Waiver, WaiverRecord
    <3> QED
      BY <3>1, <3>2, ResetEdited
  <2>9. ASSUME NEW p \in Policies, SetPolicy(actor, p)
        PROVE  Effect
    BY <2>9 DEF SetPolicy
  <2> QED
    BY <1>3, <2>1, <2>2, <2>3, <2>4, <2>5, <2>6, <2>7, <2>8, <2>9
    DEF Operation, Start, Edit
<1> QED
  BY <1>1, <1>2, <1>3 DEF Next

\* What a step does, read off the record it saved.
LEMMA EditedEffect ==
  ASSUME TypeOK, BaselineIsImported, NEW id, NEW x, Edited(id, x)
  PROVE  /\ id \in Known /\ Known' = Known
         /\ waivers'[id] = [x EXCEPT !.version = x.version + 1]
         /\ \A y \in Known \ {id} : waivers'[y] = waivers[y]
<1>1. x.id = id
  BY DEF Edited, Continues, BaselineIsImported
<1> QED
  BY <1>1, SaveEffect DEF Edited

\* An operation that enters a new record changes no other (create).
LEMMA FreshEffect ==
  ASSUME TypeOK, NEW id, NEW w, Entered(id, w)
  PROVE  /\ id \notin Known /\ Known' = Known \cup {id}
         /\ waivers'[id] = w
         /\ \A y \in Known : waivers'[y] = waivers[y]
BY NoWaiverAssumption DEF Entered, Known, TypeOK

\* Only these identifiers hold another value after a step.
LEMMA WhatChanges ==
  ASSUME TypeOK, BaselineIsImported, [Next]_vars, NEW id \in Known
  PROVE  /\ id \in Known'
         /\ \/ waivers'[id] = waivers[id]
            \/ \E x : /\ Edited(id, x)
                      /\ waivers'[id] = [x EXCEPT !.version = x.version + 1]
<1>1. CASE waivers' = waivers
  BY <1>1 DEF Known
<1>2. CASE \E i \in WaiverIds : \E w : Entered(i, w)
  BY <1>2, FreshEffect
<1>3. CASE \E i \in WaiverIds : \E x : Edited(i, x)
  <2>1. PICK i \in WaiverIds, x \in Waiver : Edited(i, x)
    BY <1>3 DEF Edited
  <2>2. /\ Known' = Known
        /\ waivers'[i] = [x EXCEPT !.version = x.version + 1]
        /\ \A y \in Known \ {i} : waivers'[y] = waivers[y]
    BY <2>1, EditedEffect
  <2>3. CASE i = id
    BY <2>1, <2>2, <2>3
  <2>4. CASE i # id
    BY <2>2, <2>4
  <2> QED
    BY <2>3, <2>4
<1> QED
  BY <1>1, <1>2, <1>3, StepEffect

\* A new identifier holds the record that was just entered.
LEMMA WhatIsNew ==
  ASSUME TypeOK, BaselineIsImported, [Next]_vars, NEW id \in Known' \ Known
  PROVE  \E w : Entered(id, w) /\ waivers'[id] = w
<1>1. CASE waivers' = waivers
  BY <1>1 DEF Known
<1>2. CASE \E i \in WaiverIds : \E w : Entered(i, w)
  BY <1>2, FreshEffect
<1>3. CASE \E i \in WaiverIds : \E x : Edited(i, x)
  BY <1>3, EditedEffect
<1> QED
  BY <1>1, <1>2, <1>3, StepEffect

\* No step of any actor changes a revoked waiver.
THEOREM RevocationTerminal == Spec => RevocationIsTerminal
<1>1. /\ TypeOK /\ BaselineIsImported /\ [Next]_vars
      => [\A id \in Known :
            waivers[id].status = "revoked" => waivers'[id] = waivers[id]]_vars
  <2>1. ASSUME TypeOK, BaselineIsImported, [Next]_vars, NEW id \in Known,
               waivers[id].status = "revoked"
        PROVE  waivers'[id] = waivers[id]
    BY <2>1, WhatChanges DEF Edited
  <2> QED
    BY <2>1
<1> QED
  BY <1>1, TypeCorrect, BaselineKept, PTL DEF Spec, RevocationIsTerminal

\* Every change raises the version by one and stays in the waiver's lineage.
THEOREM LineageKept == Spec => VersionsAndLineage
<1> DEFINE Step(id) ==
      LET w == waivers[id]
          x == waivers'[id] IN
      /\ Created(id) => x.version = 1 /\ x.status = "proposed"
      /\ Changed(id) =>
           /\ id \in Known'
           /\ x.version = w.version + 1
           /\ x.id = w.id /\ x.scope = w.scope
           /\ x.creator = w.creator /\ x.created_at = w.created_at
           /\ x.target.category = w.target.category
           /\ x.target.rule = w.target.rule
<1>1. ASSUME TypeOK, BaselineIsImported, [Next]_vars, NEW id \in WaiverIds
      PROVE  Step(id)
  <2>1. Created(id) => waivers'[id].version = 1 /\ waivers'[id].status = "proposed"
    <3> SUFFICES ASSUME Created(id)
                 PROVE  waivers'[id].version = 1 /\ waivers'[id].status = "proposed"
      OBVIOUS
    <3>1. PICK w : Entered(id, w) /\ waivers'[id] = w
      BY <1>1, WhatIsNew DEF Created
    <3> QED
      BY <3>1 DEF Entered
  <2>2. ASSUME Changed(id)
        PROVE  LET w == waivers[id]
                   x == waivers'[id] IN
               /\ id \in Known'
               /\ x.version = w.version + 1
               /\ x.id = w.id /\ x.scope = w.scope
               /\ x.creator = w.creator /\ x.created_at = w.created_at
               /\ x.target.category = w.target.category
               /\ x.target.rule = w.target.rule
    <3>1. PICK y : /\ id \in Known' /\ Edited(id, y)
                   /\ waivers'[id] = [y EXCEPT !.version = y.version + 1]
      BY <1>1, <2>2, WhatChanges DEF Changed
    <3>2. y \in Waiver /\ Continues(waivers[id], y)
      BY <3>1 DEF Edited
    <3> DEFINE x == waivers'[id]
    <3>3. /\ x.version = y.version + 1 /\ x.id = y.id /\ x.scope = y.scope
          /\ x.creator = y.creator /\ x.created_at = y.created_at
          /\ x.target = y.target
      BY <3>1, <3>2 DEF Waiver, WaiverRecord
    <3> QED
      BY <3>1, <3>2, <3>3 DEF Continues
  <2> QED
    BY <2>1, <2>2
<1>2. TypeOK /\ BaselineIsImported /\ [Next]_vars => [\A id \in WaiverIds : Step(id)]_vars
  BY <1>1
<1> QED
  BY <1>2, TypeCorrect, BaselineKept, PTL DEF Spec, VersionsAndLineage

\* Evidence that a waiver cites is stored.
EvidenceStored == \A id \in Known : waivers[id].evidence \subseteq evidence

\* No step loses evidence, or cites evidence it does not store.
LEMMA CitedStep ==
  ASSUME TypeOK, BaselineIsImported, EvidenceStored, [Next]_vars
  PROVE  /\ evidence \subseteq evidence'
         /\ \A id \in Known :
              waivers[id].evidence \subseteq waivers'[id].evidence \cap evidence'
         /\ EvidenceStored'
<1> DEFINE Keeps(id) == waivers[id].evidence \subseteq waivers'[id].evidence \cap evidence'
<1>1. evidence \subseteq evidence'
  BY StepEffect
<1>2. ASSUME NEW id \in Known
      PROVE  Keeps(id) /\ waivers'[id].evidence \subseteq evidence'
  <2>1. CASE waivers'[id] = waivers[id]
    BY <1>1, <2>1 DEF EvidenceStored
  <2>2. ASSUME NEW x, Edited(id, x),
               waivers'[id] = [x EXCEPT !.version = x.version + 1]
        PROVE  Keeps(id) /\ waivers'[id].evidence \subseteq evidence'
    <3>1. waivers'[id].evidence = x.evidence
      BY <2>2 DEF Edited, Waiver, WaiverRecord
    <3> QED
      BY <1>1, <2>2, <3>1 DEF Edited, Continues, EvidenceStored
  <2> QED
    BY <2>1, <2>2, WhatChanges
<1>3. ASSUME NEW id \in Known' \ Known
      PROVE  waivers'[id].evidence \subseteq evidence'
  BY WhatIsNew DEF Entered
<1> QED
  BY <1>1, <1>2, <1>3 DEF EvidenceStored

\* What a waiver cites is stored, in every reachable state.
LEMMA CitedStored == Spec => []EvidenceStored
<1>1. Init => EvidenceStored
  BY DEF Init, EvidenceStored, Known
<1>2. TypeOK /\ BaselineIsImported /\ EvidenceStored /\ [Next]_vars => EvidenceStored'
  BY CitedStep
<1> QED
  BY <1>1, <1>2, TypeCorrect, BaselineKept, PTL DEF Spec

\* Evidence is never lost, neither from the store nor from a waiver.
THEOREM EvidenceKept == Spec => EvidenceRetained
<1>1. /\ TypeOK /\ BaselineIsImported /\ EvidenceStored /\ [Next]_vars
      => [/\ evidence \subseteq evidence'
          /\ \A id \in Known :
               waivers[id].evidence \subseteq waivers'[id].evidence \cap evidence']_vars
  BY CitedStep
<1> QED
  BY <1>1, TypeCorrect, BaselineKept, CitedStored, PTL DEF Spec, EvidenceRetained

\* Whoever created a waiver or voted on it has a token for its project.
THEOREM ActorsGranted == Spec => []ActorsAreGranted
<1>1. Init => ActorsAreGranted
  BY DEF Init, ActorsAreGranted, Known
<1>2. TypeOK /\ BaselineIsImported /\ ActorsAreGranted /\ [Next]_vars => ActorsAreGranted'
  <2> DEFINE OK(w) == /\ HasToken(w.creator, Contributors, w.scope.project)
                      /\ \A a \in Votes(w) : HasToken(a.actor, Reviewing, w.scope.project)
  <2> SUFFICES ASSUME TypeOK, BaselineIsImported, ActorsAreGranted, [Next]_vars
               PROVE  \A id \in Known' : OK(waivers'[id])
    BY DEF ActorsAreGranted, HasToken, Votes, Granted
  <2>1. ASSUME NEW id \in Known
        PROVE  OK(waivers'[id])
    <3>0. OK(waivers[id])
      BY DEF ActorsAreGranted
    <3>1. CASE waivers'[id] = waivers[id]
      BY <3>0, <3>1
    <3>2. ASSUME NEW x, Edited(id, x),
                 waivers'[id] = [x EXCEPT !.version = x.version + 1]
          PROVE  OK(waivers'[id])
      <4>1. /\ waivers'[id].creator = x.creator /\ waivers'[id].scope = x.scope
            /\ waivers'[id].approvals = x.approvals
        BY <3>2 DEF Edited, Waiver, WaiverRecord
      <4>2. Votes(waivers'[id]) = Votes(x)
        BY <4>1 DEF Votes
      <4>3. OK(x)
        BY <3>0, <3>2 DEF Edited, Continues
      <4> QED
        BY <4>1, <4>2, <4>3
    <3> QED
      BY <3>1, <3>2, WhatChanges
  <2>2. ASSUME NEW id \in Known' \ Known
        PROVE  OK(waivers'[id])
    <3>1. PICK w : Entered(id, w) /\ waivers'[id] = w
      BY <2>2, WhatIsNew
    <3>2. Votes(w) = {}
      BY <3>1 DEF Entered, Votes
    <3> QED
      BY <3>1, <3>2 DEF Entered
  <2> QED
    BY <2>1, <2>2
<1> QED
  BY <1>1, <1>2, TypeCorrect, BaselineKept, PTL DEF Spec

------------------------------------------------------------------------------
(* Approval takes a quorum *)

\* When all votes are bound and all approve, each one counts for itself.
LEMMA VotersCounted ==
  ASSUME NEW w \in Waiver, VotesBound(w), OnlyApprovals(w, Len(w.approvals))
  PROVE  Cardinality(GoodVoters(w)) = Len(w.approvals)
<1> DEFINE n == Len(w.approvals)
           f == [i \in 1 .. n |-> w.approvals[i].actor]
<1>1. n \in Nat
  BY DEF Waiver, WaiverRecord
<1>2. GoodVoters(w) = {w.approvals[i].actor : i \in 1 .. n}
  BY DEF GoodVoters, Votes, VotesBound, OnlyApprovals
<1>3. f \in Surjection(1 .. n, GoodVoters(w))
  BY <1>2 DEF Surjection
<1>4. f \in Injection(1 .. n, GoodVoters(w))
  BY <1>2 DEF Injection, IsInjective, VotesBound
<1>5. IsFiniteSet(1 .. n) /\ Cardinality(1 .. n) = n
  BY <1>1, FS_Interval
<1> QED
  BY <1>3, <1>4, <1>5, FS_Surjection

\* A waiver becomes approved only with the quorum the policy asks for at that
\* moment, of distinct independent reviewers of its unchanged content.
THEOREM ApprovalSound == Spec => ApprovalTakesQuorum
<1> DEFINE Step(id) ==
      LET w == waivers[id]
          x == waivers'[id] IN
      x.status = "approved" /\ (id \in Known => w.status # "approved") =>
        /\ id \in Known
        /\ Cardinality(GoodVoters(x)) >= Quorum(policy, x)
        /\ ApprovalDigest(x) = ApprovalDigest(w)
        /\ Approvable(x, policy, today)
<1>1. ASSUME TypeOK, BaselineIsImported, [Next]_vars,
             TypeOK', VotesBindContent', DecisionHistory', NEW id \in Known'
      PROVE  Step(id)
  <2> DEFINE w == waivers[id]
             x == waivers'[id]
  <2> SUFFICES ASSUME x.status = "approved", id \in Known => w.status # "approved"
               PROVE  /\ id \in Known
                      /\ Cardinality(GoodVoters(x)) >= Quorum(policy, x)
                      /\ ApprovalDigest(x) = ApprovalDigest(w)
                      /\ Approvable(x, policy, today)
    OBVIOUS
  <2>1. id \in Known
    BY <1>1, WhatIsNew DEF Entered
  <2>2. w \in Waiver /\ x \in Waiver
    BY <1>1, <2>1 DEF TypeOK, Known
  <2>3. PICK y : Edited(id, y) /\ x = [y EXCEPT !.version = y.version + 1]
    BY <1>1, <2>1, WhatChanges
  <2>4. y \in Waiver /\ y.status = "approved" /\ x.approvals = y.approvals
    BY <2>3 DEF Edited, Waiver, WaiverRecord
  <2>5. Decided(w, y)
    BY <2>3, <2>4 DEF Edited
  <2>6. /\ x = [w EXCEPT !.approvals = x.approvals, !.status = x.status,
                         !.version = x.version]
        /\ Len(x.approvals) >= Quorum(policy, w)
        /\ Approvable(w, policy, today)
    BY <2>2, <2>3, <2>4, <2>5 DEF Decided, Waiver, WaiverRecord
  <2>7. ApprovalDigest(x) = ApprovalDigest(w)
    BY <2>2, <2>6 DEF ApprovalDigest, Waiver, WaiverRecord
  <2>8. /\ x.target = w.target /\ x.expires_on = w.expires_on
        /\ x.created_at = w.created_at /\ x.evidence = w.evidence
    BY <2>2, <2>6 DEF Waiver, WaiverRecord
  <2>9. Quorum(policy, x) = Quorum(policy, w) /\ Approvable(x, policy, today)
    BY <2>6, <2>8 DEF Quorum, HighRisk, Approvable, Expired, BeyondHorizon
  <2>10. VotesBound(x) /\ OnlyApprovals(x, Len(x.approvals))
    BY <1>1 DEF VotesBindContent, DecisionHistory, HistoryShape, UnderReview
  <2>11. Cardinality(GoodVoters(x)) = Len(x.approvals)
    BY <2>2, <2>10, VotersCounted
  <2> QED
    BY <2>1, <2>6, <2>7, <2>9, <2>11
<1>2. /\ TypeOK /\ BaselineIsImported /\ [Next]_vars
      /\ TypeOK' /\ VotesBindContent' /\ DecisionHistory'
      => [\A id \in Known' : Step(id)]_vars
  BY <1>1
<1> QED
  BY <1>2, TypeCorrect, BaselineKept, ReviewsSound, PTL
  DEF Spec, ApprovalTakesQuorum, ReviewsAreSound

------------------------------------------------------------------------------

\* Approval by quorum, final revocation, lineage and evidence together: no
\* step of any actor breaks one of them.
THEOREM StepsSound == Spec => StepsAreSound
BY ApprovalSound, RevocationTerminal, LineageKept, EvidenceKept DEF StepsAreSound

------------------------------------------------------------------------------
(* Each operation is one step of ReviewProtocol, or none *)

\* Drafts, fresh submissions and revoked waivers have nobody for them.
LEMMA NoAyes ==
  ASSUME NEW w, w.status \notin UnderReview \/ w.approvals = << >>
  PROVE  Ayes(w) = {}
BY DEF Ayes, Votes

\* What the next version of a saved record shows.
LEMMA SameView ==
  ASSUME NEW w \in Waiver, NEW x, x = [w EXCEPT !.version = w.version + 1]
  PROVE  /\ Stage(x) = Stage(w) /\ Ayes(x) = Ayes(w)
         /\ Reviewable(x) = ApprovalDigest(w)
<1>1. w # NoWaiver /\ x \in Waiver /\ x # NoWaiver
  BY NoWaiverAssumption DEF Waiver, WaiverRecord
<1>2. x.status = w.status /\ x.approvals = w.approvals /\ ApprovalDigest(x) = ApprovalDigest(w)
  BY NextVersion
<1>3. Reviewable(x) = ApprovalDigest(w)
  BY <1>1, <1>2 DEF Reviewable
<1>4. Stage(x) = Stage(w)
  <2>1. w.status \in Statuses
    BY DEF Waiver, WaiverRecord
  <2> QED
    BY <1>1, <1>2, <2>1 DEF Stage, Statuses
<1>5. Votes(x) = Votes(w)
  BY <1>2 DEF Votes
<1>6. Ayes(x) = Ayes(w)
  BY <1>1, <1>2, <1>5 DEF Ayes
<1> QED
  BY <1>3, <1>4, <1>6

\* When no vote but ayes is counted, the ayes are the good voters.
LEMMA AyesCounted ==
  ASSUME NEW w \in Waiver, w.status \in UnderReview,
         VotesBound(w), OnlyApprovals(w, Len(w.approvals))
  PROVE  /\ Ayes(w) = {w.approvals[i].actor : i \in 1 .. Len(w.approvals)}
         /\ IsFiniteSet(Ayes(w)) /\ Cardinality(Ayes(w)) = Len(w.approvals)
<1> DEFINE n == Len(w.approvals)
           voters == {w.approvals[i].actor : i \in 1 .. n}
           f == [i \in 1 .. n |-> w.approvals[i].actor]
<1>1. n \in Nat /\ w # NoWaiver
  BY NoWaiverAssumption DEF Waiver, WaiverRecord
<1>2. Ayes(w) = voters
  BY <1>1 DEF Ayes, Votes, OnlyApprovals
<1>3. GoodVoters(w) = voters
  BY DEF GoodVoters, Votes, VotesBound, OnlyApprovals
<1>4. IsFiniteSet(1 .. n)
  BY <1>1, FS_Interval
<1>5. IsFiniteSet(voters)
  <2>1. f \in Surjection(1 .. n, voters)
    BY DEF Surjection
  <2> QED
    BY <1>4, <2>1, FS_Surjection
<1> QED
  BY <1>2, <1>3, <1>5, VotersCounted

\* One more vote adds its voter to the ayes exactly if it is an aye.
LEMMA OneMoreVote ==
  ASSUME NEW w \in Waiver, w.status = "submitted", NEW vote \in Approval,
         OnlyApprovals(w, Len(w.approvals))
  PROVE  Ayes(Reviewed(w, vote)) =
           IF vote.decision = "approve" THEN Ayes(w) \cup {vote.actor} ELSE Ayes(w)
<1> DEFINE x == Reviewed(w, vote)
           n == Len(w.approvals)
<1>1. /\ w.approvals \in Seq(Approval) /\ n \in Nat /\ w # NoWaiver
      /\ w.status \in UnderReview
  BY NoWaiverAssumption DEF Waiver, WaiverRecord, UnderReview
<1>2. /\ x.approvals = Append(w.approvals, vote)
      /\ x.status \in UnderReview
      /\ x \in Waiver
  BY <1>1, AppendProperties DEF Reviewed, UnderReview, Waiver, WaiverRecord, Statuses
<1>3. Votes(x) = Votes(w) \cup {vote}
  <2>1. /\ Len(x.approvals) = n + 1 /\ x.approvals[n + 1] = vote
        /\ \A i \in 1 .. n : x.approvals[i] = w.approvals[i]
    BY <1>1, <1>2
  <2> HIDE DEF x
  <2>2. 1 .. n + 1 = (1 .. n) \cup {n + 1}
    BY <1>1
  <2> QED
    BY <2>1, <2>2 DEF Votes
<1>4. x # NoWaiver
  BY <1>2, NoWaiverAssumption
<1> HIDE DEF x
<1>5. Ayes(x) = {a.actor : a \in {b \in Votes(w) \cup {vote} : b.decision = "approve"}}
  BY <1>2, <1>3, <1>4 DEF Ayes
<1>6. Ayes(w) = {a.actor : a \in {b \in Votes(w) : b.decision = "approve"}}
  BY <1>1 DEF Ayes
<1>7. Ayes(x) = IF vote.decision = "approve" THEN Ayes(w) \cup {vote.actor} ELSE Ayes(w)
  BY <1>5, <1>6
<1> QED
  BY <1>7 DEF x

------------------------------------------------------------------------------
(* One save is one step of the protocol *)

\* When one record is replaced, one subject of the protocol moves.
LEMMA OneMoves ==
  ASSUME TypeOK, policy' = policy, NEW id \in WaiverIds, NEW w,
         waivers' = [waivers EXCEPT ![id] = w]
  PROVE  /\ Protocol!Becomes(id, Stage(w), Ayes(w))
         /\ waivers'[id] = w
<1>1. /\ waivers'[id] = w
      /\ \A y \in WaiverIds \ {id} : waivers'[y] = waivers[y]
  BY DEF TypeOK
<1>2. [y \in WaiverIds |-> Stage(waivers'[y])]
        = [[y \in WaiverIds |-> Stage(waivers[y])] EXCEPT ![id] = Stage(w)]
  <2>1. \A y \in WaiverIds \ {id} : Stage(waivers'[y]) = Stage(waivers[y])
    BY <1>1
  <2>2. Stage(waivers'[id]) = Stage(w)
    BY <1>1
  <2> QED
    BY <2>1, <2>2
<1>3. [y \in WaiverIds |-> Ayes(waivers'[y])]
        = [[y \in WaiverIds |-> Ayes(waivers[y])] EXCEPT ![id] = Ayes(w)]
  <2>1. \A y \in WaiverIds \ {id} : Ayes(waivers'[y]) = Ayes(waivers[y])
    BY <1>1
  <2>2. Ayes(waivers'[id]) = Ayes(w)
    BY <1>1
  <2> QED
    BY <2>1, <2>2
<1>4. [y \in WaiverIds |-> Reviewable(waivers'[y])]
        = [[y \in WaiverIds |-> Reviewable(waivers[y])]
             EXCEPT ![id] = [y \in WaiverIds |-> Reviewable(waivers'[y])][id]]
  <2>1. \A y \in WaiverIds \ {id} : Reviewable(waivers'[y]) = Reviewable(waivers[y])
    BY <1>1
  <2>2. Reviewable(waivers'[id]) = Reviewable(w)
    BY <1>1
  <2>3. [y \in WaiverIds |-> Reviewable(waivers'[y])]
          = [[y \in WaiverIds |-> Reviewable(waivers[y])]
               EXCEPT ![id] = Reviewable(w)]
    BY <2>1, <2>2
  <2>4. [y \in WaiverIds |-> Reviewable(waivers'[y])][id] = Reviewable(w)
    BY <2>2
  <2> QED
    BY <2>3, <2>4
<1> QED
  BY <1>1, <1>2, <1>3, <1>4 DEF Protocol!Becomes

\* A saved record is seen at its own subject only.
LEMMA SaveMoves ==
  ASSUME TypeOK, policy' = policy, NEW w \in Waiver, Save(w)
  PROVE  /\ Protocol!Becomes(w.id, Stage(w), Ayes(w))
         /\ Reviewable(waivers'[w.id]) = ApprovalDigest(w)
<1> DEFINE x == [w EXCEPT !.version = w.version + 1]
<1>1. w.id \in WaiverIds
  BY DEF Waiver, WaiverRecord
<1>2. waivers' = [waivers EXCEPT ![w.id] = x]
  BY DEF Save
<1>3. Stage(x) = Stage(w) /\ Ayes(x) = Ayes(w) /\ Reviewable(x) = ApprovalDigest(w)
  BY SameView
<1> HIDE DEF x
<1> QED
  BY <1>1, <1>2, <1>3, OneMoves

\* What a live record shows before the step.
LEMMA LiveView ==
  ASSUME TypeOK, NEW id \in Known
  PROVE  /\ waivers[id] \in Waiver
         /\ Reviewable(waivers[id]) = ApprovalDigest(waivers[id])
         /\ Stage(waivers[id]) # "absent"
         /\ waivers[id].status # "revoked" => Stage(waivers[id]) # "withdrawn"
         /\ Stage(waivers[id]) = "withdrawn" => waivers[id].status = "revoked"
BY DEF TypeOK, Known, Reviewable, Stage, Waiver, WaiverRecord, Statuses

\* An edit that leaves the waiver proposed, without votes, is a new draft.
LEMMA Redrafts ==
  ASSUME TypeOK, policy' = policy, NEW id \in Known, waivers[id].status # "revoked",
         NEW x \in Waiver, x.id = id, Save(x),
         x.status = "proposed", x.approvals = << >>
  PROVE  Protocol!Draft(id)
<1>1. Stage(x) = "open" /\ Ayes(x) = {}
  BY NoAyes, NoWaiverAssumption DEF Stage
<1>2. Stage(waivers[id]) # "withdrawn" /\ id \in WaiverIds
  BY LiveView DEF Known
<1> QED
  BY <1>1, <1>2, SaveMoves DEF Protocol!Draft

\* An edit that keeps the content keeps what the protocol calls content.
LEMMA KeepsContent ==
  ASSUME TypeOK, policy' = policy, NEW id \in Known,
         NEW x \in Waiver, x.id = id, Save(x),
         ApprovalDigest(x) = ApprovalDigest(waivers[id])
  PROVE  Protocol!SameContent(id)
<1>1. id \in WaiverIds
  BY DEF Known
<1>2. Reviewable(waivers'[id]) = Reviewable(waivers[id])
  BY SaveMoves, LiveView
<1> QED
  BY <1>1, <1>2 DEF Protocol!SameContent

------------------------------------------------------------------------------
(* Each operation is one step of the protocol *)

\* The invariants of the lifecycle that the steps rely on.
AllSound == TypeOK /\ BaselineIsImported /\ VotesBindContent /\ DecisionHistory

\* A vote is an aye or a nay of somebody eligible who is not for it yet.
LEMMA ReviewVotes ==
  ASSUME AllSound, NEW actor \in Principals, NEW id \in WaiverIds, NEW version,
         NEW decision \in Decisions, Review(actor, id, version, decision)
  PROVE  Protocol!Aye(id, actor.name) \/ Protocol!Nay(id, actor.name)
<1> DEFINE w == waivers[id]
           vote == Vote(actor, w, decision)
           x == Reviewed(w, vote)
<1>1. /\ TypeOK /\ id \in Known /\ w \in Waiver /\ w.id = id
      /\ Save(x) /\ policy' = policy /\ w.status = "submitted"
      /\ actor.name \in Independent(w) /\ ~HasVoted(actor.name, w)
  BY LoadedType DEF AllSound, Review, Loads, BaselineIsImported, Independent
<1>2. /\ x \in Waiver /\ x.id = id
      /\ vote \in Approval /\ vote.actor = actor.name /\ vote.decision = decision
  BY <1>1, ReviewedType, DigestType, PrincipalAssumption
  DEF SameTarget, Vote, Approval, Principal
<1>3. VotesBound(w) /\ OnlyApprovals(w, Len(w.approvals))
  BY <1>1 DEF AllSound, VotesBindContent, DecisionHistory, HistoryShape, UnderReview
<1>4. /\ Ayes(w) = {w.approvals[i].actor : i \in 1 .. Len(w.approvals)}
      /\ IsFiniteSet(Ayes(w)) /\ Cardinality(Ayes(w)) = Len(w.approvals)
  BY <1>1, <1>3, AyesCounted DEF UnderReview
<1>5. actor.name \notin Ayes(w)
  BY <1>1, <1>4 DEF HasVoted
<1>6. ApprovalDigest(x) = ApprovalDigest(w)
  BY <1>1 DEF Reviewed, ApprovalDigest, Waiver, WaiverRecord
<1>7. /\ Stage(w) = "review" /\ Reviewable(w) = ApprovalDigest(w)
      /\ Protocol!SameContent(id)
      /\ Protocol!Becomes(id, Stage(x), Ayes(x))
  <2>1. Stage(w) = "review"
    BY <1>1, NoWaiverAssumption DEF Stage
  <2> QED
    BY <1>1, <1>2, <1>6, <2>1, LiveView, KeepsContent, SaveMoves
<1>8. /\ Independent(ApprovalDigest(w)) = Independent(w)
      /\ Quorum(policy, ApprovalDigest(w)) = Quorum(policy, w)
  BY <1>1 DEF ApprovalDigest, Independent, Quorum, HighRisk, Waiver, WaiverRecord
<1>9. Ayes(x) = IF decision = "approve" THEN Ayes(w) \cup {actor.name} ELSE Ayes(w)
  BY <1>1, <1>2, <1>3, OneMoreVote
<1>10. x.status = IF decision = "reject" THEN "rejected"
                  ELSE IF Len(w.approvals) + 1 >= Quorum(policy, w)
                         THEN "approved" ELSE "submitted"
  BY <1>1, <1>2 DEF Reviewed, Waiver, WaiverRecord
<1>11. x # NoWaiver
  BY <1>2, NoWaiverAssumption
<1> HIDE DEF x
<1>12. Protocol!MayVote(id, actor.name)
  BY <1>1, <1>5, <1>7, <1>8 DEF Protocol!MayVote
<1>13. CASE decision = "approve"
  <2>1. Cardinality(Ayes(w) \cup {actor.name}) = Len(w.approvals) + 1
    BY <1>4, <1>5, FS_AddElement
  <2>2. /\ Ayes(x) = Ayes(w) \cup {actor.name}
        /\ Stage(x) = IF Cardinality(Ayes(w) \cup {actor.name}) >= Quorum(policy, ApprovalDigest(w))
                        THEN "granted" ELSE "review"
    BY <1>8, <1>9, <1>10, <1>11, <1>13, <2>1 DEF Stage
  <2>3. [y \in WaiverIds |-> Ayes(waivers[y])][id] = Ayes(w)
    OBVIOUS
  <2>4. [y \in WaiverIds |-> Reviewable(waivers[y])][id] = ApprovalDigest(w)
    BY <1>7
  <2>5. Protocol!Cardinality(Ayes(w) \cup {actor.name}) = Cardinality(Ayes(w) \cup {actor.name})
    BY DEF Cardinality, Protocol!Cardinality
  <2> QED
    BY <1>7, <1>12, <2>2, <2>3, <2>4, <2>5 DEF Protocol!Aye
<1>14. CASE decision = "reject"
  <2>1. Ayes(x) = Ayes(w) /\ Stage(x) = "refused"
    BY <1>9, <1>10, <1>11, <1>14 DEF Stage
  <2> QED
    BY <1>7, <1>12, <2>1 DEF Protocol!Nay
<1> QED
  BY <1>13, <1>14 DEF Decisions

\* A step that leaves every waiver alone is at most a change of the rule.
LEMMA RuleOnly ==
  ASSUME waivers' = waivers
  PROVE  Protocol!ChangeRule
BY DEF Protocol!ChangeRule

\* Entering a waiver is the first draft of its subject.
LEMMA EnterDrafts ==
  ASSUME TypeOK, NEW actor \in Principals, NEW id \in WaiverIds, NEW r \in runs,
         NEW v \in r.violations, NEW t \in Terms, Enter(actor, id, r, v, t)
  PROVE  Protocol!Draft(id)
<1> DEFINE w == Proposal(actor, id, r, v, t)
<1>1. waivers' = [waivers EXCEPT ![id] = w] /\ policy' = policy /\ waivers[id] = NoWaiver
  BY DEF Enter, Known
<1>2. w \in Waiver /\ w.status = "proposed" /\ w.approvals = << >>
  BY ProposalType, PrincipalAssumption DEF TypeOK, Proposal
<1> HIDE DEF w
<1>3. Stage(w) = "open" /\ Ayes(w) = {}
  BY <1>2, NoAyes, NoWaiverAssumption DEF Stage
<1>4. Stage(waivers[id]) = "absent"
  BY <1>1 DEF Stage
<1> QED
  BY <1>1, <1>3, <1>4, OneMoves DEF Protocol!Draft

\* A submission puts the content that was drafted to the vote.
LEMMA SubmitAsks ==
  ASSUME AllSound, NEW actor, NEW id, NEW version, Submit(actor, id, version)
  PROVE  Protocol!Ask(id)
<1> DEFINE w == waivers[id]
           x == [w EXCEPT !.status = "submitted", !.approvals = << >>]
<1>1. /\ TypeOK /\ id \in Known /\ id \in WaiverIds /\ w \in Waiver /\ w.id = id
      /\ Save(x) /\ policy' = policy /\ w.status \in {"proposed", "rejected"}
  BY LoadedType DEF AllSound, Submit, Loads, BaselineIsImported
<1>2. /\ x \in Waiver /\ x.id = id
      /\ x.status = "submitted" /\ x.approvals = << >>
      /\ ApprovalDigest(x) = ApprovalDigest(w)
  BY <1>1, SubmittedType DEF Waiver, WaiverRecord, ApprovalDigest
<1> HIDE DEF x
<1>3. Stage(x) = "review" /\ Ayes(x) = {} /\ Stage(w) \in {"open", "refused"}
  BY <1>1, <1>2, NoAyes, NoWaiverAssumption DEF Stage
<1>4. Protocol!Becomes(id, "review", {}) /\ Protocol!SameContent(id)
  BY <1>1, <1>2, <1>3, SaveMoves, KeepsContent
<1> QED
  BY <1>1, <1>3, <1>4 DEF Protocol!Ask

\* A revocation withdraws the subject.
LEMMA RevokeWithdraws ==
  ASSUME AllSound, NEW actor, NEW id, NEW version, NEW comment \in Words,
         Revoke(actor, id, version, comment)
  PROVE  Protocol!Withdraw(id)
<1> DEFINE w == waivers[id]
           x == Revoked(w, comment)
<1>1. /\ TypeOK /\ id \in Known /\ id \in WaiverIds /\ w \in Waiver /\ w.id = id
      /\ Save(x) /\ policy' = policy /\ w.status # "revoked"
  BY LoadedType DEF AllSound, Revoke, Loads, BaselineIsImported
<1>2. x \in Waiver /\ x.id = id /\ x.status = "revoked"
  BY <1>1, RevokedType DEF Revoked, Waiver, WaiverRecord
<1> HIDE DEF x
<1>3. Stage(x) = "withdrawn" /\ Ayes(x) = {}
  BY <1>2, NoAyes, NoWaiverAssumption DEF Stage, UnderReview
<1>4. Stage(w) \notin {"absent", "withdrawn"}
  BY <1>1, LiveView
<1> QED
  BY <1>1, <1>2, <1>3, <1>4, SaveMoves DEF Protocol!Withdraw

\* An operation is a step of the protocol, or changes the rule or nothing.
LEMMA OperationReviews ==
  ASSUME AllSound, NEW actor \in Principals, Operation(actor)
  PROVE  Protocol!ReviewNext
<1> USE DEF AllSound
<1>1. ASSUME NEW r \in Reports, ImportRun(actor, r)
      PROVE  Protocol!ReviewNext
  BY <1>1, RuleOnly DEF ImportRun, Protocol!ReviewNext
<1>2. ASSUME NEW id \in WaiverIds, NEW r \in runs, NEW t \in Offers, NEW v \in r.violations,
             Propose(actor, id, r, v, t) \/ ImportProposal(actor, id, r, v, t)
      PROVE  Protocol!ReviewNext
  <2>1. PICK terms \in Terms : Enter(actor, id, r, v, terms)
    BY <1>2, EnterCases
  <2> QED
    BY <2>1, EnterDrafts DEF Protocol!ReviewNext
<1>3. ASSUME NEW id \in WaiverIds, NEW version, NEW t \in Offers, Amend(actor, id, version, t)
      PROVE  Protocol!ReviewNext
  <2> DEFINE x == Revised(waivers[id], t)
  <2>1. /\ id \in Known /\ waivers[id] \in Waiver /\ x \in Waiver /\ Save(x)
        /\ waivers[id].status # "revoked" /\ policy' = policy /\ x.id = id
    BY <1>3, LoadedType, RevisedType, OfferAssumption DEF Amend, Loads, SameTarget, BaselineIsImported
  <2>2. x.status = "proposed" /\ x.approvals = << >>
    BY <2>1 DEF Revised, Waiver, WaiverRecord
  <2> QED
    BY <2>1, <2>2, Redrafts DEF Protocol!ReviewNext
<1>4. ASSUME NEW id \in WaiverIds, NEW version, NEW blob \in Blobs, Attach(actor, id, version, blob)
      PROVE  Protocol!ReviewNext
  <2> DEFINE x == WithEvidence(waivers[id], blob)
  <2>1. /\ id \in Known /\ waivers[id] \in Waiver /\ x \in Waiver /\ Save(x)
        /\ waivers[id].status # "revoked" /\ policy' = policy /\ x.id = id
    BY <1>4, LoadedType, EvidenceType DEF Attach, Loads, SameTarget, BaselineIsImported
  <2>2. x.status = "proposed" /\ x.approvals = << >>
    BY <2>1 DEF WithEvidence, Waiver, WaiverRecord
  <2> QED
    BY <2>1, <2>2, Redrafts DEF Protocol!ReviewNext
<1>5. ASSUME NEW id \in WaiverIds, NEW version, Submit(actor, id, version)
      PROVE  Protocol!ReviewNext
  BY <1>5, SubmitAsks DEF Protocol!ReviewNext
<1>6. ASSUME NEW id \in WaiverIds, NEW version, NEW decision \in Decisions,
             Review(actor, id, version, decision)
      PROVE  Protocol!ReviewNext
  <2>1. Protocol!Aye(id, actor.name) \/ Protocol!Nay(id, actor.name)
    BY <1>6, ReviewVotes
  <2>2. Protocol!MayVote(id, actor.name)
    BY <2>1 DEF Protocol!Aye, Protocol!Nay
  <2> QED
    BY <2>1, <2>2 DEF Protocol!ReviewNext, Protocol!MayVote
<1>7. ASSUME NEW id \in WaiverIds, NEW version, NEW comment \in Words,
             Revoke(actor, id, version, comment)
      PROVE  Protocol!ReviewNext
  BY <1>7, RevokeWithdraws DEF Protocol!ReviewNext
<1>8. ASSUME NEW id \in WaiverIds, NEW version, NEW r \in runs, NEW v \in r.violations,
             Rebind(actor, id, version, r, v)
      PROVE  Protocol!ReviewNext
  <2> DEFINE x == Rebound(waivers[id], r, v)
  <2>1. /\ id \in Known /\ waivers[id] \in Waiver /\ x \in Waiver /\ Save(x)
        /\ waivers[id].status # "revoked" /\ policy' = policy /\ waivers[id].id = id
    BY <1>8, LoadedType, ReboundType DEF Rebind, Loads, TypeOK, BaselineIsImported
  <2>2. x.status = "proposed" /\ x.approvals = << >> /\ x.id = id
    BY <2>1 DEF Rebound, Waiver, WaiverRecord
  <2> QED
    BY <2>1, <2>2, Redrafts DEF Protocol!ReviewNext
<1>9. ASSUME NEW p \in Policies, SetPolicy(actor, p)
      PROVE  Protocol!ReviewNext
  BY <1>9, RuleOnly DEF SetPolicy, Protocol!ReviewNext
<1> QED
  BY <1>1, <1>2, <1>3, <1>4, <1>5, <1>6, <1>7, <1>8, <1>9 DEF Operation, Start, Edit

\* The lifecycle implements the review protocol.
THEOREM ImplementsReview == Spec => ReviewImplemented
<1>1. Init => Protocol!ReviewInit
  BY DEF Init, Protocol!ReviewInit, Stage, Ayes
<1>2. ASSUME AllSound, [Next]_vars
      PROVE  [Protocol!ReviewNext]_Protocol!reviewVars
  <2>1. CASE UNCHANGED vars
    BY <2>1 DEF vars, Protocol!reviewVars
  <2>2. CASE NextDay
    BY <2>2, RuleOnly DEF NextDay, Protocol!ReviewNext
  <2>3. CASE \E actor \in Principals : Operation(actor)
    BY <1>2, <2>3, OperationReviews
  <2> QED
    BY <1>2, <2>1, <2>2, <2>3 DEF Next
<1> QED
  BY <1>1, <1>2, TypeCorrect, BaselineKept, ReviewsSound, PTL
  DEF ReviewsAreSound, Spec, AllSound, ReviewImplemented, Protocol!ReviewSpec

==============================================================================
