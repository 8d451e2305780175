--------------------------- MODULE WaiverLifecycle ---------------------------
(***************************************************************************)
(* service.py: every operation that changes runs, waivers, evidence or     *)
(* policy, as the transaction it commits.  Each operation opens one        *)
(* BEGIN IMMEDIATE transaction, so writers are serialised and a refused    *)
(* operation changes nothing (AuditedStore models the transactions         *)
(* themselves); an action here is one committed operation.                 *)
(***************************************************************************)
EXTENDS Waivers

CONSTANTS
  Principals,     \* the authenticated actors
  Reports,        \* the runs that parsed reports give
  Policies,       \* the policies an administrator may set
  DefaultPolicy,  \* Policy()
  Offers,         \* the terms a proposer or amender may send
  NoWaiver,       \* the value of an unused waiver identifier
  MaxVersion,     \* bound on a record's version
  MaxDay          \* bound on the calendar

ASSUME PrincipalAssumption == Principals \subseteq Principal
ASSUME ReportAssumption == Reports \subseteq Run
ASSUME PolicyAssumption == DefaultPolicy \in Policies /\ Policies \subseteq Policy
ASSUME OfferAssumption == Offers \subseteq Terms
ASSUME NoWaiverAssumption == NoWaiver \notin Waiver
ASSUME BoundAssumption == MaxVersion \in Nat \ {0} /\ MaxDay \in Nat

VARIABLES
  runs,      \* imported runs
  waivers,   \* waiver of each identifier in use
  evidence,  \* stored attachment contents
  policy,    \* the workspace policy
  today      \* the UTC date

vars == << runs, waivers, evidence, policy, today >>

TypeOK ==
  /\ runs \in SUBSET Run
  /\ waivers \in [WaiverIds -> Waiver \cup {NoWaiver}]
  /\ evidence \in SUBSET Blobs
  /\ policy \in Policy
  /\ today \in Nat

Init ==
  /\ runs = {}
  /\ waivers = [id \in WaiverIds |-> NoWaiver]
  /\ evidence = {}
  /\ policy = DefaultPolicy
  /\ today = 0

------------------------------------------------------------------------------
(* Authorization *)

Contributors == {"contributor", "reviewer", "admin"}

Reviewing == {"reviewer", "admin"}

Granted(actor, project) == actor.projects # None => project \in actor.projects

\* Service.owner: the owner or an administrator.
MayModify(actor, w) == actor.role = "admin" \/ actor.name = w.owner

Known == {id \in WaiverIds : waivers[id] # NoWaiver}

\* Mutant: a load that forgets the project grant.
LoadsAnywhere(actor, id, version) ==
  id \in Known /\ waivers[id].version = version

\* Mutant: a load that does not compare versions.
LoadsStale(actor, id, version) ==
  /\ id \in Known
  /\ Granted(actor, waivers[id].scope.project)
  /\ version \in 1 .. MaxVersion

\* Service._load: the record exists, is in a granted project and still has
\* the version the caller read.
Loads(actor, id, version) ==
  /\ id \in Known
  /\ Granted(actor, waivers[id].scope.project)
  /\ waivers[id].version = version

\* Mutant: only approved waivers occupy their target.
TakenByApproved(id, scope, fp) ==
  \E x \in Known \ {id} :
    /\ waivers[x].scope = scope
    /\ waivers[x].fingerprint = fp
    /\ waivers[x].status = "approved"

\* Another waiver that is not revoked already targets the identity.
Taken(id, scope, fp) ==
  \E x \in Known \ {id} :
    /\ waivers[x].scope = scope
    /\ waivers[x].fingerprint = fp
    /\ waivers[x].status # "revoked"

------------------------------------------------------------------------------
(* New values of a waiver *)

Proposal(actor, id, r, v, t) ==
  [id |-> id, version |-> 1, scope |-> r.scope,
   baseline_run_id |-> r.id, baseline_revision |-> r.revision,
   baseline_provenance |-> r.provenance, target |-> v,
   fingerprint |-> Fingerprint(v),
   rationale |-> t.rationale, owner |-> t.owner, reviewers |-> t.reviewers,
   expires_on |-> t.expires_on, valid_revision |-> t.valid_revision,
   tags |-> t.tags, status |-> "proposed", creator |-> actor.name,
   created_at |-> today, evidence |-> {}, approvals |-> << >>]

\* Mutant: an amendment that keeps status and votes.
RevisedKeepingVotes(w, t) ==
  [w EXCEPT !.rationale = t.rationale, !.owner = t.owner,
            !.reviewers = t.reviewers, !.expires_on = t.expires_on,
            !.valid_revision = t.valid_revision, !.tags = t.tags]

Revised(w, t) ==
  [w EXCEPT !.rationale = t.rationale, !.owner = t.owner,
            !.reviewers = t.reviewers, !.expires_on = t.expires_on,
            !.valid_revision = t.valid_revision, !.tags = t.tags,
            !.status = "proposed", !.approvals = << >>]

WithEvidence(w, blob) ==
  [w EXCEPT !.evidence = @ \cup {blob}, !.status = "proposed",
            !.approvals = << >>]

Vote(actor, w, decision) ==
  [actor |-> actor.name, decision |-> decision,
   content_digest |-> ApprovalDigest(w)]

\* Mutant: the quorum of a low-risk waiver for every waiver.
ReviewedByMinimum(w, vote) ==
  [w EXCEPT !.approvals = Append(@, vote),
            !.status = IF vote.decision = "reject" THEN "rejected"
                       ELSE IF Len(w.approvals) + 1 >= policy.min_approvals
                              THEN "approved" ELSE "submitted"]

\* Mutant: the decision itself stored as the status.
ReviewedByName(w, vote) ==
  [w EXCEPT !.approvals = Append(@, vote), !.status = vote.decision]

Reviewed(w, vote) ==
  [w EXCEPT !.approvals = Append(@, vote),
            !.status = IF vote.decision = "reject" THEN "rejected"
                       ELSE IF Len(w.approvals) + 1 >= Quorum(policy, w)
                              THEN "approved" ELSE "submitted"]

Cut(text, limit) == IF Len(text) > limit THEN SubSeq(text, 1, limit) ELSE text

Revoked(w, comment) ==
  [w EXCEPT !.status = "revoked",
            !.tags = Cut(Append(@, "revoked"), TagLimit),
            !.rationale = Cut(@ \o << "revoked", comment >>, RationaleLimit)]

\* Mutant: a rebind that leaves the revision bound on the old baseline.
ReboundKeepingBound(w, r, v) ==
  [w EXCEPT !.baseline_run_id = r.id, !.baseline_revision = r.revision,
            !.baseline_provenance = r.provenance, !.target = v,
            !.fingerprint = Fingerprint(v),
            !.status = "proposed", !.approvals = << >>]

\* Mutant: a rebind that starts with no evidence.
ReboundWithoutEvidence(w, r, v) ==
  [w EXCEPT !.baseline_run_id = r.id, !.baseline_revision = r.revision,
            !.baseline_provenance = r.provenance, !.target = v,
            !.fingerprint = Fingerprint(v), !.evidence = {},
            !.valid_revision = IF @ = None THEN None ELSE r.revision,
            !.status = "proposed", !.approvals = << >>]

Rebound(w, r, v) ==
  [w EXCEPT !.baseline_run_id = r.id, !.baseline_revision = r.revision,
            !.baseline_provenance = r.provenance, !.target = v,
            !.fingerprint = Fingerprint(v),
            !.valid_revision = IF @ = None THEN None ELSE r.revision,
            !.status = "proposed", !.approvals = << >>]

\* Mutant: a save that keeps the version.
SaveInPlace(w) ==
  /\ ValidWaiver(w)
  /\ w.version < MaxVersion
  /\ waivers' = [waivers EXCEPT ![w.id] = w]

\* Service._save: validate again and store under the next version.
Save(w) ==
  /\ ValidWaiver(w)
  /\ w.version < MaxVersion
  /\ waivers' = [waivers EXCEPT ![w.id] = [w EXCEPT !.version = @ + 1]]

------------------------------------------------------------------------------
(* Operations *)

ImportRun(actor, r) ==
  /\ actor.role \in Contributors
  /\ Granted(actor, r.scope.project)
  /\ ValidRun(r)
  /\ r.id \notin {x.id : x \in runs}
  /\ runs' = runs \cup {r}
  /\ UNCHANGED << waivers, evidence, policy, today >>

\* Store a new proposal for the finding v of run r.
Enter(actor, id, r, v, t) ==
  LET w == Proposal(actor, id, r, v, t) IN
  /\ id \notin Known
  /\ r \in runs /\ Granted(actor, r.scope.project)
  /\ v \in r.violations
  /\ ValidWaiver(w)
  /\ ~Taken(id, w.scope, w.fingerprint)
  /\ WithinBounds(w, policy, today)
  /\ waivers' = [waivers EXCEPT ![id] = w]
  /\ UNCHANGED << runs, evidence, policy, today >>

Propose(actor, id, r, v, t) ==
  /\ actor.role \in Contributors
  /\ actor.role = "admin" \/ t.owner = actor.name
  /\ Enter(actor, id, r, v, t)

\* import_yaml_proposal: an edited record from Git becomes a fresh proposal
\* of the actor; its identifier, dates, status, evidence and votes are not
\* taken over, and its target must be a finding of the imported run it names.
ImportProposal(actor, id, r, v, t) ==
  /\ actor.role \in Contributors
  /\ Enter(actor, id, r, v, [t EXCEPT !.owner = actor.name])

\* Mutant: an amendment that brings a revoked waiver back.
AmendRevoked(actor, id, version, t) ==
  LET w == Revised(waivers[id], t) IN
  /\ actor.role \in Contributors
  /\ Loads(actor, id, version)
  /\ MayModify(actor, waivers[id])
  /\ WithinBounds(w, policy, today)
  /\ Save(w)
  /\ UNCHANGED << runs, evidence, policy, today >>

Amend(actor, id, version, t) ==
  LET w == Revised(waivers[id], t) IN
  /\ actor.role \in Contributors
  /\ Loads(actor, id, version)
  /\ MayModify(actor, waivers[id])
  /\ waivers[id].status # "revoked"
  /\ WithinBounds(w, policy, today)
  /\ Save(w)
  /\ UNCHANGED << runs, evidence, policy, today >>

Attach(actor, id, version, blob) ==
  /\ actor.role \in Contributors
  /\ Loads(actor, id, version)
  /\ MayModify(actor, waivers[id])
  /\ waivers[id].status \in {"proposed", "rejected"}
  /\ blob \notin waivers[id].evidence
  /\ Cardinality(waivers[id].evidence) < EvidenceLimit
  /\ evidence' = evidence \cup {blob}
  /\ Save(WithEvidence(waivers[id], blob))
  /\ UNCHANGED << runs, policy, today >>

\* Mutant: a submission that keeps the votes of the last round.
SubmitKeepingVotes(actor, id, version) ==
  LET w == waivers[id] IN
  /\ actor.role \in Contributors
  /\ Loads(actor, id, version)
  /\ MayModify(actor, w)
  /\ w.status \in {"proposed", "rejected"}
  /\ WithinBounds(w, policy, today)
  /\ Approvable(w, policy, today)
  /\ Save([w EXCEPT !.status = "submitted"])
  /\ UNCHANGED << runs, evidence, policy, today >>

Submit(actor, id, version) ==
  LET w == waivers[id] IN
  /\ actor.role \in Contributors
  /\ Loads(actor, id, version)
  /\ MayModify(actor, w)
  /\ w.status \in {"proposed", "rejected"}
  /\ WithinBounds(w, policy, today)
  /\ Approvable(w, policy, today)
  /\ Save([w EXCEPT !.status = "submitted", !.approvals = << >>])
  /\ UNCHANGED << runs, evidence, policy, today >>

HasVoted(name, w) == \E i \in 1 .. Len(w.approvals) : w.approvals[i].actor = name

Review(actor, id, version, decision) ==
  LET w == waivers[id] IN
  /\ actor.role \in Reviewing
  /\ Loads(actor, id, version)
  /\ actor.name \in w.reviewers \ {w.owner, w.creator}
  /\ w.status = "submitted"
  /\ ~HasVoted(actor.name, w)
  /\ Approvable(w, policy, today)
  /\ Save(Reviewed(w, Vote(actor, w, decision)))
  /\ UNCHANGED << runs, evidence, policy, today >>

Revoke(actor, id, version, comment) ==
  LET w == waivers[id] IN
  /\ actor.role \in Contributors
  /\ Loads(actor, id, version)
  /\ actor.name \in w.reviewers \cup {w.owner} \/ actor.role = "admin"
  /\ w.status # "revoked"
  /\ Save(Revoked(w, comment))
  /\ UNCHANGED << runs, evidence, policy, today >>

Rebind(actor, id, version, r, v) ==
  LET w == waivers[id] IN
  /\ actor.role \in Contributors
  /\ Loads(actor, id, version)
  /\ MayModify(actor, w)
  /\ w.status # "revoked"
  /\ r \in runs /\ Granted(actor, r.scope.project)
  /\ v \in r.violations
  /\ r.scope = w.scope
  /\ v.category = w.target.category /\ v.rule = w.target.rule
  /\ ~Taken(id, w.scope, Fingerprint(v))
  /\ Save(Rebound(w, r, v))
  /\ UNCHANGED << runs, evidence, policy, today >>

SetPolicy(actor, p) ==
  /\ actor.role = "admin" /\ actor.projects = None
  /\ policy' = p
  /\ UNCHANGED << runs, waivers, evidence, today >>

\* The calendar: utcnow().date() moves on between operations.
NextDay ==
  /\ today < MaxDay
  /\ today' = today + 1
  /\ UNCHANGED << runs, waivers, evidence, policy >>

\* The operations on one waiver; each names the version it was decided on.
Edit(actor, id, version) ==
  \/ \E t \in Offers : Amend(actor, id, version, t)
  \/ \E blob \in Blobs : Attach(actor, id, version, blob)
  \/ Submit(actor, id, version)
  \/ \E decision \in Decisions : Review(actor, id, version, decision)
  \/ \E comment \in Words : Revoke(actor, id, version, comment)
  \/ \E r \in runs : \E v \in r.violations : Rebind(actor, id, version, r, v)

\* The operations that need no earlier reading of a waiver.
Start(actor) ==
  \/ \E r \in Reports : ImportRun(actor, r)
  \/ \E id \in WaiverIds, r \in runs, t \in Offers :
       \E v \in r.violations : \/ Propose(actor, id, r, v, t)
                              \/ ImportProposal(actor, id, r, v, t)
  \/ \E p \in Policies : SetPolicy(actor, p)

Operation(actor) ==
  \/ Start(actor)
  \/ \E id \in WaiverIds, version \in 1 .. MaxVersion : Edit(actor, id, version)

Next == NextDay \/ \E actor \in Principals : Operation(actor)

Spec == Init /\ [][Next]_vars

==============================================================================
