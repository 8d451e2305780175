------------------------------- MODULE Waivers -------------------------------
(***************************************************************************)
(* The records OpenWaiver keeps and the pure rules on them: what a finding *)
(* is identified by, what a waiver's reviewed content is, which waivers    *)
(* are valid, what policy allows.  No state: WaiverLifecycle holds it.     *)
(*                                                                         *)
(* A SHA-256 digest of a canonical document is modelled by the document    *)
(* itself: equal digests mean equal documents.  Free text is a sequence of *)
(* words, so that the two length limits that cut text are still there.     *)
(***************************************************************************)
EXTENDS Integers, Sequences, FiniteSets

CONSTANTS
  Names,            \* identities of people and service accounts
  Projects,         \* first component of a scope
  Streams,          \* tool and check stream, the rest of a scope
  Revisions,        \* design revisions
  Provenances,      \* tool version, rule deck and configuration digests of a run
  Categories,       \* check categories
  Rules,            \* rule names
  Places,           \* location, message and geometry: the rest of an identity
  Contexts,         \* digests of the design context around a finding
  OccurrenceIds,    \* identifiers of findings inside one run
  RunIds,           \* identifiers of imported runs
  WaiverIds,        \* identifiers of waivers
  Blobs,            \* attachment contents (named by their digest)
  Words,            \* pieces of free text
  None,             \* Python's None, and an empty context_hash
  ReviewerLimit,    \* max_length of Waiver.reviewers
  EvidenceLimit,    \* max_length of Waiver.evidence
  TagLimit,         \* max_length of Waiver.tags
  RationaleLimit    \* max_length of Waiver.rationale

ASSUME NoneAssumption ==
  /\ None \notin Int
  /\ None \notin Revisions
  /\ None \notin Contexts

ASSUME LimitAssumption ==
  /\ ReviewerLimit \in Nat \ {0}
  /\ EvidenceLimit \in Nat \ {0}
  /\ TagLimit \in Nat \ {0}
  /\ RationaleLimit \in Nat \ {0}

------------------------------------------------------------------------------
(* Records *)

Severities == {"info", "warning", "error", "critical"}

Roles == {"viewer", "contributor", "reviewer", "admin"}

Statuses == {"proposed", "submitted", "approved", "rejected", "revoked"}

Decisions == {"approve", "reject"}

Scope == [project: Projects, stream: Streams]

\* projects = None is a workspace-wide grant; {} grants nothing.
Principal ==
  [name: Names, role: Roles, projects: SUBSET Projects \cup {None}]

\* What fingerprint() digests.
Identity ==
  [category: Categories, rule: Rules, severity: Severities,
   place: Places, multiplicity: Nat \ {0}]

Violation ==
  [id: OccurrenceIds, category: Categories, rule: Rules, severity: Severities,
   place: Places, multiplicity: Nat \ {0},
   context_hash: Contexts \cup {None}]

Run ==
  [id: RunIds, scope: Scope, revision: Revisions, provenance: Provenances,
   complete: BOOLEAN, checked_categories: SUBSET Categories,
   violations: SUBSET Violation]

Text == Seq(Words \cup {"revoked"})

\* The fields a proposer chooses, and later amends.
Terms ==
  [rationale: Text, owner: Names, reviewers: SUBSET Names,
   expires_on: Nat \cup {None}, valid_revision: Revisions \cup {None},
   tags: Text]

WaiverRecord(versions, statuses, approvalLists) ==
  [id: WaiverIds, version: versions, scope: Scope,
   baseline_run_id: RunIds, baseline_revision: Revisions,
   baseline_provenance: Provenances, target: Violation, fingerprint: Identity,
   rationale: Text, owner: Names, reviewers: SUBSET Names,
   expires_on: Nat \cup {None}, valid_revision: Revisions \cup {None},
   tags: Text, status: statuses, creator: Names, created_at: Nat,
   evidence: SUBSET Blobs, approvals: approvalLists]

\* What approval_digest() digests: a waiver with its lifecycle fields blanked.
Content == WaiverRecord({0}, {"proposed"}, {<< >>})

Approval == [actor: Names, decision: Decisions, content_digest: Content]

Waiver == WaiverRecord(Nat \ {0}, Statuses, Seq(Approval))

Policy ==
  [require_evidence: BOOLEAN, require_context_across_revisions: BOOLEAN,
   max_waiver_days: Nat \ {0}, min_approvals: Nat \ {0},
   critical_approvals: Nat \ {0}, high_risk_categories: SUBSET Categories,
   forbidden_rules: SUBSET Rules, gate_severities: SUBSET Severities,
   candidate_limit: Nat \ {0}]

------------------------------------------------------------------------------
(* Identities and digests *)

Fingerprint(v) ==
  [category |-> v.category, rule |-> v.rule, severity |-> v.severity,
   place |-> v.place, multiplicity |-> v.multiplicity]

ApprovalDigest(w) ==
  [w EXCEPT !.version = 0, !.status = "proposed", !.approvals = << >>]

Votes(w) == {w.approvals[i] : i \in 1 .. Len(w.approvals)}

Independent(w) == w.reviewers \ {w.owner, w.creator}

\* The approvals effective_problems() counts: of the present content, by
\* assigned reviewers who are neither owner nor creator.
GoodVoters(w) ==
  {a.actor : a \in {b \in Votes(w) : /\ b.decision = "approve"
                                     /\ b.content_digest = ApprovalDigest(w)
                                     /\ b.actor \in Independent(w)}}

------------------------------------------------------------------------------
(* Validity and policy *)

\* Run.coverage_and_ids: a complete run names its coverage and stays in it,
\* and occurrence identifiers are unique.
ValidRun(r) ==
  /\ r.complete =>
       /\ r.checked_categories # {}
       /\ \A v \in r.violations : v.category \in r.checked_categories
  /\ \A v, u \in r.violations : v.id = u.id => v = u

\* Field limits and Waiver.bounded_and_independent, checked at every
\* construction and before every save.
ValidWaiver(w) ==
  /\ w.expires_on # None \/ w.valid_revision # None
  /\ w.reviewers # {}
  /\ Cardinality(w.reviewers) =< ReviewerLimit
  /\ w.owner \notin w.reviewers
  /\ w.creator \notin w.reviewers
  /\ Len(w.rationale) \in 1 .. RationaleLimit
  /\ Len(w.tags) =< TagLimit
  /\ Cardinality(w.evidence) =< EvidenceLimit

HighRisk(policy, v) ==
  v.category \in policy.high_risk_categories \/ v.severity = "critical"

Quorum(policy, w) ==
  IF HighRisk(policy, w.target) /\ policy.critical_approvals > policy.min_approvals
    THEN policy.critical_approvals
    ELSE policy.min_approvals

\* Mutant: a waiver that lasts one day longer than its date.
ExpiredLate(w, today) == w.expires_on # None /\ today > w.expires_on + 1

\* Mutant: a waiver that is over on the day of its date.
ExpiredOnItsDay(w, today) == w.expires_on # None /\ today >= w.expires_on

\* The expiry date itself is still inside the bound.
Expired(w, today) == w.expires_on # None /\ today > w.expires_on

BeyondHorizon(w, policy) ==
  w.expires_on # None /\ w.expires_on - w.created_at > policy.max_waiver_days

\* _check_bounds() raises nothing.
WithinBounds(w, policy, today) ==
  /\ ~Expired(w, today)
  /\ ~BeyondHorizon(w, policy)
  /\ Cardinality(w.reviewers) >= Quorum(policy, w)
  /\ w.target.rule \notin policy.forbidden_rules
  /\ w.valid_revision \in {None, w.baseline_revision}

\* approval_problems() returns nothing.
Approvable(w, policy, today) ==
  /\ ~Expired(w, today)
  /\ ~BeyondHorizon(w, policy)
  /\ policy.require_evidence => w.evidence # {}
  /\ w.target.rule \notin policy.forbidden_rules
  /\ w.target.multiplicity = 1

==============================================================================
