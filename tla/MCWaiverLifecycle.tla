-------------------------- MODULE MCWaiverLifecycle --------------------------
(***************************************************************************)
(* A small instance of the waiver lifecycle that holds two: the "Review"    *)
(* bounds follow one waiver through every interleaving of edits, votes,    *)
(* policy changes and days, the "Target" bounds two waivers that compete   *)
(* for findings.  The reviewers named by an offer tell them apart.         *)
(***************************************************************************)
EXTENDS WaiverReview, TLC

MCProjects == {"soc", "lab"}
MCStreams == {"lint"}
MCRevisions == {"r1", "r2"}
MCProvenances == {"deck1", "deck2"}
MCCategories == {"lint", "cdc"}
MCRules == {"unused", "sync"}
MCPlaces == {"top", "core"}
MCContexts == {"c1", "c2"}
MCOccurrenceIds == {"v1", "v2"}
MCRunIds == {"run1", "run2", "run3"}
MCWords == {"why", "note"}
MCNames == {"alice", "rita", "rex", "adam"}

\* alice owns; rita and rex review, rex only in the other project; adam
\* administers and may be an assigned reviewer as well.
MCPrincipals ==
  {[name |-> "alice", role |-> "contributor", projects |-> {"soc"}],
   [name |-> "rita", role |-> "reviewer", projects |-> {"soc", "lab"}],
   [name |-> "rex", role |-> "reviewer", projects |-> {"lab"}],
   [name |-> "adam", role |-> "admin", projects |-> None]}

Finding(id, place, severity, context) ==
  [id |-> id, category |-> "cdc", rule |-> "sync", severity |-> severity,
   place |-> place, multiplicity |-> 1, context_hash |-> context]

Report(id, project, revision, violations) ==
  [id |-> id, scope |-> [project |-> project, stream |-> "lint"],
   revision |-> revision, provenance |-> "deck1", complete |-> TRUE,
   checked_categories |-> {"cdc"}, violations |-> violations]

MCPolicy(quorum, forbidden) ==
  [require_evidence |-> TRUE, require_context_across_revisions |-> TRUE,
   max_waiver_days |-> 2, min_approvals |-> 1, critical_approvals |-> quorum,
   high_risk_categories |-> {"cdc"}, forbidden_rules |-> forbidden,
   gate_severities |-> {"warning", "error", "critical"},
   candidate_limit |-> 2]

OneApproval == MCPolicy(1, {})
TwoApprovals == MCPolicy(2, {})

Offer(rationale, owner, reviewers, expiry, revision) ==
  [rationale |-> rationale, owner |-> owner, reviewers |-> reviewers,
   expires_on |-> expiry, valid_revision |-> revision, tags |-> << >>]

\* Review instances: one finding; a change of owner, of reviewers and of dates.
ReviewReports ==
  {Report("run1", "soc", "r1", {Finding("v1", "top", "warning", "c1")}),
   Report("run2", "soc", "r2", {Finding("v1", "top", "warning", "c2")})}

ReviewOffers ==
  {Offer(<< "why" >>, "alice", {"rita", "adam"}, 1, None),
   Offer(<< "why" >>, "alice", {"rita", "rex", "adam"}, 3, None),
   Offer(<< "note" >>, "rita", {"adam"}, None, "r1")}

ReviewPolicies == {OneApproval, TwoApprovals}

\* Target instances: the same findings seen by two runs of one scope, and a
\* finding with the same identity in another project.
TargetReports ==
  {Report("run1", "soc", "r1", {Finding("v1", "top", "warning", "c1"),
                                Finding("v2", "core", "warning", "c1")}),
   Report("run2", "soc", "r2", {Finding("v1", "top", "warning", "c2")}),
   Report("run3", "lab", "r1", {Finding("v1", "top", "warning", "c1")})}

TargetOffers == {Offer(<< "why" >>, "alice", {"rita"}, None, "r1"),
                 Offer(<< "why" >>, "adam", {"rita"}, 1, None)}

MCReports == ReviewReports \cup TargetReports
MCOffers == ReviewOffers \cup TargetOffers

AssignedTo(teams) == \A id \in Known : waivers[id].reviewers \in teams

ReviewBounds ==
  /\ runs \subseteq ReviewReports
  /\ Cardinality(Known) =< 1
  /\ AssignedTo({t.reviewers : t \in ReviewOffers})

TargetBounds ==
  /\ runs \subseteq TargetReports
  /\ policy = OneApproval /\ today = 0
  /\ AssignedTo({t.reviewers : t \in TargetOffers})
  /\ \A id \in Known : waivers[id].version =< 3

BoundedSpec == Init /\ [][Next /\ (ReviewBounds' \/ TargetBounds')]_vars

\* Waiver identifiers are random: no rule compares two of them.
WaiverSymmetry == Permutations(WaiverIds)

==============================================================================
