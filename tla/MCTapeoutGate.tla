---------------------------- MODULE MCTapeoutGate ----------------------------
(***************************************************************************)
(* A small instance of TapeoutGate that holds three: the gate of runs that *)
(* share a finding, the search for lookalikes of two waivers, and frozen   *)
(* snapshots of one.  Each has its own findings, policies and bounds.      *)
(***************************************************************************)
EXTENDS TapeoutGate, TLC

MCPlaces == {"top", "core", "rim"}
MCHierarchyOf == [p \in MCPlaces |-> "chip"]
MCObjectOf == [p \in MCPlaces |-> IF p = "top" THEN "cell" ELSE None]
\* "top" and "rim" are at the movement limit: alike, and not retrieved.
MCNearPlaces == {<< p, q >> \in MCPlaces \X MCPlaces : p # q} \ {<< "top", "rim" >>}
MCAlikePlaces ==
  {<< "top", "core" >>, << "core", "top" >>, << "core", "rim" >>, << "top", "rim" >>}

MCNames == {"alice", "rita", "adam"}
MCPrincipals ==
  {[name |-> "alice", role |-> "contributor", projects |-> {"soc"}],
   [name |-> "rita", role |-> "reviewer", projects |-> {"soc"}],
   [name |-> "adam", role |-> "admin", projects |-> None]}

Finding(id, place, severity, context) ==
  [id |-> id, category |-> "cdc", rule |-> "sync", severity |-> severity,
   place |-> place, multiplicity |-> 1, context_hash |-> context]

Report(id, revision, violations) ==
  [id |-> id, scope |-> [project |-> "soc", stream |-> "lint"],
   revision |-> revision, provenance |-> "deck", complete |-> TRUE,
   checked_categories |-> {"cdc"}, violations |-> violations]

Top(id) == Finding(id, "top", "error", "c1")

PolicyOf(evidenceFirst, quorum, limit) ==
  [require_evidence |-> evidenceFirst,
   require_context_across_revisions |-> TRUE, max_waiver_days |-> 2,
   min_approvals |-> 1, critical_approvals |-> quorum,
   high_risk_categories |-> {"cdc"}, forbidden_rules |-> {},
   gate_severities |-> {"error", "critical"}, candidate_limit |-> limit]

Offer(reviewers, expiry, revision) ==
  [rationale |-> << "why" >>, owner |-> "alice", reviewers |-> reviewers,
   expires_on |-> expiry, valid_revision |-> revision, tags |-> << >>]

\* Gate: the finding "top" alone, at a second revision, and
\* occurring twice.
GateReports ==
  {Report("run1", "r1", {Top("v1")}),
   Report("run2", "r2", {Top("v1")}),
   Report("run3", "r2", {Top("v1"), Top("v2")})}

GateDefault == PolicyOf(FALSE, 1, 1)
GateOffers == {Offer({"rita"}, 0, None), Offer({"rita"}, None, "r1")}

\* Freeze: evidence, a quorum of two, and a change of policy.
FreezeReports == {Report("run1", "r1", {Top("v1")})}
FreezePolicies == {PolicyOf(TRUE, 2, 1), PolicyOf(TRUE, 1, 1)}
FreezeOffers == {Offer({"rita", "adam"}, 1, None)}

\* Search: two waivers near a third finding, with a candidate
\* budget of one or two.
SearchReports ==
  {Report("run1", "r1", {Top("v1"), Finding("v2", "core", "error", "c1")}),
   Report("run2", "r2", {Finding("v1", "rim", "error", "c1")}),
   Report("run3", "r2", {Finding("v1", "core", "info", "c1"), Top("v2")})}

SearchPolicies == {GateDefault, PolicyOf(FALSE, 1, 2)}
SearchOffers == {Offer({"rita"}, None, "r1"), Offer({"rita"}, 1, None)}

MCReports == GateReports \cup SearchReports \cup FreezeReports
MCPolicies == SearchPolicies \cup FreezePolicies
MCOffers == GateOffers \cup SearchOffers \cup FreezeOffers

VersionsUpTo(n) == \A id \in Known : waivers[id].version =< n
TermsOf(offers) ==
  \A id \in Known : \E t \in offers :
    waivers[id].reviewers = t.reviewers /\ waivers[id].expires_on = t.expires_on

GateBounds ==
  /\ runs \subseteq GateReports /\ policy = GateDefault
  /\ TermsOf(GateOffers) /\ \A id \in Known : waivers[id].creator = "alice"
  /\ VersionsUpTo(4) /\ today =< 1 /\ snapshots = {}

SearchBounds ==
  /\ runs \subseteq SearchReports /\ policy \in SearchPolicies
  /\ TermsOf(SearchOffers)
  /\ VersionsUpTo(2) /\ today = 0 /\ snapshots = {}

FreezeBounds ==
  /\ runs \subseteq FreezeReports /\ policy \in FreezePolicies
  /\ TermsOf(FreezeOffers) /\ Cardinality(Known) =< 1
  /\ VersionsUpTo(7)

BoundedSpec ==
  GateInit /\ [][GateNext /\ (GateBounds' \/ SearchBounds' \/ FreezeBounds')]_gateVars

WaiverSymmetry == Permutations(WaiverIds)

==============================================================================
