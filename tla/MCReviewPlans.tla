---------------------------- MODULE MCReviewPlans -----------------------------
(***************************************************************************)
(* A small instance of ReviewPlans that holds two: plans of two operations *)
(* on two waivers, by their owner and an administrator ("Pair"), and a     *)
(* plan of one that meets a waiver under review ("Vote").                  *)
(***************************************************************************)
EXTENDS MCWaiverLifecycle, ReviewPlans

PlanPrincipals ==
  {[name |-> "alice", role |-> "contributor", projects |-> {"soc"}],
   [name |-> "rita", role |-> "reviewer", projects |-> {"soc"}],
   [name |-> "adam", role |-> "admin", projects |-> None]}

NoEvidence == [OneApproval EXCEPT !.require_evidence = FALSE]

PlanPolicies == {NoEvidence}

PairReports ==
  {Report("run1", "soc", "r1", {Finding("v1", "top", "warning", "c1"),
                                Finding("v2", "top", "warning", "c2"),
                                Finding("v3", "core", "warning", "c1")})}

VoteReports ==
  {Report("run1", "soc", "r1", {Finding("v1", "top", "warning", "c1")})}

PlanReports == PairReports \cup VoteReports

\* The administrator may amend what he proposed for himself to be alice's.
PlanOffers == {Offer(<< "why" >>, "alice", {"rita"}, 1, None)}

PairBounds ==
  /\ runs \subseteq PairReports /\ today = 0 /\ head =< 3
  /\ \A id \in Known : /\ waivers[id].version =< 3
                       /\ waivers[id].creator = "alice" /\ Votes(waivers[id]) = {}
  /\ \A p \in previews :
       /\ p.preview.actor # "rita"
       /\ \A i \in DOMAIN p.preview.changes : p.preview.changes[i].after.creator = "alice"

VoteBounds ==
  /\ runs \subseteq VoteReports /\ Cardinality(Known) =< 1
  /\ Cardinality(previews) =< 1
  /\ \A p \in previews : Len(p.preview.plan.ops) = 1

BoundedPlans == PlanInit /\ [][PlanNext /\ (PairBounds' \/ VoteBounds')]_planVars

==============================================================================
