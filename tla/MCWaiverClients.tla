--------------------------- MODULE MCWaiverClients ---------------------------
(***************************************************************************)
(* A small instance of WaiverClients: the owner, an administrator who also *)
(* reviews, and a reviewer, all at the same waiver.                        *)
(***************************************************************************)
EXTENDS WaiverClients

MCNames == {"alice", "rita", "adam"}
MCPrincipals ==
  {[name |-> "alice", role |-> "contributor", projects |-> {"soc"}],
   [name |-> "rita", role |-> "reviewer", projects |-> {"soc"}],
   [name |-> "adam", role |-> "admin", projects |-> None]}

MCReports ==
  {[id |-> "run1", scope |-> [project |-> "soc", stream |-> "lint"],
    revision |-> "r1", provenance |-> "deck", complete |-> TRUE,
    checked_categories |-> {"cdc"},
    violations |-> {[id |-> "v1", category |-> "cdc", rule |-> "sync",
                     severity |-> "error", place |-> "top",
                     multiplicity |-> 1, context_hash |-> "c1"]}]}

MCDefault ==
  [require_evidence |-> FALSE, require_context_across_revisions |-> TRUE,
   max_waiver_days |-> 2, min_approvals |-> 1, critical_approvals |-> 2,
   high_risk_categories |-> {"cdc"}, forbidden_rules |-> {},
   gate_severities |-> {"error", "critical"}, candidate_limit |-> 1]

MCPolicies == {MCDefault}

Offer(rationale) ==
  [rationale |-> << rationale >>, owner |-> "alice",
   reviewers |-> {"rita", "adam"}, expires_on |-> None,
   valid_revision |-> "r1", tags |-> << >>]

MCOffers == {Offer("why"), Offer("note")}

==============================================================================
