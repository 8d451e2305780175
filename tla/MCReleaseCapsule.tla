--------------------------- MODULE MCReleaseCapsule ---------------------------
(***************************************************************************)
(* A small release: one finding to be waived in the run of stream "lint",  *)
(* and perhaps a second, clean stream "drc"; one producer, one publisher.  *)
(***************************************************************************)
EXTENDS ReleaseCapsule

MCPlaces == {"top"}
MCHierarchyOf == [p \in MCPlaces |-> "chip"]
MCObjectOf == [p \in MCPlaces |-> None]
MCNames == {"alice", "rita", "adam"}
MCStreams == {"lint", "drc", "release"}

MCPrincipals ==
  {[name |-> "alice", role |-> "contributor", projects |-> {"soc"}],
   [name |-> "rita", role |-> "reviewer", projects |-> {"soc"}]}

Top == [id |-> "v1", category |-> "cdc", rule |-> "sync", severity |-> "error",
        place |-> "top", multiplicity |-> 1, context_hash |-> "c1"]

Report(id, stream, violations) ==
  [id |-> id, scope |-> [project |-> "soc", stream |-> stream],
   revision |-> "r1", provenance |-> "deck", complete |-> TRUE,
   checked_categories |-> {"cdc"}, violations |-> violations]

MCPolicy(horizon) ==
  [require_evidence |-> FALSE, require_context_across_revisions |-> TRUE,
   max_waiver_days |-> horizon, min_approvals |-> 1, critical_approvals |-> 1,
   high_risk_categories |-> {}, forbidden_rules |-> {},
   gate_severities |-> {"error", "critical"}, candidate_limit |-> 1]

Reviewed2 == MCPolicy(2)

Offer(expiry) ==
  [rationale |-> << "why" >>, owner |-> "alice", reviewers |-> {"rita"},
   expires_on |-> expiry, valid_revision |-> "r1", tags |-> << >>]

Check(id, stream) ==
  [run_id |-> id, stream |-> stream, categories |-> {"cdc"}, provenance |-> "deck"]

MCContract(checks) ==
  [project |-> "soc", revision |-> "r1", checks |-> checks, max_age |-> 8,
   policy |-> Reviewed2, max_execution_age |-> 8, max_waived |-> 1,
   max_by_category |-> [c \in {"cdc"} |-> 1], minimum_remaining_days |-> 0]

MCGrants ==
  [ci |-> [purpose |-> "producer", not_before |-> 1, not_after |-> 9,
           scopes |-> {[project |-> "soc", stream |-> s] : s \in {"lint", "drc"}}],
   desk |-> [purpose |-> "publisher", not_before |-> 2, not_after |-> 9,
             scopes |-> {[project |-> "soc", stream |-> "release"]}]]

Approving == [approved |-> TRUE, revoked |-> {}]
MCTrusts == {Approving, [approved |-> FALSE, revoked |-> {"ci"}]}
MCExecutions == {[ago |-> 1, succeeded |-> TRUE]}

\* One stream, every operation of two people on one waiver.
OneReport == {Report("run1", "lint", {Top})}
OneOffer == {Offer(0)}
OnePolicy == {Reviewed2}
OneContract == MCContract({Check("run1", "lint")})

\* A stamp earlier than its commit makes a difference only to a clock read
\* between the two; elsewhere the commit's own instant stands for both.
StampsThatMatter ==
  ~(sealing # Idle /\ sealing.now.at = Instant) =>
    \A id \in WaiverIds : updated'[id] \in {updated[id], Instant'}

BoundedSpec == ReleaseInit /\ [][ReleaseNext /\ StampsThatMatter]_releaseVars

==============================================================================
