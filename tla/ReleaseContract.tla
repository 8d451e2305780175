--------------------------- MODULE ReleaseContract ---------------------------
(***************************************************************************)
(* assurance.py, execution.py and release.py: does an inventory of runs,   *)
(* waivers and policy meet a reviewed release contract?  Pure, like        *)
(* Assessment: inventory, receipts, trust and the moment are arguments.    *)
(*                                                                         *)
(* A moment is an instant and its calendar day, ages are counted in        *)
(* instants, and a digest is the document it digests.  An inventory is     *)
(*   [runs, waivers, policy, created, updated]                             *)
(* where created and updated give the time stamps inside its records.  The *)
(* stamps of approvals are left out: Service.review sets them between the  *)
(* creation and the update of their waiver, by the same clock.             *)
(***************************************************************************)
EXTENDS Assessment

CONSTANTS
  Contract,  \* the release contract under review
  Grants     \* key |-> its grant: purpose, scopes, validity interval

ASSUME ContractAssumption ==
  \A check, other \in Contract.checks :
    check.run_id = other.run_id \/ check.stream = other.stream => check = other

Selected == {check.run_id : check \in Contract.checks}

CheckScope(check) == [project |-> Contract.project, stream |-> check.stream]

ReleaseScope(w) == \E check \in Contract.checks : w.scope = CheckScope(check)

------------------------------------------------------------------------------
(* Trust: keys that an operator grants and revokes *)

AuthorizesTime(trust, key, at) ==
  /\ key \notin trust.revoked
  /\ Grants[key].not_before =< at
  /\ at < Grants[key].not_after

Resolves(trust, key, purpose, scope, at, now) ==
  /\ Grants[key].purpose = purpose
  /\ AuthorizesTime(trust, key, at)
  /\ AuthorizesTime(trust, key, now.at)
  /\ scope \in Grants[key].scopes

\* A receipt binds the run as imported; succeeded says that its claim is of a
\* complete, unfiltered execution of the contract's design with exit code 0.
VerifiesExecution(receipt, run, created, trust, now) ==
  /\ Resolves(trust, receipt.key, "producer", run.scope, receipt.issued_at, now)
  /\ receipt.issued_at =< now.at /\ now.at < receipt.expires_at
  /\ receipt.run = run
  /\ receipt.succeeded
  /\ receipt.finished_at =< created /\ created =< receipt.issued_at
  /\ now.at - receipt.finished_at =< Contract.max_execution_age

------------------------------------------------------------------------------
(* Evaluation *)

\* The findings of a run that inv suppresses, and the waivers that do it.
Waived(run, inv, now) ==
  {v \in run.violations :
     RowStatus(run, inv.waivers, inv.policy, now.day, v) = "waived"}

Suppressing(run, inv, now) ==
  UNION {Hits(run, inv.waivers, v) : v \in Waived(run, inv, now)}

\* Mutant: approvals may be later than the assessment.
AnyChronology(w, inv, now) == inv.updated[w.id] \in Nat

Chronology(w, inv, now) == inv.updated[w.id] =< now.at

Fresh(run, inv, age, now) ==
  inv.created[run.id] =< now.at /\ now.at - inv.created[run.id] =< age

\* What each pinned run must satisfy, by the code that blocks otherwise.
Requirements(check, run, inv, receipts, trust, now) ==
  LET effective == Suppressing(run, inv, now) IN
  [import_age |-> Fresh(run, inv, Contract.max_age, now),
   coverage |-> check.categories \subseteq run.checked_categories,
   provenance |-> check.provenance = run.provenance,
   execution_receipt |->
     \E receipt \in receipts :
       /\ receipt.run.id = run.id
       /\ VerifiesExecution(receipt, run, inv.created[run.id], trust, now),
   waiver_gate |-> GatePasses(run, inv.waivers, inv.policy, now.day),
   review_chronology |-> \A w \in effective : Chronology(w, inv, now),
   review_history |->
     \A w \in effective : \A i, j \in DOMAIN w.approvals :
       /\ w.approvals[i].decision = "approve"
       /\ w.approvals[i].actor = w.approvals[j].actor => i = j,
   expiry_horizon |->
     \A w \in effective :
       w.expires_on # None
         => w.expires_on - now.day >= Contract.minimum_remaining_days]

Missing(requirements) == {code \in DOMAIN requirements : ~requirements[code]}

CheckBlockers(check, inv, receipts, trust, now) ==
  LET pinned == {r \in inv.runs : r.id = check.run_id} IN
  IF pinned = {} THEN {"missing_run"}
  ELSE LET run == CHOOSE r \in pinned : TRUE IN
    IF run.scope # CheckScope(check) \/ run.revision # Contract.revision
      THEN {"run_scope"}
      ELSE Missing(Requirements(check, run, inv, receipts, trust, now))

\* Runs of other scopes or revisions are not assessed.
Assessed(inv) ==
  {r \in inv.runs : /\ r.revision = Contract.revision
                    /\ \E check \in Contract.checks :
                         check.run_id = r.id /\ r.scope = CheckScope(check)}

WaivedFindings(inv, now) ==
  UNION {{<< r.id, v >> : v \in Waived(r, inv, now)} : r \in Assessed(inv)}

\* evaluate_contract().
Evaluate(inv, receipts, trust, now) ==
  LET waived == WaivedFindings(inv, now)
      within(category) ==
        Cardinality({x \in waived : x[2].category = category})
          =< Contract.max_by_category[category] IN
  [blockers |->
     Missing([contract_unapproved |-> trust.approved,
              policy_mismatch |-> inv.policy = Contract.policy,
              waiver_budget |-> Cardinality(waived) =< Contract.max_waived,
              category_budget |->
                \A category \in DOMAIN Contract.max_by_category : within(category)])
     \cup UNION {CheckBlockers(check, inv, receipts, trust, now) :
                   check \in Contract.checks},
   waived |-> waived,
   effective |-> {w.id : w \in UNION {Suppressing(r, inv, now) : r \in Assessed(inv)}}]

Clean(result) == result.blockers = {}

\* gate_release(): the older gate, which asks for no receipt and no budget but
\* reads the whole database.
GateRelease(inv, now) ==
  \A check \in Contract.checks :
    LET matching == {r \in inv.runs : /\ r.scope = CheckScope(check)
                                      /\ r.revision = Contract.revision
                                      /\ r.id = check.run_id} IN
    /\ Cardinality(matching) = 1
    /\ \A r \in matching :
         /\ Fresh(r, inv, Contract.max_age, now)
         /\ check.categories \subseteq r.checked_categories
         /\ check.provenance = r.provenance
         /\ GatePasses(r, inv.waivers, inv.policy, now.day)

==============================================================================
