----------------------------- MODULE ReviewPlans ------------------------------
(***************************************************************************)
(* plans.py: many proposals and amendments reviewed as one file.  A plan   *)
(* names the audit head it was written against; it is previewed in one     *)
(* transaction and applied in a later one, with any operations of any      *)
(* actor between the two.                                                  *)
(*                                                                         *)
(* The audit head is modelled by the number of committed operations, and   *)
(* the digest of a preview by the preview.  The identifier a plan gives to *)
(* a proposal is a digest of plan, actor and position: here some unused    *)
(* one, the same each time that preview is computed.                       *)
(***************************************************************************)
EXTENDS WaiverProperties

CONSTANTS
  MaxOperations,  \* bound on the operations of a plan
  MaxPreviews,    \* bound on the previews taken
  MaxHead         \* bound on the committed operations

VARIABLES
  head,      \* the audit head
  previews,  \* previews taken, each with the database it was computed from
  applied    \* plans applied: who, the preview he named, the database then

planVars == << vars, head, previews, applied >>

Database == << runs, waivers, evidence, policy >>

PlanInit == Init /\ head = 0 /\ previews = {} /\ applied = << >>

------------------------------------------------------------------------------
(* Operations of a plan *)

ProposeOperation(t, v, r) ==
  [action |-> "propose", run_id |-> r.id, violation_id |-> v.id,
   expected_fingerprint |-> Fingerprint(v), terms |-> t]

\* The whole record is expected, version, status and votes included.
AmendOperation(t, w) ==
  [action |-> "amend", waiver_id |-> w.id, expected |-> w, terms |-> t]

\* What proposal_template and the authors of plans can write from what they
\* see; anything else fails the comparisons below.
Drafts ==
  LET written == {AmendOperation(t, waivers[id]) : t \in Offers, id \in Known}
                   \cup UNION {{ProposeOperation(t, v, r) :
                                  t \in Offers, v \in r.violations} : r \in runs} IN
  {[project |-> p, created_at |-> d, head |-> head, ops |-> ops] :
     p \in Projects, d \in 0 .. today,
     ops \in UNION {[1 .. n -> written] : n \in 1 .. MaxOperations}}

------------------------------------------------------------------------------
(* Preparing a plan: the checks of _prepare, and what each operation gives *)

\* The run and finding a proposal names.
Named(op) ==
  {rv \in runs \X UNION {x.violations : x \in runs} :
     /\ rv[1].id = op.run_id /\ rv[2] \in rv[1].violations
     /\ rv[2].id = op.violation_id
     /\ Fingerprint(rv[2]) = op.expected_fingerprint}

PlannedProposal(actor, plan, id, r, v, t) ==
  [Proposal(actor, id, r, v, t) EXCEPT !.created_at = plan.created_at]

\* The record that operation i leaves.
Planned(actor, plan, i, id) ==
  LET op == plan.ops[i] IN
  IF op.action = "amend" THEN Revised(waivers[op.waiver_id], op.terms)
  ELSE LET named == CHOOSE rv \in Named(op) : TRUE IN
       PlannedProposal(actor, plan, id, named[1], named[2], op.terms)

MayPropose(actor, plan, op, id) ==
  /\ id \notin Known
  /\ op.terms.owner = actor.name \/ actor.role = "admin"
  /\ \E rv \in Named(op) :
       /\ rv[1].scope.project = plan.project
       /\ ~Taken(id, rv[1].scope, op.expected_fingerprint)

MayAmend(actor, plan, op, id) ==
  /\ id = op.waiver_id
  /\ Loads(actor, id, op.expected.version)
  /\ waivers[id].scope.project = plan.project
  /\ MayModify(actor, waivers[id])
  /\ waivers[id].status # "revoked"
  /\ waivers[id] = op.expected

\* Mutant: proposals are compared with the register only, not with the plan.
DistinctAmendments(plan, ids) ==
  \A i, j \in DOMAIN plan.ops : ids[i] = ids[j] => i = j

\* One amendment of a waiver, one proposal for an identity in a scope.
DistinctTargets(plan, ids) ==
  /\ \A i, j \in DOMAIN plan.ops : ids[i] = ids[j] => i = j
  /\ \A i, j \in {k \in DOMAIN plan.ops : plan.ops[k].action = "propose"} :
       \A rv \in Named(plan.ops[i]), su \in Named(plan.ops[j]) :
         rv[1].scope = su[1].scope /\ Fingerprint(rv[2]) = Fingerprint(su[2])
           => i = j

\* Nothing was committed since the plan was written.
UnchangedSince(plan) == plan.head = head

Prepared(actor, plan, ids) ==
  /\ actor.role \in Contributors
  /\ Granted(actor, plan.project)
  /\ UnchangedSince(plan)
  /\ plan.created_at =< today
  /\ DistinctTargets(plan, ids)
  /\ \A i \in DOMAIN plan.ops :
       /\ \/ plan.ops[i].action = "propose" /\ MayPropose(actor, plan, plan.ops[i], ids[i])
          \/ plan.ops[i].action = "amend" /\ MayAmend(actor, plan, plan.ops[i], ids[i])
       /\ ValidWaiver(Planned(actor, plan, i, ids[i]))
       /\ WithinBounds(Planned(actor, plan, i, ids[i]), policy, today)

PreviewOf(actor, plan, ids) ==
  [plan |-> plan, actor |-> actor.name,
   changes |-> [i \in DOMAIN plan.ops |->
                  [before |-> waivers[ids[i]],
                   after |-> Planned(actor, plan, i, ids[i])]]]

------------------------------------------------------------------------------
(* Operations *)

Preview(actor, plan, ids) ==
  /\ Prepared(actor, plan, ids)
  /\ Cardinality(previews) < MaxPreviews
  /\ previews' = previews \cup
       {[preview |-> PreviewOf(actor, plan, ids), of |-> Database]}
  /\ UNCHANGED << vars, head, applied >>

\* Mutant: the digest of any preview will do.
ConfirmsAny(actor, plan, ids, expected) == expected \in {p.preview : p \in previews}

\* The digest the caller names is that of the preview as computed now.
Confirms(actor, plan, ids, expected) == expected = PreviewOf(actor, plan, ids)

\* Mutant: the last operation of a plan is forgotten.
WrittenButLast(plan) == 1 .. Len(plan.ops) - 1

\* Every operation of the plan is written, in one transaction.
Written(plan) == DOMAIN plan.ops

Apply(actor, plan, ids, expected) ==
  /\ Prepared(actor, plan, ids)
  /\ Confirms(actor, plan, ids, expected)
  /\ head < MaxHead
  /\ \A i \in DOMAIN plan.ops :
       plan.ops[i].action = "amend" => waivers[ids[i]].version < MaxVersion
  /\ waivers' = [id \in WaiverIds |->
       IF \E i \in Written(plan) : ids[i] = id
         THEN LET i == CHOOSE k \in Written(plan) : ids[k] = id
                  w == Planned(actor, plan, i, id) IN
              IF plan.ops[i].action = "propose" THEN w
              ELSE [w EXCEPT !.version = @ + 1]
         ELSE waivers[id]]
  /\ head' = head + 1
  /\ applied' = Append(applied, [preview |-> PreviewOf(actor, plan, ids),
                                 actor |-> actor.name, of |-> Database])
  /\ UNCHANGED << runs, evidence, policy, today, previews >>

\* The identifiers that preview and application of a plan compute.
Ids(preview) ==
  [i \in DOMAIN preview.changes |-> preview.changes[i].after.id]

PlanStep(actor) ==
  \/ \E plan \in Drafts : \E ids \in [DOMAIN plan.ops -> WaiverIds] :
       Preview(actor, plan, ids)
  \/ \E p, q \in previews :
       Apply(actor, p.preview.plan, Ids(p.preview), q.preview)

PlanNext ==
  \/ NextDay /\ UNCHANGED << head, previews, applied >>
  \/ \E actor \in Principals :
       /\ Operation(actor)
       /\ head < MaxHead /\ head' = head + 1
       /\ UNCHANGED << previews, applied >>
  \/ \E actor \in Principals : PlanStep(actor)

PlanSpec == PlanInit /\ [][PlanNext]_planVars

------------------------------------------------------------------------------
(* Properties *)

\* A plan is applied only by the person it was previewed for, with exactly the
\* changes he was shown, to exactly the database they were computed from: no
\* operation of anyone else came between, and no plan is applied twice.
AppliedAsPreviewed ==
  /\ \A i \in DOMAIN applied :
       /\ applied[i].actor = applied[i].preview.actor
       /\ [preview |-> applied[i].preview, of |-> applied[i].of] \in previews
  /\ \A i, j \in DOMAIN applied :
       applied[i].preview.plan = applied[j].preview.plan => i = j

\* A plan is applied whole: each of its proposals and amendments is stored at
\* once, as previewed, and no waiver outside the plan moves.
PlanIsWhole ==
  [][\A i \in (DOMAIN applied)' \ DOMAIN applied :
       LET changes == applied'[i].preview.changes IN
       \A id \in WaiverIds :
         \/ /\ waivers'[id] = waivers[id]
            /\ \A k \in DOMAIN changes : changes[k].after.id # id
         \/ \E k \in DOMAIN changes :
              /\ changes[k].after.id = id
              /\ changes[k].before = waivers[id]
              /\ id \in Known'
              /\ [waivers'[id] EXCEPT !.version = changes[k].after.version]
                   = changes[k].after]_planVars

==============================================================================
