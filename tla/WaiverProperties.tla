--------------------------- MODULE WaiverProperties --------------------------
(***************************************************************************)
(* What the lifecycle of service.py promises about the stored waivers.     *)
(***************************************************************************)
EXTENDS WaiverLifecycle

UnderReview == {"submitted", "approved", "rejected"}

------------------------------------------------------------------------------
(* Invariants *)

VotesBound(w) ==
  /\ \A i \in 1 .. Len(w.approvals) :
       /\ w.approvals[i].content_digest = ApprovalDigest(w)
       /\ w.approvals[i].actor \in Independent(w)
  /\ \A i, j \in 1 .. Len(w.approvals) :
       w.approvals[i].actor = w.approvals[j].actor => i = j

\* While a waiver is under review or decided, every vote it carries was cast
\* on exactly the content it has now, by an assigned reviewer who is neither
\* its owner nor its creator, and no reviewer voted twice: amend, attach,
\* rebind and submit each clear what a change of content would leave stale.
VotesBindContent ==
  \A id \in Known :
    waivers[id].status \in UnderReview => VotesBound(waivers[id])

OnlyApprovals(w, k) == \A i \in 1 .. k : w.approvals[i].decision = "approve"

HistoryShape(w) ==
  /\ w.status = "proposed" => w.approvals = << >>
  /\ w.status \in {"submitted", "approved"} => OnlyApprovals(w, Len(w.approvals))
  /\ w.status = "approved" => w.approvals # << >>
  /\ w.status = "rejected" =>
       /\ w.approvals # << >>
       /\ OnlyApprovals(w, Len(w.approvals) - 1)
       /\ w.approvals[Len(w.approvals)].decision = "reject"

\* The shape of the votes that each status leaves behind, on which the
\* review history check of a release contract relies: a proposal has none, a
\* submission and an approval have no rejection, and a rejected waiver has
\* exactly one, its last vote.
DecisionHistory == \A id \in Known : HistoryShape(waivers[id])

\* The votes a waiver carries and its status fit together and are bound to
\* its present content.
ReviewsAreSound == VotesBindContent /\ DecisionHistory

\* Two waivers that are not revoked never target the same identity in the
\* same scope, through proposals and rebinds in any order: assess() would
\* answer "ambiguous" and both would stop suppressing.
UniqueLiveTarget ==
  \A x, y \in Known :
    /\ waivers[x].scope = waivers[y].scope
    /\ waivers[x].fingerprint = waivers[y].fingerprint
    /\ waivers[x].status # "revoked"
    /\ waivers[y].status # "revoked"
    => x = y

\* The waiver's baseline is the run r.
BasedOn(w, r) ==
  /\ r.id = w.baseline_run_id
  /\ r.scope = w.scope
  /\ r.revision = w.baseline_revision
  /\ r.provenance = w.baseline_provenance
  /\ w.target \in r.violations

\* The baseline of a waiver names an imported run of its scope, and target,
\* fingerprint, revision and provenance all come from that one run; a
\* revision bound names the revision of the baseline, also after a rebind,
\* which moves the bound with the baseline.
BaselineIsImported ==
  \A id \in Known :
    /\ waivers[id].id = id
    /\ waivers[id].valid_revision \in {None, waivers[id].baseline_revision}
    /\ waivers[id].fingerprint = Fingerprint(waivers[id].target)
    /\ \E r \in runs : BasedOn(waivers[id], r)

HasToken(name, roles, project) ==
  \E p \in Principals : /\ p.name = name /\ p.role \in roles
                        /\ Granted(p, project)

\* Nobody acts in a project outside his grants: the creator of a waiver and
\* everyone who voted on it has a token for that project, with a role that
\* may propose, respectively decide.
ActorsAreGranted ==
  \A id \in Known :
    LET w == waivers[id] IN
    /\ HasToken(w.creator, Contributors, w.scope.project)
    /\ \A a \in Votes(w) : HasToken(a.actor, Reviewing, w.scope.project)

------------------------------------------------------------------------------
(* Action properties *)

Created(id) == id \notin Known /\ id \in Known'

Changed(id) == id \in Known /\ waivers'[id] # waivers[id]

\* A waiver becomes approved only in a step after which distinct, assigned,
\* independent reviewers have approved its unchanged content in the number
\* the policy of that moment asks for, and while it is inside its bounds:
\* quorum and policy are read in the transaction of the last vote.
ApprovalTakesQuorum ==
  [][\A id \in Known' :
       LET w == waivers[id]
           x == waivers'[id] IN
       x.status = "approved" /\ (id \in Known => w.status # "approved") =>
         /\ id \in Known
         /\ Cardinality(GoodVoters(x)) >= Quorum(policy, x)
         /\ ApprovalDigest(x) = ApprovalDigest(w)
         /\ Approvable(x, policy, today)]_vars

\* Revocation is terminal: no later operation of any actor changes or
\* removes a revoked waiver.
RevocationIsTerminal ==
  [][\A id \in Known :
       waivers[id].status = "revoked" => waivers'[id] = waivers[id]]_vars

\* Each change of a waiver raises its version by one, which is what lets a
\* stale writer be refused, and never moves it to another identifier, scope,
\* creator, creation date, category or rule.
VersionsAndLineage ==
  [][\A id \in WaiverIds :
       LET w == waivers[id]
           x == waivers'[id] IN
       /\ Created(id) => x.version = 1 /\ x.status = "proposed"
       /\ Changed(id) =>
            /\ id \in Known'
            /\ x.version = w.version + 1
            /\ x.id = w.id /\ x.scope = w.scope
            /\ x.creator = w.creator /\ x.created_at = w.created_at
            /\ x.target.category = w.target.category
            /\ x.target.rule = w.target.rule]_vars

\* Evidence is never lost: what a waiver cites is stored, stays stored and
\* stays cited, through amendments, rebinds and revocation.
EvidenceRetained ==
  [][/\ evidence \subseteq evidence'
     /\ \A id \in Known :
          waivers[id].evidence \subseteq waivers'[id].evidence \cap evidence']_vars

\* What no step of any actor does: approve without the quorum of the moment,
\* undo a revocation, break the lineage or the numbering of a waiver's
\* versions, or lose the evidence it cites.
StepsAreSound ==
  /\ ApprovalTakesQuorum
  /\ RevocationIsTerminal
  /\ VersionsAndLineage
  /\ EvidenceRetained

------------------------------------------------------------------------------
(* What the documentation says *)

\* docs/ARCHITECTURE.md, "Lifecycle": the only arrow into "submitted" starts
\* at "proposed"; a rejected waiver comes back through amend or rebind.
SubmitsOnlyProposals ==
  [][\A id \in Known \cap Known' :
       waivers'[id].status = "submitted" =>
         waivers[id].status \in {"proposed", "submitted"}]_vars

\* service.py, revoke: "Retain the reason in the signed content/audit
\* projection, not only a UI toast".  A revoked waiver ends with its reason.
ReasonRetained ==
  \A id \in Known :
    LET w == waivers[id] IN
    w.status = "revoked" =>
      \E i \in 1 .. Len(w.rationale) - 1 :
        w.rationale[i] = "revoked" /\ w.rationale[i + 1] \in Words

==============================================================================
