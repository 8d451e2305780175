----------------------------- MODULE TapeoutGate -----------------------------
(***************************************************************************)
(* The lifecycle seen through assessments: which operations can open the   *)
(* gate of an imported run, and what a frozen snapshot holds.              *)
(***************************************************************************)
EXTENDS WaiverProperties, Assessment

CONSTANT MaxSnapshots  \* bound on the number of snapshots

VARIABLE snapshots     \* frozen snapshots

gateVars == << vars, snapshots >>

Stored == {waivers[id] : id \in Known}

GateInit == Init /\ snapshots = {}

\* Service.freeze: the waivers of the run's scope, the policy and the
\* assessment of this moment, kept together.
Freeze(actor, r, requireClean) ==
  LET ws == Scoped(r, Stored)
      pass == GatePasses(r, ws, policy, today) IN
  /\ actor.role \in Reviewing
  /\ r \in runs /\ Granted(actor, r.scope.project)
  /\ requireClean => pass
  /\ Cardinality(snapshots) < MaxSnapshots
  /\ snapshots' = snapshots \cup
       {[run |-> r, waivers |-> ws, policy |-> policy,
         assessed_on |-> today, gate_pass |-> pass]}
  /\ UNCHANGED vars

GateNext ==
  \/ Next /\ UNCHANGED snapshots
  \/ \E actor \in Principals, r \in runs, requireClean \in BOOLEAN :
       Freeze(actor, r, requireClean)

GateSpec == GateInit /\ [][GateNext]_gateVars

------------------------------------------------------------------------------

Suppressed(r, v) == RowStatus(r, Stored, policy, today, v) = "waived"

Passes(r) == GatePasses(r, Stored, policy, today)

\* A blocked gate opens only by the vote that completes an approval, or by a
\* change of policy: no import, proposal, amendment, rebind, revocation or
\* new day lets a blocked run through.  Two live waivers on one target would
\* break this, since revoking one of them would end the ambiguity.
OnlyVotesOpenTheGate ==
  [][\A r \in runs :
       ~Passes(r) /\ Passes(r)' =>
         \/ policy' # policy
         \/ \E id \in Known : /\ waivers[id].status = "submitted"
                              /\ waivers'[id].status = "approved"]_gateVars

\* A suppressed finding was decided: its waiver is for the same identity in
\* the same surroundings, is inside its dates, and as many people as the
\* present policy asks for, each with a reviewing token for the project and
\* none of them its owner or creator, approved exactly its present content.
WaivedWasDecided ==
  \A r \in runs : \A v \in r.violations :
    Suppressed(r, v) =>
      \E id \in Known :
        LET w == waivers[id] IN
        /\ w.scope = r.scope
        /\ Fingerprint(w.target) = Fingerprint(v)
        /\ w.target.context_hash = v.context_hash
        /\ w.expires_on # None => today =< w.expires_on
        /\ \E deciders \in SUBSET (w.reviewers \ {w.owner, w.creator}) :
             /\ Cardinality(deciders) >= Quorum(policy, w)
             /\ \A name \in deciders :
                  /\ HasToken(name, Reviewing, r.scope.project)
                  /\ [actor |-> name, decision |-> "approve",
                      content_digest |-> ApprovalDigest(w)] \in Votes(w)

\* A decided suppression lasts: only a change of policy, a change of its own
\* waiver or the day after its date ends it.  Nobody's proposal, rebind,
\* import or decision on another waiver makes the finding block again, and
\* the date itself is still inside.  A second live waiver on one target
\* would break this by the ambiguity it starts.
SuppressionLasts ==
  [][\A r \in runs : \A v \in r.violations :
       Suppressed(r, v) /\ ~Suppressed(r, v)' =>
         \/ policy' # policy
         \/ \E id \in Known :
              LET w == waivers[id] IN
              /\ w.scope = r.scope /\ w.fingerprint = Fingerprint(v)
              /\ w.status = "approved"
              /\ \/ waivers'[id] # w
                 \/ w.expires_on # None /\ today' > w.expires_on]_gateVars

\* A waiver is reported unused only if no finding without a waiver of its own
\* that the index retrieves for it looks like its target: a search cut short
\* by the candidate budget leaves it "not observed".  A lookalike that the
\* index misses, at the rounded movement limit, is not excluded.
UnusedWasSought ==
  \A r \in runs : \A w \in Scoped(r, Stored) :
    Outcome(r, Stored, policy, today, w) = "unused" =>
      /\ r.complete
      /\ \A v \in r.violations :
           Hits(r, Stored, v) = {} =>
             ~(Retrieved(w.target, v) /\ Alike(w.target, v))

\* What a snapshot froze stays available to its bundle: the run and every
\* attachment that a frozen waiver cites, whatever happens to the live
\* waivers afterwards; and a frozen waiver's live record never has an older
\* version.
SnapshotsStayWhole ==
  \A s \in snapshots :
    /\ s.run \in runs
    /\ \A w \in s.waivers : /\ w.evidence \subseteq evidence
                            /\ w.id \in Known
                            /\ w.version =< waivers[w.id].version
                            /\ w.version = waivers[w.id].version => w = waivers[w.id]

==============================================================================
