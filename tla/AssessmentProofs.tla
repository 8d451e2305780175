--------------------------- MODULE AssessmentProofs ---------------------------
(***************************************************************************)
(* What assessments mean to their readers, for any runs, waivers, policies *)
(* and contracts: what opens the gate, what a snapshot keeps, what a       *)
(* release capsule rests on.  Neither freezing nor sealing changes what    *)
(* the lifecycle knows, so every invariant of the lifecycle holds here.    *)
(***************************************************************************)
EXTENDS TapeoutGate, ReleaseCapsule, WaiverLifecycleProofs

\* Freezing reads the service only.
LEMMA GateStep == [GateNext]_gateVars => [Next]_vars
BY DEF GateNext, gateVars, Freeze, vars

\* The service seen through assessments is the service.
THEOREM GateImplementsLifecycle == GateSpec => Spec
BY GateStep, PTL DEF GateSpec, GateInit, Spec

\* What every proof below knows of the stored waivers.
Kept == TypeOK /\ BaselineIsImported /\ UniqueLiveTarget /\ ActorsAreGranted

\* The lifecycle's invariants hold of the service seen through assessments.
LEMMA GateKept == GateSpec => []Kept
BY GateImplementsLifecycle, TypeCorrect, BaselineKept, TargetsUnique,
   ActorsGranted, PTL DEF Kept

------------------------------------------------------------------------------
(* Rows *)

\* A finding has at most one live waiver, also among some of them.
LEMMA OneHit ==
  ASSUME BaselineIsImported, UniqueLiveTarget, NEW r, NEW v,
         NEW ws \in SUBSET Stored, NEW w \in Hits(r, ws, v)
  PROVE  Hits(r, ws, v) = {w}
BY DEF Hits, Live, Scoped, Stored, UniqueLiveTarget, BaselineIsImported

\* With one live waiver the row of a finding is waived if the waiver is
\* effective on it and no other finding has its identity.
LEMMA RowOfHit ==
  ASSUME NEW r, NEW ws, NEW p, NEW day, NEW v, NEW w, Hits(r, ws, v) = {w}
  PROVE  RowStatus(r, ws, p, day, v) = "waived"
         <=> Occurrences(r, Fingerprint(v)) = {v} /\ Effective(w, r, v, p, day)
<1>1. Cardinality({w}) = 1 /\ (CHOOSE x \in {w} : TRUE) = w
  BY FS_Singleton
<1>2. MatchStatus(w, r, v, p, day) = "waived" <=> Effective(w, r, v, p, day)
  BY DEF MatchStatus
<1> QED
  BY <1>1, <1>2 DEF RowStatus

\* A waived row has a live waiver.
LEMMA WaivedHasHit ==
  ASSUME NEW r, NEW ws, NEW p, NEW day, NEW v,
         RowStatus(r, ws, p, day, v) = "waived"
  PROVE  Hits(r, ws, v) # {}
BY DEF RowStatus

\* What it takes for a finding to be suppressed.
LEMMA WaivedRow ==
  ASSUME BaselineIsImported, UniqueLiveTarget, NEW r, NEW v,
         RowStatus(r, Stored, policy, today, v) = "waived"
  PROVE  \E id \in Known :
           /\ waivers[id].scope = r.scope
           /\ waivers[id].fingerprint = Fingerprint(v)
           /\ Hits(r, Stored, v) = {waivers[id]}
           /\ Effective(waivers[id], r, v, policy, today)
           /\ Occurrences(r, Fingerprint(v)) = {v}
<1>1. PICK w : w \in Hits(r, Stored, v)
  BY WaivedHasHit
<1>2. Hits(r, Stored, v) = {w}
  BY <1>1, OneHit
<1>3. PICK id \in Known : w = waivers[id]
  BY <1>1 DEF Hits, Live, Scoped, Stored
<1>4. w.scope = r.scope /\ w.fingerprint = Fingerprint(v)
  BY <1>1 DEF Hits, Live, Scoped
<1> QED
  BY <1>2, <1>3, <1>4, RowOfHit

\* Nothing is suppressed that was not decided: a waived finding has a waiver
\* for its identity and surroundings, inside its dates, with the votes of as
\* many independent reviewers of the project as the policy asks for.
THEOREM WaivedDecided == GateSpec => []WaivedWasDecided
<1>1. Kept => WaivedWasDecided
  <2> SUFFICES ASSUME Kept, NEW r \in runs, NEW v \in r.violations,
                      Suppressed(r, v)
               PROVE  \E id \in Known :
                 LET w == waivers[id] IN
                 /\ w.scope = r.scope
                 /\ Fingerprint(w.target) = Fingerprint(v)
                 /\ w.target.context_hash = v.context_hash
                 /\ w.expires_on # None => today =< w.expires_on
                 /\ \E deciders \in SUBSET (w.reviewers \ {w.owner, w.creator}) :
                      /\ Cardinality(deciders) >= Quorum(policy, w)
                      /\ \A name \in deciders :
                           /\ HasToken(name, Reviewing, r.scope.project)
                           /\ [actor |-> name, decision |-> "approve",
                               content_digest |-> ApprovalDigest(w)] \in Votes(w)
    BY DEF WaivedWasDecided
  <2>1. PICK id \in Known :
          /\ waivers[id].scope = r.scope
          /\ waivers[id].fingerprint = Fingerprint(v)
          /\ Effective(waivers[id], r, v, policy, today)
    BY WaivedRow DEF Kept, Suppressed
  <2> DEFINE w == waivers[id]
  <2>2. w \in Waiver /\ w.fingerprint = Fingerprint(w.target)
    BY DEF Kept, TypeOK, Known, BaselineIsImported
  <2>3. /\ w.target.context_hash = v.context_hash
        /\ ~Expired(w, today)
        /\ Cardinality(GoodVoters(w)) >= Quorum(policy, w)
    BY <2>1 DEF Effective, Approvable
  <2>4. w.expires_on # None => today =< w.expires_on
    BY <2>2, <2>3 DEF Expired, Kept, TypeOK, Waiver, WaiverRecord
  <2>5. GoodVoters(w) \in SUBSET (w.reviewers \ {w.owner, w.creator})
    BY DEF GoodVoters, Independent
  <2>6. ASSUME NEW name \in GoodVoters(w)
        PROVE  /\ HasToken(name, Reviewing, r.scope.project)
               /\ [actor |-> name, decision |-> "approve",
                   content_digest |-> ApprovalDigest(w)] \in Votes(w)
    <3>1. PICK a \in Votes(w) : /\ a.actor = name /\ a.decision = "approve"
                                /\ a.content_digest = ApprovalDigest(w)
      BY <2>6 DEF GoodVoters
    <3>2. a \in Approval
      <4>1. w.approvals \in Seq(Approval)
        BY <2>2 DEF Waiver, WaiverRecord
      <4> QED
        BY <3>1, <4>1 DEF Votes
    <3>3. a = [actor |-> name, decision |-> "approve",
               content_digest |-> ApprovalDigest(w)]
      BY <3>1, <3>2 DEF Approval
    <3> QED
      BY <2>1, <3>1, <3>3 DEF Kept, ActorsAreGranted
  <2> QED
    BY <2>1, <2>2, <2>3, <2>4, <2>5, <2>6
<1> QED
  BY <1>1, GateKept, PTL

\* No matched row answers "unused".
LEMMA NoRowIsUnused ==
  ASSUME NEW r, NEW ws, NEW p, NEW day, NEW v
  PROVE  RowStatus(r, ws, p, day, v) # "unused"
BY DEF RowStatus, MatchStatus

\* An unused waiver was looked for: had a finding that the index retrieves for
\* it looked like its target, the waiver would have been its candidate or the
\* search was cut short, and then the answer is "not observed".
THEOREM UnusedSought == GateSpec => []UnusedWasSought
<1>1. UnusedWasSought
  <2> SUFFICES ASSUME NEW r \in runs, NEW w \in Scoped(r, Stored),
                      Outcome(r, Stored, policy, today, w) = "unused"
               PROVE  /\ r.complete
                      /\ \A v \in r.violations :
                           Hits(r, Stored, v) = {} =>
                             ~(Retrieved(w.target, v) /\ Alike(w.target, v))
    BY DEF UnusedWasSought
  <2>1. w \notin Matched(r, Stored)
    BY NoRowIsUnused DEF Outcome
  <2>2. /\ w.status # "revoked" /\ r.complete
        /\ \A v \in r.violations : w \notin Candidates(r, Stored, policy, v)
        /\ ~MaybeMissed(r, Stored, policy, w)
    BY <2>1 DEF Outcome
  <2>3. ASSUME NEW v \in r.violations, Hits(r, Stored, v) = {},
               Retrieved(w.target, v), Alike(w.target, v)
        PROVE  FALSE
    <3>1. Bucket(w.target) = Bucket(v) \/ SameObject(w.target, v)
      BY <2>3 DEF Retrieved
    <3>2. w \in Pool(r, Stored, v)
      BY <2>2, <2>3 DEF Pool, Live
    <3>3. ~Truncated(r, Stored, policy, v)
      BY <2>2, <3>1 DEF MaybeMissed
    <3> QED
      BY <2>2, <2>3, <3>2, <3>3 DEF Candidates
  <2> QED
    BY <2>2, <2>3
<1> QED
  BY <1>1, PTL

------------------------------------------------------------------------------
(* Snapshots *)

SnapshotsTyped == \A s \in snapshots : s.waivers \subseteq Waiver

SnapshotInv ==
  /\ TypeOK /\ BaselineIsImported /\ EvidenceStored
  /\ SnapshotsTyped /\ SnapshotsStayWhole

\* What the live service may do to the record behind a frozen waiver.
LEMMA FrozenBehind ==
  ASSUME TypeOK, BaselineIsImported, [Next]_vars, NEW w \in Waiver, w.id \in Known,
         w.version =< waivers[w.id].version,
         w.version = waivers[w.id].version => w = waivers[w.id]
  PROVE  /\ w.id \in Known'
         /\ w.version =< waivers'[w.id].version
         /\ w.version = waivers'[w.id].version => w = waivers'[w.id]
<1>1. w.version \in Nat /\ waivers[w.id].version \in Nat
  BY DEF TypeOK, Known, Waiver, WaiverRecord
<1>2. w.id \in Known'
  BY WhatChanges
<1>3. CASE waivers'[w.id] = waivers[w.id]
  BY <1>2, <1>3
<1>4. CASE \E x : /\ Edited(w.id, x)
                  /\ waivers'[w.id] = [x EXCEPT !.version = x.version + 1]
  <2>1. PICK x : /\ Edited(w.id, x)
                 /\ waivers'[w.id] = [x EXCEPT !.version = x.version + 1]
    BY <1>4
  <2>2. x \in Waiver /\ x.version = waivers[w.id].version
    BY <2>1 DEF Edited, Continues
  <2>3. waivers'[w.id].version = waivers[w.id].version + 1
    BY <2>1, <2>2 DEF Waiver, WaiverRecord
  <2> QED
    BY <1>1, <1>2, <2>3
<1> QED
  BY <1>3, <1>4, WhatChanges

\* A snapshot taken now holds the present waivers, whose evidence is stored.
LEMMA FreezeWhole ==
  ASSUME SnapshotInv, NEW actor, NEW r \in runs, NEW requireClean,
         Freeze(actor, r, requireClean)
  PROVE  SnapshotsTyped' /\ SnapshotsStayWhole'
<1> DEFINE ws == Scoped(r, Stored)
           new == [run |-> r, waivers |-> ws, policy |-> policy,
                   assessed_on |-> today,
                   gate_pass |-> GatePasses(r, ws, policy, today)]
<1>1. snapshots' = snapshots \cup {new} /\ UNCHANGED vars
  BY DEF Freeze
<1>2. ASSUME NEW w \in ws
      PROVE  /\ w \in Waiver /\ w.evidence \subseteq evidence
             /\ w.id \in Known /\ w = waivers[w.id]
             /\ w.version \in Nat
  <2>1. PICK id \in Known : w = waivers[id]
    BY DEF Scoped, Stored
  <2>2. w \in Waiver /\ w.id = id /\ w.evidence \subseteq evidence
    BY <2>1 DEF SnapshotInv, TypeOK, Known, BaselineIsImported, EvidenceStored
  <2> QED
    BY <2>1, <2>2 DEF Waiver, WaiverRecord
<1>3. /\ runs' = runs /\ waivers' = waivers /\ evidence' = evidence
      /\ Known' = Known
  BY <1>1 DEF vars, Known
<1>4. new.run = r /\ new.waivers = ws
  OBVIOUS
<1> HIDE DEF ws, new
<1>5. SnapshotsTyped'
  BY <1>1, <1>2, <1>4 DEF SnapshotInv, SnapshotsTyped
<1>6. ASSUME NEW s \in snapshots \cup {new}
      PROVE  /\ s.run \in runs
             /\ \A w \in s.waivers : /\ w.evidence \subseteq evidence
                                     /\ w.id \in Known
                                     /\ w.version =< waivers[w.id].version
                                     /\ w.version = waivers[w.id].version
                                        => w = waivers[w.id]
  <2>1. CASE s \in snapshots
    BY <2>1 DEF SnapshotInv, SnapshotsStayWhole
  <2>2. CASE s = new
    BY <1>2, <1>4, <2>2
  <2> QED
    BY <2>1, <2>2
<1> QED
  BY <1>1, <1>3, <1>5, <1>6 DEF SnapshotsStayWhole

\* Whatever happens to the live waivers, what a snapshot froze stays whole:
\* its run, the attachments its waivers cite, and their place in the history
\* of the live records.
THEOREM SnapshotsWhole == GateSpec => []SnapshotsStayWhole
<1>1. GateInit => SnapshotsTyped /\ SnapshotsStayWhole
  BY DEF GateInit, SnapshotsTyped, SnapshotsStayWhole
<1>2. SnapshotInv /\ [GateNext]_gateVars => SnapshotsTyped' /\ SnapshotsStayWhole'
  <2> SUFFICES ASSUME SnapshotInv, [GateNext]_gateVars
               PROVE  SnapshotsTyped' /\ SnapshotsStayWhole'
    OBVIOUS
  <2>1. CASE \E actor \in Principals, r \in runs, requireClean \in BOOLEAN :
               Freeze(actor, r, requireClean)
    BY <2>1, FreezeWhole
  <2>2. CASE snapshots' = snapshots
    <3>1. [Next]_vars
      BY GateStep
    <3>2. runs \subseteq runs' /\ evidence \subseteq evidence'
      BY <3>1, Onward, StepEffect DEF SnapshotInv
    <3>3. ASSUME NEW s \in snapshots, NEW w \in s.waivers
          PROVE  /\ w.evidence \subseteq evidence'
                 /\ w.id \in Known'
                 /\ w.version =< waivers'[w.id].version
                 /\ w.version = waivers'[w.id].version => w = waivers'[w.id]
      <4>1. /\ w \in Waiver /\ w.evidence \subseteq evidence
            /\ w.id \in Known
            /\ w.version =< waivers[w.id].version
            /\ w.version = waivers[w.id].version => w = waivers[w.id]
        BY DEF SnapshotInv, SnapshotsTyped, SnapshotsStayWhole
      <4> QED
        BY <3>1, <3>2, <4>1, FrozenBehind DEF SnapshotInv
    <3> QED
      BY <2>2, <3>2, <3>3 DEF SnapshotInv, SnapshotsTyped, SnapshotsStayWhole
  <2> QED
    BY <2>1, <2>2 DEF GateNext, gateVars
<1>3. GateSpec => [](TypeOK /\ BaselineIsImported /\ EvidenceStored)
  BY GateImplementsLifecycle, TypeCorrect, BaselineKept, CitedStored, PTL
<1> QED
  BY <1>1, <1>2, <1>3, PTL DEF GateSpec, SnapshotInv

------------------------------------------------------------------------------
(* What opens the gate, and what ends a suppression *)

\* A waiver that is effective today was so, unchanged, on the days before.
LEMMA EffectiveBefore ==
  ASSUME NEW w \in Waiver, NEW r, NEW v, NEW p, NEW day \in Nat, NEW later \in Nat,
         day =< later, Effective(w, r, v, p, later)
  PROVE  Effective(w, r, v, p, day)
<1>1. w.expires_on \in Nat \cup {None}
  BY DEF Waiver, WaiverRecord
<1>2. ~Expired(w, later) => ~Expired(w, day)
  BY <1>1 DEF Expired
<1> QED
  BY <1>2 DEF Effective, Approvable

\* Under an unchanged policy a finding becomes suppressed only by the vote
\* that approves its waiver: a waiver approved before suppressed it already,
\* being the only one on its target.
LEMMA BecomesWaived ==
  ASSUME TypeOK, BaselineIsImported, UniqueLiveTarget,
         BaselineIsImported', UniqueLiveTarget', [Next]_vars, policy' = policy,
         NEW r, NEW v, RowStatus(r, Stored, policy, today, v) # "waived",
         RowStatus(r, Stored', policy, today', v) = "waived"
  PROVE  \E id \in Known : /\ waivers[id].status = "submitted"
                           /\ waivers'[id].status = "approved"
<1>1. PICK x : x \in Hits(r, Stored', v)
  BY WaivedHasHit
<1>2. PICK id \in Known' : x = waivers'[id]
  BY <1>1 DEF Hits, Live, Scoped, Stored
<1>3. /\ x.scope = r.scope /\ x.fingerprint = Fingerprint(v)
      /\ x.status # "revoked"
  BY <1>1 DEF Hits, Live, Scoped
<1>4. ASSUME NEW y \in Hits(r, Stored', v)
      PROVE  y = x
  <2>1. PICK i \in Known' : y = waivers'[i]
    BY <1>4 DEF Hits, Live, Scoped, Stored
  <2>2. /\ y.scope = r.scope /\ y.fingerprint = Fingerprint(v)
        /\ y.status # "revoked"
    BY <1>4 DEF Hits, Live, Scoped
  <2>3. i = id
    BY <1>2, <1>3, <2>1, <2>2 DEF UniqueLiveTarget
  <2> QED
    BY <1>2, <2>1, <2>3
<1>5. Hits(r, Stored', v) = {x}
  BY <1>1, <1>4
<1>6. Occurrences(r, Fingerprint(v)) = {v} /\ Effective(x, r, v, policy, today')
  BY <1>5, RowOfHit
<1>7. x.status = "approved"
  BY <1>6 DEF Effective
<1>8. id \in Known
  <2>1. ASSUME id \notin Known
        PROVE  FALSE
    BY <1>2, <1>7, <2>1, WhatIsNew DEF Entered
  <2> QED
    BY <2>1
<1>9. CASE waivers'[id] = waivers[id]
  <2>1. x \in Waiver
    BY <1>2, <1>8, <1>9 DEF TypeOK, Known
  <2>2. Effective(x, r, v, policy, today)
    BY <1>6, <2>1, Onward, EffectiveBefore DEF TypeOK
  <2>3. x \in Hits(r, Stored, v)
    BY <1>2, <1>3, <1>8, <1>9 DEF Hits, Live, Scoped, Stored
  <2>4. Hits(r, Stored, v) = {x}
    BY <2>3, OneHit
  <2> QED
    BY <1>6, <2>2, <2>4, RowOfHit
<1>10. CASE \E y : /\ Edited(id, y)
                   /\ waivers'[id] = [y EXCEPT !.version = y.version + 1]
  <2>1. PICK y : /\ Edited(id, y)
                 /\ waivers'[id] = [y EXCEPT !.version = y.version + 1]
    BY <1>10
  <2>2. y.status = "approved"
    BY <1>2, <1>7, <2>1 DEF Edited, Waiver, WaiverRecord
  <2>3. waivers[id].status = "submitted"
    BY <2>1, <2>2 DEF Edited, Decided
  <2> QED
    BY <1>2, <1>7, <1>8, <2>3
<1> QED
  BY <1>8, <1>9, <1>10, WhatChanges

\* Only a completed approval or a change of policy lets a blocked run
\* through: no import, proposal, amendment, rebind, revocation or new day.
THEOREM OnlyVotesOpen == GateSpec => OnlyVotesOpenTheGate
<1>1. /\ Kept /\ Kept' /\ [GateNext]_gateVars
      => [\A r \in runs :
            ~Passes(r) /\ Passes(r)' =>
              \/ policy' # policy
              \/ \E id \in Known : /\ waivers[id].status = "submitted"
                                   /\ waivers'[id].status = "approved"]_gateVars
  <2> SUFFICES ASSUME Kept, Kept', [GateNext]_gateVars, NEW r \in runs,
                      ~Passes(r), Passes(r)', policy' = policy
               PROVE  \E id \in Known : /\ waivers[id].status = "submitted"
                                        /\ waivers'[id].status = "approved"
    OBVIOUS
  <2>1. GatePasses(r, Stored', policy, today')
    BY DEF Passes
  <2>2. PICK v \in r.violations :
          /\ RowStatus(r, Stored, policy, today, v) # "waived"
          /\ v.severity \in policy.gate_severities
    BY <2>1 DEF Passes, GatePasses, Blockers
  <2>3. RowStatus(r, Stored', policy, today', v) = "waived"
    BY <2>1, <2>2 DEF GatePasses, Blockers
  <2> QED
    BY <2>2, <2>3, GateStep, BecomesWaived DEF Kept
<1> QED
  BY <1>1, GateKept, PTL DEF GateSpec, OnlyVotesOpenTheGate

\* Under an unchanged policy a suppression outlives every step that leaves its
\* waiver alone: the waiver is still the only one on its target, and effective
\* until its date is past.
LEMMA StaysWaived ==
  ASSUME TypeOK, BaselineIsImported, UniqueLiveTarget, UniqueLiveTarget',
         [Next]_vars, policy' = policy, NEW r, NEW v, NEW id \in Known,
         waivers[id].scope = r.scope, waivers[id].fingerprint = Fingerprint(v),
         Effective(waivers[id], r, v, policy, today),
         Occurrences(r, Fingerprint(v)) = {v}, waivers'[id] = waivers[id],
         waivers[id].expires_on # None => ~(today' > waivers[id].expires_on)
  PROVE  RowStatus(r, Stored', policy, today', v) = "waived"
<1> DEFINE w == waivers[id]
<1>1. id \in Known' /\ waivers'[id] = w /\ w.status = "approved"
  BY WhatChanges DEF Effective
<1>2. w \in Hits(r, Stored', v)
  BY <1>1 DEF Hits, Live, Scoped, Stored
<1>3. ASSUME NEW y \in Hits(r, Stored', v)
      PROVE  y = w
  <2>1. PICK i \in Known' : y = waivers'[i]
    BY <1>3 DEF Hits, Live, Scoped, Stored
  <2>2. /\ y.scope = r.scope /\ y.fingerprint = Fingerprint(v)
        /\ y.status # "revoked"
    BY <1>3 DEF Hits, Live, Scoped
  <2>3. i = id
    BY <1>1, <2>1, <2>2 DEF UniqueLiveTarget
  <2> QED
    BY <1>1, <2>1, <2>3
<1>4. Hits(r, Stored', v) = {w}
  BY <1>2, <1>3
<1>5. Effective(w, r, v, policy, today')
  BY DEF Effective, Approvable, Expired
<1> QED
  BY <1>4, <1>5, RowOfHit

\* A decided suppression ends only by a change of policy, a change of its own
\* waiver, or the day after its date.
THEOREM SuppressionStays == GateSpec => SuppressionLasts
<1>1. /\ Kept /\ Kept' /\ [GateNext]_gateVars
      => [\A r \in runs : \A v \in r.violations :
            Suppressed(r, v) /\ ~Suppressed(r, v)' =>
              \/ policy' # policy
              \/ \E id \in Known :
                   LET w == waivers[id] IN
                   /\ w.scope = r.scope /\ w.fingerprint = Fingerprint(v)
                   /\ w.status = "approved"
                   /\ \/ waivers'[id] # w
                      \/ w.expires_on # None /\ today' > w.expires_on]_gateVars
  <2> SUFFICES ASSUME Kept, Kept', [GateNext]_gateVars, NEW r \in runs,
                      NEW v \in r.violations,
                      Suppressed(r, v), ~Suppressed(r, v)', policy' = policy
               PROVE  \E id \in Known :
                        LET w == waivers[id] IN
                        /\ w.scope = r.scope /\ w.fingerprint = Fingerprint(v)
                        /\ w.status = "approved"
                        /\ \/ waivers'[id] # w
                           \/ w.expires_on # None /\ today' > w.expires_on
    OBVIOUS
  <2>1. PICK id \in Known :
          /\ waivers[id].scope = r.scope
          /\ waivers[id].fingerprint = Fingerprint(v)
          /\ Effective(waivers[id], r, v, policy, today)
          /\ Occurrences(r, Fingerprint(v)) = {v}
    BY WaivedRow DEF Kept, Suppressed
  <2>2. waivers[id].status = "approved"
    BY <2>1 DEF Effective
  <2>3. ~(RowStatus(r, Stored', policy, today', v) = "waived")
    BY DEF Suppressed
  <2>4. \/ waivers'[id] # waivers[id]
        \/ waivers[id].expires_on # None /\ today' > waivers[id].expires_on
    BY <2>1, <2>3, GateStep, StaysWaived DEF Kept
  <2> QED
    BY <2>1, <2>2, <2>4
<1> QED
  BY <1>1, GateKept, PTL DEF GateSpec, SuppressionLasts

------------------------------------------------------------------------------
(* What a release capsule rests on *)

\* Receipts, trust, clocks and sealing leave the service alone.
LEMMA ReleaseStep == [ReleaseNext]_releaseVars => [Next]_vars
<1>1. ASSUME NEW actor \in Principals, Commit(actor)
      PROVE  Next
  BY <1>1 DEF Commit, Next
<1>2. DayPasses => Next
  BY DEF DayPasses, Next
<1>3. ChangeTrust => UNCHANGED vars
  BY DEF ChangeTrust
<1>4. ASSUME NEW key, NEW r, NEW execution, SignExecution(key, r, execution)
      PROVE  UNCHANGED vars
  BY <1>4 DEF SignExecution
<1>5. ASSUME NEW key, NEW chosen, BeginSeal(key, chosen)
      PROVE  UNCHANGED vars
  BY <1>5 DEF BeginSeal
<1>6. ASSUME NEW allowBlocked, FinishSeal(allowBlocked)
      PROVE  UNCHANGED vars
  BY <1>6 DEF FinishSeal
<1> QED
  BY <1>1, <1>2, <1>3, <1>4, <1>5, <1>6 DEF ReleaseNext, releaseVars

\* The service beside which releases are sealed is the service.
THEOREM ReleaseImplementsLifecycle == ReleaseSpec => Spec
BY ReleaseStep, PTL DEF ReleaseSpec, ReleaseInit, Spec

RunsAreOne == \A r, s \in runs : r.id = s.id => r = s

\* An identifier names one run.
LEMMA RunsNamed == Spec => []RunsAreOne
<1>1. Init => RunsAreOne
  BY DEF Init, RunsAreOne
<1>2. TypeOK /\ RunsAreOne /\ [Next]_vars => RunsAreOne'
  BY Onward DEF RunsAreOne
<1> QED
  BY <1>1, <1>2, TypeCorrect, PTL DEF Spec

\* The lifecycle's invariants hold of the service beside releases.
LEMMA ReleaseKept == ReleaseSpec => [](Kept /\ RunsAreOne)
BY ReleaseImplementsLifecycle, RunsNamed, TypeCorrect, BaselineKept,
   TargetsUnique, ActorsGranted, PTL DEF Kept

\* An assessment of a run reads only the waivers of the run's scope.
LEMMA ReadsScope ==
  ASSUME NEW r, NEW ws, NEW xs, NEW p, NEW day, Scoped(r, ws) = Scoped(r, xs)
  PROVE  GatePasses(r, ws, p, day) = GatePasses(r, xs, p, day)
<1>1. Live(r, ws) = Live(r, xs)
  BY DEF Live
<1>2. \A v : Hits(r, ws, v) = Hits(r, xs, v) /\ Pool(r, ws, v) = Pool(r, xs, v)
  BY <1>1 DEF Hits, Pool
<1>3. Matched(r, ws) = Matched(r, xs)
  BY <1>2 DEF Matched
<1>4. \A v : Truncated(r, ws, p, v) = Truncated(r, xs, p, v)
  BY <1>2 DEF Truncated
<1>5. \A v : Candidates(r, ws, p, v) = Candidates(r, xs, p, v)
  BY <1>2, <1>4 DEF Candidates
<1>6. \A v : OneToOne(r, ws, p, v) = OneToOne(r, xs, p, v)
  BY <1>3, <1>5 DEF OneToOne
<1>7. ASSUME NEW v
      PROVE  RowStatus(r, ws, p, day, v) = RowStatus(r, xs, p, day, v)
  <2>1. /\ Hits(r, ws, v) = Hits(r, xs, v)
        /\ Truncated(r, ws, p, v) <=> Truncated(r, xs, p, v)
        /\ Candidates(r, ws, p, v) = Candidates(r, xs, p, v)
        /\ OneToOne(r, ws, p, v) <=> OneToOne(r, xs, p, v)
    BY <1>2, <1>4, <1>5, <1>6
  <2>2. (CHOOSE w \in Hits(r, ws, v) : TRUE) = (CHOOSE w \in Hits(r, xs, v) : TRUE)
    BY <2>1, Zenon
  <2> QED
    BY <2>1, <2>2, SMT DEF RowStatus
<1> QED
  BY <1>7 DEF GatePasses, Blockers

\* What suppresses a finding is an approved waiver of the database.
LEMMA SuppressorsApproved ==
  ASSUME Kept, NEW inv, inv.waivers \subseteq Stored, NEW r, NEW now,
         NEW w \in Suppressing(r, inv, now)
  PROVE  /\ w \in inv.waivers /\ w.status = "approved"
         /\ w.id \in Known /\ w = waivers[w.id]
<1>1. PICK v \in r.violations :
        /\ w \in Hits(r, inv.waivers, v)
        /\ RowStatus(r, inv.waivers, inv.policy, now.day, v) = "waived"
  BY DEF Suppressing, Waived
<1>2. Hits(r, inv.waivers, v) = {w}
  BY <1>1, OneHit DEF Kept
<1>3. w.status = "approved"
  <2>1. Effective(w, r, v, inv.policy, now.day)
    BY <1>1, <1>2, RowOfHit
  <2> QED
    BY <2>1 DEF Effective
<1>4. w \in inv.waivers
  BY <1>1 DEF Hits, Live, Scoped
<1>5. PICK id \in Known : w = waivers[id]
  BY <1>4 DEF Stored
<1>6. w.id = id
  BY <1>5 DEF Kept, BaselineIsImported
<1> QED
  BY <1>3, <1>4, <1>5, <1>6

\* The inventory holds records of the database, among them every waiver in
\* the scope of a pinned run.
LEMMA InventoryHolds ==
  /\ Inventory.waivers \subseteq Stored /\ Inventory.runs \subseteq runs
  /\ \A check \in Contract.checks : \A r :
       r.scope = CheckScope(check) =>
         Scoped(r, Inventory.waivers) = Scoped(r, Stored)
  /\ \A w \in Inventory.waivers :
       \E id \in Known : /\ w = waivers[id]
                         /\ Inventory.updated[id] = updated[id]
<1>1. Inventory.waivers = {waivers[id] : id \in {x \in Known : ReleaseScope(waivers[x])}}
  BY DEF Inventory
<1>2. Inventory.updated = [id \in {x \in Known : ReleaseScope(waivers[x])} |-> updated[id]]
  BY DEF Inventory
<1>3. Inventory.runs \subseteq runs
  BY DEF Inventory
<1>4. ASSUME NEW check \in Contract.checks, NEW r, r.scope = CheckScope(check)
      PROVE  Scoped(r, Inventory.waivers) = Scoped(r, Stored)
  BY <1>1, <1>4 DEF Scoped, Stored, ReleaseScope
<1> QED
  BY <1>1, <1>2, <1>3, <1>4 DEF Stored

\* In a clean result every check has its run, and nothing is missing.
LEMMA CleanCheck ==
  ASSUME NEW inv, NEW given, NEW t, NEW now, Clean(Evaluate(inv, given, t, now)),
         NEW check \in Contract.checks
  PROVE  LET run == CHOOSE r \in {x \in inv.runs : x.id = check.run_id} : TRUE IN
         /\ run \in inv.runs /\ run.id = check.run_id
         /\ run.scope = CheckScope(check) /\ run.revision = Contract.revision
         /\ Missing(Requirements(check, run, inv, given, t, now)) = {}
<1> DEFINE pinned == {r \in inv.runs : r.id = check.run_id}
           run == CHOOSE r \in pinned : TRUE
<1>1. CheckBlockers(check, inv, given, t, now) = {}
  BY DEF Clean, Evaluate
<1>2. pinned # {}
  BY <1>1 DEF CheckBlockers
<1>3. run \in pinned
  BY <1>2
<1>4. run.scope = CheckScope(check) /\ run.revision = Contract.revision
  BY <1>1, <1>2 DEF CheckBlockers
<1>5. Missing(Requirements(check, run, inv, given, t, now)) = {}
  BY <1>1, <1>2, <1>4 DEF CheckBlockers
<1> QED
  BY <1>3, <1>4, <1>5

\* What a run without missing requirements satisfies.
LEMMA Satisfied ==
  ASSUME NEW check, NEW run, NEW inv, NEW given, NEW t, NEW now,
         Missing(Requirements(check, run, inv, given, t, now)) = {}
  PROVE  /\ Fresh(run, inv, Contract.max_age, now)
         /\ check.categories \subseteq run.checked_categories
         /\ check.provenance = run.provenance
         /\ GatePasses(run, inv.waivers, inv.policy, now.day)
         /\ \A w \in Suppressing(run, inv, now) : Chronology(w, inv, now)
<1> DEFINE R == Requirements(check, run, inv, given, t, now)
<1>1. \A code \in DOMAIN R : R[code]
  BY DEF Missing
<1>2. {"import_age", "coverage", "provenance", "waiver_gate", "review_chronology"}
        \subseteq DOMAIN R
  BY DEF Requirements
<1>3. /\ R.import_age /\ R.coverage /\ R.provenance
      /\ R.waiver_gate /\ R.review_chronology
  BY <1>1, <1>2
<1> QED
  BY <1>3 DEF Requirements

\* A capsule reported usable is about the database as it is: the older gate
\* agrees, and every waiver it rests on is still approved.
THEOREM UsableLive == ReleaseSpec => []UsableIsLive
<1>1. ASSUME Kept, RunsAreOne, NEW c \in capsules, NEW n \in c.issued_at .. Instant,
             Usable(c, trust, Moment(n))
      PROVE  /\ GateRelease([Inventory EXCEPT !.waivers = {waivers[id] : id \in Known}],
                            Moment(n))
             /\ \A id \in c.result.effective : waivers[id].status = "approved"
  <2> DEFINE now == Moment(n)
             inv == Inventory
             all == [inv EXCEPT !.waivers = Stored]
  <2>1. /\ Inventory = c.inventory
        /\ Evaluate(Inventory, c.receipts, trust, c.assessed_at) = c.result
        /\ Clean(Evaluate(Inventory, c.receipts, trust, now))
    BY <1>1 DEF Usable, LivePasses, Authentic, Replays
  <2>2. /\ all.runs = inv.runs /\ all.policy = inv.policy
        /\ all.created = inv.created /\ all.waivers = Stored
    BY DEF Inventory
  <2>3. /\ inv.waivers \subseteq Stored /\ inv.runs \subseteq runs
    BY InventoryHolds
  <2> HIDE DEF inv, all, now
  <2>4. ASSUME NEW check \in Contract.checks
        PROVE  LET matching == {r \in all.runs : /\ r.scope = CheckScope(check)
                                                 /\ r.revision = Contract.revision
                                                 /\ r.id = check.run_id} IN
               /\ Cardinality(matching) = 1
               /\ \A r \in matching :
                    /\ Fresh(r, all, Contract.max_age, now)
                    /\ check.categories \subseteq r.checked_categories
                    /\ check.provenance = r.provenance
                    /\ GatePasses(r, all.waivers, all.policy, now.day)
    <3> DEFINE run == CHOOSE r \in {x \in inv.runs : x.id = check.run_id} : TRUE
               matching == {r \in all.runs : /\ r.scope = CheckScope(check)
                                             /\ r.revision = Contract.revision
                                             /\ r.id = check.run_id}
    <3>1. /\ run \in inv.runs /\ run.id = check.run_id
          /\ run.scope = CheckScope(check) /\ run.revision = Contract.revision
          /\ Missing(Requirements(check, run, inv, c.receipts, trust, now)) = {}
      BY <2>1, CleanCheck DEF inv
    <3> HIDE DEF run
    <3>2. matching = {run}
      BY <1>1, <2>2, <2>3, <3>1 DEF RunsAreOne
    <3>3. Cardinality(matching) = 1
      BY <3>2, FS_Singleton
    <3>4. /\ Fresh(run, inv, Contract.max_age, now)
          /\ check.categories \subseteq run.checked_categories
          /\ check.provenance = run.provenance
          /\ GatePasses(run, inv.waivers, inv.policy, now.day)
      BY <3>1, Satisfied
    <3>5. Fresh(run, all, Contract.max_age, now)
      BY <2>2, <3>4 DEF Fresh
    <3>6. Scoped(run, inv.waivers) = Scoped(run, Stored)
      BY <3>1, InventoryHolds DEF inv
    <3>7. GatePasses(run, all.waivers, all.policy, now.day)
      BY <2>2, <3>4, <3>6, ReadsScope
    <3> QED
      BY <3>2, <3>3, <3>4, <3>5, <3>7
  <2>5. GateRelease(all, now)
    BY <2>4 DEF GateRelease
  <2>6. ASSUME NEW id \in c.result.effective
        PROVE  waivers[id].status = "approved"
    <3>1. PICK r, w : w \in Suppressing(r, inv, c.assessed_at) /\ w.id = id
      BY <2>1 DEF Evaluate, inv
    <3>2. w.status = "approved" /\ w = waivers[w.id]
      BY <1>1, <2>3, <3>1, SuppressorsApproved
    <3> QED
      BY <3>1, <3>2
  <2> QED
    BY <2>5, <2>6 DEF all, inv, now, Stored
<1>2. Kept /\ RunsAreOne => UsableIsLive
  BY <1>1 DEF UsableIsLive
<1> QED
  BY <1>2, ReleaseKept, PTL

------------------------------------------------------------------------------
(* What is true of a capsule for ever *)

\* Time stamps are in the past.
Dated ==
  /\ days \in Seq(Nat) /\ days # << >>
  /\ updated \in [WaiverIds -> Nat]
  /\ \A id \in WaiverIds : updated[id] =< Instant

\* A call between its clock and its transaction.
SealingRecord ==
  \E k, given, t, n, ws, open :
    sealing = [phase |-> "begun", key |-> k, receipts |-> given, trust |-> t,
               now |-> n, stood |-> ws, underway |-> open]

\* A publisher between clock and transaction was authorized at that moment;
\* a waiver without a later time stamp is what stood about then, since only
\* the first commit after the clock may carry a stamp that is not later.
SealingBound ==
  sealing # Idle =>
    /\ SealingRecord
    /\ ~sealing.underway => Instant > sealing.now.at
    /\ sealing.now.at \in 1 .. Instant /\ sealing.now = Moment(sealing.now.at)
    /\ Resolves(sealing.trust, sealing.key, "publisher", PublisherScope,
                sealing.now.at, sealing.now)
    /\ \A id \in WaiverIds :
         updated[id] =< sealing.now.at => \E d \in sealing.stood : d[id] = waivers[id]

\* A capsule is what FinishSeal made of such a moment.
GenuineCapsule(c) ==
  /\ c.issued_at \in 1 .. Instant /\ c.assessed_at = Moment(c.issued_at)
  /\ Resolves(c.trust, c.key, "publisher", PublisherScope, c.issued_at, c.assessed_at)
  /\ c.evidence = Cited(c.inventory)
  /\ Replays(c, c.trust)

ReleaseInv ==
  /\ Dated /\ SealingBound
  /\ \A c \in capsules : GenuineCapsule(c)
  /\ SuppressionsWereDecided

\* Time goes on, and a waiver changes with a stamp after the last commit.
LEMMA DatesGoOn ==
  ASSUME TypeOK, Dated, [ReleaseNext]_releaseVars
  PROVE  /\ Dated' /\ Instant =< Instant'
         /\ \A n \in 1 .. Instant : Moment(n)' = Moment(n)
         /\ \A id \in WaiverIds : \/ updated'[id] >= Instant
                                 \/ /\ updated'[id] = updated[id]
                                    /\ waivers'[id] = waivers[id]
<1> DEFINE Goal == /\ Dated' /\ Instant =< Instant'
                   /\ \A n \in 1 .. Instant : Moment(n)' = Moment(n)
                   /\ \A id \in WaiverIds :
                        \/ updated'[id] >= Instant
                        \/ /\ updated'[id] = updated[id]
                           /\ waivers'[id] = waivers[id]
<1>0. Instant \in Nat /\ today \in Nat
  BY DEF Dated, Instant, TypeOK
<1>1. ASSUME NEW d \in Nat, days' = Append(days, d)
      PROVE  /\ days' \in Seq(Nat) /\ days' # << >> /\ Instant' = Instant + 1
             /\ \A n \in 1 .. Instant : Moment(n)' = Moment(n)
  BY <1>1, AppendProperties DEF Dated, Instant, Moment
<1>2. CASE \E actor \in Principals : Commit(actor)
  <2>1. PICK stamp \in {Instant, Instant + 1} :
          /\ days' = Append(days, today)
          /\ updated' = [id \in WaiverIds |->
               IF waivers'[id] # waivers[id] THEN stamp ELSE updated[id]]
    BY <1>2 DEF Commit
  <2>2. /\ days' \in Seq(Nat) /\ days' # << >> /\ Instant' = Instant + 1
        /\ \A n \in 1 .. Instant : Moment(n)' = Moment(n)
    BY <1>0, <1>1, <2>1
  <2>3. \A id \in WaiverIds :
          /\ updated'[id] \in Nat /\ updated'[id] =< Instant + 1
          /\ \/ updated'[id] >= Instant
             \/ updated'[id] = updated[id] /\ waivers'[id] = waivers[id]
    BY <1>0, <2>1 DEF Dated
  <2>4. updated' \in [WaiverIds -> Nat]
    BY <2>1, <2>3
  <2>5. Dated'
    <3>1. \A id \in WaiverIds : updated'[id] =< Instant'
      BY <2>2, <2>3
    <3> QED
      BY <2>2, <2>4, <3>1 DEF Dated
  <2>6. Instant =< Instant'
    BY <1>0, <2>2
  <2>7. \A id \in WaiverIds : \/ updated'[id] >= Instant
                             \/ /\ updated'[id] = updated[id]
                                /\ waivers'[id] = waivers[id]
    BY <2>3
  <2> HIDE DEF Goal
  <2>8. Goal
    BY <2>2, <2>5, <2>6, <2>7, Zenon DEF Goal
  <2> QED
    BY <2>8 DEF Goal
<1>3. CASE DayPasses
  <2>1. today' \in Nat /\ waivers' = waivers /\ updated' = updated
    BY <1>0, <1>3 DEF DayPasses, NextDay
  <2>2. /\ days' \in Seq(Nat) /\ days' # << >> /\ Instant' = Instant + 1
        /\ \A n \in 1 .. Instant : Moment(n)' = Moment(n)
    BY <1>1, <1>3, <2>1 DEF DayPasses
  <2>3. Instant =< Instant'
    BY <1>0, <2>2
  <2>4. \A id \in WaiverIds : updated'[id] =< Instant'
    BY <1>0, <2>1, <2>2 DEF Dated
  <2>5. Dated'
    BY <2>1, <2>2, <2>4 DEF Dated
  <2> QED
    BY <2>1, <2>2, <2>3, <2>5
<1>4. CASE UNCHANGED << vars, days, updated >>
  BY <1>0, <1>4 DEF vars, Dated, Instant, Moment
<1>5. ChangeTrust => UNCHANGED << vars, days, updated >>
  BY DEF ChangeTrust
<1>6. ASSUME NEW key, NEW r, NEW execution, SignExecution(key, r, execution)
      PROVE  UNCHANGED << vars, days, updated >>
  BY <1>6 DEF SignExecution
<1>7. ASSUME NEW key, NEW chosen, BeginSeal(key, chosen)
      PROVE  UNCHANGED << vars, days, updated >>
  BY <1>7 DEF BeginSeal
<1>8. ASSUME NEW allowBlocked, FinishSeal(allowBlocked)
      PROVE  UNCHANGED << vars, days, updated >>
  BY <1>8 DEF FinishSeal
<1> QED
  BY <1>2, <1>3, <1>4, <1>5, <1>6, <1>7, <1>8 DEF ReleaseNext, releaseVars

\* What a step makes of a call in progress: the first commit after its clock
\* adds to what stood about that time, no later one does.
SealingGoesOn ==
  \/ /\ sealing' = sealing
     /\ sealing = Idle \/ ~sealing.underway \/ UNCHANGED << waivers, updated >>
  \/ /\ sealing # Idle /\ Instant' = Instant + 1
     /\ sealing' = [sealing EXCEPT !.stood = @ \cup {waivers'}, !.underway = FALSE]

\* A call in progress stays bound to its moment while others commit.
LEMMA SealingWaits ==
  ASSUME TypeOK, Dated, SealingBound, [ReleaseNext]_releaseVars, SealingGoesOn
  PROVE  SealingBound'
<1>1. Instant \in Nat /\ Instant' \in Nat /\ Instant =< Instant'
  BY DatesGoOn DEF Dated, Instant
<1>2. ASSUME NEW id \in WaiverIds
      PROVE  updated[id] \in Nat /\ updated'[id] \in Nat
  BY DatesGoOn DEF Dated
<1>3. CASE sealing = Idle
  BY <1>3 DEF SealingGoesOn, SealingBound
<1>4. CASE sealing # Idle
  <2>1. /\ SealingRecord
        /\ ~sealing.underway => Instant > sealing.now.at
        /\ sealing.now.at \in 1 .. Instant /\ sealing.now = Moment(sealing.now.at)
        /\ Resolves(sealing.trust, sealing.key, "publisher", PublisherScope,
                    sealing.now.at, sealing.now)
        /\ \A id \in WaiverIds :
             updated[id] =< sealing.now.at
               => \E d \in sealing.stood : d[id] = waivers[id]
    BY <1>4 DEF SealingBound
  <2>2. PICK n \in 1 .. Instant : sealing.now.at = n /\ sealing.now = Moment(n)
    BY <2>1
  <2>3. n \in 1 .. Instant' /\ Moment(n)' = Moment(n)
    BY <1>1, <2>2, DatesGoOn
  <2>4. CASE /\ sealing' = sealing
             /\ ~sealing.underway \/ UNCHANGED << waivers, updated >>
    <3>1. ASSUME NEW id \in WaiverIds, updated'[id] =< sealing.now.at
          PROVE  \E d \in sealing.stood : d[id] = waivers'[id]
      <4>1. updated'[id] = updated[id] /\ waivers'[id] = waivers[id]
        BY <1>1, <1>2, <2>1, <2>4, <3>1, DatesGoOn
      <4> QED
        BY <2>1, <3>1, <4>1
    <3>2. SealingRecord'
      BY <2>1, <2>4 DEF SealingRecord
    <3>3. ~sealing'.underway => Instant' > sealing'.now.at
      BY <1>1, <2>1, <2>4
    <3> QED
      BY <2>1, <2>2, <2>3, <2>4, <3>1, <3>2, <3>3
         DEF SealingBound, Resolves, AuthorizesTime, PublisherScope
  <2>5. CASE /\ Instant' = Instant + 1
             /\ sealing' = [sealing EXCEPT !.stood = @ \cup {waivers'},
                                           !.underway = FALSE]
    <3>0. PICK k, given, t, now, ws, open :
            sealing = [phase |-> "begun", key |-> k, receipts |-> given,
                       trust |-> t, now |-> now, stood |-> ws, underway |-> open]
      BY <2>1 DEF SealingRecord
    <3>1. sealing' = [phase |-> "begun", key |-> k, receipts |-> given, trust |-> t,
                      now |-> now, stood |-> ws \cup {waivers'}, underway |-> FALSE]
      BY <2>5, <3>0
    <3>2. SealingRecord'
      BY <3>1 DEF SealingRecord
    <3>3. /\ sealing'.now = sealing.now /\ sealing'.key = sealing.key
          /\ sealing'.trust = sealing.trust /\ waivers' \in sealing'.stood
      BY <3>0, <3>1
    <3> QED
      BY <1>1, <2>1, <2>2, <2>3, <2>5, <3>2, <3>3
         DEF SealingBound, Resolves, AuthorizesTime, PublisherScope
  <2> QED
    BY <1>4, <2>4, <2>5 DEF SealingGoesOn
<1> QED
  BY <1>3, <1>4

\* A clean capsule made now holds no decision later than its moment: every
\* suppressing waiver has passed the check of its time stamp.
LEMMA SealedDecided ==
  ASSUME Kept, RunsAreOne, NEW given, NEW t, NEW now, NEW stood,
         Clean(Evaluate(Inventory, given, t, now)),
         \A id \in WaiverIds :
           updated[id] =< now.at => \E d \in stood : d[id] = waivers[id],
         NEW w \in Inventory.waivers,
         w.id \in Evaluate(Inventory, given, t, now).effective
  PROVE  \E d \in stood : d[w.id] = w
<1> DEFINE rests(r, x) == x \in Suppressing(r, Inventory, now) /\ x.id = w.id
<1>0. PICK r \in Assessed(Inventory) : \E x : rests(r, x)
  BY DEF Evaluate
<1>1. PICK x : rests(r, x)
  BY <1>0
<1>2. PICK check \in Contract.checks : check.run_id = r.id
  BY <1>1 DEF Assessed
<1> DEFINE run == CHOOSE y \in {z \in Inventory.runs : z.id = check.run_id} : TRUE
<1>3. /\ run \in Inventory.runs /\ run.id = check.run_id
      /\ Missing(Requirements(check, run, Inventory, given, t, now)) = {}
  BY CleanCheck
<1> HIDE DEF run
<1>4. run = r
  BY <1>1, <1>2, <1>3, InventoryHolds DEF Assessed, RunsAreOne
<1>5. Chronology(x, Inventory, now)
  BY <1>1, <1>3, <1>4, Satisfied
<1>6. x \in Inventory.waivers
  BY <1>1, InventoryHolds, SuppressorsApproved
<1>7. ASSUME NEW y \in Inventory.waivers
      PROVE  /\ y.id \in Known /\ y = waivers[y.id]
             /\ Inventory.updated[y.id] = updated[y.id]
  BY InventoryHolds DEF Kept, BaselineIsImported
<1>8. updated[w.id] =< now.at /\ w.id \in WaiverIds
  BY <1>1, <1>5, <1>6, <1>7 DEF Chronology, Known
<1> QED
  BY <1>7, <1>8

\* What FinishSeal stores is genuine, and rests on what stood at its moment.
LEMMA SealsGenuinely ==
  ASSUME Kept, RunsAreOne, ReleaseInv, NEW allowBlocked, FinishSeal(allowBlocked)
  PROVE  ReleaseInv'
<1> DEFINE result == Evaluate(Inventory, sealing.receipts, sealing.trust, SealedAt)
           capsule == [key |-> sealing.key, issued_at |-> sealing.now.at,
                       expires_at |-> sealing.now.at + CapsuleLifetime,
                       assessed_at |-> SealedAt, inventory |-> Inventory,
                       evidence |-> Cited(Inventory), receipts |-> sealing.receipts,
                       result |-> result, trust |-> sealing.trust,
                       stood |-> StoodThen]
<1>1. /\ sealing # Idle /\ sealing' = Idle
      /\ capsules' \subseteq capsules \cup {capsule}
      /\ UNCHANGED << vars, days, created, updated, receipts, trust >>
  BY DEF FinishSeal
<1>2. /\ sealing.now.at \in 1 .. Instant /\ sealing.now = Moment(sealing.now.at)
      /\ Resolves(sealing.trust, sealing.key, "publisher", PublisherScope,
                  sealing.now.at, sealing.now)
      /\ \A id \in WaiverIds :
           updated[id] =< sealing.now.at
             => \E d \in sealing.stood : d[id] = waivers[id]
  BY <1>1 DEF ReleaseInv, SealingBound
<1>3. /\ capsule.key = sealing.key /\ capsule.issued_at = sealing.now.at
      /\ capsule.assessed_at = sealing.now /\ capsule.inventory = Inventory
      /\ capsule.evidence = Cited(Inventory) /\ capsule.receipts = sealing.receipts
      /\ capsule.result = Evaluate(Inventory, sealing.receipts, sealing.trust, sealing.now)
      /\ capsule.trust = sealing.trust /\ capsule.stood = StoodThen
  BY DEF SealedAt
<1> HIDE DEF capsule, result
<1>4. GenuineCapsule(capsule)
  BY <1>2, <1>3 DEF GenuineCapsule, Replays
<1>5. ASSUME Clean(capsule.result), NEW w \in capsule.inventory.waivers,
             w.id \in capsule.result.effective
      PROVE  w \in capsule.stood
  BY <1>2, <1>3, <1>5, SealedDecided DEF StoodThen
<1>6. SuppressionsWereDecided'
  BY <1>1, <1>5 DEF ReleaseInv, SuppressionsWereDecided
<1>7. \A c \in capsules' : GenuineCapsule(c)'
  BY <1>1, <1>4 DEF ReleaseInv, GenuineCapsule, Instant, Moment, Replays
<1>8. Dated' /\ SealingBound'
  BY <1>1 DEF ReleaseInv, Dated, Instant, SealingBound, vars
<1> QED
  BY <1>6, <1>7, <1>8 DEF ReleaseInv

\* A step that leaves the capsules alone leaves them genuine.
LEMMA CapsulesKeep ==
  ASSUME TypeOK, ReleaseInv, [ReleaseNext]_releaseVars, capsules' = capsules
  PROVE  /\ \A c \in capsules' : GenuineCapsule(c)'
         /\ SuppressionsWereDecided'
<1>1. ASSUME NEW c \in capsules
      PROVE  GenuineCapsule(c)'
  <2>1. GenuineCapsule(c)
    BY DEF ReleaseInv
  <2>2. Instant \in Nat /\ Instant' \in Nat /\ Instant =< Instant'
    BY DatesGoOn DEF ReleaseInv, Dated, Instant
  <2>3. c.issued_at \in 1 .. Instant' /\ c.assessed_at = Moment(c.issued_at)'
    BY <2>1, <2>2, DatesGoOn DEF ReleaseInv, GenuineCapsule
  <2> QED
    BY <2>1, <2>3 DEF GenuineCapsule, Replays
<1>2. SuppressionsWereDecided'
  BY DEF ReleaseInv, SuppressionsWereDecided
<1> QED
  BY <1>1, <1>2

\* The inductive invariant of releases.
LEMMA ReleaseSound == ReleaseSpec => []ReleaseInv
<1>1. ReleaseInit => ReleaseInv
  BY DEF ReleaseInit, ReleaseInv, Dated, SealingBound, Instant, Idle,
         SuppressionsWereDecided
<1>2. Kept /\ RunsAreOne /\ ReleaseInv /\ [ReleaseNext]_releaseVars => ReleaseInv'
  <2> SUFFICES ASSUME Kept, RunsAreOne, ReleaseInv, [ReleaseNext]_releaseVars
               PROVE  ReleaseInv'
    OBVIOUS
  <2>1. CASE \E allowBlocked \in BOOLEAN : FinishSeal(allowBlocked)
    BY <2>1, SealsGenuinely
  <2>2. CASE SealingGoesOn /\ capsules' = capsules
    BY <2>2, CapsulesKeep, SealingWaits, DatesGoOn DEF ReleaseInv, Kept
  <2>3. ASSUME NEW key, NEW chosen, BeginSeal(key, chosen)
        PROVE  ReleaseInv'
    <3>1. /\ Resolves(trust, key, "publisher", PublisherScope, Instant, Moment(Instant))
          /\ sealing' = [phase |-> "begun", key |-> key, receipts |-> chosen,
                         trust |-> trust, now |-> Moment(Instant),
                         stood |-> {waivers}, underway |-> TRUE]
          /\ UNCHANGED << vars, days, created, updated, receipts, trust, capsules >>
      BY <2>3 DEF BeginSeal
    <3>2. /\ sealing'.now = Moment(Instant) /\ sealing'.stood = {waivers}
          /\ sealing'.underway /\ sealing'.trust = trust /\ sealing'.key = key
          /\ Moment(Instant).at = Instant
          /\ Instant' = Instant /\ Moment(Instant)' = Moment(Instant)
          /\ Instant \in 1 .. Instant /\ waivers' = waivers
      BY <3>1 DEF Moment, Instant, vars, ReleaseInv, Dated
    <3>3. SealingRecord'
      BY <3>1 DEF SealingRecord
    <3>4. SealingBound'
      BY <3>1, <3>2, <3>3 DEF SealingBound
    <3> QED
      BY <3>1, <3>4, CapsulesKeep, DatesGoOn DEF ReleaseInv, Kept
  <2>4. \/ \E allowBlocked \in BOOLEAN : FinishSeal(allowBlocked)
        \/ SealingGoesOn /\ capsules' = capsules
        \/ \E key, chosen : BeginSeal(key, chosen)
    <3>1. ASSUME NEW actor, Commit(actor)
          PROVE  SealingGoesOn /\ capsules' = capsules
      <4>1. Instant' = Instant + 1
        <5>1. days \in Seq(Nat) /\ today \in Nat /\ days' = Append(days, today)
          BY <3>1 DEF Commit, ReleaseInv, Dated, Kept, TypeOK
        <5> QED
          BY <5>1, AppendProperties DEF Instant
      <4> QED
        BY <3>1, <4>1 DEF Commit, SealingGoesOn
    <3>2. DayPasses \/ ChangeTrust => SealingGoesOn /\ capsules' = capsules
      BY DEF DayPasses, ChangeTrust, NextDay, SealingGoesOn, vars
    <3>3. ASSUME NEW key, NEW r, NEW execution, SignExecution(key, r, execution)
          PROVE  SealingGoesOn /\ capsules' = capsules
      BY <3>3 DEF SignExecution, SealingGoesOn, vars
    <3>4. UNCHANGED releaseVars => SealingGoesOn /\ capsules' = capsules
      BY DEF releaseVars, SealingGoesOn, vars
    <3> QED
      BY <3>1, <3>2, <3>3, <3>4 DEF ReleaseNext
  <2> QED
    BY <2>1, <2>2, <2>3, <2>4
<1> QED
  BY <1>1, <1>2, ReleaseKept, PTL DEF ReleaseSpec

\* A clean capsule rests on no decision that came after its time: what
\* suppresses a finding in it stood when the clock was read, or was left by
\* the transaction under way then.
THEOREM DecidedInTime == ReleaseSpec => []SuppressionsWereDecided
BY ReleaseSound, PTL DEF ReleaseInv

\* A genuine capsule verifies while it, its key and its trust policy are in
\* force, whatever happened to database and producers since.
THEOREM GenuineCapsulesVerify == ReleaseSpec => []GenuineVerifies
<1>1. ReleaseInv => GenuineVerifies
  <2> SUFFICES ASSUME ReleaseInv, NEW c \in capsules, trust = c.trust,
                      Instant < c.expires_at, AuthorizesTime(trust, c.key, Instant)
               PROVE  Authentic(c, trust, Moment(Instant))
    BY DEF GenuineVerifies
  <2>1. GenuineCapsule(c) /\ Moment(Instant).at = Instant /\ Instant \in Nat
    BY DEF ReleaseInv, Dated, Instant, Moment
  <2>2. c.issued_at =< Instant /\ c.assessed_at.at = c.issued_at
    BY <2>1 DEF GenuineCapsule, Moment
  <2>3. Resolves(trust, c.key, "publisher", PublisherScope, c.issued_at, Moment(Instant))
    BY <2>1 DEF GenuineCapsule, Resolves
  <2> QED
    BY <2>1, <2>2, <2>3 DEF Authentic, GenuineCapsule
<1> QED
  BY <1>1, ReleaseSound, PTL

==============================================================================
