----------------------------- MODULE Assessment ------------------------------
(***************************************************************************)
(* engine.py: which findings of a run a set of waivers suppresses, and     *)
(* whether the gate opens.  Pure: the run, the waivers, the policy and the *)
(* date are arguments.                                                     *)
(*                                                                         *)
(* A place has a design hierarchy and perhaps a stable object; which pairs *)
(* of places the candidate index retrieves and which score at least .7 are *)
(* two relations, neither inside the other: the index's cells retrieve     *)
(* pairs that score less and miss pairs at the rounded movement limit      *)
(* (MovementIndex).                                                        *)
(***************************************************************************)
EXTENDS Waivers

CONSTANTS
  Hierarchies,  \* design hierarchies
  Objects,      \* stable object identifiers
  HierarchyOf,  \* hierarchy of each place
  ObjectOf,     \* object of each place, or None
  NearPlaces,   \* pairs of places that the cells of the index retrieve
  AlikePlaces   \* pairs of places whose similarity reaches .7

ASSUME PlaceAssumption ==
  /\ HierarchyOf \in [Places -> Hierarchies]
  /\ ObjectOf \in [Places -> Objects \cup {None}]
  /\ AlikePlaces \subseteq Places \X Places
  /\ NearPlaces \subseteq Places \X Places

Bucket(v) == << v.category, v.rule, HierarchyOf[v.place] >>

SameObject(old, new) ==
  /\ << old.category, old.rule >> = << new.category, new.rule >>
  /\ ObjectOf[old.place] # None
  /\ ObjectOf[old.place] = ObjectOf[new.place]

\* CandidateIndex.query retrieves old for new.
Retrieved(old, new) ==
  SameObject(old, new) \/ ( /\ Bucket(old) = Bucket(new)
                            /\ << old.place, new.place >> \in NearPlaces )

\* similarity(old, new) is at least .7.
Alike(old, new) ==
  SameObject(old, new) \/ ( /\ Bucket(old) = Bucket(new)
                            /\ << old.place, new.place >> \in AlikePlaces )

------------------------------------------------------------------------------
(* Effect of one waiver on one finding *)

\* effective_problems() returns nothing.
Effective(w, run, v, policy, today) ==
  /\ Approvable(w, policy, today)
  /\ w.status = "approved"
  /\ w.valid_revision \in {None, run.revision}
  /\ w.baseline_provenance = run.provenance
  /\ w.target.context_hash = v.context_hash
  /\ policy.require_context_across_revisions /\ run.revision # w.baseline_revision
       => v.context_hash # None
  /\ Cardinality(GoodVoters(w)) >= Quorum(policy, w)

\* Row status of a finding whose only exact match is w.
MatchStatus(w, run, v, policy, today) ==
  IF Effective(w, run, v, policy, today) THEN "waived"
  ELSE IF Expired(w, today) THEN "expired"
  ELSE IF w.status \in {"proposed", "submitted"} THEN "pending"
  ELSE IF w.status = "rejected" THEN "rejected"
  ELSE "stale"

------------------------------------------------------------------------------
(* Correspondence between findings and waivers *)

Scoped(run, ws) == {w \in ws : w.scope = run.scope}

Live(run, ws) == {w \in Scoped(run, ws) : w.status # "revoked"}

Occurrences(run, fp) == {v \in run.violations : Fingerprint(v) = fp}

Hits(run, ws, v) == {w \in Live(run, ws) : w.fingerprint = Fingerprint(v)}

Matched(run, ws) == UNION {Hits(run, ws, v) : v \in run.violations}

Pool(run, ws, v) == {w \in Live(run, ws) : Retrieved(w.target, v)}

\* The search for v was cut short by the candidate budget.
Truncated(run, ws, policy, v) ==
  /\ Hits(run, ws, v) = {}
  /\ Cardinality(Pool(run, ws, v)) > policy.candidate_limit

Candidates(run, ws, policy, v) ==
  IF Hits(run, ws, v) # {} \/ Truncated(run, ws, policy, v) THEN {}
  ELSE {w \in Pool(run, ws, v) : Alike(w.target, v)}

\* Each candidate of v is a candidate of v only, and matches nothing.
OneToOne(run, ws, policy, v) ==
  \A w \in Candidates(run, ws, policy, v) :
    /\ w \notin Matched(run, ws)
    /\ \A u \in run.violations \ {v} : w \notin Candidates(run, ws, policy, u)

RowStatus(run, ws, policy, today, v) ==
  LET hits == Hits(run, ws, v)
      candidates == Candidates(run, ws, policy, v) IN
  IF hits # {} THEN
    IF Cardinality(hits) = 1 /\ Occurrences(run, Fingerprint(v)) = {v}
      THEN MatchStatus(CHOOSE w \in hits : TRUE, run, v, policy, today)
      ELSE "ambiguous"
  ELSE IF Truncated(run, ws, policy, v) THEN "ambiguous"
  ELSE IF candidates = {} THEN "open"
  ELSE IF Cardinality(candidates) = 1 /\ OneToOne(run, ws, policy, v)
    THEN "needs_review"
    ELSE "ambiguous"

------------------------------------------------------------------------------
(* Outcomes *)

\* Mutant: only searches for the same object are remembered as cut short.
MaybeMissedByObject(run, ws, policy, w) ==
  \E v \in run.violations :
    Truncated(run, ws, policy, v) /\ SameObject(w.target, v)

\* The search that would have found w may have been cut short.
MaybeMissed(run, ws, policy, w) ==
  \E v \in run.violations :
    /\ Truncated(run, ws, policy, v)
    /\ Bucket(w.target) = Bucket(v) \/ SameObject(w.target, v)

\* All rows that match w carry one identity, hence one status.
Outcome(run, ws, policy, today, w) ==
  IF w.status = "revoked" THEN "revoked"
  ELSE IF w \in Matched(run, ws) THEN
    LET v == CHOOSE x \in run.violations : w \in Hits(run, ws, x)
        status == RowStatus(run, ws, policy, today, v) IN
    IF status = "waived" THEN "active" ELSE status
  ELSE IF \E v \in run.violations : w \in Candidates(run, ws, policy, v)
    THEN "needs_review"
  ELSE IF MaybeMissed(run, ws, policy, w) THEN "not_observed"
  ELSE IF run.complete /\ w.target.category \in run.checked_categories
    THEN "unused"
    ELSE "not_observed"

Blockers(run, ws, policy, today) ==
  {v \in run.violations : /\ RowStatus(run, ws, policy, today, v) # "waived"
                          /\ v.severity \in policy.gate_severities}

GatePasses(run, ws, policy, today) ==
  run.complete /\ Blockers(run, ws, policy, today) = {}

==============================================================================
