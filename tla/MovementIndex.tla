---------------------------- MODULE MovementIndex ----------------------------
(***************************************************************************)
(* candidate_index.py against identity.similarity(): the index must bring  *)
(* every waiver whose target a finding resembles.  Targets and findings    *)
(* are markers of one shape, whose centers differ along one axis, or       *)
(* messages at lines of one source file, all in one bucket.  A coordinate  *)
(* is a binary float, counted in units of the least one above zero.        *)
(***************************************************************************)
EXTENDS Integers, FiniteSets, Sequences

CONSTANTS
  Waivers,      \* a set of integers, ordered like their identifiers
  Significands, \* how many significands a float may have, 2^53
  Reach,        \* the greatest coordinate
  Lines,        \* lines of the source file
  LineLimit,    \* policy.line_movement_limit
  NoTarget      \* not indexed, not looked up

ASSUME IndexAssumption ==
  /\ Waivers \subseteq Int /\ IsFiniteSet(Waivers)
  /\ Significands \in Nat \ {0} /\ Significands % 2 = 0
  /\ Reach \in Nat
  /\ Lines \subseteq Nat /\ LineLimit \in Nat

VARIABLES
  width,    \* policy.geometry_movement_limit
  indexed,  \* target of each indexed waiver
  finding,  \* what was looked up last
  answer    \* the waivers it was compared with

indexVars == << width, indexed, finding, answer >>

------------------------------------------------------------------------------
(* Floats *)

Magnitude(n) == IF n < 0 THEN - n ELSE n

\* Of two.
Power[e \in 0 .. Reach] == IF e = 0 THEN 1 ELSE 2 * Power[e - 1]

\* Spacing of the floats around n.
Spacing(n) ==
  LET fits == {e \in 0 .. Reach : Magnitude(n) < Significands * Power[e]}
  IN  Power[CHOOSE e \in fits : \A d \in fits : e =< d]

\* To the nearest float, ties to the even one.
Round(n) ==
  LET s == Spacing(n)
      q == n \div s
      r == n % s
  IN  s * (IF 2 * r > s \/ (2 * r = s /\ q % 2 = 1) THEN q + 1 ELSE q)

Floats == {n \in - Reach .. Reach : Round(n) = n}

------------------------------------------------------------------------------
(* What is alike, and what is looked up *)

\* math.hypot() of the rounded difference of two centers.
Distance(a, b) == Magnitude(Round(a - b))

\* similarity() accepts the pair, however it scores it.
Alike(target, seen) ==
  /\ target.kind = seen.kind
  /\ IF seen.kind = "marker" THEN Distance(target.at, seen.at) =< width
                             ELSE Magnitude(target.at - seen.at) =< LineLimit

Known(kind) == {w \in Waivers : indexed[w] # NoTarget /\ indexed[w].kind = kind}

\* By exact fractions.
Cell(at) == at \div width

\* Mutant: range(-1, 1), which stops before 1.
BesideBelow(at) ==
  {w \in Known("marker") : Cell(indexed[w].at) - Cell(at) \in {-1, 0}}

\* The waivers in the cell of the finding and the two beside it.
Beside(at) ==
  {w \in Known("marker") : Cell(indexed[w].at) - Cell(at) \in {-1, 0, 1}}

\* By line and identifier.
Earlier(v, w) ==
  \/ indexed[v].at < indexed[w].at
  \/ indexed[v].at = indexed[w].at /\ v < w

Listings == [1 .. Cardinality(Known("source")) -> Known("source")]

\* Mutant: the waivers as they were stored.
FiledUnsorted == CHOOSE list \in Listings : \A n, m \in DOMAIN list : n < m => list[n] < list[m]

\* The waivers of the file.
Filed ==
  CHOOSE list \in Listings : \A n, m \in DOMAIN list : n < m => Earlier(list[n], list[m])

\* Where a bisection of the places 1 .. length ends that goes right at those
\* in beyond: it is right only in a list that is sorted.
Halve(beyond, length) ==
  LET f[p \in (0 .. length) \X (0 .. length)] ==
        LET lo == p[1]
            hi == p[2]
            mid == (lo + hi) \div 2
        IN  IF lo >= hi THEN lo
            ELSE IF mid + 1 \in beyond THEN f[<< mid + 1, hi >>] ELSE f[<< lo, mid >>]
  IN  f[<< 0, length >>]

\* The slice of lines within the limit.
Near(at) ==
  LET list == Filed
      line(n) == indexed[list[n]].at
      lo == Halve({n \in DOMAIN list : line(n) < at - LineLimit}, Len(list))
      hi == Halve({n \in DOMAIN list : line(n) =< at + LineLimit}, Len(list))
  IN  {list[n] : n \in lo + 1 .. hi}

Retrieved(seen) == IF seen.kind = "marker" THEN Beside(seen.at) ELSE Near(seen.at)

------------------------------------------------------------------------------
(* A catalogue that grows, and findings looked up in it *)

Places ==
  [kind: {"marker"}, at: Floats] \cup [kind: {"source"}, at: Lines]

IndexInit ==
  /\ width \in {n \in Floats : n > 0}
  /\ indexed = [w \in Waivers |-> NoTarget]
  /\ finding = NoTarget
  /\ answer = {}

Index(w, target) ==
  /\ indexed[w] = NoTarget /\ finding = NoTarget
  /\ \A v \in Waivers : indexed[v] # NoTarget => indexed[v].kind = target.kind
  /\ indexed' = [indexed EXCEPT ![w] = target]
  /\ UNCHANGED << width, finding, answer >>

Query(seen) ==
  /\ finding = NoTarget
  /\ finding' = seen
  /\ answer' = Retrieved(seen)
  /\ UNCHANGED << width, indexed >>

IndexNext ==
  \E place \in Places : Query(place) \/ \E w \in Waivers : Index(w, place)

IndexSpec == IndexInit /\ [][IndexNext]_indexVars

------------------------------------------------------------------------------
(* Properties *)

Lookalikes == {w \in Waivers : indexed[w] # NoTarget /\ Alike(indexed[w], finding)}

\* "Bounded candidate retrieval preserving the exact v1 similarity
\* acceptance set" (candidate_index.py:1): whatever similarity() accepts is
\* retrieved.
AcceptanceSetIsKept == finding # NoTarget => Lookalikes \subseteq answer

\* Only a pair whose rounded distance is the limit itself escapes the index.
OnlyTheLimitEscapes ==
  finding # NoTarget =>
    \A w \in Lookalikes \ answer :
      finding.kind = "marker" /\ Distance(indexed[w].at, finding.at) = width

\* In a source file nothing escapes, and nothing is compared in vain.
LinesAreExact ==
  finding # NoTarget /\ finding.kind = "source" => answer = Lookalikes

\* What similarity() would accept is retrieved, up to the limit itself.
RetrievalIsExact == OnlyTheLimitEscapes /\ LinesAreExact

==============================================================================
