----------------------------- MODULE RingSearch ------------------------------
(***************************************************************************)
(* The least-rotation loop of physical.ring() and identity.points(): two   *)
(* candidate starts i and j and the length k of their common beginning,    *)
(* first on the ring as listed, then on the reversed one.  Indices count   *)
(* from zero, as in the code.                                              *)
(***************************************************************************)
EXTENDS Rings

CONSTANTS
  Points,     \* vertices
  MaxLength   \* bound on the number of vertices

ASSUME PointAssumption == Points \subseteq Int \X Int /\ MaxLength \in Nat

VARIABLES
  caller,   \* "ring" or "points"
  ring,     \* the open ring
  pass,     \* "forward", "backward", "done" or "refused"
  i, j, k,  \* the loop variables
  found,    \* the least rotation of each direction
  steps     \* how often the loop went round

ringVars == << caller, ring, pass, i, j, k, found, steps >>

Directions == {"forward", "backward"}

Listed == IF pass = "backward" THEN Backward(ring) ELSE ring

\* doubled[index]
Doubled(index) == Listed[(index % Len(ring)) + 1]

Restarts == i' = 0 /\ j' = 1 /\ k' = 0

SearchInit ==
  /\ caller \in {"ring", "points"}
  /\ \E n \in 3 .. MaxLength : \E p \in [1 .. n -> Points] : ring = Opened(p)
  /\ pass = IF caller = "ring" /\ Degenerate(ring) THEN "refused" ELSE "forward"
  /\ i = 0 /\ j = 1 /\ k = 0
  /\ found = [d \in Directions |-> << >>]
  /\ steps = 0

Loops == pass \in Directions /\ i < Len(ring) /\ j < Len(ring) /\ k < Len(ring)

\* Mutant: a start that meets the other one stays.
BeyondOnto(start, other) == start + k + 1

\* Mutant: the common beginning is compared again.
BeyondByOne(start, other) == IF start + 1 = other THEN start + 2 ELSE start + 1

\* Nothing up to the difference can be a least start.
Beyond(start, other) ==
  IF start + k + 1 = other THEN start + k + 2 ELSE start + k + 1

\* Mutant: the common beginning is never left.
SameAgain == k' = k

\* One more vertex of the two starts agrees.
Longer == k' = k + 1

\* Rounds are counted up to one more than is allowed.
Allowed == 6 * Len(ring) - 8
Counted == IF steps > Allowed THEN steps ELSE steps + 1

Step ==
  /\ Loops
  /\ steps' = Counted
  /\ \/ Doubled(i + k) = Doubled(j + k) /\ Longer /\ UNCHANGED << i, j >>
     \/ PointBefore(Doubled(j + k), Doubled(i + k)) /\ i' = Beyond(i, j) /\ k' = 0 /\ UNCHANGED j
     \/ PointBefore(Doubled(i + k), Doubled(j + k)) /\ j' = Beyond(j, i) /\ k' = 0 /\ UNCHANGED i
  /\ UNCHANGED << caller, ring, pass, found >>

Leave ==
  /\ pass \in Directions /\ ~Loops
  /\ found' = [found EXCEPT ![pass] = Turn(Listed, (IF i < j THEN i ELSE j) + 1)]
  /\ pass' = IF pass = "forward" THEN "backward" ELSE "done"
  /\ Restarts
  /\ UNCHANGED << caller, ring, steps >>

SearchNext == Step \/ Leave

SearchSpec == SearchInit /\ [][SearchNext]_ringVars /\ WF_ringVars(SearchNext)

------------------------------------------------------------------------------
(* Properties *)

\* The loop finds the least rotation although it compares few of them, also
\* on rings that repeat vertices or whole stretches, so two listings of one
\* ring are identified and two different rings never are.
RingIsCanonical ==
  pass = "done" => LeastList({found[d] : d \in Directions}) = Ring(ring)

\* docs/ARCHITECTURE.md: "a linear-time minimum-rotation algorithm".  Each
\* direction takes less than three rounds per vertex.
SearchIsLinear == steps =< Allowed

\* The loop answers rightly and in linear time.
RingsAreFound == RingIsCanonical /\ SearchIsLinear

\* Whatever the ring, the loop ends.
SearchEnds == <>(pass \in {"done", "refused"})

==============================================================================
