-------------------------------- MODULE Rings --------------------------------
(***************************************************************************)
(* Polygon rings as physical.py and identity.py compare them: a ring is    *)
(* the same from whichever vertex and in whichever direction it is listed. *)
(* A point is a pair of integers; Python orders points, and lists of them, *)
(* lexicographically.                                                      *)
(***************************************************************************)
EXTENDS Integers, FiniteSets, Sequences

PointBefore(a, b) == a[1] < b[1] \/ (a[1] = b[1] /\ a[2] < b[2])

\* The list p sorts before the list q of the same length.
ListBefore(p, q) ==
  \E m \in 1 .. Len(p) : /\ \A i \in 1 .. m - 1 : p[i] = q[i]
                         /\ PointBefore(p[m], q[m])

LeastList(lists) == CHOOSE p \in lists : \A q \in lists : ~ListBefore(q, p)

Backward(p) == [i \in 1 .. Len(p) |-> p[Len(p) + 1 - i]]

\* The list p from its vertex number s on.
Turn(p, s) == [i \in 1 .. Len(p) |-> p[((i + s - 2) % Len(p)) + 1]]

Turns(p) == {Turn(p, s) : s \in 1 .. Len(p)}

\* A ring that repeats its first vertex at the end.
Opened(p) == IF Len(p) > 1 /\ p[1] = p[Len(p)] THEN SubSeq(p, 1, Len(p) - 1) ELSE p

Corners(p) == {p[i] : i \in 1 .. Len(p)}

NextCorner(p, i) == p[(i % Len(p)) + 1]

\* Twice the signed area.
Area[p \in Seq(Int \X Int), i \in Nat] ==
  IF i = 0 THEN 0
  ELSE Area[p, i - 1] + p[i][1] * NextCorner(p, i)[2] - p[i][2] * NextCorner(p, i)[1]

Degenerate(p) ==
  \/ Cardinality(Corners(p)) < 3
  \/ \E i \in 1 .. Len(p) : p[i] = NextCorner(p, i)
  \/ Area[p, Len(p)] = 0

\* The canonical list of an open ring.
Ring(p) == LeastList(Turns(p) \cup Turns(Backward(p)))

==============================================================================
