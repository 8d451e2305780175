--------------------------- MODULE PhysicalProofs ----------------------------
(***************************************************************************)
(* Equal documents are congruent neighborhoods, for all reports, layouts   *)
(* and edits: the eight orientations, rings and lists in any order, boxes, *)
(* and the runs that are stored.  At the end, all computations together.   *)
(***************************************************************************)
EXTENDS ComputationProofs, Computations

------------------------------------------------------------------------------
(* Orientations *)

\* The orientation o2 after the orientation o is o1: mirrors cancel, and a
\* mirror reverses the turns before it.
Composed(o1, o2, o) ==
  /\ o1.mirror <=> ~(o2.mirror <=> o.mirror)
  /\ o1.rotation =
       (o2.rotation + (IF o2.mirror THEN 4 - o.rotation ELSE o.rotation)) % 4

\* What an orientation does to a point, one case for each quarter turn.
LEMMA AppliedIs ==
  ASSUME NEW p \in Placements, NEW z \in Point
  PROVE  /\ Apply(p, z) \in Point
         /\ p.mirror =>
              /\ p.rotation = 0 => Apply(p, z) = << z[1] + p.dx, - z[2] + p.dy >>
              /\ p.rotation = 1 => Apply(p, z) = << z[2] + p.dx, z[1] + p.dy >>
              /\ p.rotation = 2 => Apply(p, z) = << - z[1] + p.dx, z[2] + p.dy >>
              /\ p.rotation = 3 => Apply(p, z) = << - z[2] + p.dx, - z[1] + p.dy >>
         /\ ~p.mirror =>
              /\ p.rotation = 0 => Apply(p, z) = << z[1] + p.dx, z[2] + p.dy >>
              /\ p.rotation = 1 => Apply(p, z) = << - z[2] + p.dx, z[1] + p.dy >>
              /\ p.rotation = 2 => Apply(p, z) = << - z[1] + p.dx, - z[2] + p.dy >>
              /\ p.rotation = 3 => Apply(p, z) = << z[2] + p.dx, - z[1] + p.dy >>
<1>1. p.rotation \in 0 .. 3 /\ p.mirror \in BOOLEAN /\ p.dx \in Int /\ p.dy \in Int
  BY DEF Placements
<1>2. z[1] \in Int /\ z[2] \in Int
  BY DEF Point
<1>3. CASE p.mirror
  <2>1. p.rotation = 0 => Apply(p, z) = << z[1] + p.dx, - z[2] + p.dy >>
    BY <1>2, <1>3 DEF Apply
  <2>2. p.rotation = 1 => Apply(p, z) = << z[2] + p.dx, z[1] + p.dy >>
    BY <1>2, <1>3 DEF Apply
  <2>3. p.rotation = 2 => Apply(p, z) = << - z[1] + p.dx, z[2] + p.dy >>
    BY <1>2, <1>3 DEF Apply
  <2>4. p.rotation = 3 => Apply(p, z) = << - z[2] + p.dx, - z[1] + p.dy >>
    BY <1>2, <1>3 DEF Apply
  <2> QED BY <1>1, <1>2, <1>3, <2>1, <2>2, <2>3, <2>4 DEF Point
<1>4. CASE ~p.mirror
  <2>1. p.rotation = 0 => Apply(p, z) = << z[1] + p.dx, z[2] + p.dy >>
    BY <1>2, <1>4 DEF Apply
  <2>2. p.rotation = 1 => Apply(p, z) = << - z[2] + p.dx, z[1] + p.dy >>
    BY <1>2, <1>4 DEF Apply
  <2>3. p.rotation = 2 => Apply(p, z) = << - z[1] + p.dx, - z[2] + p.dy >>
    BY <1>2, <1>4 DEF Apply
  <2>4. p.rotation = 3 => Apply(p, z) = << z[2] + p.dx, - z[1] + p.dy >>
    BY <1>2, <1>4 DEF Apply
  <2> QED BY <1>1, <1>2, <1>4, <2>1, <2>2, <2>3, <2>4 DEF Point
<1> QED BY <1>1, <1>3, <1>4

\* An orientation is a placement that moves nothing.
LEMMA OrientationIsPlacement ==
  ASSUME NEW o \in Orientations
  PROVE  o \in Placements /\ o.dx = 0 /\ o.dy = 0
BY DEF Orientations, Placements

\* Any two of three orientations determine the third.
LEMMA Composition ==
  /\ \A o2, o \in Orientations : \E o1 \in Orientations : Composed(o1, o2, o)
  /\ \A o1, o2 \in Orientations : \E o \in Orientations : Composed(o1, o2, o)
  /\ \A o1, o \in Orientations : \E o2 \in Orientations : Composed(o1, o2, o)
<1> DEFINE Of(r, m) == [rotation |-> r, mirror |-> m, dx |-> 0, dy |-> 0]
<1>1. \A r \in 0 .. 3, m \in BOOLEAN :
        /\ Of(r, m) \in Orientations /\ Of(r, m).rotation = r
        /\ Of(r, m).mirror = m
  BY DEF Orientations
<1>2. \A o \in Orientations : o.rotation \in 0 .. 3 /\ o.mirror \in BOOLEAN
  BY DEF Orientations
<1> HIDE DEF Of
<1>3. ASSUME NEW o2 \in Orientations, NEW o \in Orientations
      PROVE  \E o1 \in Orientations : Composed(o1, o2, o)
  <2> DEFINE r == (o2.rotation + (IF o2.mirror THEN 4 - o.rotation ELSE o.rotation)) % 4
             m == ~(o2.mirror <=> o.mirror)
  <2>1. r \in 0 .. 3 /\ m \in BOOLEAN
    BY <1>2
  <2>2. Of(r, m).rotation = r /\ (Of(r, m).mirror <=> m) /\ Of(r, m) \in Orientations
    BY <1>1, <2>1
  <2> QED BY <2>2 DEF Composed
<1>4. ASSUME NEW o1 \in Orientations, NEW o2 \in Orientations
      PROVE  \E o \in Orientations : Composed(o1, o2, o)
  <2> DEFINE m == ~(o2.mirror <=> o1.mirror)
  <2>1. PICK r \in 0 .. 3 :
          o1.rotation = (o2.rotation + (IF o2.mirror THEN 4 - r ELSE r)) % 4
    <3>1. \A a, b \in 0 .. 3 : \E r \in 0 .. 3 : a = (b + r) % 4
      <4> TAKE a, b \in 0 .. 3
      <4> WITNESS (a + 4 - b) % 4 \in 0 .. 3
      <4> QED OBVIOUS
    <3>2. \A a, b \in 0 .. 3 : \E r \in 0 .. 3 : a = (b + (4 - r)) % 4
      <4> TAKE a, b \in 0 .. 3
      <4> WITNESS (b + 4 - a) % 4 \in 0 .. 3
      <4> QED OBVIOUS
    <3> QED BY <1>2, <3>1, <3>2
  <2>2. Of(r, m).rotation = r /\ (Of(r, m).mirror <=> m) /\ Of(r, m) \in Orientations
    BY <1>1, <2>1
  <2> QED BY <2>1, <2>2 DEF Composed
<1>5. ASSUME NEW o1 \in Orientations, NEW o \in Orientations
      PROVE  \E o2 \in Orientations : Composed(o1, o2, o)
  <2> DEFINE m == ~(o1.mirror <=> o.mirror)
             r == (o1.rotation + (IF m THEN o.rotation ELSE 4 - o.rotation)) % 4
  <2>1. r \in 0 .. 3 /\ m \in BOOLEAN
    BY <1>2
  <2>2. Of(r, m).rotation = r /\ (Of(r, m).mirror <=> m) /\ Of(r, m) \in Orientations
    BY <1>1, <2>1
  <2>3. o1.rotation = (r + (IF m THEN 4 - o.rotation ELSE o.rotation)) % 4
    BY <1>2
  <2> QED BY <2>2, <2>3 DEF Composed
<1> QED BY <1>3, <1>4, <1>5

\* The same for an orientation, which moves nothing.
LEMMA TurnedIs ==
  ASSUME NEW o \in Orientations, NEW a \in Int, NEW b \in Int
  PROVE  /\ o.mirror =>
              /\ o.rotation = 0 => Apply(o, << a, b >>) = << a, - b >>
              /\ o.rotation = 1 => Apply(o, << a, b >>) = << b, a >>
              /\ o.rotation = 2 => Apply(o, << a, b >>) = << - a, b >>
              /\ o.rotation = 3 => Apply(o, << a, b >>) = << - b, - a >>
         /\ ~o.mirror =>
              /\ o.rotation = 0 => Apply(o, << a, b >>) = << a, b >>
              /\ o.rotation = 1 => Apply(o, << a, b >>) = << - b, a >>
              /\ o.rotation = 2 => Apply(o, << a, b >>) = << - a, - b >>
              /\ o.rotation = 3 => Apply(o, << a, b >>) = << b, - a >>
<1>1. << a, b >> \in Point /\ o \in Placements /\ o.dx = 0 /\ o.dy = 0
  BY OrientationIsPlacement DEF Point
<1>2. \A x \in Int : x + 0 = x /\ - x \in Int
  OBVIOUS
<1> QED BY <1>1, <1>2, AppliedIs

\* Composed orientations act one after the other.
LEMMA ActsComposed ==
  ASSUME NEW o1 \in Orientations, NEW o2 \in Orientations, NEW o \in Orientations,
         Composed(o1, o2, o), NEW z \in Point
  PROVE  Apply(o1, z) = Apply(o2, Apply(o, z))
<1>1. PICK a \in Int, b \in Int : z = << a, b >>
  BY DEF Point
<1>2. o1.rotation \in 0 .. 3 /\ o2.rotation \in 0 .. 3 /\ o.rotation \in 0 .. 3
  BY DEF Orientations
<1>3. \A r, q \in 0 .. 3 :
        (r + q) % 4 = (IF r + q < 4 THEN r + q ELSE r + q - 4) /\
        (r + (4 - q)) % 4 = (IF r < q THEN r + 4 - q ELSE r - q)
  OBVIOUS
<1>4. o1.rotation =
        IF o2.mirror
        THEN IF o2.rotation < o.rotation THEN o2.rotation + 4 - o.rotation
                                         ELSE o2.rotation - o.rotation
        ELSE IF o2.rotation + o.rotation < 4 THEN o2.rotation + o.rotation
                                             ELSE o2.rotation + o.rotation - 4
  BY <1>2, <1>3 DEF Composed
<1>5. o1.mirror <=> ~(o2.mirror <=> o.mirror)
  BY DEF Composed
<1>6. CASE o.rotation = 0
  <2>1. Apply(o, z) = << a, IF o.mirror THEN - b ELSE b >>
    BY <1>1, <1>6, TurnedIs
  <2> QED BY <1>1, <1>2, <1>4, <1>5, <1>6, <2>1, TurnedIs
<1>7. CASE o.rotation = 1
  <2>1. Apply(o, z) = << IF o.mirror THEN b ELSE - b, a >>
    BY <1>1, <1>7, TurnedIs
  <2> QED BY <1>1, <1>2, <1>4, <1>5, <1>7, <2>1, TurnedIs
<1>8. CASE o.rotation = 2
  <2>1. Apply(o, z) = << - a, IF o.mirror THEN b ELSE - b >>
    BY <1>1, <1>8, TurnedIs
  <2> QED BY <1>1, <1>2, <1>4, <1>5, <1>8, <2>1, TurnedIs
<1>9. CASE o.rotation = 3
  <2>1. Apply(o, z) = << IF o.mirror THEN - b ELSE b, - a >>
    BY <1>1, <1>9, TurnedIs
  <2> QED BY <1>1, <1>2, <1>4, <1>5, <1>9, <2>1, TurnedIs
<1> QED BY <1>2, <1>6, <1>7, <1>8, <1>9

Sum(z, v) == << z[1] + v[1], z[2] + v[2] >>
Difference(z, v) == << z[1] - v[1], z[2] - v[2] >>

\* Orientations are linear and one to one, and reach every point.
LEMMA OrientationLinear ==
  ASSUME NEW o \in Orientations, NEW z \in Point, NEW v \in Point
  PROVE  /\ Apply(o, Sum(z, v)) = Sum(Apply(o, z), Apply(o, v))
         /\ Apply(o, z) = Apply(o, v) => z = v
         /\ \E w \in Point : Apply(o, w) = z
<1>1. o.rotation \in 0 .. 3
  BY DEF Orientations
<1>2. PICK a \in Int, b \in Int, c \in Int, d \in Int : z = << a, b >> /\ v = << c, d >>
  BY DEF Point
<1>3. Sum(z, v) = << a + c, b + d >> /\ a + c \in Int /\ b + d \in Int
  BY <1>2 DEF Sum
<1>4. - (a + c) = - a + - c /\ - (b + d) = - b + - d
  OBVIOUS
<1>5. Apply(o, Sum(z, v)) = Sum(Apply(o, z), Apply(o, v))
  <2>1. CASE o.mirror
    BY <1>1, <1>2, <1>3, <1>4, <2>1, TurnedIs DEF Sum
  <2>2. CASE ~o.mirror
    BY <1>1, <1>2, <1>3, <1>4, <2>2, TurnedIs DEF Sum
  <2> QED BY <2>1, <2>2
<1>6. Apply(o, z) = Apply(o, v) => z = v
  <2>1. CASE o.mirror
    BY <1>1, <1>2, <2>1, TurnedIs
  <2>2. CASE ~o.mirror
    BY <1>1, <1>2, <2>2, TurnedIs
  <2> QED BY <2>1, <2>2
<1>7. \E w \in Point : Apply(o, w) = z
  <2> DEFINE w == IF o.mirror
                  THEN IF o.rotation = 0 THEN << a, - b >> ELSE IF o.rotation = 1 THEN << b, a >>
                       ELSE IF o.rotation = 2 THEN << - a, b >> ELSE << - b, - a >>
                  ELSE IF o.rotation = 0 THEN << a, b >> ELSE IF o.rotation = 1 THEN << b, - a >>
                       ELSE IF o.rotation = 2 THEN << - a, - b >> ELSE << - b, a >>
  <2>1. w \in Point
    BY <1>2 DEF Point
  <2>2. Apply(o, w) = z
    BY <1>1, <1>2, TurnedIs
  <2> QED BY <2>1, <2>2
<1> QED BY <1>5, <1>6, <1>7

------------------------------------------------------------------------------
(* Lists in any order *)

\* A bijection, spelled out.
LEMMA BijectionIs ==
  ASSUME NEW S, NEW T, NEW h
  PROVE  h \in Bijection(S, T) <=>
           /\ h \in [S -> T]
           /\ \A x, y \in S : h[x] = h[y] => x = y
           /\ \A t \in T : \E x \in S : h[x] = t
BY DEF Bijection, Injection, Surjection, IsInjective

\* A bijection leads into its target and reaches all of it.
LEMMA BijectionInto ==
  ASSUME NEW S, NEW T
  PROVE  \A h \in Bijection(S, T) :
           (\A x \in S : h[x] \in T) /\ (\A y \in T : \E x \in S : h[x] = y)
BY DEF Bijection, Injection, Surjection

\* Where the value x occurs in the list.
PlacesOf(list, x) == {c \in 1 .. Len(list) : list[c] = x}

\* A value occurs in a list finitely often.
LEMMA PlacesFinite ==
  ASSUME NEW u, Len(u) \in Nat, NEW x
  PROVE  IsFiniteSet(PlacesOf(u, x)) /\ Cardinality(PlacesOf(u, x)) \in Nat
<1>1. IsFiniteSet(1 .. Len(u))
  BY FS_Interval
<1>2. PlacesOf(u, x) \in SUBSET (1 .. Len(u))
  BY DEF PlacesOf
<1> QED BY <1>1, <1>2, FS_Subset, FS_CardinalityType

\* Lists that occur sorted are equal exactly if they match in some order.
LEMMA SortedMatch ==
  ASSUME NEW u, Len(u) \in Nat, NEW v, Len(v) \in Nat
  PROVE  Sorted(u) = Sorted(v) <=>
           \E order \in Bijection(1 .. Len(u), 1 .. Len(v)) :
             \A c \in 1 .. Len(u) : u[c] = v[order[c]]
<1> DEFINE I == 1 .. Len(u)
           J == 1 .. Len(v)
           X(list) == {list[c] : c \in 1 .. Len(list)}
<1>0. \A list : Sorted(list) = [x \in X(list) |-> Cardinality(PlacesOf(list, x))]
  BY DEF Sorted, PlacesOf
<1>1. ASSUME Sorted(u) = Sorted(v)
      PROVE  \E order \in Bijection(I, J) : \A c \in I : u[c] = v[order[c]]
  <2>1. X(u) = X(v) /\ \A x \in X(u) : Cardinality(PlacesOf(u, x)) = Cardinality(PlacesOf(v, x))
    <3> HIDE DEF X
    <3>1. DOMAIN Sorted(u) = X(u) /\ DOMAIN Sorted(v) = X(v)
      BY <1>0
    <3>2. X(u) = X(v)
      BY <1>1, <3>1
    <3>3. ASSUME NEW x \in X(u)
          PROVE  Cardinality(PlacesOf(u, x)) = Cardinality(PlacesOf(v, x))
      <4>1. Sorted(u)[x] = Cardinality(PlacesOf(u, x))
        BY <1>0
      <4>2. Sorted(v)[x] = Cardinality(PlacesOf(v, x))
        BY <1>0, <3>2
      <4> QED BY <1>1, <4>1, <4>2
    <3> QED BY <3>2, <3>3
  <2> DEFINE pair == [x \in X(u) |-> CHOOSE h : h \in Bijection(PlacesOf(u, x), PlacesOf(v, x))]
             order == [c \in I |-> pair[u[c]][c]]
  <2>2. \A x \in X(u) : pair[x] \in Bijection(PlacesOf(u, x), PlacesOf(v, x))
    <3> TAKE x \in X(u)
    <3>1. ExistsBijection(PlacesOf(u, x), PlacesOf(v, x))
      BY <2>1, PlacesFinite, FS_SameCardinalityBij
    <3> QED BY <3>1 DEF ExistsBijection
  <2> HIDE DEF pair
  <2>3. \A x \in X(u) :
          /\ \A c \in PlacesOf(u, x) : pair[x][c] \in PlacesOf(v, x)
          /\ \A c, e \in PlacesOf(u, x) : pair[x][c] = pair[x][e] => c = e
          /\ \A d \in PlacesOf(v, x) : \E c \in PlacesOf(u, x) : pair[x][c] = d
    <3> HIDE DEF X
    <3> QED BY <2>2, BijectionIs
  <2>4. \A c \in I : u[c] \in X(u) /\ c \in PlacesOf(u, u[c])
    BY DEF PlacesOf
  <2>5. \A c \in I : order[c] = pair[u[c]][c] /\ order[c] \in J /\ v[order[c]] = u[c]
    <3> HIDE DEF X
    <3> QED BY <2>3, <2>4 DEF PlacesOf
  <2>6. \A c, e \in I : order[c] = order[e] => c = e
    <3> TAKE c, e \in I
    <3> HAVE order[c] = order[e]
    <3>1. u[c] = u[e]
      BY <2>5
    <3> HIDE DEF X, order
    <3> QED BY <2>3, <2>4, <2>5, <3>1
  <2>7. \A d \in J : \E c \in I : order[c] = d
    <3> TAKE d \in J
    <3>1. v[d] \in X(u) /\ d \in PlacesOf(v, v[d])
      BY <2>1 DEF PlacesOf
    <3> HIDE DEF X
    <3>2. PICK c \in PlacesOf(u, v[d]) : pair[v[d]][c] = d
      BY <2>3, <3>1
    <3>3. c \in I /\ u[c] = v[d]
      BY <3>2 DEF PlacesOf
    <3> QED BY <2>5, <3>2, <3>3
  <2>8. order \in [I -> J]
    BY <2>5
  <2> HIDE DEF order
  <2>9. order \in Bijection(I, J)
    <3> HIDE DEF I, J
    <3> QED BY <2>6, <2>7, <2>8, BijectionIs
  <2> QED BY <2>5, <2>9
<1>2. ASSUME NEW order \in Bijection(I, J), \A c \in I : u[c] = v[order[c]]
      PROVE  Sorted(u) = Sorted(v)
  <2>1. /\ order \in [I -> J]
        /\ \A c, e \in I : order[c] = order[e] => c = e
        /\ \A d \in J : \E c \in I : order[c] = d
    <3> HIDE DEF I, J
    <3> QED BY BijectionIs
  <2>2. X(u) = X(v)
    <3>1. \A x \in X(u) : x \in X(v)
      BY <1>2, <2>1
    <3>2. \A x \in X(v) : x \in X(u)
      BY <1>2, <2>1
    <3> QED BY <3>1, <3>2
  <2>3. ASSUME NEW x
        PROVE  Cardinality(PlacesOf(u, x)) = Cardinality(PlacesOf(v, x))
    <3> DEFINE h == [c \in PlacesOf(u, x) |-> order[c]]
    <3>1. h \in [PlacesOf(u, x) -> PlacesOf(v, x)]
      BY <1>2, <2>1 DEF PlacesOf
    <3>2. \A c, e \in PlacesOf(u, x) : h[c] = h[e] => c = e
      BY <2>1 DEF PlacesOf
    <3>3. \A d \in PlacesOf(v, x) : \E c \in PlacesOf(u, x) : h[c] = d
      BY <1>2, <2>1 DEF PlacesOf
    <3> HIDE DEF h
    <3>4. h \in Bijection(PlacesOf(u, x), PlacesOf(v, x))
      BY <3>1, <3>2, <3>3, BijectionIs
    <3>5. ExistsBijection(PlacesOf(u, x), PlacesOf(v, x))
      BY <3>4 DEF ExistsBijection
    <3> QED BY <3>5, PlacesFinite, FS_Bijection
  <2> HIDE DEF X
  <2> QED BY <1>0, <2>2, <2>3
<1> QED BY <1>1, <1>2

------------------------------------------------------------------------------
(* Rings *)

\* The remainder is determined: nothing else is left below the divisor.
LEMMA ModIs ==
  ASSUME NEW n \in Nat \ {0}, NEW x \in Int, NEW q \in Int, NEW r \in 0 .. n - 1,
         x = n * q + r
  PROVE  x % n = r
<1> DEFINE t == x \div n
           s == x % n
<1>1. x = n * t + s /\ s \in 0 .. n - 1 /\ t \in Int
  OBVIOUS
<1> HIDE DEF t, s
<1>2. n * (t - q) = r - s /\ t - q \in Int
  BY <1>1
<1>3. PICK u \in Int : u = t - q
  BY <1>2
<1>4. ASSUME u >= 1 PROVE FALSE
  <2>1. n * u >= n * 1
    BY <1>4
  <2> QED BY <1>1, <1>2, <1>3, <2>1
<1>5. ASSUME u =< -1 PROVE FALSE
  <2>1. n * u =< n * (-1)
    BY <1>5
  <2> QED BY <1>1, <1>2, <1>3, <2>1
<1>6. u = 0
  BY <1>4, <1>5
<1>7. n * 0 = r - s
  BY <1>2, <1>3, <1>6
<1> QED BY <1>1, <1>7 DEF s

\* Quotient and remainder of any integer.
LEMMA Quotient ==
  ASSUME NEW n \in Nat \ {0}, NEW x \in Int
  PROVE  \E q \in Int, r \in 0 .. n - 1 : x = n * q + r /\ x % n = r
<1> WITNESS x \div n \in Int, x % n \in 0 .. n - 1
<1> QED OBVIOUS

\* Indices that differ by whole rounds show the same vertex.
LEMMA AtShift ==
  ASSUME NEW p \in Seq(Point), p # << >>, NEW x \in Int, NEW c \in Int
  PROVE  /\ x % Len(p) \in 0 .. Len(p) - 1
         /\ At(p, c + (x % Len(p))) = At(p, c + x)
         /\ At(p, c - (x % Len(p))) = At(p, c - x)
         /\ At(p, x) \in Point
<1>1. PICK n \in Nat \ {0} : n = Len(p)
  OBVIOUS
<1>2. PICK q \in Int, r \in 0 .. n - 1 : x = n * q + r /\ x % n = r
  BY Quotient
<1>3. c + r \in Int /\ c - r \in Int /\ c + x \in Int /\ c - x \in Int
  OBVIOUS
<1>4. (c + r) % n = (c + x) % n
  <2>1. PICK a \in Int, b \in 0 .. n - 1 : c + r = n * a + b /\ (c + r) % n = b
    BY <1>3, Quotient
  <2>2. c + x = n * (a + q) + b
    BY <1>2, <2>1
  <2>3. (c + x) % n = b
    <3>1. c + x \in Int /\ a + q \in Int
      OBVIOUS
    <3> QED BY <2>2, <3>1, ModIs
  <2> QED BY <2>1, <2>3
<1>5. (c - r) % n = (c - x) % n
  <2>1. PICK a \in Int, b \in 0 .. n - 1 : c - r = n * a + b /\ (c - r) % n = b
    BY <1>3, Quotient
  <2>2. c - x = n * (a - q) + b
    BY <1>2, <2>1
  <2>3. (c - x) % n = b
    <3>1. c - x \in Int /\ a - q \in Int
      OBVIOUS
    <3> QED BY <2>2, <3>1, ModIs
  <2> QED BY <2>1, <2>3
<1>6. p[r + 1] \in Point
  BY <1>1
<1> QED BY <1>1, <1>2, <1>4, <1>5, <1>6 DEF At

\* Every index shows some vertex of the ring.
LEMMA AtTyped ==
  ASSUME NEW p \in Seq(Point), p # << >>, NEW x \in Int
  PROVE  x % Len(p) \in 0 .. Len(p) - 1 /\ At(p, x) \in Point
<1>1. PICK c \in Int : c = 0
  OBVIOUS
<1>2. /\ x % Len(p) \in 0 .. Len(p) - 1
      /\ At(p, c + (x % Len(p))) = At(p, c + x)
      /\ At(p, x) \in Point
  BY AtShift
<1> QED BY <1>2

\* The list w walks round the list p, from some vertex, in some direction.
Follows(w, p) ==
  /\ Len(w) = Len(p)
  /\ \E c \in Int : \/ \A x \in Int : At(w, x) = At(p, c + x)
                    \/ \A x \in Int : At(w, x) = At(p, c - x)

\* What walks round a list is walked round by it.
LEMMA FollowsBack ==
  ASSUME NEW w, NEW p, Follows(w, p)
  PROVE  Follows(p, w)
<1>1. PICK c \in Int : \/ \A x \in Int : At(w, x) = At(p, c + x)
                       \/ \A x \in Int : At(w, x) = At(p, c - x)
  BY DEF Follows
<1>2. CASE \A x \in Int : At(w, x) = At(p, c + x)
  <2>1. \A x \in Int : At(p, x) = At(w, (- c) + x)
    <3> TAKE x \in Int
    <3>1. x - c \in Int /\ c + (x - c) = x /\ (- c) + x = x - c
      OBVIOUS
    <3> QED BY <1>2, <3>1
  <2>2. - c \in Int
    OBVIOUS
  <2> QED BY <2>1, <2>2 DEF Follows
<1>3. CASE \A x \in Int : At(w, x) = At(p, c - x)
  <2>1. \A x \in Int : At(p, x) = At(w, c - x)
    <3> TAKE x \in Int
    <3>1. c - x \in Int /\ c - (c - x) = x
      OBVIOUS
    <3> QED BY <1>3, <3>1
  <2> QED BY <2>1 DEF Follows
<1> QED BY <1>1, <1>2, <1>3

\* Walks compose.
LEMMA FollowsOn ==
  ASSUME NEW w, NEW p, NEW q, Follows(w, p), Follows(p, q)
  PROVE  Follows(w, q)
<1>1. PICK c \in Int : \/ \A x \in Int : At(w, x) = At(p, c + x)
                       \/ \A x \in Int : At(w, x) = At(p, c - x)
  BY DEF Follows
<1>2. PICK d \in Int : \/ \A x \in Int : At(p, x) = At(q, d + x)
                       \/ \A x \in Int : At(p, x) = At(q, d - x)
  BY DEF Follows
<1>3. \A x \in Int : /\ c + x \in Int /\ c - x \in Int
                     /\ d + (c + x) = (d + c) + x /\ d + (c - x) = (d + c) - x
                     /\ d - (c + x) = (d - c) - x /\ d - (c - x) = (d - c) + x
  OBVIOUS
<1>4. d + c \in Int /\ d - c \in Int /\ Len(w) = Len(q)
  BY DEF Follows
<1>5. CASE \A x \in Int : At(p, x) = At(q, d + x)
  <2>1. \/ \A x \in Int : At(w, x) = At(q, (d + c) + x)
        \/ \A x \in Int : At(w, x) = At(q, (d + c) - x)
    BY <1>1, <1>3, <1>5
  <2> QED BY <1>4, <2>1 DEF Follows
<1>6. CASE \A x \in Int : At(p, x) = At(q, d - x)
  <2>1. \/ \A x \in Int : At(w, x) = At(q, (d - c) - x)
        \/ \A x \in Int : At(w, x) = At(q, (d - c) + x)
    BY <1>1, <1>3, <1>6
  <2> QED BY <1>4, <2>1 DEF Follows
<1> QED BY <1>2, <1>5, <1>6

\* All rotations of a ring in both directions.
Walks(p) == Turns(p) \cup Turns(Backward(p))

\* Backwards, the vertices count down.
LEMMA AtBackward ==
  ASSUME NEW p \in Seq(Point), p # << >>, NEW x \in Int
  PROVE  At(Backward(p), x) = At(p, (-1) - x)
<1>1. PICK n \in Nat \ {0} : n = Len(p)
  OBVIOUS
<1>2. PICK q \in Int, r \in 0 .. n - 1 : x = n * q + r /\ x % n = r
  BY Quotient
<1>3. At(Backward(p), x) = p[n - r]
  <2>1. Len(Backward(p)) = n
    BY <1>1, BackwardIs
  <2>2. Backward(p)[r + 1] = p[n + 1 - (r + 1)] /\ n + 1 - (r + 1) = n - r
    BY <1>1 DEF Backward
  <2> QED BY <1>2, <2>1, <2>2 DEF At
<1>4. ((-1) - x) % n = n - 1 - r
  <2>1. (-1) - x = n * ((- q) - 1) + (n - 1 - r)
    BY <1>2
  <2>2. (-1) - x \in Int /\ (- q) - 1 \in Int /\ n - 1 - r \in 0 .. n - 1
    BY <1>2
  <2> QED BY <2>1, <2>2, ModIs
<1>5. (n - 1 - r) + 1 = n - r
  BY <1>2
<1> QED BY <1>1, <1>3, <1>4, <1>5 DEF At

\* A rotation walks round the list.
LEMMA TurnFollows ==
  ASSUME NEW p \in Seq(Point), p # << >>, NEW s \in Nat, NEW x \in Int
  PROVE  At(Turn(p, s + 1), x) = At(p, s + x)
<1>1. PICK n \in Nat \ {0} : n = Len(p)
  OBVIOUS
<1>2. x % n \in 0 .. n - 1 /\ At(p, s + (x % n)) = At(p, s + x)
  <2>1. s \in Int
    OBVIOUS
  <2> QED BY <1>1, <2>1, AtShift
<1>3. PICK r \in 0 .. n - 1 : r = x % n
  BY <1>2
<1>4. Turn(p, s + 1)[r + 1] = At(p, s + (r + 1) - 1) /\ Len(Turn(p, s + 1)) = n
  <2>1. r + 1 \in 1 .. Len(p)
    BY <1>1
  <2> QED BY <1>1, <2>1, TurnIs
<1>5. s + (r + 1) - 1 = s + r
  OBVIOUS
<1> QED BY <1>2, <1>3, <1>4, <1>5 DEF At

\* What walks round the list forwards is a rotation of it.
LEMMA FollowsTurn ==
  ASSUME NEW p \in Seq(Point), p # << >>, NEW w \in Seq(Point), Len(w) = Len(p),
         NEW c \in Int, \A x \in Int : At(w, x) = At(p, c + x)
  PROVE  w \in Turns(p)
<1>1. PICK n \in Nat \ {0} : n = Len(p)
  OBVIOUS
<1>2. PICK s \in 0 .. n - 1 : s = c % n
  BY <1>1, AtShift
<1>3. ASSUME NEW m \in 1 .. n
      PROVE  w[m] = Turn(p, s + 1)[m]
  <2>1. m - 1 \in Int /\ (m - 1) % n = m - 1
    <3>1. m - 1 = n * 0 + (m - 1) /\ m - 1 \in 0 .. n - 1 /\ 0 \in Int /\ m - 1 \in Int
      BY <1>3
    <3> QED BY <3>1, ModIs
  <2>2. At(w, m - 1) = w[m]
    <3>1. (m - 1) + 1 = m
      OBVIOUS
    <3> QED BY <1>1, <2>1, <3>1 DEF At
  <2>3. At(w, m - 1) = At(p, c + (m - 1))
    BY <2>1
  <2>4. At(p, (m - 1) + c) = At(p, (m - 1) + s)
    BY <1>1, <1>2, <2>1, AtShift
  <2>5. (m - 1) + c = c + (m - 1) /\ (m - 1) + s = s + m - 1
    BY <1>2
  <2>6. Turn(p, s + 1)[m] = At(p, s + m - 1)
    <3>1. m \in 1 .. Len(p) /\ s \in Nat
      BY <1>1
    <3> QED BY <3>1, TurnIs
  <2> QED BY <2>2, <2>3, <2>4, <2>5, <2>6
<1>4. w = Turn(p, s + 1)
  <2>1. Turn(p, s + 1) \in Seq(Point) /\ Len(Turn(p, s + 1)) = n
    BY <1>1, TurnIs
  <2> QED BY <1>1, <1>3, <2>1, SeqEqual
<1>5. s + 1 \in 1 .. Len(p)
  BY <1>1
<1> QED BY <1>4, <1>5 DEF Turns

\* The rotations are what walks round the ring.
LEMMA WalksAre ==
  ASSUME NEW p \in Seq(Point), p # << >>, NEW w \in Seq(Point)
  PROVE  w \in Walks(p) <=> Follows(w, p)
<1> DEFINE b == Backward(p)
<1>1. b \in Seq(Point) /\ Len(b) = Len(p) /\ b # << >> /\ Len(p) \in Nat \ {0}
  BY BackwardIs
<1>2. \A x \in Int : At(b, x) = At(p, (-1) - x)
  BY AtBackward
<1>3. \A x \in Int : At(p, x) = At(b, (-1) - x)
  <2> TAKE x \in Int
  <2>1. (-1) - x \in Int /\ (-1) - ((-1) - x) = x
    OBVIOUS
  <2> QED BY <1>2, <2>1
<1> HIDE DEF b
<1>4. ASSUME w \in Turns(p)
      PROVE  Follows(w, p)
  <2>1. PICK t \in 1 .. Len(p) : w = Turn(p, t)
    BY <1>4 DEF Turns
  <2>2. PICK s \in Nat : t = s + 1
    <3>1. t - 1 \in Nat /\ t = (t - 1) + 1
      BY <1>1
    <3> QED BY <3>1
  <2>3. \A x \in Int : At(w, x) = At(p, s + x)
    BY <2>1, <2>2, TurnFollows
  <2>4. Len(w) = Len(p)
    BY <2>1, <2>2, TurnIs
  <2>5. s \in Int
    OBVIOUS
  <2> QED BY <2>3, <2>4, <2>5 DEF Follows
<1>5. ASSUME w \in Turns(b)
      PROVE  Follows(w, p)
  <2>1. PICK t \in 1 .. Len(b) : w = Turn(b, t)
    BY <1>5 DEF Turns
  <2>2. PICK s \in Nat : t = s + 1
    <3>1. t - 1 \in Nat /\ t = (t - 1) + 1
      BY <1>1
    <3> QED BY <3>1
  <2>3. \A x \in Int : At(w, x) = At(p, ((-1) - s) - x)
    <3> TAKE x \in Int
    <3>1. At(w, x) = At(b, s + x)
      BY <1>1, <2>1, <2>2, TurnFollows
    <3>2. s + x \in Int /\ (-1) - (s + x) = ((-1) - s) - x
      OBVIOUS
    <3> QED BY <1>2, <3>1, <3>2
  <2>4. Len(w) = Len(p)
    BY <1>1, <2>1, <2>2, TurnIs
  <2>5. (-1) - s \in Int
    OBVIOUS
  <2> QED BY <2>3, <2>4, <2>5 DEF Follows
<1>6. ASSUME Follows(w, p)
      PROVE  w \in Turns(p) \cup Turns(b)
  <2>1. PICK c \in Int : \/ \A x \in Int : At(w, x) = At(p, c + x)
                         \/ \A x \in Int : At(w, x) = At(p, c - x)
    BY <1>6 DEF Follows
  <2>2. Len(w) = Len(p)
    BY <1>6 DEF Follows
  <2>3. CASE \A x \in Int : At(w, x) = At(p, c + x)
    BY <2>2, <2>3, FollowsTurn
  <2>4. CASE \A x \in Int : At(w, x) = At(p, c - x)
    <3>1. \A x \in Int : At(w, x) = At(b, ((-1) - c) + x)
      <4> TAKE x \in Int
      <4>1. c - x \in Int /\ (-1) - (c - x) = ((-1) - c) + x
        OBVIOUS
      <4> QED BY <1>3, <2>4, <4>1
    <3>2. (-1) - c \in Int
      OBVIOUS
    <3> QED BY <1>1, <2>2, <3>1, <3>2, FollowsTurn
  <2> QED BY <2>1, <2>3, <2>4
<1> QED BY <1>4, <1>5, <1>6 DEF Walks, b

\* Rotations of a ring are lists of points of its length.
LEMMA WalksTyped ==
  ASSUME NEW p \in Seq(Point), p # << >>, NEW v \in Walks(p)
  PROVE  v \in Seq(Point) /\ Len(v) = Len(p) /\ v # << >>
<1>1. Len(p) \in Nat \ {0}
  OBVIOUS
<1>2. v \in Seq(Point) /\ Len(v) = Len(p)
  BY TurnsTyped, BackwardIs DEF Walks
<1> QED BY <1>1, <1>2

\* The canonical list is one of the rotations.
LEMMA RingWalks ==
  ASSUME NEW p \in Seq(Point), p # << >>
  PROVE  Ring(p) \in Walks(p)
<1> DEFINE b == Backward(p)
<1>1. b \in Seq(Point) /\ Len(b) = Len(p) /\ b # << >>
  BY BackwardIs
<1> HIDE DEF b
<1>2. PICK s \in StartsOf(p) : Best(p, s)
  BY BestExists
<1>3. PICK t \in StartsOf(b) : Best(b, t)
  BY <1>1, BestExists
<1>4. PICK u \in Turns(p) : Least(u, Turns(p))
  BY <1>2, BestIsLeast DEF Least
<1>5. PICK w \in Turns(b) : Least(w, Turns(b))
  BY <1>1, <1>3, BestIsLeast DEF Least
<1>6. /\ \A v \in Turns(p) : v \in Seq(Point) /\ Len(v) = Len(p)
      /\ \A v \in Turns(b) : v \in Seq(Point) /\ Len(v) = Len(p)
  BY <1>1, TurnsTyped
<1>7. LeastList({u, w}) = LeastList(Turns(p) \cup Turns(b))
  <2> DEFINE S == Turns(p)
             T == Turns(b)
             n == Len(p)
  <2> HIDE DEF S, T, n
  <2>1. LeastList({u, w}) = LeastList(S \cup T)
    <3>1. Least(u, S) /\ Least(w, T)
      BY <1>4, <1>5 DEF S, T
    <3>2. /\ \A v \in S : v \in Seq(Point) /\ Len(v) = n
          /\ \A v \in T : v \in Seq(Point) /\ Len(v) = n
      BY <1>6 DEF S, T, n
    <3> QED BY <3>1, <3>2, BothWays
  <2> QED BY <2>1 DEF S, T
<1>8. LeastList({u, w}) \in {u, w}
  <2> DEFINE x == IF ListBefore(u, w) THEN u ELSE w
  <2>1. u \in Seq(Point) /\ w \in Seq(Point) /\ Len(w) = Len(u)
    BY <1>6
  <2>2. Least(x, {u, w})
    BY <2>1, Order DEF Least
  <2>3. \A v \in {u, w} : v \in Seq(Point) /\ Len(v) = Len(u)
    BY <2>1
  <2>4. x \in {u, w}
    OBVIOUS
  <2> HIDE DEF x
  <2> QED BY <2>2, <2>3, <2>4, LeastIs
<1> QED BY <1>7, <1>8 DEF Ring, Walks, b

\* Two lists have one canonical form exactly if one is a rotation of the other
\* in some direction.
LEMMA RingsEqual ==
  ASSUME NEW p \in Seq(Point), p # << >>, NEW q \in Seq(Point), q # << >>
  PROVE  Ring(p) = Ring(q) <=> q \in Walks(p)
<1>1. ASSUME Ring(p) = Ring(q)
      PROVE  q \in Walks(p)
  <2>1. PICK u \in Seq(Point) : u \in Walks(p) /\ u \in Walks(q)
    BY <1>1, RingWalks, WalksTyped
  <2>2. Follows(u, p) /\ Follows(u, q)
    BY <2>1, WalksAre
  <2>3. Follows(q, p)
    BY <2>2, FollowsBack, FollowsOn
  <2> QED BY <2>3, WalksAre
<1>2. ASSUME q \in Walks(p)
      PROVE  Ring(p) = Ring(q)
  <2>1. Follows(q, p) /\ Follows(p, q)
    BY <1>2, WalksAre, FollowsBack
  <2>2. \A w \in Seq(Point) : Follows(w, p) <=> Follows(w, q)
    BY <2>1, FollowsOn
  <2>3. \A w \in Seq(Point) : w \in Walks(p) <=> w \in Walks(q)
    BY <2>2, WalksAre
  <2>4. Walks(p) = Walks(q)
    BY <2>3, WalksTyped
  <2> QED BY <2>4 DEF Ring, Walks
<1> QED BY <1>1, <1>2

\* The function h applied to every vertex.
Along(h, u) == [m \in 1 .. Len(u) |-> h[u[m]]]

\* A list of points mapped point by point.
LEMMA AlongIs ==
  ASSUME NEW h \in [Point -> Point], NEW u \in Seq(Point)
  PROVE  /\ Along(h, u) \in Seq(Point) /\ Len(Along(h, u)) = Len(u)
         /\ \A m \in 1 .. Len(u) : Along(h, u)[m] = h[u[m]]
         /\ u # << >> => Along(h, u) # << >>
<1>1. Len(u) \in Nat /\ \A m \in 1 .. Len(u) : h[u[m]] \in Point
  OBVIOUS
<1>2. Along(h, u) \in Seq(Point) /\ Len(Along(h, u)) = Len(u)
  BY <1>1 DEF Along
<1>3. u # << >> => Len(u) # 0
  OBVIOUS
<1> QED BY <1>1, <1>2, <1>3 DEF Along

OneToOne(h) == \A x, y \in Point : h[x] = h[y] => x = y

\* Opening leaves a list of vertices.
LEMMA OpenedTyped ==
  ASSUME NEW u \in Seq(Point), u # << >>
  PROVE  Opened(u) \in Seq(Point) /\ Opened(u) # << >>
<1>1. Len(u) \in Nat \ {0}
  OBVIOUS
<1>2. CASE Len(u) > 1 /\ u[1] = u[Len(u)]
  <2>1. SubSeq(u, 1, Len(u) - 1) \in Seq(Point) /\ Len(SubSeq(u, 1, Len(u) - 1)) = Len(u) - 1
    BY <1>1, <1>2
  <2>2. Len(u) - 1 # 0
    BY <1>1, <1>2
  <2> QED BY <1>2, <2>1, <2>2 DEF Opened
<1>3. CASE ~(Len(u) > 1 /\ u[1] = u[Len(u)])
  BY <1>3 DEF Opened
<1> QED BY <1>2, <1>3

\* It does not matter whether a ring is opened first or its points are mapped.
LEMMA OpenedAlong ==
  ASSUME NEW h \in [Point -> Point], OneToOne(h), NEW u \in Seq(Point), u # << >>
  PROVE  Opened(Along(h, u)) = Along(h, Opened(u))
<1> DEFINE a == Along(h, u)
           n == Len(u)
<1>1. /\ n \in Nat \ {0} /\ a \in Seq(Point) /\ Len(a) = n
      /\ \A m \in 1 .. n : a[m] = h[u[m]] /\ u[m] \in Point
  BY AlongIs
<1>2. 1 \in 1 .. n /\ n \in 1 .. n
  BY <1>1
<1>3. a[1] = a[n] <=> u[1] = u[n]
  BY <1>1, <1>2 DEF OneToOne
<1> HIDE DEF a
<1>4. CASE n > 1 /\ u[1] = u[n]
  <2>1. Opened(a) = SubSeq(a, 1, n - 1) /\ Opened(u) = SubSeq(u, 1, n - 1)
    BY <1>1, <1>3, <1>4 DEF Opened
  <2>2. /\ SubSeq(a, 1, n - 1) \in Seq(Point) /\ Len(SubSeq(a, 1, n - 1)) = n - 1
        /\ SubSeq(u, 1, n - 1) \in Seq(Point) /\ Len(SubSeq(u, 1, n - 1)) = n - 1
        /\ \A m \in 1 .. n - 1 : /\ SubSeq(a, 1, n - 1)[m] = a[m]
                                 /\ SubSeq(u, 1, n - 1)[m] = u[m]
    BY <1>1, <1>4
  <2> DEFINE b == Along(h, SubSeq(u, 1, n - 1))
  <2>3. b \in Seq(Point) /\ Len(b) = n - 1
    BY <2>2, AlongIs
  <2>4. \A m \in 1 .. n - 1 : b[m] = SubSeq(a, 1, n - 1)[m]
    <3> TAKE m \in 1 .. n - 1
    <3>1. m \in 1 .. n
      BY <1>1
    <3>2. b[m] = h[SubSeq(u, 1, n - 1)[m]]
      <4>1. PICK z \in Seq(Point) : z = SubSeq(u, 1, n - 1) /\ Len(z) = n - 1
        BY <2>2
      <4>2. Along(h, z)[m] = h[z[m]]
        <5>1. m \in 1 .. Len(z)
          BY <4>1
        <5> QED BY <5>1, AlongIs
      <4>3. b = Along(h, z)
        BY <4>1
      <4> HIDE DEF b
      <4> QED BY <4>1, <4>2, <4>3
    <3> QED BY <1>1, <2>2, <3>1, <3>2
  <2> HIDE DEF b
  <2>5. b = SubSeq(a, 1, n - 1)
    BY <2>2, <2>3, <2>4, SeqEqual
  <2> QED BY <2>1, <2>5 DEF a, b
<1>5. CASE ~(n > 1 /\ u[1] = u[n])
  BY <1>1, <1>3, <1>5 DEF Opened, a
<1> QED BY <1>4, <1>5

\* Mapping all points keeps who walks round what.
LEMMA FollowsAlong ==
  ASSUME NEW h \in [Point -> Point], OneToOne(h),
         NEW w \in Seq(Point), w # << >>, NEW p \in Seq(Point), p # << >>
  PROVE  Follows(Along(h, w), Along(h, p)) <=> Follows(w, p)
<1>1. \A u \in Seq(Point), x \in Int : u # << >> =>
        At(Along(h, u), x) = h[At(u, x)] /\ At(u, x) \in Point
  <2> TAKE u \in Seq(Point), x \in Int
  <2> HAVE u # << >>
  <2>1. x % Len(u) \in 0 .. Len(u) - 1 /\ At(u, x) \in Point
    BY AtTyped
  <2>2. (x % Len(u)) + 1 \in 1 .. Len(u)
    BY <2>1
  <2> QED BY <2>1, <2>2, AlongIs DEF At
<1>2. Len(Along(h, w)) = Len(w) /\ Len(Along(h, p)) = Len(p)
  BY AlongIs
<1>3. \A x, y \in Int : At(Along(h, w), x) = At(Along(h, p), y) <=> At(w, x) = At(p, y)
  BY <1>1 DEF OneToOne
<1>4. \A c, x \in Int : c + x \in Int /\ c - x \in Int
  OBVIOUS
<1>5. \A c \in Int : /\ (\A x \in Int : At(Along(h, w), x) = At(Along(h, p), c + x))
                          <=> (\A x \in Int : At(w, x) = At(p, c + x))
                     /\ (\A x \in Int : At(Along(h, w), x) = At(Along(h, p), c - x))
                          <=> (\A x \in Int : At(w, x) = At(p, c - x))
  BY <1>3, <1>4
<1> QED BY <1>2, <1>5 DEF Follows

\* The documents of two rings under one mapping are equal exactly if they are
\* listings of one ring.
LEMMA RingsAlong ==
  ASSUME NEW h \in [Point -> Point], OneToOne(h),
         NEW u \in Seq(Point), u # << >>, NEW w \in Seq(Point), w # << >>
  PROVE  Ring(Opened(Along(h, u))) = Ring(Opened(Along(h, w))) <=> SameRing(u, w)
<1> DEFINE p == Opened(u)
           q == Opened(w)
<1>1. p \in Seq(Point) /\ p # << >> /\ q \in Seq(Point) /\ q # << >>
  BY OpenedTyped
<1>2. Opened(Along(h, u)) = Along(h, p) /\ Opened(Along(h, w)) = Along(h, q)
  BY OpenedAlong
<1>3. SameRing(u, w) <=> q \in Walks(p)
  BY DEF SameRing, Walks
<1> HIDE DEF p, q
<1>4. /\ Along(h, p) \in Seq(Point) /\ Along(h, p) # << >>
      /\ Along(h, q) \in Seq(Point) /\ Along(h, q) # << >>
  BY <1>1, AlongIs
<1>5. Ring(Along(h, p)) = Ring(Along(h, q)) <=> Follows(Along(h, q), Along(h, p))
  BY <1>4, RingsEqual, WalksAre
<1>6. q \in Walks(p) <=> Follows(q, p)
  BY <1>1, WalksAre
<1> QED BY <1>1, <1>2, <1>3, <1>5, <1>6, FollowsAlong

------------------------------------------------------------------------------
(* Documents of moved neighborhoods *)

\* The orientation o, then the displacement v.
Then(o, v) == [o EXCEPT !.dx = v[1], !.dy = v[2]]

\* Turning and then moving adds the displacement.
LEMMA ThenIs ==
  ASSUME NEW o \in Orientations, NEW v \in Point, NEW z \in Point
  PROVE  /\ Then(o, v) \in Placements
         /\ Apply(Then(o, v), z) = Sum(Apply(o, z), v)
         /\ Apply(o, z) \in Point /\ Sum(z, v) \in Point /\ Difference(z, v) \in Point
<1> DEFINE t == Then(o, v)
<1>1. o \in Placements /\ o.dx = 0 /\ o.dy = 0 /\ v[1] \in Int /\ v[2] \in Int
      /\ z[1] \in Int /\ z[2] \in Int /\ o.rotation \in 0 .. 3
  BY OrientationIsPlacement DEF Point, Orientations
<1>2. /\ t.rotation = o.rotation /\ t.mirror = o.mirror /\ t.dx = v[1] /\ t.dy = v[2]
      /\ t \in Placements
  BY <1>1 DEF Then, Placements
<1>3. Sum(z, v) \in Point /\ Difference(z, v) \in Point
  BY <1>1 DEF Sum, Difference, Point
<1>4. Apply(o, z) \in Point
  BY <1>1, AppliedIs
<1> HIDE DEF t
<1>5. \A x \in Int : x + 0 = x /\ - x \in Int
  OBVIOUS
<1>6. Apply(t, z) = Sum(Apply(o, z), v)
  <2>1. CASE o.mirror
    <3>1. o.rotation = 0 => Apply(o, z) = << z[1], - z[2] >>
      BY <1>1, <1>5, <2>1, AppliedIs
    <3>2. o.rotation = 1 => Apply(o, z) = << z[2], z[1] >>
      BY <1>1, <1>5, <2>1, AppliedIs
    <3>3. o.rotation = 2 => Apply(o, z) = << - z[1], z[2] >>
      BY <1>1, <1>5, <2>1, AppliedIs
    <3>4. o.rotation = 3 => Apply(o, z) = << - z[2], - z[1] >>
      BY <1>1, <1>5, <2>1, AppliedIs
    <3>5. t.mirror /\ t \in Placements
      BY <1>2, <2>1
    <3>7. /\ t.rotation = 0 => Apply(t, z) = << z[1] + t.dx, - z[2] + t.dy >>
          /\ t.rotation = 1 => Apply(t, z) = << z[2] + t.dx, z[1] + t.dy >>
          /\ t.rotation = 2 => Apply(t, z) = << - z[1] + t.dx, z[2] + t.dy >>
          /\ t.rotation = 3 => Apply(t, z) = << - z[2] + t.dx, - z[1] + t.dy >>
      BY <3>5, AppliedIs
    <3>6. \A x, y : Sum(<< x, y >>, v) = << x + v[1], y + v[2] >>
      BY DEF Sum
    <3> QED BY <1>1, <1>2, <3>1, <3>2, <3>3, <3>4, <3>6, <3>7
  <2>2. CASE ~o.mirror
    <3>1. o.rotation = 0 => Apply(o, z) = << z[1], z[2] >>
      BY <1>1, <1>5, <2>2, AppliedIs
    <3>2. o.rotation = 1 => Apply(o, z) = << - z[2], z[1] >>
      BY <1>1, <1>5, <2>2, AppliedIs
    <3>3. o.rotation = 2 => Apply(o, z) = << - z[1], - z[2] >>
      BY <1>1, <1>5, <2>2, AppliedIs
    <3>4. o.rotation = 3 => Apply(o, z) = << z[2], - z[1] >>
      BY <1>1, <1>5, <2>2, AppliedIs
    <3>5. /\ o.rotation = 0 => Apply(t, z) = << z[1] + v[1], z[2] + v[2] >>
          /\ o.rotation = 1 => Apply(t, z) = << - z[2] + v[1], z[1] + v[2] >>
          /\ o.rotation = 2 => Apply(t, z) = << - z[1] + v[1], - z[2] + v[2] >>
          /\ o.rotation = 3 => Apply(t, z) = << z[2] + v[1], - z[1] + v[2] >>
      BY <1>2, <2>2, AppliedIs
    <3>6. \A x, y : Sum(<< x, y >>, v) = << x + v[1], y + v[2] >>
      BY DEF Sum
    <3> QED BY <1>1, <3>1, <3>2, <3>3, <3>4, <3>5, <3>6
  <2> QED BY <2>1, <2>2
<1> QED BY <1>2, <1>3, <1>4, <1>6 DEF t

\* Where a document places the point z.
Placed(o, origin) == [z \in Point |-> Difference(Apply(o, z), origin)]

\* The document in the orientation o2 and from the corner b shows what is
\* carried by o and v as the one in o1 and from a shows it uncarried.
Aligned(o1, o2, o, v, a, b) ==
  /\ o1 \in Orientations /\ o2 \in Orientations /\ o \in Orientations
  /\ Composed(o1, o2, o)
  /\ v \in Point /\ a \in Point /\ b \in Point
  /\ b = Sum(a, Apply(o2, v))

Image(t, u) == [m \in 1 .. Len(u) |-> Apply(t, u[m])]

\* A document shows different points at different places.
LEMMA PlacedIs ==
  ASSUME NEW o \in Orientations, NEW a \in Point
  PROVE  Placed(o, a) \in [Point -> Point] /\ OneToOne(Placed(o, a))
<1>1. \A z \in Point : Apply(o, z) \in Point /\ Difference(Apply(o, z), a) \in Point
  BY ThenIs
<1>2. Placed(o, a) \in [Point -> Point]
  BY <1>1 DEF Placed
<1>3. \A x, y \in Point : Difference(x, a) = Difference(y, a) => x = y
  <2> TAKE x, y \in Point
  <2>1. /\ x = << x[1], x[2] >> /\ y = << y[1], y[2] >> /\ a[1] \in Int /\ a[2] \in Int
        /\ x[1] \in Int /\ x[2] \in Int /\ y[1] \in Int /\ y[2] \in Int
    BY DEF Point
  <2> HAVE Difference(x, a) = Difference(y, a)
  <2>2. x[1] - a[1] = y[1] - a[1] /\ x[2] - a[2] = y[2] - a[2]
    BY DEF Difference
  <2> QED BY <2>1, <2>2
<1>4. \A x, y \in Point : Apply(o, x) = Apply(o, y) => x = y
  BY OrientationLinear
<1> QED BY <1>1, <1>2, <1>3, <1>4 DEF Placed, OneToOne

\* A carried point is placed where the uncarried one is.
LEMMA PlacedAligned ==
  ASSUME NEW o1, NEW o2, NEW o, NEW v, NEW a, NEW b, Aligned(o1, o2, o, v, a, b),
         NEW z \in Point
  PROVE  /\ Apply(Then(o, v), z) \in Point
         /\ Difference(Apply(o1, z), a) = Placed(o2, b)[Apply(Then(o, v), z)]
<1>1. /\ o1 \in Orientations /\ o2 \in Orientations /\ o \in Orientations
      /\ v \in Point /\ a \in Point /\ b \in Point /\ b = Sum(a, Apply(o2, v))
  BY DEF Aligned
<1>2. Apply(o, z) \in Point /\ Apply(o1, z) \in Point /\ Apply(o2, v) \in Point
  BY <1>1, ThenIs
<1>3. Apply(Then(o, v), z) = Sum(Apply(o, z), v) /\ Sum(Apply(o, z), v) \in Point
  BY <1>1, <1>2, ThenIs
<1>4. Apply(o2, Sum(Apply(o, z), v)) = Sum(Apply(o2, Apply(o, z)), Apply(o2, v))
  BY <1>1, <1>2, OrientationLinear
<1>5. Apply(o2, Apply(o, z)) = Apply(o1, z)
  BY <1>1, ActsComposed DEF Aligned
<1>6. \A x, y \in Point : Difference(Sum(x, y), Sum(a, y)) = Difference(x, a)
  <2> TAKE x, y \in Point
  <2>1. /\ x[1] \in Int /\ x[2] \in Int /\ y[1] \in Int /\ y[2] \in Int
        /\ a[1] \in Int /\ a[2] \in Int
    BY <1>1 DEF Point
  <2> QED BY <2>1 DEF Difference, Sum
<1>7. Difference(Sum(Apply(o1, z), Apply(o2, v)), b) = Difference(Apply(o1, z), a)
  BY <1>1, <1>2, <1>6
<1>8. Placed(o2, b)[Sum(Apply(o, z), v)] = Difference(Apply(o2, Sum(Apply(o, z), v)), b)
  BY <1>3 DEF Placed
<1> QED BY <1>3, <1>4, <1>5, <1>7, <1>8

\* Lists of points in the two documents.
LEMMA MovedAligned ==
  ASSUME NEW o1, NEW o2, NEW o, NEW v, NEW a, NEW b, Aligned(o1, o2, o, v, a, b),
         NEW u \in Outlines
  PROVE  /\ Image(Then(o, v), u) \in Seq(Point) /\ Image(Then(o, v), u) # << >>
         /\ Len(Image(Then(o, v), u)) = Len(u)
         /\ Moved(u, o1, a) = Along(Placed(o2, b), Image(Then(o, v), u))
         /\ Moved(u, o2, b) = Along(Placed(o2, b), u)
<1> DEFINE w == Image(Then(o, v), u)
           h == Placed(o2, b)
<1>1. u \in Seq(Point) /\ Len(u) \in Nat \ {0} /\ \A m \in 1 .. Len(u) : u[m] \in Point
  BY DEF Outlines, Point
<1>2. o1 \in Orientations /\ o2 \in Orientations /\ a \in Point /\ b \in Point
  BY DEF Aligned
<1>3. \A m \in 1 .. Len(u) : Apply(Then(o, v), u[m]) \in Point
  BY <1>1, PlacedAligned
<1>4. w \in Seq(Point) /\ Len(w) = Len(u) /\ w # << >>
      /\ \A m \in 1 .. Len(u) : w[m] = Apply(Then(o, v), u[m])
  BY <1>1, <1>3 DEF Image
<1> HIDE DEF w, h
<1>5. \A m \in 1 .. Len(u) : Difference(Apply(o1, u[m]), a) = h[w[m]]
  BY <1>1, <1>4, PlacedAligned DEF h
<1>6. \A m \in 1 .. Len(u) : Difference(Apply(o2, u[m]), b) = h[u[m]]
  BY <1>1 DEF h, Placed
<1>7. Moved(u, o1, a) = Along(h, w)
  BY <1>4, <1>5, Zenon DEF Moved, Along, Difference
<1>8. Moved(u, o2, b) = Along(h, u)
  BY <1>6, Zenon DEF Moved, Along, Difference
<1> QED BY <1>4, <1>7, <1>8 DEF w, h

\* One document shows the ring u carried and the other one the ring w exactly
\* if u is carried onto w.
LEMMA RingsMoved ==
  ASSUME NEW o1, NEW o2, NEW o, NEW v, NEW a, NEW b, Aligned(o1, o2, o, v, a, b),
         NEW u \in Outlines, NEW w \in Outlines
  PROVE  Ring(Opened(Moved(u, o1, a))) = Ring(Opened(Moved(w, o2, b)))
           <=> SameRing(Image(Then(o, v), u), w)
<1>1. /\ Image(Then(o, v), u) \in Seq(Point) /\ Image(Then(o, v), u) # << >>
      /\ Moved(u, o1, a) = Along(Placed(o2, b), Image(Then(o, v), u))
      /\ Moved(w, o2, b) = Along(Placed(o2, b), w)
  BY MovedAligned
<1>2. Placed(o2, b) \in [Point -> Point] /\ OneToOne(Placed(o2, b))
  BY PlacedIs DEF Aligned
<1>3. w \in Seq(Point) /\ w # << >>
  BY DEF Outlines, Point
<1> QED BY <1>1, <1>2, <1>3, RingsAlong

\* The lists hold the same points, as often.
SamePoints(u, w) == Matches(u, w, LAMBDA x, y : x = y)

\* The same for the end points of an edge, or a point.
LEMMA PointsMoved ==
  ASSUME NEW o1, NEW o2, NEW o, NEW v, NEW a, NEW b, Aligned(o1, o2, o, v, a, b),
         NEW u \in Outlines, NEW w \in Outlines
  PROVE  Sorted(Moved(u, o1, a)) = Sorted(Moved(w, o2, b))
           <=> SamePoints(Image(Then(o, v), u), w)
<1> DEFINE z == Image(Then(o, v), u)
           h == Placed(o2, b)
<1>1. /\ z \in Seq(Point) /\ Moved(u, o1, a) = Along(h, z) /\ Moved(w, o2, b) = Along(h, w)
  BY MovedAligned
<1>2. h \in [Point -> Point] /\ OneToOne(h)
  BY PlacedIs DEF Aligned
<1>3. w \in Seq(Point)
  BY DEF Outlines, Point
<1> HIDE DEF z, h
<1>4. /\ Len(Along(h, z)) = Len(z)
      /\ \A c \in 1 .. Len(z) : Along(h, z)[c] = h[z[c]] /\ z[c] \in Point
      /\ Len(Along(h, w)) = Len(w)
      /\ \A c \in 1 .. Len(w) : Along(h, w)[c] = h[w[c]] /\ w[c] \in Point
      /\ Len(z) \in Nat /\ Len(w) \in Nat
  BY <1>1, <1>2, <1>3, AlongIs
<1>5. Sorted(Along(h, z)) = Sorted(Along(h, w)) <=>
        \E order \in Bijection(1 .. Len(z), 1 .. Len(w)) :
          \A c \in 1 .. Len(z) : Along(h, z)[c] = Along(h, w)[order[c]]
  BY <1>4, SortedMatch
<1>6. \A c \in 1 .. Len(z), d \in 1 .. Len(w) : Along(h, z)[c] = Along(h, w)[d] <=> z[c] = w[d]
  BY <1>2, <1>4 DEF OneToOne
<1>7. \A order \in Bijection(1 .. Len(z), 1 .. Len(w)), c \in 1 .. Len(z) :
        order[c] \in 1 .. Len(w)
  BY BijectionIs
<1>8. Sorted(Along(h, z)) = Sorted(Along(h, w)) <=>
        \E order \in Bijection(1 .. Len(z), 1 .. Len(w)) :
          \A c \in 1 .. Len(z) : z[c] = w[order[c]]
  BY <1>5, <1>6, <1>7
<1>9. SamePoints(z, w) <=>
        \E order \in Bijection(1 .. Len(z), 1 .. Len(w)) :
          \A c \in 1 .. Len(z) : z[c] = w[order[c]]
  BY DEF SamePoints, Matches
<1> QED BY <1>1, <1>8, <1>9 DEF z

\* What marker() returns.
MarkerRecords == [kind : {"polygon", "edge", "point"}, layer : STRING, points : Outlines]

ShapeRecords == [layer : STRING, hull : Outlines, holes : Seq(Outlines)]

\* One document shows the marker m carried and the other one the marker q
\* exactly if m is carried onto q.
LEMMA MarkersMoved ==
  ASSUME NEW o1, NEW o2, NEW o, NEW v, NEW a, NEW b, Aligned(o1, o2, o, v, a, b),
         NEW m \in MarkerRecords, NEW q \in MarkerRecords
  PROVE  Marked(m, o1, a) = Marked(q, o2, b) <=> CarriesMarker(Then(o, v), m, q)
<1>1. m.points \in Outlines /\ q.points \in Outlines
  BY DEF MarkerRecords
<1> DEFINE pm == IF m.kind = "polygon" THEN Ring(Opened(Moved(m.points, o1, a)))
                                       ELSE Sorted(Moved(m.points, o1, a))
           pq == IF q.kind = "polygon" THEN Ring(Opened(Moved(q.points, o2, b)))
                                       ELSE Sorted(Moved(q.points, o2, b))
<1>2. /\ Marked(m, o1, a) = [m EXCEPT !.points = pm]
      /\ Marked(q, o2, b) = [q EXCEPT !.points = pq]
  BY DEF Marked
<1> HIDE DEF pm, pq
<1>3. Marked(m, o1, a) = Marked(q, o2, b) <=>
        m.kind = q.kind /\ m.layer = q.layer /\ pm = pq
  BY <1>2 DEF MarkerRecords
<1>4. CASE m.kind = q.kind /\ m.kind = "polygon"
  <2>1. pm = Ring(Opened(Moved(m.points, o1, a))) /\ pq = Ring(Opened(Moved(q.points, o2, b)))
    BY <1>4 DEF pm, pq
  <2>2. pm = pq <=> SameRing(Image(Then(o, v), m.points), q.points)
    BY <1>1, <2>1, RingsMoved
  <2>3. CarriesMarker(Then(o, v), m, q) <=>
          m.layer = q.layer /\ SameRing(Image(Then(o, v), m.points), q.points)
    BY <1>4 DEF CarriesMarker, Image
  <2> QED BY <1>3, <1>4, <2>2, <2>3
<1>5. CASE m.kind = q.kind /\ m.kind # "polygon"
  <2>1. pm = Sorted(Moved(m.points, o1, a)) /\ pq = Sorted(Moved(q.points, o2, b))
    BY <1>5 DEF pm, pq
  <2>2. pm = pq <=> SamePoints(Image(Then(o, v), m.points), q.points)
    BY <1>1, <2>1, PointsMoved
  <2>3. CarriesMarker(Then(o, v), m, q) <=>
          m.layer = q.layer /\ SamePoints(Image(Then(o, v), m.points), q.points)
    BY <1>5 DEF CarriesMarker, Image, SamePoints
  <2> QED BY <1>3, <1>5, <2>2, <2>3
<1>6. CASE m.kind # q.kind
  BY <1>3, <1>6 DEF CarriesMarker
<1> QED BY <1>4, <1>5, <1>6

\* The same for shapes, with their holes in any order.
LEMMA ShapesMoved ==
  ASSUME NEW o1, NEW o2, NEW o, NEW v, NEW a, NEW b, Aligned(o1, o2, o, v, a, b),
         NEW s \in ShapeRecords, NEW q \in ShapeRecords
  PROVE  Shape(s, o1, a) = Shape(q, o2, b) <=> CarriesShape(Then(o, v), s, q)
<1> DEFINE n == Len(s.holes)
           l == Len(q.holes)
           d == [c \in 1 .. n |-> Ring(Opened(Moved(s.holes[c], o1, a)))]
           e == [c \in 1 .. l |-> Ring(Opened(Moved(q.holes[c], o2, b)))]
           same(x, y) == SameRing(Image(Then(o, v), x), y)
<1>1. /\ s.hull \in Outlines /\ q.hull \in Outlines
      /\ n \in Nat /\ \A c \in 1 .. n : s.holes[c] \in Outlines
      /\ l \in Nat /\ \A c \in 1 .. l : q.holes[c] \in Outlines
  BY DEF ShapeRecords
<1>2. Ring(Opened(Moved(s.hull, o1, a))) = Ring(Opened(Moved(q.hull, o2, b)))
        <=> same(s.hull, q.hull)
  BY <1>1, RingsMoved
<1>3. \A c \in 1 .. n, x \in 1 .. l : d[c] = e[x] <=> same(s.holes[c], q.holes[x])
  BY <1>1, RingsMoved
<1>4. Len(d) = n /\ Len(e) = l
  BY <1>1
<1>5. /\ Shape(s, o1, a) = [layer |-> s.layer, hull |-> Ring(Opened(Moved(s.hull, o1, a))),
                            holes |-> Sorted(d)]
      /\ Shape(q, o2, b) = [layer |-> q.layer, hull |-> Ring(Opened(Moved(q.hull, o2, b))),
                            holes |-> Sorted(e)]
  BY DEF Shape
<1>6. CarriesShape(Then(o, v), s, q) <=>
        /\ s.layer = q.layer /\ same(s.hull, q.hull)
        /\ \E order \in Bijection(1 .. n, 1 .. l) :
             \A c \in 1 .. n : same(s.holes[c], q.holes[order[c]])
  BY DEF CarriesShape, Matches, Image
<1> HIDE DEF n, l, d, e, same
<1>7. \A order \in Bijection(1 .. n, 1 .. l), c \in 1 .. n : order[c] \in 1 .. l
  BY BijectionInto
<1>8. Sorted(d) = Sorted(e) <=>
        \E order \in Bijection(1 .. n, 1 .. l) : \A c \in 1 .. n : d[c] = e[order[c]]
  <2>1. Len(d) \in Nat /\ Len(e) \in Nat
    BY <1>1, <1>4
  <2>2. Sorted(d) = Sorted(e) <=>
          \E order \in Bijection(1 .. Len(d), 1 .. Len(e)) :
            \A c \in 1 .. Len(d) : d[c] = e[order[c]]
    BY <2>1, SortedMatch
  <2> QED BY <1>4, <2>2
<1>9. Sorted(d) = Sorted(e) <=>
        \E order \in Bijection(1 .. n, 1 .. l) :
          \A c \in 1 .. n : same(s.holes[c], q.holes[order[c]])
  BY <1>3, <1>7, <1>8
<1> DEFINE ringS == Ring(Opened(Moved(s.hull, o1, a)))
           ringQ == Ring(Opened(Moved(q.hull, o2, b)))
<1>10. Shape(s, o1, a) = Shape(q, o2, b) <=>
         s.layer = q.layer /\ ringS = ringQ /\ Sorted(d) = Sorted(e)
  BY <1>5
<1> QED BY <1>2, <1>6, <1>9, <1>10

------------------------------------------------------------------------------
(* Corners of boxes *)

\* A function shows finitely many values on a finite set.
LEMMA ImageFinite ==
  ASSUME NEW S, IsFiniteSet(S), NEW h, DOMAIN h = S
  PROVE  IsFiniteSet({h[x] : x \in S})
<1> DEFINE T == {h[x] : x \in S}
           e == [x \in S |-> h[x]]
<1>1. e \in [S -> T] /\ \A y \in T : \E x \in S : e[x] = y
  OBVIOUS
<1>2. e \in Surjection(S, T)
  <2> HIDE DEF e, T
  <2> QED BY <1>1 DEF Surjection
<1> HIDE DEF e, T
<1>3. IsFiniteSet(T)
  BY <1>2, FS_Surjection
<1> QED BY <1>3 DEF T

\* The least of finitely many numbers.
LEMMA LowestIs ==
  ASSUME NEW S \in SUBSET Int, S # {}, IsFiniteSet(S)
  PROVE  Lowest(S) \in S /\ \A x \in S : Lowest(S) =< x
<1> DEFINE below(x) == {y \in S : y < x}
           ranks == {Cardinality(below(x)) : x \in S}
<1>1. ASSUME NEW x \in S
      PROVE  IsFiniteSet(below(x)) /\ Cardinality(below(x)) \in Nat
  <2>1. below(x) \in SUBSET S
    OBVIOUS
  <2> HIDE DEF below
  <2> QED BY <2>1, FS_Subset, FS_CardinalityType
<1>2. ranks \in SUBSET Nat /\ ranks # {}
  <2> HIDE DEF below
  <2> QED BY <1>1
<1>3. PICK c \in ranks : \A d \in ranks : c =< d
  <2> HIDE DEF ranks
  <2> QED BY <1>2, NatLeast
<1>4. PICK z \in S : c = Cardinality(below(z))
  OBVIOUS
<1>5. ASSUME NEW x \in S, x < z
      PROVE  FALSE
  <2>1. below(x) \in SUBSET below(z) /\ x \in below(z) /\ x \notin below(x)
    BY <1>4, <1>5
  <2>2. c =< Cardinality(below(x))
    BY <1>3, <1>5
  <2> HIDE DEF below, ranks
  <2>3. /\ Cardinality(below(x)) =< Cardinality(below(z))
        /\ Cardinality(below(x)) # Cardinality(below(z))
    BY <1>1, <1>4, <2>1, FS_Subset
  <2> QED BY <1>1, <1>4, <1>5, <2>2, <2>3
<1>6. \A x \in S : z =< x
  BY <1>4, <1>5
<1> QED BY <1>4, <1>6 DEF Lowest

\* What is below all others is the least.
LEMMA LowestOnly ==
  ASSUME NEW S \in SUBSET Int, NEW z \in S, \A x \in S : z =< x
  PROVE  Lowest(S) = z
<1>1. Lowest(S) \in S /\ \A x \in S : Lowest(S) =< x
  BY DEF Lowest
<1>2. Lowest(S) =< z /\ z =< Lowest(S) /\ Lowest(S) \in Int
  BY <1>1
<1> QED BY <1>2

\* The greatest is the least of the negated ones.
LEMMA HighestIs ==
  ASSUME NEW S \in SUBSET Int, S # {}, IsFiniteSet(S)
  PROVE  Highest(S) \in S
<1> DEFINE h == [x \in S |-> - x]
           N == {h[x] : x \in S}
<1>1. N \in SUBSET Int /\ N # {}
  <2>1. \A x \in S : h[x] \in Int
    OBVIOUS
  <2> HIDE DEF h
  <2> QED BY <2>1
<1>2. IsFiniteSet(N)
  <2>1. DOMAIN h = S
    OBVIOUS
  <2> HIDE DEF h
  <2> QED BY <2>1, ImageFinite
<1>3. PICK y \in N : \A x \in N : y =< x
  <2> HIDE DEF N
  <2> QED BY <1>1, <1>2, LowestIs
<1>4. PICK z \in S : y = - z
  OBVIOUS
<1>5. \A x \in S : x =< z
  <2> TAKE x \in S
  <2>1. - x \in N
    OBVIOUS
  <2> QED BY <1>3, <1>4, <2>1
<1> QED BY <1>5 DEF Highest

\* Finitely many points have finitely many coordinates.
LEMMA CoordinatesFinite ==
  ASSUME NEW P \in SUBSET Point, P # {}, IsFiniteSet(P)
  PROVE  /\ Xs(P) \in SUBSET Int /\ Xs(P) # {} /\ IsFiniteSet(Xs(P))
         /\ Ys(P) \in SUBSET Int /\ Ys(P) # {} /\ IsFiniteSet(Ys(P))
<1> DEFINE first == [p \in P |-> p[1]]
           second == [p \in P |-> p[2]]
<1>1. IsFiniteSet(Xs(P)) /\ IsFiniteSet(Ys(P))
  <2>1. IsFiniteSet({first[p] : p \in P}) /\ IsFiniteSet({second[p] : p \in P})
    <3>1. DOMAIN first = P /\ DOMAIN second = P
      OBVIOUS
    <3> HIDE DEF first, second
    <3> QED BY <3>1, ImageFinite
  <2>2. {first[p] : p \in P} = Xs(P) /\ {second[p] : p \in P} = Ys(P)
    BY DEF Xs, Ys
  <2> QED BY <2>1, <2>2
<1> QED BY <1>1 DEF Xs, Ys, Point

\* A list has finitely many vertices.
LEMMA CornersFinite ==
  ASSUME NEW u \in Seq(Point), u # << >>
  PROVE  Corners(u) \in SUBSET Point /\ Corners(u) # {} /\ IsFiniteSet(Corners(u))
<1>1. Len(u) \in Nat \ {0} /\ \A c \in 1 .. Len(u) : u[c] \in Point
  OBVIOUS
<1>2. IsFiniteSet(1 .. Len(u))
  BY <1>1, FS_Interval
<1>3. IsFiniteSet(Corners(u))
  <2>1. DOMAIN u = 1 .. Len(u)
    OBVIOUS
  <2> QED BY <1>2, <2>1, ImageFinite DEF Corners
<1>4. 1 \in 1 .. Len(u)
  BY <1>1
<1> QED BY <1>1, <1>3, <1>4 DEF Corners

\* A box is a list of four points.
LEMMA BoxTyped ==
  ASSUME NEW P \in SUBSET Point, P # {}, IsFiniteSet(P)
  PROVE  Box(P) \in Seq(Point) /\ Box(P) # << >>
<1>1. /\ Lowest(Xs(P)) \in Int /\ Lowest(Ys(P)) \in Int
      /\ Highest(Xs(P)) \in Int /\ Highest(Ys(P)) \in Int
  BY CoordinatesFinite, LowestIs, HighestIs
<1> QED BY <1>1 DEF Box, Point

\* Points of a report in grid units.
LEMMA GridTyped ==
  ASSUME NEW z \in Point, NEW unit \in {"um", "nm", "dbu"}
  PROVE  InGrid(z, unit) \in Point
<1>1. z[1] \in Int /\ z[2] \in Int /\ Dbu \in Nat \ {0}
  BY PhysicalAssumption DEF Point
<1>2. PICK scale \in Int : scale = Nanometres[unit]
  <2>1. Nanometres["um"] \in Int /\ Nanometres["nm"] \in Int /\ Nanometres["dbu"] \in Int
    BY <1>1 DEF Nanometres
  <2> QED BY <2>1
<1>3. z[1] * scale \in Int /\ z[2] * scale \in Int
  BY <1>1
<1>4. \A x \in Int : x \div Dbu \in Int
  BY <1>1
<1>5. (z[1] * scale) \div Dbu \in Int /\ (z[2] * scale) \div Dbu \in Int
  BY <1>3, <1>4
<1> QED BY <1>2, <1>5 DEF InGrid, Point

\* marker() returns a marker for every geometry of a report.
LEMMA MarkerTyped ==
  ASSUME NEW g \in Geometries, NEW placement \in Placements
  PROVE  Marker(g, placement) \in MarkerRecords
<1> DEFINE u == [c \in 1 .. Len(g.points) |-> Apply(placement, InGrid(g.points[c], g.unit))]
<1>1. /\ g.kind \in {"polygon", "box", "edge", "point"} /\ g.unit \in {"um", "nm", "dbu"}
      /\ g.layer \in STRING /\ g.points \in Seq(Point) /\ g.points # << >>
  BY DEF Geometries, Outlines, Point
<1>2. Len(g.points) \in Nat \ {0} /\ \A c \in 1 .. Len(g.points) : g.points[c] \in Point
  BY <1>1
<1>3. \A c \in 1 .. Len(g.points) : Apply(placement, InGrid(g.points[c], g.unit)) \in Point
  BY <1>1, <1>2, GridTyped, AppliedIs
<1>4. u \in Seq(Point) /\ Len(u) = Len(g.points)
  BY <1>2, <1>3
<1>5. u # << >>
  BY <1>2, <1>4
<1> HIDE DEF u
<1>6. Box(Corners(u)) \in Seq(Point) /\ Box(Corners(u)) # << >>
  BY <1>4, <1>5, CornersFinite, BoxTyped
<1>7. Marker(g, placement) =
        [kind |-> IF g.kind = "box" THEN "polygon" ELSE g.kind, layer |-> g.layer,
         points |-> IF g.kind = "box" THEN Box(Corners(u)) ELSE u]
  BY DEF Marker, u
<1>8. u \in Outlines /\ Box(Corners(u)) \in Outlines
  BY <1>4, <1>5, <1>6 DEF Outlines, Point
<1> QED BY <1>1, <1>7, <1>8 DEF MarkerRecords

\* A finding has as many markers as geometries.
LEMMA MarkersTyped ==
  ASSUME NEW f \in Findings, NEW placement \in Placements
  PROVE  /\ Markers(f, placement) \in Seq(MarkerRecords)
         /\ Len(Markers(f, placement)) = Len(f.geometries)
         /\ Len(f.geometries) \in Nat
<1>1. f.geometries \in Seq(Geometries)
  BY PhysicalAssumption
<1>2. \A c \in 1 .. Len(f.geometries) : Marker(f.geometries[c], placement) \in MarkerRecords
  BY <1>1, MarkerTyped
<1> QED BY <1>1, <1>2 DEF Markers

\* The markers of a finding have finitely many points.
LEMMA MarkerPointsFinite ==
  ASSUME NEW l \in Seq(MarkerRecords), l # << >>
  PROVE  MarkerPoints(l) \in SUBSET Point /\ MarkerPoints(l) # {} /\ IsFiniteSet(MarkerPoints(l))
<1> DEFINE h == [c \in 1 .. Len(l) |-> Corners(l[c].points)]
           S == {h[c] : c \in 1 .. Len(l)}
<1>1. Len(l) \in Nat \ {0} /\ \A c \in 1 .. Len(l) : l[c] \in MarkerRecords
  OBVIOUS
<1>2. \A c \in 1 .. Len(l) : l[c].points \in Seq(Point) /\ l[c].points # << >>
  BY <1>1 DEF MarkerRecords, Outlines, Point
<1>3. \A c \in 1 .. Len(l) :
        /\ Corners(l[c].points) \in SUBSET Point /\ Corners(l[c].points) # {}
        /\ IsFiniteSet(Corners(l[c].points))
  BY <1>2, CornersFinite
<1>4. MarkerPoints(l) = UNION S
  BY DEF MarkerPoints
<1>5. IsFiniteSet(S) /\ DOMAIN h = 1 .. Len(l)
  <2>1. DOMAIN h = 1 .. Len(l) /\ IsFiniteSet(1 .. Len(l))
    BY <1>1, FS_Interval
  <2> HIDE DEF h
  <2> QED BY <2>1, ImageFinite
<1>6. \A T \in S : IsFiniteSet(T) /\ T \in SUBSET Point /\ T # {}
  BY <1>3
<1>7. h[1] \in S
  BY <1>1
<1> HIDE DEF S, h
<1> QED BY <1>4, <1>5, <1>6, <1>7, FS_UNION

------------------------------------------------------------------------------
(* Documents of neighborhoods *)

MarkersCarried(t, from, to) == Matches(from, to, LAMBDA x, y : CarriesMarker(t, x, y))
ShapesCarried(t, from, to) == Matches(from, to, LAMBDA x, y : CarriesShape(t, x, y))

MarkersShown(l, o, a) == Sorted([c \in 1 .. Len(l) |-> Marked(l[c], o, a)])
ShapesShown(l, o, a) == Sorted([c \in 1 .. Len(l) |-> Shape(l[c], o, a)])

\* The documents of aligned lists are equal exactly if all of one list is
\* carried onto the other one.
LEMMA MarkersAligned ==
  ASSUME NEW o1, NEW o2, NEW o, NEW v, NEW a, NEW b, Aligned(o1, o2, o, v, a, b),
         NEW l \in Seq(MarkerRecords), NEW r \in Seq(MarkerRecords)
  PROVE  MarkersShown(l, o1, a) = MarkersShown(r, o2, b) <=> MarkersCarried(Then(o, v), l, r)
<1> DEFINE d == [c \in 1 .. Len(l) |-> Marked(l[c], o1, a)]
           e == [c \in 1 .. Len(r) |-> Marked(r[c], o2, b)]
<1>1. /\ Len(l) \in Nat /\ \A c \in 1 .. Len(l) : l[c] \in MarkerRecords
      /\ Len(r) \in Nat /\ \A c \in 1 .. Len(r) : r[c] \in MarkerRecords
  OBVIOUS
<1>2. \A c \in 1 .. Len(l), x \in 1 .. Len(r) :
        d[c] = e[x] <=> CarriesMarker(Then(o, v), l[c], r[x])
  BY <1>1, MarkersMoved
<1>3. Len(d) = Len(l) /\ Len(e) = Len(r)
  BY <1>1
<1>4. MarkersCarried(Then(o, v), l, r) <=>
        \E order \in Bijection(1 .. Len(l), 1 .. Len(r)) :
          \A c \in 1 .. Len(l) : CarriesMarker(Then(o, v), l[c], r[order[c]])
  BY DEF MarkersCarried, Matches
<1>5. MarkersShown(l, o1, a) = Sorted(d) /\ MarkersShown(r, o2, b) = Sorted(e)
  BY DEF MarkersShown
<1> HIDE DEF d, e
<1>6. \A order \in Bijection(1 .. Len(l), 1 .. Len(r)), c \in 1 .. Len(l) :
        order[c] \in 1 .. Len(r)
  BY BijectionInto
<1>7. Sorted(d) = Sorted(e) <=>
        \E order \in Bijection(1 .. Len(l), 1 .. Len(r)) :
          \A c \in 1 .. Len(l) : d[c] = e[order[c]]
  <2>1. Len(d) \in Nat /\ Len(e) \in Nat
    BY <1>1, <1>3
  <2>2. Sorted(d) = Sorted(e) <=>
          \E order \in Bijection(1 .. Len(d), 1 .. Len(e)) :
            \A c \in 1 .. Len(d) : d[c] = e[order[c]]
    BY <2>1, SortedMatch
  <2> QED BY <1>3, <2>2
<1> QED BY <1>2, <1>4, <1>5, <1>6, <1>7

\* The same for lists of shapes.
LEMMA ShapesAligned ==
  ASSUME NEW o1, NEW o2, NEW o, NEW v, NEW a, NEW b, Aligned(o1, o2, o, v, a, b),
         NEW l \in Seq(ShapeRecords), NEW r \in Seq(ShapeRecords)
  PROVE  ShapesShown(l, o1, a) = ShapesShown(r, o2, b) <=> ShapesCarried(Then(o, v), l, r)
<1> DEFINE d == [c \in 1 .. Len(l) |-> Shape(l[c], o1, a)]
           e == [c \in 1 .. Len(r) |-> Shape(r[c], o2, b)]
<1>1. /\ Len(l) \in Nat /\ \A c \in 1 .. Len(l) : l[c] \in ShapeRecords
      /\ Len(r) \in Nat /\ \A c \in 1 .. Len(r) : r[c] \in ShapeRecords
  OBVIOUS
<1>2. \A c \in 1 .. Len(l), x \in 1 .. Len(r) :
        d[c] = e[x] <=> CarriesShape(Then(o, v), l[c], r[x])
  BY <1>1, ShapesMoved
<1>3. Len(d) = Len(l) /\ Len(e) = Len(r)
  BY <1>1
<1>4. ShapesCarried(Then(o, v), l, r) <=>
        \E order \in Bijection(1 .. Len(l), 1 .. Len(r)) :
          \A c \in 1 .. Len(l) : CarriesShape(Then(o, v), l[c], r[order[c]])
  BY DEF ShapesCarried, Matches
<1>5. ShapesShown(l, o1, a) = Sorted(d) /\ ShapesShown(r, o2, b) = Sorted(e)
  BY DEF ShapesShown
<1> HIDE DEF d, e
<1>6. \A order \in Bijection(1 .. Len(l), 1 .. Len(r)), c \in 1 .. Len(l) :
        order[c] \in 1 .. Len(r)
  BY BijectionInto
<1>7. Sorted(d) = Sorted(e) <=>
        \E order \in Bijection(1 .. Len(l), 1 .. Len(r)) :
          \A c \in 1 .. Len(l) : d[c] = e[order[c]]
  <2>1. Len(d) \in Nat /\ Len(e) \in Nat
    BY <1>1, <1>3
  <2>2. Sorted(d) = Sorted(e) <=>
          \E order \in Bijection(1 .. Len(d), 1 .. Len(e)) :
            \A c \in 1 .. Len(d) : d[c] = e[order[c]]
    BY <2>1, SortedMatch
  <2> QED BY <1>3, <2>2
<1> QED BY <1>2, <1>4, <1>5, <1>6, <1>7

\* The corners are what is met on the way round.
LEMMA CornersMet ==
  ASSUME NEW z \in Seq(Point), z # << >>, NEW y
  PROVE  y \in Corners(z) <=> \E x \in Int : At(z, x) = y
<1>1. PICK n \in Nat \ {0} : n = Len(z)
  OBVIOUS
<1>2. ASSUME NEW x \in Int
      PROVE  At(z, x) \in Corners(z)
  <2>1. x % n \in 0 .. n - 1
    BY <1>1
  <2>2. (x % n) + 1 \in 1 .. Len(z)
    BY <1>1, <2>1
  <2> QED BY <1>1, <2>2 DEF At, Corners
<1>3. ASSUME NEW c \in 1 .. n
      PROVE  c - 1 \in Int /\ z[c] = At(z, c - 1)
  <2>1. c - 1 = n * 0 + (c - 1) /\ c - 1 \in 0 .. n - 1 /\ c - 1 \in Int /\ 0 \in Int
    BY <1>1
  <2>2. (c - 1) % n = c - 1
    BY <2>1, ModIs
  <2>3. (c - 1) + 1 = c
    OBVIOUS
  <2> QED BY <1>1, <2>1, <2>2, <2>3 DEF At
<1>4. y \in Corners(z) => \E x \in Int : At(z, x) = y
  <2> HAVE y \in Corners(z)
  <2>1. PICK c \in 1 .. n : z[c] = y
    BY <1>1 DEF Corners
  <2> QED BY <1>3, <2>1
<1> QED BY <1>2, <1>4

\* A walk meets corners of its ring only.
LEMMA FollowsCorners ==
  ASSUME NEW p \in Seq(Point), p # << >>, NEW q \in Seq(Point), q # << >>, Follows(q, p)
  PROVE  Corners(q) \subseteq Corners(p)
<1> SUFFICES ASSUME NEW y \in Corners(q)
             PROVE  y \in Corners(p)
  OBVIOUS
<1>1. PICK x \in Int : At(q, x) = y
  BY CornersMet
<1>2. PICK c \in Int : At(q, x) = At(p, c + x) \/ At(q, x) = At(p, c - x)
  BY DEF Follows
<1>3. c + x \in Int /\ c - x \in Int
  OBVIOUS
<1>4. \E e \in Int : At(p, e) = y
  BY <1>1, <1>2, <1>3
<1> QED BY <1>4, CornersMet

\* The repeated vertex adds no corner.
LEMMA OpenedCorners ==
  ASSUME NEW z \in Seq(Point), z # << >>
  PROVE  Corners(Opened(z)) = Corners(z)
<1>1. Len(z) \in Nat \ {0}
  OBVIOUS
<1>2. CASE Len(z) > 1 /\ z[1] = z[Len(z)]
  <2>1. Opened(z) = SubSeq(z, 1, Len(z) - 1)
    BY <1>2 DEF Opened
  <2>2. /\ Len(SubSeq(z, 1, Len(z) - 1)) = Len(z) - 1
        /\ \A c \in 1 .. Len(z) - 1 : SubSeq(z, 1, Len(z) - 1)[c] = z[c]
    BY <1>1, <1>2
  <2>3. 1 \in 1 .. Len(z) - 1
    BY <1>1, <1>2
  <2> QED BY <1>1, <1>2, <2>1, <2>2, <2>3 DEF Corners
<1>3. CASE ~(Len(z) > 1 /\ z[1] = z[Len(z)])
  BY <1>3 DEF Opened
<1> QED BY <1>2, <1>3

\* A ring has the same corners however it is listed.
LEMMA SameRingCorners ==
  ASSUME NEW u \in Seq(Point), u # << >>, NEW w \in Seq(Point), w # << >>, SameRing(u, w)
  PROVE  Corners(u) = Corners(w)
<1> DEFINE p == Opened(u)
           q == Opened(w)
<1>3. p \in Seq(Point) /\ p # << >> /\ q \in Seq(Point) /\ q # << >>
  BY OpenedTyped
<1>4. Follows(q, p)
  BY <1>3, WalksAre DEF SameRing, Walks
<1>5. Follows(p, q)
  BY <1>4, FollowsBack
<1> HIDE DEF p, q
<1>6. Corners(p) = Corners(q)
  <2>1. Corners(p) \subseteq Corners(q)
    BY <1>3, <1>5, FollowsCorners
  <2>2. Corners(q) \subseteq Corners(p)
    BY <1>3, <1>4, FollowsCorners
  <2> QED BY <2>1, <2>2
<1>7. Corners(p) = Corners(u) /\ Corners(q) = Corners(w)
  BY OpenedCorners DEF p, q
<1> QED BY <1>6, <1>7

\* What is carried has its corners carried.
LEMMA MarkerCornersCarried ==
  ASSUME NEW o \in Orientations, NEW v \in Point,
         NEW m \in MarkerRecords, NEW q \in MarkerRecords, CarriesMarker(Then(o, v), m, q)
  PROVE  \A y : y \in Corners(q.points) <=> \E z \in Corners(m.points) : Apply(Then(o, v), z) = y
<1> DEFINE w == Image(Then(o, v), m.points)
<1>1. m.points \in Seq(Point) /\ m.points # << >> /\ q.points \in Seq(Point) /\ q.points # << >>
  BY DEF MarkerRecords, Outlines, Point
<1>2. Len(m.points) \in Nat \ {0} /\ Len(q.points) \in Nat
      /\ \A c \in 1 .. Len(m.points) : m.points[c] \in Point
  BY <1>1
<1>3. \A c \in 1 .. Len(m.points) : Apply(Then(o, v), m.points[c]) \in Point
  BY <1>2, ThenIs, AppliedIs
<1>4. /\ w \in Seq(Point) /\ Len(w) = Len(m.points) /\ w # << >>
      /\ \A c \in 1 .. Len(w) : w[c] = Apply(Then(o, v), m.points[c])
  BY <1>2, <1>3 DEF Image
<1> HIDE DEF w
<1>5. Corners(w) = Corners(q.points)
  <2>1. CASE m.kind = "polygon"
    <3>1. SameRing(w, q.points)
      BY <2>1 DEF CarriesMarker, w, Image
    <3> QED BY <1>1, <1>4, <3>1, SameRingCorners
  <2>2. CASE m.kind # "polygon"
    <3>1. SamePoints(w, q.points)
      BY <2>2 DEF CarriesMarker, w, Image, SamePoints
    <3>2. PICK order \in Bijection(1 .. Len(w), 1 .. Len(q.points)) :
            \A c \in 1 .. Len(w) : w[c] = q.points[order[c]]
      BY <3>1 DEF SamePoints, Matches
    <3> DEFINE I == 1 .. Len(w)
               J == 1 .. Len(q.points)
    <3>3. /\ \A c \in I : order[c] \in J
          /\ \A d \in J : \E c \in I : order[c] = d
      <4>1. order \in Bijection(I, J)
        OBVIOUS
      <4> HIDE DEF I, J
      <4> QED BY <4>1, BijectionInto
    <3>4. \A y \in Corners(w) : y \in Corners(q.points)
      BY <3>2, <3>3 DEF Corners
    <3>5. \A y \in Corners(q.points) : y \in Corners(w)
      <4> TAKE y \in Corners(q.points)
      <4>1. PICK d \in J : q.points[d] = y
        BY DEF Corners
      <4>2. PICK c \in I : order[c] = d
        BY <3>3
      <4>3. w[c] = y
        BY <3>2, <4>1, <4>2
      <4> QED BY <4>3 DEF Corners
    <3> QED BY <3>4, <3>5
  <2> QED BY <2>1, <2>2
<1> QED BY <1>4, <1>5 DEF Corners

\* The points of all markers together are carried.
LEMMA MarkerPointsCarried ==
  ASSUME NEW o \in Orientations, NEW v \in Point,
         NEW l \in Seq(MarkerRecords), NEW r \in Seq(MarkerRecords),
         MarkersCarried(Then(o, v), l, r)
  PROVE  \A y : y \in MarkerPoints(r) <=> \E z \in MarkerPoints(l) : Apply(Then(o, v), z) = y
<1>1. PICK order \in Bijection(1 .. Len(l), 1 .. Len(r)) :
        \A c \in 1 .. Len(l) : CarriesMarker(Then(o, v), l[c], r[order[c]])
  BY DEF MarkersCarried, Matches
<1> DEFINE I == 1 .. Len(l)
           J == 1 .. Len(r)
<1>2. /\ \A c \in I : order[c] \in J
      /\ \A d \in J : \E c \in I : order[c] = d
  <2>1. order \in Bijection(I, J)
    OBVIOUS
  <2> HIDE DEF I, J
  <2> QED BY <2>1, BijectionInto
<1>3. /\ \A c \in 1 .. Len(l) : l[c] \in MarkerRecords
      /\ \A d \in 1 .. Len(r) : r[d] \in MarkerRecords
  OBVIOUS
<1>4. \A c \in 1 .. Len(l) : \A y :
        y \in Corners(r[order[c]].points) <=>
          \E z \in Corners(l[c].points) : Apply(Then(o, v), z) = y
  BY <1>1, <1>2, <1>3, MarkerCornersCarried
<1>5. \A y : /\ y \in MarkerPoints(l) <=> \E c \in 1 .. Len(l) : y \in Corners(l[c].points)
             /\ y \in MarkerPoints(r) <=> \E c \in 1 .. Len(r) : y \in Corners(r[c].points)
  BY DEF MarkerPoints
<1> SUFFICES ASSUME NEW y
             PROVE  y \in MarkerPoints(r) <=> \E z \in MarkerPoints(l) : Apply(Then(o, v), z) = y
  OBVIOUS
<1>6. ASSUME y \in MarkerPoints(r)
      PROVE  \E z \in MarkerPoints(l) : Apply(Then(o, v), z) = y
  <2>1. PICK d \in 1 .. Len(r) : y \in Corners(r[d].points)
    BY <1>5, <1>6
  <2>2. PICK c \in 1 .. Len(l) : order[c] = d
    BY <1>2
  <2>3. PICK z \in Corners(l[c].points) : Apply(Then(o, v), z) = y
    BY <1>4, <2>1, <2>2
  <2> QED BY <1>5, <2>3
<1>7. ASSUME NEW z \in MarkerPoints(l), Apply(Then(o, v), z) = y
      PROVE  y \in MarkerPoints(r)
  <2>1. PICK c \in 1 .. Len(l) : z \in Corners(l[c].points)
    BY <1>5, <1>7
  <2>2. y \in Corners(r[order[c]].points) /\ order[c] \in 1 .. Len(r)
    BY <1>2, <1>4, <1>7, <2>1
  <2> QED BY <1>5, <2>2
<1> QED BY <1>6, <1>7

\* The corner of the markers moves with them.
LEMMA CornerMoves ==
  ASSUME NEW P \in SUBSET Point, P # {}, IsFiniteSet(P), NEW d \in Point, NEW Q,
         \A y : y \in Q <=> \E p \in P : y = Sum(p, d)
  PROVE  /\ << Lowest(Xs(P)), Lowest(Ys(P)) >> \in Point
         /\ << Lowest(Xs(Q)), Lowest(Ys(Q)) >> = Sum(<< Lowest(Xs(P)), Lowest(Ys(P)) >>, d)
<1>1. /\ Xs(P) \in SUBSET Int /\ Lowest(Xs(P)) \in Xs(P) /\ \A x \in Xs(P) : Lowest(Xs(P)) =< x
      /\ Ys(P) \in SUBSET Int /\ Lowest(Ys(P)) \in Ys(P) /\ \A x \in Ys(P) : Lowest(Ys(P)) =< x
  BY CoordinatesFinite, LowestIs
<1>2. d[1] \in Int /\ d[2] \in Int
  BY DEF Point
<1>3. \A p : Sum(p, d)[1] = p[1] + d[1] /\ Sum(p, d)[2] = p[2] + d[2]
  BY DEF Sum
<1>4. \A x : x \in Xs(Q) <=> \E p \in P : x = p[1] + d[1]
  BY <1>3 DEF Xs
<1>5. \A x : x \in Ys(Q) <=> \E p \in P : x = p[2] + d[2]
  BY <1>3 DEF Ys
<1>6. /\ \A p \in P : p[1] \in Xs(P) /\ p[2] \in Ys(P)
      /\ \E p \in P : p[1] = Lowest(Xs(P))
      /\ \E p \in P : p[2] = Lowest(Ys(P))
  BY <1>1 DEF Xs, Ys
<1> DEFINE x0 == Lowest(Xs(P))
           y0 == Lowest(Ys(P))
<1>7. x0 \in Int /\ y0 \in Int
  BY <1>1
<1> HIDE DEF x0, y0
<1>8. Lowest(Xs(Q)) = x0 + d[1]
  <2>1. x0 + d[1] \in Xs(Q)
    BY <1>4, <1>6 DEF x0
  <2>2. \A x \in Xs(Q) : x \in Int /\ x0 + d[1] =< x
    <3> TAKE x \in Xs(Q)
    <3>1. PICK p \in P : x = p[1] + d[1]
      BY <1>4
    <3>2. p[1] \in Int /\ x0 =< p[1]
      BY <1>1, <1>6 DEF x0
    <3> QED BY <1>2, <1>7, <3>1, <3>2
  <2> QED BY <2>1, <2>2, LowestOnly
<1>9. Lowest(Ys(Q)) = y0 + d[2]
  <2>1. y0 + d[2] \in Ys(Q)
    BY <1>5, <1>6 DEF y0
  <2>2. \A x \in Ys(Q) : x \in Int /\ y0 + d[2] =< x
    <3> TAKE x \in Ys(Q)
    <3>1. PICK p \in P : x = p[2] + d[2]
      BY <1>5
    <3>2. p[2] \in Int /\ y0 =< p[2]
      BY <1>1, <1>6 DEF y0
    <3> QED BY <1>2, <1>7, <3>1, <3>2
  <2> QED BY <2>1, <2>2, LowestOnly
<1> QED BY <1>7, <1>8, <1>9 DEF Sum, Point, x0, y0

\* The corner from which the second document measures is the one of the first
\* document, moved as the markers are.
LEMMA OriginMoves ==
  ASSUME NEW o1 \in Orientations, NEW o2 \in Orientations, NEW o \in Orientations,
         Composed(o1, o2, o), NEW v \in Point,
         NEW l \in Seq(MarkerRecords), l # << >>, NEW r \in Seq(MarkerRecords),
         MarkersCarried(Then(o, v), l, r)
  PROVE  Origin(r, o2) = Sum(Origin(l, o1), Apply(o2, v))
<1> DEFINE h == [p \in MarkerPoints(l) |-> Apply(o1, p)]
           P == {h[p] : p \in MarkerPoints(l)}
           Q == {Apply(o2, p) : p \in MarkerPoints(r)}
           d == Apply(o2, v)
<1>1. MarkerPoints(l) \in SUBSET Point /\ MarkerPoints(l) # {} /\ IsFiniteSet(MarkerPoints(l))
  BY MarkerPointsFinite
<1>2. \A p \in MarkerPoints(l) : h[p] = Apply(o1, p) /\ h[p] \in Point /\ h[p] \in P
  BY <1>1, ThenIs
<1>3. IsFiniteSet(P)
  <2>1. DOMAIN h = MarkerPoints(l)
    OBVIOUS
  <2> HIDE DEF h
  <2> QED BY <1>1, <2>1, ImageFinite
<1>4. P \in SUBSET Point /\ P # {} /\ d \in Point
  BY <1>1, <1>2, ThenIs
<1>5. \A p \in MarkerPoints(l) : Apply(o2, Apply(Then(o, v), p)) = Sum(h[p], d)
  <2> TAKE p \in MarkerPoints(l)
  <2>1. p \in Point /\ Apply(o, p) \in Point
    BY <1>1, ThenIs
  <2>2. Apply(Then(o, v), p) = Sum(Apply(o, p), v)
    BY <2>1, ThenIs
  <2>3. Apply(o2, Sum(Apply(o, p), v)) = Sum(Apply(o2, Apply(o, p)), Apply(o2, v))
    BY <2>1, OrientationLinear
  <2>4. Apply(o2, Apply(o, p)) = Apply(o1, p)
    BY <2>1, ActsComposed
  <2> QED BY <1>2, <2>2, <2>3, <2>4
<1>6. \A y : y \in MarkerPoints(r) <=> \E z \in MarkerPoints(l) : Apply(Then(o, v), z) = y
  BY MarkerPointsCarried
<1>7. P = {Apply(o1, p) : p \in MarkerPoints(l)}
  BY <1>2
<1>8. Origin(l, o1) = << Lowest(Xs(P)), Lowest(Ys(P)) >>
  BY <1>7 DEF Origin
<1>9. Origin(r, o2) = << Lowest(Xs(Q)), Lowest(Ys(Q)) >>
  BY DEF Origin
<1>10. \A y : y \in Q <=> \E p \in P : y = Sum(p, d)
  <2> SUFFICES ASSUME NEW y
               PROVE  y \in Q <=> \E p \in P : y = Sum(p, d)
    OBVIOUS
  <2>1. y \in Q <=> \E q \in MarkerPoints(r) : y = Apply(o2, q)
    OBVIOUS
  <2>2. \A p : p \in P <=> \E z \in MarkerPoints(l) : p = h[z]
    OBVIOUS
  <2> HIDE DEF h, P, Q, d
  <2> QED BY <1>5, <1>6, <2>1, <2>2
<1> HIDE DEF P, Q, d
<1>11. << Lowest(Xs(Q)), Lowest(Ys(Q)) >> = Sum(<< Lowest(Xs(P)), Lowest(Ys(P)) >>, d)
  BY <1>3, <1>4, <1>10, CornerMoves
<1> QED BY <1>8, <1>9, <1>11 DEF d

\* The corner of the markers is a point.
LEMMA OriginTyped ==
  ASSUME NEW o \in Orientations, NEW l \in Seq(MarkerRecords), l # << >>
  PROVE  Origin(l, o) \in Point
<1> DEFINE h == [p \in MarkerPoints(l) |-> Apply(o, p)]
           P == {h[p] : p \in MarkerPoints(l)}
<1>1. MarkerPoints(l) \in SUBSET Point /\ MarkerPoints(l) # {} /\ IsFiniteSet(MarkerPoints(l))
  BY MarkerPointsFinite
<1>2. \A p \in MarkerPoints(l) : h[p] = Apply(o, p) /\ h[p] \in Point /\ h[p] \in P
  <2>1. \A p \in MarkerPoints(l) : Apply(o, p) \in Point
    BY <1>1, AppliedIs, OrientationIsPlacement
  <2> QED BY <2>1
<1>3. IsFiniteSet(P)
  <2>1. DOMAIN h = MarkerPoints(l)
    OBVIOUS
  <2> HIDE DEF h
  <2> QED BY <1>1, <2>1, ImageFinite
<1>4. P \in SUBSET Point /\ P # {}
  BY <1>1, <1>2
<1>5. P = {Apply(o, p) : p \in MarkerPoints(l)}
  BY <1>2
<1>6. Origin(l, o) = << Lowest(Xs(P)), Lowest(Ys(P)) >>
  BY <1>5 DEF Origin
<1> HIDE DEF P
<1>7. /\ Xs(P) \in SUBSET Int /\ Lowest(Xs(P)) \in Xs(P)
      /\ Ys(P) \in SUBSET Int /\ Lowest(Ys(P)) \in Ys(P)
  BY <1>3, <1>4, CoordinatesFinite, LowestIs
<1> QED BY <1>6, <1>7 DEF Point

\* The documents in the orientations o1 and o2 are equal exactly if what takes
\* one orientation to the other, and a displacement, carry everything.
LEMMA PayloadCarries ==
  ASSUME NEW f \in Findings, NEW n \in Neighborhoods, f.geometries # << >>,
         NEW g \in Findings, NEW m \in Neighborhoods,
         NEW o1 \in Orientations, NEW o2 \in Orientations, NEW o \in Orientations,
         Composed(o1, o2, o), g.geometries # << >>
  PROVE  Payload(f, n, o1) = Payload(g, m, o2) <=> Carries(o, f, n, g, m)
<1> DEFINE L == Markers(f, n.placement)
           R == Markers(g, m.placement)
           S == n.shapes
           T == m.shapes
           a == Origin(L, o1)
           b == Origin(R, o2)
           Carried(v) == MarkersCarried(Then(o, v), L, R) /\ ShapesCarried(Then(o, v), S, T)
           Equal == Payload(f, n, o1) = Payload(g, m, o2)
<1>1. /\ n.placement \in Placements /\ S \in Seq(ShapeRecords)
      /\ m.placement \in Placements /\ T \in Seq(ShapeRecords)
  BY DEF Neighborhoods, ShapeRecords
<1>2. L \in Seq(MarkerRecords) /\ L # << >> /\ R \in Seq(MarkerRecords) /\ R # << >>
  <2>1. /\ L \in Seq(MarkerRecords) /\ Len(L) = Len(f.geometries)
        /\ R \in Seq(MarkerRecords) /\ Len(R) = Len(g.geometries)
    BY <1>1, MarkersTyped
  <2>2. f.geometries \in Seq(Geometries) /\ g.geometries \in Seq(Geometries)
    BY PhysicalAssumption
  <2>3. Len(f.geometries) # 0 /\ Len(g.geometries) # 0
    BY <2>2
  <2> HIDE DEF L, R
  <2> QED BY <2>1, <2>3
<1>3. a \in Point /\ b \in Point
  <2> HIDE DEF L, R
  <2> QED BY <1>2, OriginTyped
<1>4. /\ Payload(f, n, o1) =
           [markers |-> MarkersShown(L, o1, a), shapes |-> ShapesShown(S, o1, a)]
      /\ Payload(g, m, o2) =
           [markers |-> MarkersShown(R, o2, b), shapes |-> ShapesShown(T, o2, b)]
  BY DEF Payload, MarkersShown, ShapesShown
<1>5. Equal <=> /\ MarkersShown(L, o1, a) = MarkersShown(R, o2, b)
                /\ ShapesShown(S, o1, a) = ShapesShown(T, o2, b)
  <2> HIDE DEF L, R, S, T, a, b
  <2> QED BY <1>4
<1>6. Carries(o, f, n, g, m) <=>
        \E p \in MarkerPoints(L), q \in MarkerPoints(R) : Carried(Difference(q, Apply(o, p)))
  <2>1. \A p, q : Then(o, Difference(q, Apply(o, p))) =
                    [o EXCEPT !.dx = q[1] - Apply(o, p)[1], !.dy = q[2] - Apply(o, p)[2]]
    BY DEF Then, Difference
  <2>2. \A p, q : Carried(Difference(q, Apply(o, p))) <=>
          LET t == [o EXCEPT !.dx = q[1] - Apply(o, p)[1], !.dy = q[2] - Apply(o, p)[2]] IN
          MarkersCarried(t, L, R) /\ ShapesCarried(t, S, T)
    BY <2>1
  <2>3. Carries(o, f, n, g, m) <=>
          \E p \in MarkerPoints(L), q \in MarkerPoints(R) :
            LET t == [o EXCEPT !.dx = q[1] - Apply(o, p)[1], !.dy = q[2] - Apply(o, p)[2]] IN
            MarkersCarried(t, L, R) /\ ShapesCarried(t, S, T)
    BY Zenon DEF Carries, MarkersCarried, ShapesCarried
  <2> HIDE DEF L, R, S, T, Carried
  <2> QED BY <2>2, <2>3
<1> HIDE DEF L, R, S, T, a, b, Equal
<1>7. ASSUME NEW v \in Point, b = Sum(a, Apply(o2, v))
      PROVE  Equal <=> Carried(v)
  <2>1. Aligned(o1, o2, o, v, a, b)
    BY <1>3, <1>7 DEF Aligned
  <2> QED BY <1>1, <1>2, <1>5, <2>1, MarkersAligned, ShapesAligned
<1>8. /\ MarkerPoints(L) \in SUBSET Point /\ MarkerPoints(L) # {}
      /\ MarkerPoints(R) \in SUBSET Point
  BY <1>2, MarkerPointsFinite
<1>9. ASSUME Equal
      PROVE  \E p \in MarkerPoints(L), q \in MarkerPoints(R) :
               Carried(Difference(q, Apply(o, p)))
  <2>1. Difference(b, a) \in Point /\ b = Sum(a, Difference(b, a))
    <3>1. PICK x \in Int, y \in Int, c \in Int, d \in Int : a = << x, y >> /\ b = << c, d >>
      BY <1>3 DEF Point
    <3>2. x + (c - x) = c /\ y + (d - y) = d
      OBVIOUS
    <3> QED BY <3>1, <3>2 DEF Difference, Sum, Point
  <2>2. PICK v \in Point : Apply(o2, v) = Difference(b, a)
    BY <2>1, OrientationLinear
  <2>3. Carried(v)
    BY <1>7, <1>9, <2>1, <2>2
  <2>4. PICK p \in MarkerPoints(L) : TRUE
    BY <1>8
  <2>5. Apply(Then(o, v), p) \in MarkerPoints(R)
    BY <1>2, <2>3, MarkerPointsCarried
  <2>6. p \in Point /\ Apply(o, p) \in Point /\ Apply(Then(o, v), p) = Sum(Apply(o, p), v)
    BY <1>8, ThenIs
  <2>7. Difference(Sum(Apply(o, p), v), Apply(o, p)) = v
    <3>1. PICK x \in Int, y \in Int, c \in Int, d \in Int :
            Apply(o, p) = << x, y >> /\ v = << c, d >>
      BY <2>6 DEF Point
    <3>2. (x + c) - x = c /\ (y + d) - y = d
      OBVIOUS
    <3> QED BY <3>1, <3>2 DEF Difference, Sum
  <2> QED BY <2>3, <2>5, <2>6, <2>7
<1>10. ASSUME NEW p \in MarkerPoints(L), NEW q \in MarkerPoints(R),
              Carried(Difference(q, Apply(o, p)))
       PROVE  Equal
  <2>1. p \in Point /\ q \in Point /\ Apply(o, p) \in Point
    BY <1>8, ThenIs
  <2>2. Difference(q, Apply(o, p)) \in Point
    <3>1. \A x, y \in Point : Difference(x, y) \in Point
      BY DEF Difference, Point
    <3> QED BY <2>1, <3>1
  <2>3. b = Sum(a, Apply(o2, Difference(q, Apply(o, p))))
    BY <1>2, <1>10, <2>2, OriginMoves DEF a, b
  <2> QED BY <1>7, <1>10, <2>2, <2>3
<1> QED BY <1>6, <1>9, <1>10 DEF Equal

\* Nothing turned twice is nothing turned.
LEMMA AsPlacedIs == AsPlaced \in Orientations /\ Composed(AsPlaced, AsPlaced, AsPlaced)
<1>1. AsPlaced \in Orientations
  <2>1. \A r \in 0 .. 3, m \in BOOLEAN :
          [rotation |-> r, mirror |-> m, dx |-> 0, dy |-> 0] \in Orientations
    BY DEF Orientations
  <2>2. 0 \in 0 .. 3 /\ FALSE \in BOOLEAN
    OBVIOUS
  <2> QED BY <2>1, <2>2 DEF AsPlaced
<1>2. /\ AsPlaced.rotation = 0 /\ AsPlaced.mirror = FALSE
      /\ (0 + 0) % 4 = 0
  BY DEF AsPlaced
<1> QED BY <1>1, <1>2 DEF Composed

\* Equal context hashes: one neighborhood is the other one moved.
LEMMA ContextCarries ==
  ASSUME NEW f \in Findings, NEW n \in Neighborhoods, f.geometries # << >>,
         NEW g \in Findings, NEW m \in Neighborhoods, g.geometries # << >>
  PROVE  ContextHash(f, n) = ContextHash(g, m) <=> Carries(AsPlaced, f, n, g, m)
BY AsPlacedIs, PayloadCarries DEF ContextHash

\* Equal transform hashes: one neighborhood is the other one turned, mirrored
\* and moved.  Two neighborhoods share all eight documents or none.
LEMMA TransformCarries ==
  ASSUME NEW f \in Findings, NEW n \in Neighborhoods, f.geometries # << >>,
         NEW g \in Findings, NEW m \in Neighborhoods, g.geometries # << >>
  PROVE  TransformHash(f, n) = TransformHash(g, m) <=>
           \E o \in Orientations : Carries(o, f, n, g, m)
<1> DEFINE P == {Payload(f, n, o) : o \in Orientations}
           Q == {Payload(g, m, o) : o \in Orientations}
<1>1. \A o1, o2, o \in Orientations : Composed(o1, o2, o) =>
        (Payload(f, n, o1) = Payload(g, m, o2) <=> Carries(o, f, n, g, m))
  BY PayloadCarries
<1>2. TransformHash(f, n) = (CHOOSE p \in P : TRUE) /\ TransformHash(g, m) = CHOOSE p \in Q : TRUE
  BY DEF TransformHash
<1>3. P # {} /\ Q # {}
  BY AsPlacedIs
<1>4. ASSUME TransformHash(f, n) = TransformHash(g, m)
      PROVE  \E o \in Orientations : Carries(o, f, n, g, m)
  <2>1. TransformHash(f, n) \in P /\ TransformHash(g, m) \in Q
    <3> HIDE DEF P, Q
    <3> QED BY <1>2, <1>3
  <2>2. PICK o1 \in Orientations, o2 \in Orientations : Payload(f, n, o1) = Payload(g, m, o2)
    BY <1>4, <2>1
  <2>3. PICK o \in Orientations : Composed(o1, o2, o)
    BY Composition
  <2> QED BY <1>1, <2>2, <2>3
<1>5. ASSUME NEW o \in Orientations, Carries(o, f, n, g, m)
      PROVE  TransformHash(f, n) = TransformHash(g, m)
  <2>1. ASSUME NEW o1 \in Orientations
        PROVE  Payload(f, n, o1) \in Q
    <3>1. PICK o2 \in Orientations : Composed(o1, o2, o)
      BY Composition
    <3> QED BY <1>1, <1>5, <3>1
  <2>2. ASSUME NEW o2 \in Orientations
        PROVE  Payload(g, m, o2) \in P
    <3>1. PICK o1 \in Orientations : Composed(o1, o2, o)
      BY Composition
    <3>2. Payload(g, m, o2) = Payload(f, n, o1)
      BY <1>1, <1>5, <3>1
    <3> QED BY <3>2
  <2>3. P = Q
    <3>1. \A x \in P : x \in Q
      BY <2>1
    <3>2. \A x \in Q : x \in P
      BY <2>2
    <3> HIDE DEF P, Q
    <3> QED BY <3>1, <3>2
  <2> HIDE DEF P, Q
  <2> QED BY <1>2, <2>3
<1> QED BY <1>4, <1>5

------------------------------------------------------------------------------
(* The invariant *)

\* The imported run r binds every finding to the neighborhood it retains, and
\* nothing about them was refused.
RunIsBound(run) ==
  /\ run.targets \in [Findings -> Neighborhoods]
  /\ \A f \in Findings : Acceptable(f, run.targets[f])
  /\ run.violations = {Bound(f, run.targets[f]) : f \in Findings}

PhysicalInv ==
  /\ layout \in [Findings -> Neighborhoods]
  /\ extraction # None => extraction.targets \in [Findings -> Neighborhoods]
  /\ DOMAIN stored = Reports
  /\ \A r \in Reports : stored[r] # None => RunIsBound(stored[r])

\* A violation of a bound run is that of its finding.
LEMMA BindingIs ==
  ASSUME NEW run, RunIsBound(run), NEW f \in Findings
  PROVE  /\ ContextOf(run, f) = ContextHash(f, run.targets[f])
         /\ Bound(f, run.targets[f]) \in run.violations
         /\ run.targets[f] \in Neighborhoods /\ Acceptable(f, run.targets[f])
         /\ f.geometries # << >>
<1>1. /\ run.targets[f] \in Neighborhoods /\ Acceptable(f, run.targets[f])
      /\ Bound(f, run.targets[f]) \in run.violations
  BY DEF RunIsBound
<1>2. f.geometries # << >>
  BY <1>1 DEF Acceptable
<1>3. \A g : /\ Bound(g, run.targets[g]).finding = g
             /\ Bound(g, run.targets[g]).context = ContextHash(g, run.targets[g])
  BY DEF Bound
<1>4. \A e \in run.violations : e.finding = f => e.context = ContextHash(f, run.targets[f])
  BY <1>3 DEF RunIsBound
<1>5. \E e \in run.violations : e.finding = f
  BY <1>1, <1>3
<1> DEFINE e == CHOOSE x \in run.violations : x.finding = f
<1>6. e \in run.violations /\ e.finding = f
  BY <1>5
<1> QED BY <1>1, <1>2, <1>4, <1>6 DEF ContextOf

\* Contexts are geometry.
LEMMA ContextHolds == PhysicalInv => ContextIsGeometry
<1> SUFFICES ASSUME PhysicalInv, Both, NEW f \in Findings, NEW g \in Findings
             PROVE  ContextOf(stored["before"], f) = ContextOf(stored["after"], g)
                      <=> Carries(AsPlaced, f, Around("before", f), g, Around("after", g))
  BY DEF ContextIsGeometry
<1>1. RunIsBound(stored["before"]) /\ RunIsBound(stored["after"])
  BY DEF PhysicalInv, Both, Reports
<1> QED BY <1>1, BindingIs, ContextCarries DEF Around

\* Correspondences are congruences.
LEMMA CongruenceHolds == PhysicalInv => CorrespondenceIsCongruence
<1> SUFFICES ASSUME PhysicalInv, Both, NEW f \in Findings, NEW g \in Findings
             PROVE  << f, g >> \in Hits(stored["before"], stored["after"]) <=> Congruent(f, g)
  BY DEF CorrespondenceIsCongruence
<1> DEFINE old == stored["before"]
           new == stored["after"]
           Key(run, h) ==
             [finding |-> h, rule |-> h.rule, hash |-> TransformHash(h, run.targets[h])]
<1>1. RunIsBound(old) /\ RunIsBound(new)
  BY DEF PhysicalInv, Both, Reports
<1>2. TransformHash(f, old.targets[f]) = TransformHash(g, new.targets[g]) <=>
        \E o \in Orientations : Carries(o, f, Around("before", f), g, Around("after", g))
  BY <1>1, BindingIs, TransformCarries DEF Around
<1> HIDE DEF old, new
<1>3. \A run : Keys(run) = {Key(run, h) : h \in Findings}
  BY DEF Keys
<1>4. \A run, h : /\ Key(run, h).finding = h /\ Key(run, h).rule = h.rule
                  /\ Key(run, h).hash = TransformHash(h, run.targets[h])
  OBVIOUS
<1> HIDE DEF Key
<1>5. \A run : \A x \in Keys(run) : x.finding \in Findings /\ x = Key(run, x.finding)
  BY <1>3, <1>4
<1>6. Key(old, f) \in Keys(old) /\ Key(new, g) \in Keys(new)
  BY <1>3
<1>7. << f, g >> \in Hits(old, new) <=>
        \E x \in Keys(old), y \in Keys(new) :
          x.rule = y.rule /\ x.hash = y.hash /\ x.finding = f /\ y.finding = g
  <2> DEFINE equal == {pair \in Keys(old) \X Keys(new) :
                        pair[1].rule = pair[2].rule /\ pair[1].hash = pair[2].hash}
  <2>1. Hits(old, new) = {<< pair[1].finding, pair[2].finding >> : pair \in equal}
    BY DEF Hits
  <2>2. \A pair : pair \in equal <=>
          \E x \in Keys(old), y \in Keys(new) :
            pair = << x, y >> /\ x.rule = y.rule /\ x.hash = y.hash
    OBVIOUS
  <2> HIDE DEF equal
  <2>3. << f, g >> \in Hits(old, new) <=>
          \E pair \in equal : pair[1].finding = f /\ pair[2].finding = g
    BY <2>1
  <2>4. ASSUME NEW pair \in equal, pair[1].finding = f, pair[2].finding = g
        PROVE  \E x \in Keys(old), y \in Keys(new) :
                 x.rule = y.rule /\ x.hash = y.hash /\ x.finding = f /\ y.finding = g
    <3>1. PICK x \in Keys(old), y \in Keys(new) :
            pair = << x, y >> /\ x.rule = y.rule /\ x.hash = y.hash
      BY <2>2
    <3>2. x.finding = f /\ y.finding = g
      BY <2>4, <3>1
    <3> QED BY <3>1, <3>2
  <2>5. ASSUME NEW x \in Keys(old), NEW y \in Keys(new),
               x.rule = y.rule, x.hash = y.hash, x.finding = f, y.finding = g
        PROVE  << f, g >> \in Hits(old, new)
    <3>1. << x, y >> \in equal
      BY <2>2, <2>5
    <3>2. << x, y >>[1].finding = f /\ << x, y >>[2].finding = g
      BY <2>5
    <3> QED BY <2>3, <3>1, <3>2
  <2> QED BY <2>3, <2>4, <2>5
<1>8. << f, g >> \in Hits(old, new) <=>
        f.rule = g.rule /\ TransformHash(f, old.targets[f]) = TransformHash(g, new.targets[g])
  BY <1>4, <1>5, <1>6, <1>7
<1> QED BY <1>2, <1>8 DEF Congruent, old, new

\* What is paired has no other partner.
LEMMA PairsHold == PhysicalInv => PairsAreOneToOne
<1> DEFINE hits == Hits(stored["before"], stored["after"])
           rows == Rows(stored["before"], stored["after"])
           partners == {pair \in Findings \X Findings : Congruent(pair[1], pair[2])}
<1> SUFFICES ASSUME PhysicalInv, Both, NEW g \in Findings,
                    rows[g] \in {"same_context", "transformed_context"}
             PROVE  \E f \in Findings :
                      {pair \in partners : pair[1] = f \/ pair[2] = g} = {<< f, g >>}
  BY DEF PairsAreOneToOne
<1>1. \A f, h \in Findings : << f, h >> \in hits <=> << f, h >> \in partners
  <2>1. \A f, h \in Findings : << f, h >> \in hits <=> Congruent(f, h)
    BY CongruenceHolds DEF CorrespondenceIsCongruence
  <2>2. \A f, h \in Findings : << f, h >> \in partners <=> Congruent(f, h)
    OBVIOUS
  <2> QED BY <2>1, <2>2
<1>2. rows[g] = IF Ambiguous(hits, g) THEN "ambiguous"
                ELSE IF HitsOf(hits, g) = {} THEN
                  IF \E f \in Findings : f.id = g.id THEN "context_changed" ELSE "no_correspondence"
                ELSE IF \E f \in HitsOf(hits, g) :
                          ContextOf(stored["before"], f) = ContextOf(stored["after"], g)
                  THEN "same_context" ELSE "transformed_context"
  BY DEF Rows
<1>3. \A pair \in partners : \E f, h \in Findings : pair = << f, h >>
  OBVIOUS
<1> HIDE DEF hits, rows, partners
<1>4. ~Ambiguous(hits, g) /\ HitsOf(hits, g) # {}
  BY <1>2
<1>5. PICK f \in Findings : f \in HitsOf(hits, g) /\ << f, g >> \in hits
  BY <1>4 DEF HitsOf
<1>6. \A e \in HitsOf(hits, g) : e = f
  <2>1. HitsOf(hits, g) \in SUBSET Findings
    BY DEF HitsOf
  <2>2. IsFiniteSet(HitsOf(hits, g)) /\ IsFiniteSet(Findings)
    BY <2>1, PhysicalAssumption, FS_Subset
  <2>3. Cardinality(HitsOf(hits, g)) \in Nat /\ ~(Cardinality(HitsOf(hits, g)) > 1)
    BY <1>4, <2>2, FS_CardinalityType DEF Ambiguous
  <2> SUFFICES ASSUME NEW e \in HitsOf(hits, g), e # f
               PROVE  FALSE
    OBVIOUS
  <2>4. {e, f} \in SUBSET HitsOf(hits, g)
    BY <1>5
  <2>5. Cardinality({e, f}) =< Cardinality(HitsOf(hits, g))
    BY <2>2, <2>4, FS_Subset
  <2>6. Cardinality({e, f}) = 2
    <3>1. IsFiniteSet({e}) /\ Cardinality({e}) = 1
      BY FS_Singleton
    <3>2. Cardinality({e} \cup {f}) = Cardinality({e}) + 1
      BY <3>1, FS_AddElement
    <3>3. {e, f} = {e} \cup {f}
      OBVIOUS
    <3> QED BY <3>1, <3>2, <3>3
  <2> QED BY <2>3, <2>5, <2>6
<1>7. \A h \in Findings : << f, h >> \in hits => h = g
  BY <1>4, <1>5 DEF Ambiguous, HitsOf
<1>8. \A e \in Findings : << e, g >> \in hits => e = f
  BY <1>6 DEF HitsOf
<1>9. << f, g >> \in partners
  BY <1>1, <1>5
<1>10. \A pair \in partners : pair[1] = f \/ pair[2] = g => pair = << f, g >>
  BY <1>1, <1>3, <1>7, <1>8
<1>11. << f, g >>[1] = f
  OBVIOUS
<1>12. {pair \in partners : pair[1] = f \/ pair[2] = g} = {<< f, g >>}
  BY <1>9, <1>10, <1>11
<1> QED BY <1>12

\* Stored runs verify with what they retain only.
LEMMA BindingsHold == PhysicalInv => RetainedManifestBinds
<1> SUFFICES ASSUME PhysicalInv, NEW r \in Reports, stored[r] # None
             PROVE  /\ Verifies(stored[r], stored[r].targets)
                    /\ \A q \in Reports :
                         stored[q] # None /\ Verifies(stored[r], stored[q].targets) =>
                           \A f \in Findings :
                             /\ Around(r, f).placement = Around(q, f).placement
                             /\ Carries(AsPlaced, f, Around(r, f), f, Around(q, f))
  BY DEF RetainedManifestBinds
<1>1. RunIsBound(stored[r])
  BY DEF PhysicalInv
<1>2. \A f, n : /\ Bound(f, n).finding = f /\ Bound(f, n).context = ContextHash(f, n)
                /\ Bound(f, n).contract = n.placement
  BY DEF Bound, Contract
<1>3. Verifies(stored[r], stored[r].targets)
  BY <1>1, <1>2 DEF RunIsBound, Verifies, Contract
<1>4. ASSUME NEW q \in Reports, stored[q] # None, Verifies(stored[r], stored[q].targets),
             NEW f \in Findings
      PROVE  /\ Around(r, f).placement = Around(q, f).placement
             /\ Carries(AsPlaced, f, Around(r, f), f, Around(q, f))
  <2>1. RunIsBound(stored[q])
    BY <1>4 DEF PhysicalInv
  <2>2. /\ Bound(f, Around(r, f)) \in stored[r].violations
        /\ Around(r, f) \in Neighborhoods /\ Around(q, f) \in Neighborhoods
        /\ f.geometries # << >>
    BY <1>1, <2>1, BindingIs DEF Around
  <2>3. /\ ContextHash(f, Around(r, f)) = ContextHash(f, Around(q, f))
        /\ Around(r, f).placement = Around(q, f).placement
    BY <1>2, <1>4, <2>2 DEF Verifies, Contract, Around
  <2> QED BY <2>2, <2>3, ContextCarries
<1> QED BY <1>3, <1>4

\* The property follows from the invariant.
LEMMA PhysicalInvHolds == PhysicalInv => PhysicalEvidenceHolds
BY ContextHolds, CongruenceHolds, PairsHold, BindingsHold DEF PhysicalEvidenceHolds

\* Nothing is extracted or imported at first.
LEMMA PhysicalInitial == PhysicalInit => PhysicalInv
BY PhysicalAssumption DEF PhysicalInit, PhysicalInv

------------------------------------------------------------------------------
(* The edits of designers *)

\* A placement that is turned and moved is a placement again.
LEMMA PlacementFollows ==
  ASSUME NEW p \in Placements, NEW q \in Placements
  PROVE  /\ Apply(p, << q.dx, q.dy >>) \in Point
         /\ \E o \in Orientations :
              \A z \in Point : Apply(Then(o, Apply(p, << q.dx, q.dy >>)), z) = Apply(p, Apply(q, z))
<1> DEFINE P == [rotation |-> p.rotation, mirror |-> p.mirror, dx |-> 0, dy |-> 0]
           Q == [rotation |-> q.rotation, mirror |-> q.mirror, dx |-> 0, dy |-> 0]
           v == << p.dx, p.dy >>
           w == << q.dx, q.dy >>
<1>1. P \in Orientations /\ Q \in Orientations /\ v \in Point /\ w \in Point
  BY DEF Placements, Orientations, Point
<1>2. p = Then(P, v) /\ q = Then(Q, w)
  <2>1. \A x, y \in Placements :
          /\ x.rotation = y.rotation /\ x.mirror = y.mirror /\ x.dx = y.dx /\ x.dy = y.dy
          => x = y
    BY DEF Placements
  <2>2. /\ P.rotation = p.rotation /\ P.mirror = p.mirror /\ v[1] = p.dx /\ v[2] = p.dy
        /\ Q.rotation = q.rotation /\ Q.mirror = q.mirror /\ w[1] = q.dx /\ w[2] = q.dy
    OBVIOUS
  <2> HIDE DEF P, Q, v, w
  <2>3. \A o \in Orientations, z \in Point :
          /\ Then(o, z) \in Placements /\ Then(o, z).rotation = o.rotation
          /\ Then(o, z).mirror = o.mirror /\ Then(o, z).dx = z[1] /\ Then(o, z).dy = z[2]
    <3> TAKE o \in Orientations, z \in Point
    <3>1. o \in Placements /\ z[1] \in Int /\ z[2] \in Int
      BY OrientationIsPlacement DEF Point
    <3> QED BY <3>1 DEF Then, Placements
  <2> QED BY <1>1, <2>1, <2>2, <2>3
<1> HIDE DEF P, Q, v, w
<1>3. PICK o \in Orientations : Composed(o, P, Q)
  BY <1>1, Composition
<1>4. Apply(p, w) \in Point /\ Apply(p, w) = Sum(Apply(P, w), v) /\ Apply(P, w) \in Point
  BY <1>1, <1>2, ThenIs, AppliedIs
<1>5. \A x, y \in Point : Sum(Sum(x, y), v) = Sum(x, Sum(y, v)) /\ Sum(x, y) \in Point
  <2> TAKE x, y \in Point
  <2>1. PICK a \in Int, b \in Int, c \in Int, d \in Int, e \in Int, m \in Int :
          x = << a, b >> /\ y = << c, d >> /\ v = << e, m >>
    BY <1>1 DEF Point
  <2>2. (a + c) + e = a + (c + e) /\ (b + d) + m = b + (d + m)
    OBVIOUS
  <2> QED BY <2>1, <2>2 DEF Sum, Point
<1>6. ASSUME NEW z \in Point
      PROVE  Apply(Then(o, Apply(p, w)), z) = Apply(p, Apply(q, z))
  <2>1. Apply(Q, z) \in Point /\ Apply(q, z) = Sum(Apply(Q, z), w) /\ Apply(q, z) \in Point
    BY <1>1, <1>2, ThenIs, AppliedIs
  <2>2. Apply(p, Apply(q, z)) = Sum(Apply(P, Sum(Apply(Q, z), w)), v)
    BY <1>1, <1>2, <2>1, ThenIs
  <2>3. Apply(P, Sum(Apply(Q, z), w)) = Sum(Apply(P, Apply(Q, z)), Apply(P, w))
    BY <1>1, <2>1, OrientationLinear
  <2>4. Apply(P, Apply(Q, z)) = Apply(o, z) /\ Apply(o, z) \in Point
    BY <1>1, <1>3, ActsComposed, ThenIs
  <2>5. Apply(Then(o, Apply(p, w)), z) = Sum(Apply(o, z), Apply(p, w))
    BY <1>4, ThenIs
  <2> QED BY <1>4, <1>5, <2>2, <2>3, <2>4, <2>5
<1> QED BY <1>4, <1>6 DEF w

\* Mapping the vertices of a shape leaves a shape.
LEMMA MappedTyped ==
  ASSUME NEW s \in ShapeRecords, NEW h \in [Point -> Point]
  PROVE  [s EXCEPT !.hull = [c \in DOMAIN s.hull |-> h[s.hull[c]]],
                   !.holes = [d \in DOMAIN s.holes |->
                               [c \in DOMAIN s.holes[d] |-> h[s.holes[d][c]]]]] \in ShapeRecords
<1>1. \A u \in Outlines : [c \in DOMAIN u |-> h[u[c]]] \in Outlines
  <2> TAKE u \in Outlines
  <2>1. u \in Seq(Point) /\ u # << >> /\ Along(h, u) \in Seq(Point) /\ Along(h, u) # << >>
    <3>1. u \in Seq(Point) /\ u # << >>
      BY DEF Outlines, Point
    <3> QED BY <3>1, AlongIs
  <2>2. [c \in DOMAIN u |-> h[u[c]]] = Along(h, u)
    BY <2>1 DEF Along
  <2> QED BY <2>1, <2>2 DEF Outlines, Point
<1>2. s.hull \in Outlines /\ s.holes \in Seq(Outlines) /\ s.layer \in STRING
  BY DEF ShapeRecords
<1>3. \A d \in DOMAIN s.holes : s.holes[d] \in Outlines
  BY <1>2
<1>4. [d \in DOMAIN s.holes |-> [c \in DOMAIN s.holes[d] |-> h[s.holes[d][c]]]] \in Seq(Outlines)
  <2> DEFINE e == [d \in DOMAIN s.holes |-> [c \in DOMAIN s.holes[d] |-> h[s.holes[d][c]]]]
  <2>1. \A d \in 1 .. Len(s.holes) : e[d] \in Outlines
    BY <1>1, <1>2, <1>3
  <2>2. /\ DOMAIN e = 1 .. Len(s.holes) /\ Len(s.holes) \in Nat
        /\ e = [d \in 1 .. Len(s.holes) |-> e[d]]
    BY <1>2
  <2> HIDE DEF e
  <2>3. e \in Seq(Outlines)
    BY <2>1, <2>2
  <2> QED BY <2>3 DEF e
<1>5. [c \in DOMAIN s.hull |-> h[s.hull[c]]] \in Outlines
  BY <1>1, <1>2
<1> QED BY <1>4, <1>5 DEF ShapeRecords

\* Layouts of neighborhoods stay so; what is stored does not depend on them.
LEMMA RedrawKeeps ==
  ASSUME PhysicalInv, NEW f \in Findings, NEW n \in Neighborhoods, Redraw(f, n)
  PROVE  PhysicalInv'
<1>1. layout' \in [Findings -> Neighborhoods]
  BY DEF PhysicalInv, Redraw
<1> QED BY <1>1 DEF PhysicalInv, Redraw, RunIsBound

\* Some placement among those that are considered shows every point where the
\* transform takes it.
LEMMA PlacementExists ==
  ASSUME NEW p \in Placements, NEW q \in Placements
  PROVE  LET placements == {[o EXCEPT !.dx = Apply(p, << q.dx, q.dy >>)[1],
                                      !.dy = Apply(p, << q.dx, q.dy >>)[2]] : o \in Orientations}
             same(r) == \A point \in {<< 0, 0 >>, << 1, 0 >>, << 0, 1 >>} :
                          Apply(r, point) = Apply(p, Apply(q, point))
         IN  (CHOOSE r \in placements : same(r)) \in Placements
<1> DEFINE v == Apply(p, << q.dx, q.dy >>)
           placements == {[o EXCEPT !.dx = v[1], !.dy = v[2]] : o \in Orientations}
           same(r) == \A point \in {<< 0, 0 >>, << 1, 0 >>, << 0, 1 >>} :
                        Apply(r, point) = Apply(p, Apply(q, point))
<1>1. v \in Point /\ \E o \in Orientations :
                       \A z \in Point : Apply(Then(o, v), z) = Apply(p, Apply(q, z))
  BY PlacementFollows
<1>2. \A o : Then(o, v) = [o EXCEPT !.dx = v[1], !.dy = v[2]]
  BY DEF Then
<1>3. << 0, 0 >> \in Point /\ << 1, 0 >> \in Point /\ << 0, 1 >> \in Point
  BY DEF Point
<1> HIDE DEF v
<1>4. \E r \in placements : same(r)
  BY <1>1, <1>2, <1>3
<1>5. \A r \in placements : r \in Placements
  <2>1. \A o \in Orientations : [o EXCEPT !.dx = v[1], !.dy = v[2]] \in Placements
    BY <1>1, <1>2, ThenIs
  <2> QED BY <2>1
<1>6. (CHOOSE r \in placements : same(r)) \in Placements
  <2> HIDE DEF placements, same
  <2> QED BY <1>4, <1>5
<1> QED BY <1>6 DEF v

\* A neighborhood moved as a whole is a neighborhood.
LEMMA MoveAllKeeps ==
  ASSUME PhysicalInv, NEW f \in Findings, NEW transform \in Transforms, MoveAll(f, transform)
  PROVE  PhysicalInv'
<1> DEFINE n == layout[f]
           h == [z \in Point |-> Apply(transform, z)]
           moved(s) == [s EXCEPT !.hull = [c \in DOMAIN s.hull |-> h[s.hull[c]]],
                                 !.holes = [d \in DOMAIN s.holes |->
                                   [c \in DOMAIN s.holes[d] |-> h[s.holes[d][c]]]]]
           shapes == [c \in DOMAIN n.shapes |->
                       MapShape(n.shapes[c], LAMBDA point : Apply(transform, point))]
           place == << n.placement.dx, n.placement.dy >>
           placements == {[o EXCEPT !.dx = Apply(transform, place)[1],
                                    !.dy = Apply(transform, place)[2]] : o \in Orientations}
           same(p) == \A point \in {<< 0, 0 >>, << 1, 0 >>, << 0, 1 >>} :
                        Apply(p, point) = Apply(transform, Apply(n.placement, point))
           placement == CHOOSE p \in placements : same(p)
<1>1. transform \in Placements /\ n \in Neighborhoods
  BY PhysicalAssumption DEF PhysicalInv
<1>2. n.placement \in Placements /\ n.shapes \in Seq(ShapeRecords)
  BY <1>1 DEF Neighborhoods, ShapeRecords
<1>3. Redraw(f, [placement |-> placement, shapes |-> shapes])
  BY DEF MoveAll
<1>4. placement \in Placements
  BY <1>1, <1>2, PlacementExists
<1>5. h \in [Point -> Point] /\ \A z \in Point : h[z] = Apply(transform, z)
  <2>1. \A z \in Point : Apply(transform, z) \in Point
    BY <1>1, AppliedIs
  <2> QED BY <2>1
<1>6. ASSUME NEW s \in ShapeRecords
      PROVE  MapShape(s, LAMBDA point : Apply(transform, point)) \in ShapeRecords
  <2>1. /\ s.hull \in Seq(Point) /\ s.holes \in Seq(Outlines)
        /\ \A d \in DOMAIN s.holes : s.holes[d] \in Seq(Point)
    BY DEF ShapeRecords, Outlines, Point
  <2> HIDE DEF h
  <2>2. [c \in DOMAIN s.hull |-> h[s.hull[c]]]
          = [c \in DOMAIN s.hull |-> Apply(transform, s.hull[c])]
    BY <1>5, <2>1
  <2>3. \A d \in DOMAIN s.holes :
          [c \in DOMAIN s.holes[d] |-> h[s.holes[d][c]]]
            = [c \in DOMAIN s.holes[d] |-> Apply(transform, s.holes[d][c])]
    BY <1>5, <2>1
  <2>4. [d \in DOMAIN s.holes |-> [c \in DOMAIN s.holes[d] |-> h[s.holes[d][c]]]]
          = [d \in DOMAIN s.holes |-> [c \in DOMAIN s.holes[d] |-> Apply(transform, s.holes[d][c])]]
    BY <2>3
  <2>5. MapShape(s, LAMBDA point : Apply(transform, point)) = moved(s)
    BY <2>2, <2>4, Zenon DEF MapShape
  <2>6. moved(s) \in ShapeRecords
    BY <1>5, MappedTyped
  <2> QED BY <2>5, <2>6
<1>7. shapes \in Seq(ShapeRecords)
  <2>1. \A c \in DOMAIN n.shapes : n.shapes[c] \in ShapeRecords
    BY <1>2
  <2>2. DOMAIN n.shapes = 1 .. Len(n.shapes) /\ Len(n.shapes) \in Nat
    BY <1>2
  <2>3. \A c \in 1 .. Len(n.shapes) : shapes[c] \in ShapeRecords
    BY <1>6, <2>1, <2>2
  <2>4. shapes = [c \in 1 .. Len(n.shapes) |-> shapes[c]]
    BY <2>2
  <2> HIDE DEF shapes, n
  <2> QED BY <2>2, <2>3, <2>4
<1> HIDE DEF shapes, placement
<1>8. [placement |-> placement, shapes |-> shapes] \in Neighborhoods
  BY <1>4, <1>7 DEF Neighborhoods, ShapeRecords
<1> QED BY <1>3, <1>8, RedrawKeeps

\* So is one with a shape moved, listed otherwise, changed, doubled or removed.
LEMMA EditShapeKeeps ==
  ASSUME PhysicalInv, NEW f \in Findings, NEW c \in DOMAIN layout[f].shapes, EditShape(f, c)
  PROVE  PhysicalInv'
<1> DEFINE n == layout[f]
           s == n.shapes[c]
           open == Opened(s.hull)
<1>1. n \in Neighborhoods /\ n.placement \in Placements /\ n.shapes \in Seq(ShapeRecords)
  BY DEF PhysicalInv, Neighborhoods, ShapeRecords
<1>2. Len(n.shapes) \in Nat /\ c \in 1 .. Len(n.shapes) /\ s \in ShapeRecords
  BY <1>1
<1>3. s.hull \in Seq(Point) /\ s.hull # << >> /\ s.holes \in Seq(Outlines) /\ s.layer \in STRING
  BY <1>2 DEF ShapeRecords, Outlines, Point
<1>4. open \in Seq(Point) /\ open # << >>
  BY <1>3, OpenedTyped
<1>5. ASSUME NEW l \in Seq(ShapeRecords), Redraw(f, [n EXCEPT !.shapes = l])
      PROVE  PhysicalInv'
  <2>1. [n EXCEPT !.shapes = l] \in Neighborhoods
    BY <1>1 DEF Neighborhoods, ShapeRecords
  <2> QED BY <1>5, <2>1, RedrawKeeps
<1>6. ASSUME NEW e \in ShapeRecords, Redraw(f, [n EXCEPT !.shapes[c] = e])
      PROVE  PhysicalInv'
  <2>1. [n.shapes EXCEPT ![c] = e] \in Seq(ShapeRecords)
    <3> HIDE DEF n
    <3> QED BY <1>1, <1>2
  <2>2. [n EXCEPT !.shapes[c] = e] = [n EXCEPT !.shapes = [n.shapes EXCEPT ![c] = e]]
    OBVIOUS
  <2> HIDE DEF n
  <2> QED BY <1>5, <1>6, <2>1, <2>2
<1>7. CASE \E d \in Vectors : Redraw(f, [n EXCEPT !.shapes[c] =
             MapShape(s, LAMBDA point : << point[1] + d[1], point[2] + d[2] >>)])
  <2>1. PICK d \in Vectors : Redraw(f, [n EXCEPT !.shapes[c] =
                MapShape(s, LAMBDA point : << point[1] + d[1], point[2] + d[2] >>)])
    BY <1>7
  <2> DEFINE h == [z \in Point |-> << z[1] + d[1], z[2] + d[2] >>]
             e == [s EXCEPT !.hull = [a \in DOMAIN s.hull |-> h[s.hull[a]]],
                            !.holes = [b \in DOMAIN s.holes |->
                                        [a \in DOMAIN s.holes[b] |-> h[s.holes[b][a]]]]]
  <2>2. d[1] \in Int /\ d[2] \in Int
    BY PhysicalAssumption
  <2>3. h \in [Point -> Point] /\ \A z \in Point : h[z] = << z[1] + d[1], z[2] + d[2] >>
    BY <2>2 DEF Point
  <2>4. \A b \in DOMAIN s.holes : s.holes[b] \in Seq(Point)
    BY <1>3 DEF Outlines, Point
  <2> HIDE DEF h, n, s
  <2>5. [a \in DOMAIN s.hull |-> h[s.hull[a]]]
          = [a \in DOMAIN s.hull |-> << s.hull[a][1] + d[1], s.hull[a][2] + d[2] >>]
    BY <1>3, <2>3
  <2>6. \A b \in DOMAIN s.holes :
          [a \in DOMAIN s.holes[b] |-> h[s.holes[b][a]]]
            = [a \in DOMAIN s.holes[b] |->
                << s.holes[b][a][1] + d[1], s.holes[b][a][2] + d[2] >>]
    BY <2>3, <2>4
  <2>7. [b \in DOMAIN s.holes |-> [a \in DOMAIN s.holes[b] |-> h[s.holes[b][a]]]]
          = [b \in DOMAIN s.holes |-> [a \in DOMAIN s.holes[b] |->
                << s.holes[b][a][1] + d[1], s.holes[b][a][2] + d[2] >>]]
    BY <2>6
  <2>8. MapShape(s, LAMBDA point : << point[1] + d[1], point[2] + d[2] >>) = e
    BY <2>5, <2>7, Zenon DEF MapShape
  <2>9. e \in ShapeRecords
    BY <1>2, <2>3, MappedTyped
  <2> HIDE DEF e
  <2> QED BY <1>6, <2>1, <2>8, <2>9
<1>8. CASE \E hull \in {Turn(open, 2), Backward(open), Append(open, open[1])} :
             Redraw(f, [n EXCEPT !.shapes[c].hull = hull])
  <2>1. PICK hull \in {Turn(open, 2), Backward(open), Append(open, open[1])} :
          Redraw(f, [n EXCEPT !.shapes[c].hull = hull])
    BY <1>8
  <2> HIDE DEF open
  <2>2. Turn(open, 2) \in Seq(Point) /\ Len(Turn(open, 2)) = Len(open)
    <3>1. 1 + 1 = 2 /\ 1 \in Nat
      OBVIOUS
    <3> QED BY <1>4, <3>1, TurnIs
  <2>3. Backward(open) \in Seq(Point) /\ Len(Backward(open)) = Len(open)
    BY <1>4, BackwardIs
  <2>4. Append(open, open[1]) \in Seq(Point) /\ Append(open, open[1]) # << >>
    BY <1>4
  <2>5. Len(open) # 0
    BY <1>4
  <2>6. hull \in Seq(Point) /\ hull # << >>
    <3>1. CASE hull = Turn(open, 2)
      BY <2>2, <2>5, <3>1
    <3>2. CASE hull = Backward(open)
      BY <2>3, <2>5, <3>2
    <3>3. CASE hull = Append(open, open[1])
      BY <2>4, <3>3
    <3> QED BY <3>1, <3>2, <3>3
  <2>7. [s EXCEPT !.hull = hull] \in ShapeRecords
    <3> HIDE DEF s
    <3> QED BY <1>2, <2>6 DEF ShapeRecords, Outlines, Point
  <2>8. [n EXCEPT !.shapes[c].hull = hull] = [n EXCEPT !.shapes[c] = [s EXCEPT !.hull = hull]]
    OBVIOUS
  <2> HIDE DEF n, s
  <2> QED BY <1>6, <2>1, <2>7, <2>8
<1>9. CASE \E layer \in Layers \ {s.layer} : Redraw(f, [n EXCEPT !.shapes[c].layer = layer])
  <2>1. PICK layer \in Layers : Redraw(f, [n EXCEPT !.shapes[c].layer = layer])
    BY <1>9
  <2>2. [s EXCEPT !.layer = layer] \in ShapeRecords
    <3> HIDE DEF s
    <3> QED BY <1>2, PhysicalAssumption DEF ShapeRecords
  <2>3. [n EXCEPT !.shapes[c].layer = layer] = [n EXCEPT !.shapes[c] = [s EXCEPT !.layer = layer]]
    OBVIOUS
  <2> HIDE DEF n, s
  <2> QED BY <1>6, <2>1, <2>2, <2>3
<1>10. CASE Redraw(f, [n EXCEPT !.shapes = Append(@, s)])
  <2>1. Append(n.shapes, s) \in Seq(ShapeRecords)
    <3> HIDE DEF n, s
    <3> QED BY <1>1, <1>2
  <2> QED BY <1>5, <1>10, <2>1
<1>11. CASE Redraw(f, [n EXCEPT !.shapes = SubSeq(@, 1, c - 1) \o SubSeq(@, c + 1, Len(@))])
  <2>1. SubSeq(n.shapes, 1, c - 1) \o SubSeq(n.shapes, c + 1, Len(n.shapes)) \in Seq(ShapeRecords)
    <3> HIDE DEF n, s
    <3>1. /\ SubSeq(n.shapes, 1, c - 1) \in Seq(ShapeRecords)
          /\ SubSeq(n.shapes, c + 1, Len(n.shapes)) \in Seq(ShapeRecords)
      BY <1>1, <1>2
    <3> QED BY <3>1
  <2> QED BY <1>5, <1>11, <2>1
<1> QED BY <1>7, <1>8, <1>9, <1>10, <1>11 DEF EditShape

\* An extraction holds the neighborhoods of the layout.
LEMMA ExtractKeeps ==
  ASSUME PhysicalInv, NEW r \in Reports, Extract(r)
  PROVE  PhysicalInv'
BY DEF PhysicalInv, Extract, RunIsBound

\* import_run() stores a run that is bound.
LEMMA ImportKeeps ==
  ASSUME PhysicalInv, NEW r \in Reports, Import(r)
  PROVE  PhysicalInv'
<1> DEFINE run == [targets |-> extraction.targets,
                   violations |-> {Bound(f, extraction.targets[f]) : f \in Findings}]
<1>1. run.targets = extraction.targets
      /\ run.violations = {Bound(f, extraction.targets[f]) : f \in Findings}
  OBVIOUS
<1>2. RunIsBound(run)
  <2> HIDE DEF run
  <2> QED BY <1>1 DEF PhysicalInv, Import, RunIsBound
<1>3. stored' = [stored EXCEPT ![r] = run] /\ layout' = layout /\ extraction' = extraction
  BY DEF Import
<1> HIDE DEF run
<1>4. DOMAIN stored' = Reports
  BY <1>3 DEF PhysicalInv
<1>5. \A q \in Reports : stored'[q] = IF q = r THEN run ELSE stored[q]
  BY <1>3 DEF PhysicalInv
<1>6. \A q \in Reports : stored'[q] # None => RunIsBound(stored'[q])
  BY <1>2, <1>5 DEF PhysicalInv
<1> QED BY <1>3, <1>4, <1>6 DEF PhysicalInv, RunIsBound

\* The invariant is inductive.
LEMMA PhysicalStep == PhysicalInv /\ [PhysicalNext]_physicalVars => PhysicalInv'
<1> SUFFICES ASSUME PhysicalInv, [PhysicalNext]_physicalVars
             PROVE  PhysicalInv'
  OBVIOUS
<1>1. CASE \E r \in Reports : Extract(r) \/ Import(r)
  BY <1>1, ExtractKeeps, ImportKeeps
<1>2. CASE \E f \in Findings : \E transform \in Transforms : MoveAll(f, transform)
  BY <1>2, MoveAllKeeps
<1>3. CASE \E f \in Findings : \E c \in DOMAIN layout[f].shapes : EditShape(f, c)
  BY <1>3, EditShapeKeeps
<1>4. CASE UNCHANGED physicalVars
  BY <1>4 DEF physicalVars, PhysicalInv, RunIsBound
<1> QED BY <1>1, <1>2, <1>3, <1>4 DEF PhysicalNext

\* The hashes and the comparison of physical.py say what the geometry around
\* the findings is, for all reports, layouts and edits: two findings have one
\* context exactly if one neighborhood is the other one moved, they correspond
\* exactly if a rotation or reflection carries one onto the other, what is
\* paired has no other partner, and a stored run verifies with no extraction
\* of another geometry.
THEOREM EvidenceIsGeometry == PhysicalSpec => []PhysicalEvidenceHolds
<1>1. PhysicalSpec => []PhysicalInv
  BY PhysicalInitial, PhysicalStep, PTL DEF PhysicalSpec
<1> QED BY <1>1, PhysicalInvHolds, PTL

------------------------------------------------------------------------------
(* Whatever is computed *)

\* The computation of the behaviour is sound, the others rest.
ComputationsInv ==
  /\ IF computes = "graph" THEN DigestInv ELSE GraphRests
  /\ IF computes = "ring" THEN RingInv ELSE RingRests
  /\ IndexInv /\ PhysicalInv

\* Every computation starts sound.
LEMMA ComputationsStart == ComputationsInit => ComputationsInv
BY DigestStarts, SearchInitial, IndexInitial, PhysicalInitial
   DEF ComputationsInit, ComputationsInv, IndexRests, LayoutRests

\* A step is one of the computation, and the others rest.
LEMMA ComputationsStep == ComputationsInv /\ [ComputationsNext]_allVars => ComputationsInv'
<1> SUFFICES ASSUME ComputationsInv, [ComputationsNext]_allVars
             PROVE  ComputationsInv'
  OBVIOUS
<1>1. /\ [GraphNext]_graphVars /\ [SearchNext]_ringVars
      /\ [IndexNext]_indexVars /\ [PhysicalNext]_physicalVars
      /\ computes' = computes
      /\ computes # "graph" => UNCHANGED graphVars
      /\ computes # "ring" => UNCHANGED ringVars
  BY DEF ComputationsNext, allVars
<1>2. IndexInv' /\ PhysicalInv'
  BY <1>1, IndexStep, PhysicalStep DEF ComputationsInv
<1>3. IF computes = "graph" THEN DigestInv' ELSE GraphRests'
  <2>1. CASE computes = "graph"
    BY <1>1, <2>1, DigestStep DEF ComputationsInv
  <2>2. CASE computes # "graph"
    BY <1>1, <2>2 DEF ComputationsInv, GraphRests, graphVars
  <2> QED BY <2>1, <2>2
<1>4. IF computes = "ring" THEN RingInv' ELSE RingRests'
  <2>1. CASE computes = "ring"
    BY <1>1, <2>1, SearchStep DEF ComputationsInv
  <2>2. CASE computes # "ring"
    BY <1>1, <2>2 DEF ComputationsInv, RingRests, ringVars
  <2> QED BY <2>1, <2>2
<1> QED BY <1>1, <1>2, <1>3, <1>4 DEF ComputationsInv

\* The resting graph has no edges, and was never replaced.
LEMMA GraphRestsShow == GraphRests => CyclesAreRefused /\ ImpactIsReachable
<1> SUFFICES ASSUME GraphRests PROVE CyclesAreRefused /\ ImpactIsReachable
  OBVIOUS
<1>1. \A n \in Nodes : deps[n] = {}
  BY DEF GraphRests, deps
<1>2. outcome = "accepted" /\ before = NoHashes
  BY DEF GraphRests
<1>3. \A S \in SUBSET Nodes : ~Cycle(S)
  BY <1>1 DEF Cycle
<1> QED BY <1>2, <1>3 DEF CyclesAreRefused, ImpactIsReachable

\* The resting ring was refused.
LEMMA RingRestsShow == RingRests => RingsAreFound
BY DEF RingRests, RingsAreFound, RingIsCanonical, SearchIsLinear, Allowed

\* Whatever is computed, it is what it is taken for: cycles are refused,
\* changes below a target are seen, rings are canonical, what resembles is
\* retrieved, and physical evidence is geometry.
THEOREM ComputationsSound ==
  ComputationsSpec =>
    [](CyclesAreRefused /\ ImpactIsReachable /\ RingsAreFound
        /\ RetrievalIsExact /\ PhysicalEvidenceHolds)
<1>1. ComputationsInv => CyclesAreRefused /\ ImpactIsReachable
  BY CyclesShow, DigestsShow, GraphRestsShow DEF ComputationsInv, DigestInv
<1>2. ComputationsInv => RingsAreFound
  BY RingInvFinds, RingRestsShow DEF ComputationsInv
<1>3. ComputationsInv => RetrievalIsExact /\ PhysicalEvidenceHolds
  BY PhysicalInvHolds DEF ComputationsInv, IndexInv
<1> QED
  BY <1>1, <1>2, <1>3, ComputationsStart, ComputationsStep, PTL DEF ComputationsSpec

==============================================================================
