--------------------------- MODULE PhysicalContext ---------------------------
(***************************************************************************)
(* physical.py: the neighborhood of a finding is extracted from a layout,  *)
(* hashed, bound to the imported run and compared between two runs.  A     *)
(* hash is modelled by the document it digests, lists that are sorted      *)
(* before they are digested by how often each element occurs.  One recipe  *)
(* and one scope are in use; the layer of a shape stands for its layer and *)
(* its properties.  The layout and its designers are external.             *)
(***************************************************************************)
EXTENDS Rings, Functions

CONSTANTS
  Findings,         \* the findings of every report
  Layouts,          \* what surrounds each of them at first
  Layers,           \* layers of the recipe
  Halo,             \* recipe.halo_dbu
  Dbu,              \* recipe.dbu_nm
  CoordinateLimit,  \* 2^50
  Transforms,       \* how designers turn and move whole neighborhoods
  Vectors,          \* how far they move single shapes
  None,             \* not imported yet
  MaxEdits          \* bound on the edits of the layout

\* Lists of vertices; what designers, reports and the extraction hand over.
Outlines == Seq(Int \X Int) \ {<< >>}

Placements == [rotation : 0 .. 3, mirror : BOOLEAN, dx : Int, dy : Int]

Geometries ==
  [kind : {"polygon", "box", "edge", "point"}, unit : {"um", "nm", "dbu"},
   layer : STRING, frame : STRING, points : Outlines]

Neighborhoods ==
  [placement : Placements,
   shapes : Seq([layer : STRING, hull : Outlines, holes : Seq(Outlines)])]

ASSUME PhysicalAssumption ==
  /\ IsFiniteSet(Findings) /\ \A f \in Findings : f.geometries \in Seq(Geometries)
  /\ Layouts \subseteq [Findings -> Neighborhoods]
  /\ Layers \subseteq STRING
  /\ Halo \in Nat /\ Dbu \in Nat \ {0} /\ CoordinateLimit \in Nat /\ MaxEdits \in Nat
  /\ Transforms \subseteq Placements /\ Vectors \subseteq Int \X Int

VARIABLES
  layout,      \* placement and shapes around each finding
  extraction,  \* the last extracted manifest
  stored,      \* the two imported runs
  edits        \* number of edits

physicalVars == << layout, extraction, stored, edits >>

Reports == {"before", "after"}

------------------------------------------------------------------------------
(* Placement and markers *)

Orientations ==
  {[rotation |-> r, mirror |-> m, dx |-> 0, dy |-> 0] : r \in 0 .. 3, m \in BOOLEAN}

AsPlaced == [rotation |-> 0, mirror |-> FALSE, dx |-> 0, dy |-> 0]

\* Mirrored about the x axis, turned by quarters, then moved.
Apply(p, point) ==
  LET x == point[1]
      y == IF p.mirror THEN - point[2] ELSE point[2]
      turned == CASE p.rotation = 0 -> << x, y >>   [] p.rotation = 1 -> << - y, x >>
                  [] p.rotation = 2 -> << - x, - y >> [] p.rotation = 3 -> << y, - x >>
  IN  << turned[1] + p.dx, turned[2] + p.dy >>

Nanometres == [um |-> 1000, nm |-> 1, dbu |-> Dbu]

OnGrid(point, unit) == \A c \in 1 .. 2 : (point[c] * Nanometres[unit]) % Dbu = 0

InGrid(point, unit) ==
  << (point[1] * Nanometres[unit]) \div Dbu, (point[2] * Nanometres[unit]) \div Dbu >>

Xs(points) == {p[1] : p \in points}
Ys(points) == {p[2] : p \in points}
Lowest(values) == CHOOSE v \in values : \A u \in values : v =< u
Highest(values) == CHOOSE v \in values : \A u \in values : u =< v

Box(points) ==
  LET x0 == Lowest(Xs(points))   y0 == Lowest(Ys(points))
      x1 == Highest(Xs(points))  y1 == Highest(Ys(points))
  IN  << << x0, y0 >>, << x1, y0 >>, << x1, y1 >>, << x0, y1 >> >>

Marker(g, placement) ==
  LET points == [i \in 1 .. Len(g.points) |-> Apply(placement, InGrid(g.points[i], g.unit))]
  IN  [kind |-> IF g.kind = "box" THEN "polygon" ELSE g.kind, layer |-> g.layer,
       points |-> IF g.kind = "box" THEN Box(Corners(points)) ELSE points]

Markers(f, placement) ==
  [i \in 1 .. Len(f.geometries) |-> Marker(f.geometries[i], placement)]

MarkerPoints(markers) == UNION {Corners(markers[i].points) : i \in 1 .. Len(markers)}

\* touches(bounds(hull), window(markers, halo))
Touches(hull, points) ==
  LET near(values, others) ==
        /\ Lowest(values) =< Highest(others) + Halo
        /\ Highest(values) >= Lowest(others) - Halo
  IN  near(Xs(hull), Xs(points)) /\ near(Ys(hull), Ys(points))

InBudget(point) == \A c \in 1 .. 2 : point[c] \in - CoordinateLimit .. CoordinateLimit

ShapePoints(s) == Corners(s.hull) \cup UNION {Corners(s.holes[i]) : i \in 1 .. Len(s.holes)}

\* ring() takes the list.
IsRing(p) == ~Degenerate(Opened(p))

AcceptableGeometry(g) ==
  /\ g.frame = "local"
  /\ \A p \in Corners(g.points) : OnGrid(p, g.unit) /\ InBudget(InGrid(p, g.unit))

AcceptableMarker(m) ==
  /\ \A p \in Corners(m.points) : InBudget(p)
  /\ m.kind = "polygon" => IsRing(m.points)

AcceptableShape(s, points) ==
  /\ s.layer \in Layers
  /\ IsRing(s.hull) /\ \A i \in 1 .. Len(s.holes) : IsRing(s.holes[i])
  /\ \A p \in ShapePoints(s) : InBudget(p)
  /\ Touches(Corners(s.hull), points)

\* Nothing about the finding f and its neighborhood n is refused.
Acceptable(f, n) ==
  LET markers == Markers(f, n.placement) IN
  /\ f.geometries # << >> /\ f.multiplicity = 1
  /\ \A i \in 1 .. Len(f.geometries) : AcceptableGeometry(f.geometries[i])
  /\ \A i \in 1 .. Len(markers) : AcceptableMarker(markers[i])
  /\ \A i \in 1 .. Len(n.shapes) : AcceptableShape(n.shapes[i], MarkerPoints(markers))

------------------------------------------------------------------------------
(* Hashes *)

\* How often each element occurs in the list.
Sorted(list) ==
  [x \in {list[i] : i \in 1 .. Len(list)} |-> Cardinality({i \in 1 .. Len(list) : list[i] = x})]

Moved(points, orientation, origin) ==
  [i \in 1 .. Len(points) |->
     << Apply(orientation, points[i])[1] - origin[1], Apply(orientation, points[i])[2] - origin[2] >>]

Origin(markers, orientation) ==
  LET points == {Apply(orientation, p) : p \in MarkerPoints(markers)}
  IN  << Lowest(Xs(points)), Lowest(Ys(points)) >>

\* Mutant: each shape relative to itself.
ShapeFromItself(s, orientation, origin) ==
  LET own == Origin(<< [points |-> s.hull] >>, orientation) IN
  [layer |-> s.layer, hull |-> Ring(Opened(Moved(s.hull, orientation, own))),
   holes |-> Sorted([i \in 1 .. Len(s.holes) |-> Ring(Opened(Moved(s.holes[i], orientation, own)))])]

Shape(s, orientation, origin) ==
  [layer |-> s.layer, hull |-> Ring(Opened(Moved(s.hull, orientation, origin))),
   holes |-> Sorted([i \in 1 .. Len(s.holes) |-> Ring(Opened(Moved(s.holes[i], orientation, origin)))])]

\* marker_points()
Marked(m, orientation, origin) ==
  LET points == Moved(m.points, orientation, origin) IN
  [m EXCEPT !.points = IF m.kind = "polygon" THEN Ring(Opened(points)) ELSE Sorted(points)]

\* _payload(): markers and shapes relative to the corner of the markers.
Payload(f, n, orientation) ==
  LET markers == Markers(f, n.placement)
      origin == Origin(markers, orientation)
  IN  [markers |-> Sorted([i \in 1 .. Len(markers) |-> Marked(markers[i], orientation, origin)]),
       shapes  |-> Sorted([i \in 1 .. Len(n.shapes) |-> Shape(n.shapes[i], orientation, origin)])]

ContextHash(f, n) == Payload(f, n, AsPlaced)

\* Mutant: turned, and never mirrored.
TransformHashTurned(f, n) ==
  CHOOSE p \in {Payload(f, n, o) : o \in {q \in Orientations : ~q.mirror}} : TRUE

\* The least of the eight documents.
TransformHash(f, n) == CHOOSE p \in {Payload(f, n, o) : o \in Orientations} : TRUE

------------------------------------------------------------------------------
(* Binding and comparing runs *)

Contract(n) == n.placement

\* Mutant: bound to the hash that forgets orientation.
BoundLoosely(f, n) == [finding |-> f, context |-> TransformHash(f, n), contract |-> Contract(n)]

Bound(f, n) == [finding |-> f, context |-> ContextHash(f, n), contract |-> Contract(n)]

\* validate_run(): the bindings are those of the extraction the run retains.
Verifies(run, targets) ==
  \A v \in run.violations :
    /\ Acceptable(v.finding, targets[v.finding])
    /\ v.context = ContextHash(v.finding, targets[v.finding])
    /\ v.contract = Contract(targets[v.finding])

Keys(run) ==
  {[finding |-> f, rule |-> f.rule, hash |-> TransformHash(f, run.targets[f])] : f \in Findings}

\* Old findings and the new ones they may correspond to.
Hits(old, new) ==
  LET equal == {pair \in Keys(old) \X Keys(new) :
                 pair[1].rule = pair[2].rule /\ pair[1].hash = pair[2].hash}
  IN  {<< pair[1].finding, pair[2].finding >> : pair \in equal}

\* The old findings for the new finding g.
HitsOf(hits, g) == {f \in Findings : << f, g >> \in hits}

ContextOf(run, f) == (CHOOSE v \in run.violations : v.finding = f).context

\* Mutant: two findings may share one correspondent.
AmbiguousForOne(hits, g) == Cardinality(HitsOf(hits, g)) > 1

\* Several correspondents, or one that another finding has too.
Ambiguous(hits, g) ==
  \/ Cardinality(HitsOf(hits, g)) > 1
  \/ \E h \in Findings \ {g} : HitsOf(hits, g) \cap HitsOf(hits, h) # {}

\* compare_physical(): the status of each row.
Rows(old, new) ==
  LET hits == Hits(old, new) IN
  [g \in Findings |->
    IF Ambiguous(hits, g) THEN "ambiguous"
    ELSE IF HitsOf(hits, g) = {} THEN
      IF \E f \in Findings : f.id = g.id THEN "context_changed" ELSE "no_correspondence"
    ELSE IF \E f \in HitsOf(hits, g) : ContextOf(old, f) = ContextOf(new, g)
      THEN "same_context" ELSE "transformed_context"]

------------------------------------------------------------------------------
(* A layout that is edited, extracted and imported again *)

PhysicalInit ==
  /\ layout \in Layouts
  /\ extraction = None
  /\ stored = [r \in Reports |-> None]
  /\ edits = 0

\* An extraction for a report that is not in yet.
Extract(r) ==
  /\ stored[r] = None
  /\ extraction' = [source |-> r, targets |-> layout]
  /\ UNCHANGED << layout, stored, edits >>

\* import_run() with a extraction: bind_physical() refuses that of another
\* report, and binds every finding.
Import(r) ==
  /\ extraction # None /\ extraction.source = r
  /\ stored[r] = None
  /\ \A f \in Findings : Acceptable(f, extraction.targets[f])
  /\ stored' = [stored EXCEPT ![r] =
       [targets |-> extraction.targets,
        violations |-> {Bound(f, extraction.targets[f]) : f \in Findings}]]
  /\ UNCHANGED << layout, extraction, edits >>

\* Nothing follows the import of both reports.
Redraw(f, n) ==
  /\ edits < MaxEdits /\ stored["after"] = None
  /\ edits' = edits + 1
  /\ layout' = [layout EXCEPT ![f] = n]
  /\ UNCHANGED << extraction, stored >>

MapShape(s, F(_)) ==
  [s EXCEPT !.hull = [i \in DOMAIN @ |-> F(@[i])],
            !.holes = [h \in DOMAIN @ |-> [i \in DOMAIN @[h] |-> F(@[h][i])]]]

\* The whole neighborhood of f, the instance included, is turned and moved.
MoveAll(f, transform) ==
  LET n == layout[f]
      placements == {[o EXCEPT !.dx = Apply(transform, << n.placement.dx, n.placement.dy >>)[1],
                               !.dy = Apply(transform, << n.placement.dx, n.placement.dy >>)[2]]
                       : o \in Orientations}
      same(p) == \A point \in {<< 0, 0 >>, << 1, 0 >>, << 0, 1 >>} :
                   Apply(p, point) = Apply(transform, Apply(n.placement, point))
  IN  Redraw(f, [placement |-> CHOOSE p \in placements : same(p),
                 shapes |-> [i \in DOMAIN n.shapes |->
                   MapShape(n.shapes[i], LAMBDA point : Apply(transform, point))]])

\* One shape alone is moved, listed otherwise, put on another layer, drawn
\* twice or removed.
EditShape(f, i) ==
  LET n == layout[f]
      s == n.shapes[i]
      open == Opened(s.hull) IN
  \/ \E d \in Vectors : Redraw(f, [n EXCEPT !.shapes[i] =
       MapShape(s, LAMBDA point : << point[1] + d[1], point[2] + d[2] >>)])
  \/ \E hull \in {Turn(open, 2), Backward(open), Append(open, open[1])} :
       Redraw(f, [n EXCEPT !.shapes[i].hull = hull])
  \/ \E layer \in Layers \ {s.layer} : Redraw(f, [n EXCEPT !.shapes[i].layer = layer])
  \/ Redraw(f, [n EXCEPT !.shapes = Append(@, s)])
  \/ Redraw(f, [n EXCEPT !.shapes = SubSeq(@, 1, i - 1) \o SubSeq(@, i + 1, Len(@))])

PhysicalNext ==
  \/ \E r \in Reports : Extract(r) \/ Import(r)
  \/ \E f \in Findings :
       \/ \E transform \in Transforms : MoveAll(f, transform)
       \/ \E i \in DOMAIN layout[f].shapes : EditShape(f, i)

PhysicalSpec == PhysicalInit /\ [][PhysicalNext]_physicalVars

------------------------------------------------------------------------------
(* Properties *)

\* The lists are of one ring, whether they repeat the first vertex or not.
SameRing(p, q) == Opened(q) \in Turns(Opened(p)) \cup Turns(Backward(Opened(p)))

\* The lists match element by element in some order.
Matches(list, other, Same(_, _)) ==
  \E order \in Bijection(1 .. Len(list), 1 .. Len(other)) :
    \A i \in 1 .. Len(list) : Same(list[i], other[order[i]])

\* The transform carries the marker m, or the shape s, onto another one.
CarriesMarker(t, m, other) ==
  LET points == [i \in 1 .. Len(m.points) |-> Apply(t, m.points[i])] IN
  /\ m.kind = other.kind /\ m.layer = other.layer
  /\ IF m.kind = "polygon" THEN SameRing(points, other.points)
                           ELSE Matches(points, other.points, LAMBDA x, y : x = y)

CarriesShape(t, s, other) ==
  LET image(p) == [i \in 1 .. Len(p) |-> Apply(t, p[i])]
      same(p, q) == SameRing(image(p), q) IN
  /\ s.layer = other.layer /\ same(s.hull, other.hull)
  /\ Matches(s.holes, other.holes, same)

\* One transform in the orientation o carries all markers and all shapes
\* around f onto those around g.
Carries(o, f, n, g, m) ==
  LET from == Markers(f, n.placement)
      to == Markers(g, m.placement)
  IN  \E p \in MarkerPoints(from), q \in MarkerPoints(to) :
        LET t == [o EXCEPT !.dx = q[1] - Apply(o, p)[1], !.dy = q[2] - Apply(o, p)[2]] IN
        /\ Matches(from, to, LAMBDA x, y : CarriesMarker(t, x, y))
        /\ Matches(n.shapes, m.shapes, LAMBDA x, y : CarriesShape(t, x, y))

Both == \A r \in Reports : stored[r] # None
Around(r, f) == stored[r].targets[f]

\* "Preserves orientation, polygon holes, duplicate shapes and relative
\* offsets" (V0.3.md): two findings have the same context exactly if one
\* neighborhood as a whole is the other one moved, however its rings and
\* shapes are listed.
ContextIsGeometry ==
  Both => \A f, g \in Findings :
    ContextOf(stored["before"], f) = ContextOf(stored["after"], g)
      <=> Carries(AsPlaced, f, Around("before", f), g, Around("after", g))

\* The findings f before and g after have one rule, and one of the eight
\* rotations and reflections carries all around f onto all around g.
Congruent(f, g) ==
  /\ f.rule = g.rule
  /\ \E o \in Orientations : Carries(o, f, Around("before", f), g, Around("after", g))

\* "Moving individual shapes independently cannot produce an equivalent
\* context": two findings correspond exactly if one common rotation or
\* reflection carries one neighborhood onto the other.
CorrespondenceIsCongruence ==
  Both =>
    LET hits == Hits(stored["before"], stored["after"]) IN
    \A f, g \in Findings : << f, g >> \in hits <=> Congruent(f, g)

\* "Repeated patterns remain ambiguous": what compare_physical() pairs has
\* no other partner, neither among the old findings nor among the new.
PairsAreOneToOne ==
  Both =>
    LET rows == Rows(stored["before"], stored["after"])
        partners == {pair \in Findings \X Findings : Congruent(pair[1], pair[2])}
    IN  \A g \in Findings : rows[g] \in {"same_context", "transformed_context"} =>
          \E f \in Findings :
            {pair \in partners : pair[1] = f \/ pair[2] = g} = {<< f, g >>}

\* A stored run verifies with the extraction it retains; that of another
\* extraction is refused unless nothing about its findings but their place
\* relative to the layout differs, and their placement is the same.
RetainedManifestBinds ==
  \A r \in Reports : stored[r] # None =>
    /\ Verifies(stored[r], stored[r].targets)
    /\ \A q \in Reports :
         stored[q] # None /\ Verifies(stored[r], stored[q].targets) =>
           \A f \in Findings :
             /\ Around(r, f).placement = Around(q, f).placement
             /\ Carries(AsPlaced, f, Around(r, f), f, Around(q, f))

\* What a comparison of two runs says, and what it is bound to, is the
\* geometry around their findings.
PhysicalEvidenceHolds ==
  /\ ContextIsGeometry
  /\ CorrespondenceIsCongruence
  /\ PairsAreOneToOne
  /\ RetainedManifestBinds

==============================================================================
