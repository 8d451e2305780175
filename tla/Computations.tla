----------------------------- MODULE Computations -----------------------------
(***************************************************************************)
(* The computations on geometry and dependencies: hashing a graph, the     *)
(* least rotation of a ring, looking up what may have moved, comparing     *)
(* neighborhoods.  They share no data, so a behaviour shows one of them.   *)
(***************************************************************************)
EXTENDS ContextGraph, RingSearch, MovementIndex, PhysicalContext

VARIABLE computes  \* what this behaviour computes

allVars == << computes, graphVars, ringVars, indexVars, physicalVars >>

------------------------------------------------------------------------------
(* Instances *)

\* The corners of a triangle.
CornerPoints == {<< 0, 0 >>, << 0, 2 >>, << 2, 0 >>}

\* Two findings of one rule on equal edges, a triangle beside each, the
\* second one with a hole or without.
SharedEdge == [kind |-> "edge", unit |-> "nm", layer |-> "m1", frame |-> "local",
               points |-> << << 0, 0 >>, << 4, 0 >> >>]

WidthFinding(id) ==
  [id |-> id, rule |-> "width", multiplicity |-> 1, geometries |-> << SharedEdge >>]

TwinFindings == {WidthFinding("a"), WidthFinding("b")}

Triangle == << << 0, 1 >>, << 2, 1 >>, << 0, 2 >> >>

Whole == [layer |-> "m1", hull |-> Triangle, holes |-> << >>]
Holed == [Whole EXCEPT !.holes = << Backward(Triangle) >>]

TwinLayouts ==
  {[f \in TwinFindings |-> [placement |-> AsPlaced,
                            shapes |-> << IF f.id = "a" THEN Whole ELSE other >>]] :
     other \in {Whole, Holed}}

Turned == [rotation |-> 1, mirror |-> FALSE, dx |-> 1, dy |-> 0]
Mirrored == [rotation |-> 0, mirror |-> TRUE, dx |-> 0, dy |-> 2]

MCTransforms == {Turned, Mirrored}

MCVectors == {<< 1, -1 >>}

------------------------------------------------------------------------------
(* What is not computed rests. *)

GraphRests ==
  /\ manifest = [deps |-> [n \in Nodes |-> {}], roots |-> Nodes,
                 content |-> [n \in Nodes |-> CHOOSE c \in Contents : TRUE],
                 settings |-> CHOOSE s \in Settings : TRUE]
  /\ degree = [n \in Nodes |-> 0] /\ ready = {} /\ hashed = [n \in {} |-> n]
  /\ outcome = "accepted" /\ before = NoHashes

RingRests ==
  /\ caller = "ring" /\ ring = << << 0, 0 >>, << 2, 0 >> >> /\ pass = "refused"
  /\ i = 0 /\ j = 1 /\ k = 0 /\ steps = 0
  /\ found = [d \in Directions |-> << >>]

IndexRests == width = 1 /\ IndexInit
LayoutRests == layout = (CHOOSE l \in Layouts : TRUE) /\ PhysicalInit

ComputationsInit ==
  \/ computes = "graph" /\ GraphInit /\ RingRests /\ IndexRests /\ LayoutRests
  \/ computes = "ring" /\ SearchInit /\ GraphRests /\ IndexRests /\ LayoutRests
  \/ computes = "index" /\ IndexInit /\ GraphRests /\ RingRests /\ LayoutRests
  \/ computes = "layout" /\ PhysicalInit /\ GraphRests /\ RingRests /\ IndexRests

ComputationsNext ==
  /\ \/ /\ computes = "graph" /\ GraphNext
        /\ UNCHANGED << ringVars, indexVars, physicalVars >>
     \/ /\ computes = "ring" /\ SearchNext
        /\ UNCHANGED << graphVars, indexVars, physicalVars >>
     \/ /\ computes = "index" /\ IndexNext
        /\ UNCHANGED << graphVars, ringVars, physicalVars >>
     \/ /\ computes = "layout" /\ PhysicalNext
        /\ UNCHANGED << graphVars, ringVars, indexVars >>
  /\ UNCHANGED computes

\* The loops of the graph and of the ring keep running.
LoopsRun ==
  /\ \/ /\ computes = "graph"
        /\ (\E n \in Nodes : Take(n)) \/ Finish
        /\ UNCHANGED << ringVars, indexVars, physicalVars >>
     \/ /\ computes = "ring" /\ SearchNext
        /\ UNCHANGED << graphVars, indexVars, physicalVars >>
  /\ UNCHANGED computes

ComputationsSpec ==
  ComputationsInit /\ [][ComputationsNext]_allVars /\ WF_allVars(LoopsRun)

------------------------------------------------------------------------------
(* Property *)

\* Both loops end, on every graph, cyclic ones included, and on every ring.
LoopsEnd == HashingEnds /\ SearchEnds

==============================================================================
