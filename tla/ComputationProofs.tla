-------------------------- MODULE ComputationProofs ---------------------------
(***************************************************************************)
(* Three of the computations on data, for inputs of any size: node_hashes  *)
(* accepts exactly the graphs without a cycle and the digest of a target   *)
(* changes exactly with what the target is built from; the least-rotation  *)
(* loop returns the canonical list of a ring in linear time; the index     *)
(* retrieves what similarity() accepts.                                    *)
(***************************************************************************)
EXTENDS ContextGraph, RingSearch, MovementIndex, FiniteSetTheorems, SequenceTheorems, TLAPS

------------------------------------------------------------------------------
(* Hashing a graph of dependencies *)

\* The nodes that are hashed, and what of a node's inputs is not.
Done == DOMAIN hashed

Unhashed(n) == deps[n] \ Done

GraphTypeOK ==
  /\ manifest \in Manifests
  /\ deps \in [Nodes -> SUBSET Nodes]
  /\ Done \subseteq Nodes

\* The counters count, and the queue holds the nodes whose counter is zero.
QueueExact ==
  /\ degree = [n \in Nodes |-> Cardinality(Unhashed(n))]
  /\ ready = { n \in Nodes \ Done : Unhashed(n) = {} }

\* What is hashed is closed under dependencies and has no cycle.
HashedSound ==
  /\ \A n \in Done : deps[n] \subseteq Done
  /\ \A S \in SUBSET Done : ~Cycle(S)

OutcomeSound ==
  /\ outcome = "accepted" => Done = Nodes
  /\ outcome = "refused" => ready = {} /\ Done # Nodes

GraphInv == GraphTypeOK /\ QueueExact /\ HashedSound /\ OutcomeSound

\* A node's counter is zero exactly when all below it is hashed (degree).
LEMMA CountersCount ==
  ASSUME GraphTypeOK, NEW n \in Nodes
  PROVE  /\ IsFiniteSet(Unhashed(n))
         /\ Cardinality(Unhashed(n)) \in Nat
         /\ Cardinality(Unhashed(n)) = 0 <=> Unhashed(n) = {}
<1>1. Unhashed(n) \subseteq Nodes
  BY DEF GraphTypeOK, Unhashed
<1>2. IsFiniteSet(Unhashed(n))
  BY <1>1, GraphAssumption, FS_Subset
<1> QED
  BY <1>2, FS_CardinalityType, FS_EmptySet

\* The state in which the loop starts.
Fresh ==
  /\ manifest \in Manifests
  /\ degree = [n \in Nodes |-> Cardinality(deps[n])]
  /\ ready = { n \in Nodes : Cardinality(deps[n]) = 0 }
  /\ hashed = [n \in {} |-> n]
  /\ outcome = "hashing"

\* The loop starts with exact counters, whatever the manifest.
LEMMA FreshQueue == Fresh => GraphInv
<1> SUFFICES ASSUME Fresh PROVE GraphInv
  OBVIOUS
<1> USE DEF Fresh
<1>1. Done = {} /\ \A n \in Nodes : Unhashed(n) = deps[n]
  BY DEF Done, Unhashed
<1>2. GraphTypeOK
  BY <1>1 DEF GraphTypeOK, Manifests, deps
<1>3. QueueExact
  BY <1>1, <1>2, CountersCount DEF QueueExact
<1>4. HashedSound
  BY <1>1 DEF HashedSound, Cycle
<1>5. OutcomeSound
  BY DEF OutcomeSound
<1> QED
  BY <1>2, <1>3, <1>4, <1>5 DEF GraphInv

\* A node taken from the queue is new and everything below it is hashed.
LEMMA TakenIsReady ==
  ASSUME GraphInv, NEW n \in Nodes, Take(n)
  PROVE  /\ n \notin Done /\ deps[n] \subseteq Done
         /\ Done' = Done \cup {n} /\ deps' = deps
         /\ \A p \in Nodes : Unhashed(p)' = Unhashed(p) \ {n}
<1>1. n \notin Done /\ Unhashed(n) = {}
  BY DEF GraphInv, QueueExact, Take
<1>2. Done' = Done \cup {n} /\ deps' = deps
  BY DEF Take, Done, deps
<1> QED
  BY <1>1, <1>2 DEF Unhashed, GraphInv, GraphTypeOK

\* Taking a node keeps counters and queue exact.
LEMMA TakeKeepsQueue ==
  ASSUME GraphInv, NEW n \in Nodes, Take(n)
  PROVE  QueueExact'
<1> USE TakenIsReady
<1>1. ASSUME NEW p \in Nodes
      PROVE  /\ degree'[p] = Cardinality(Unhashed(p)')
             /\ p \in ready' <=> p \notin Done' /\ Unhashed(p)' = {}
  <2>1. /\ IsFiniteSet(Unhashed(p)) /\ Cardinality(Unhashed(p)) \in Nat
        /\ Cardinality(Unhashed(p)) = 0 <=> Unhashed(p) = {}
    BY CountersCount DEF GraphInv
  <2>2. degree[p] = Cardinality(Unhashed(p))
    BY DEF GraphInv, QueueExact
  <2>3. p \in ready <=> p \notin Done /\ Unhashed(p) = {}
    BY DEF GraphInv, QueueExact
  <2>4. degree'[p] = IF n \in deps[p] THEN degree[p] - 1 ELSE degree[p]
    BY DEF Take
  <2>5. p \in ready' <=> (p \in ready /\ p # n) \/ (n \in deps[p] /\ degree[p] = 1)
    BY DEF Take, MadeReady
  <2>6. CASE n \in deps[p]
    <3>1. n \in Unhashed(p)
      BY <2>6 DEF Unhashed
    <3>2. /\ IsFiniteSet(Unhashed(p) \ {n})
          /\ Cardinality(Unhashed(p) \ {n}) = Cardinality(Unhashed(p)) - 1
      BY <2>1, <3>1, FS_RemoveElement
    <3>3. Cardinality(Unhashed(p) \ {n}) = 0 <=> Unhashed(p) \ {n} = {}
      BY <3>2, FS_EmptySet
    <3>4. p \notin Done /\ p # n
      BY <2>6 DEF GraphInv, HashedSound
    <3>5. p \notin ready
      BY <2>3, <3>1
    <3>6. Unhashed(p)' = Unhashed(p) \ {n} /\ p \notin Done'
      BY <3>4
    <3>7. degree'[p] = Cardinality(Unhashed(p)')
      BY <2>2, <2>4, <2>6, <3>2, <3>6
    <3>8. p \in ready' <=> Cardinality(Unhashed(p)) = 1
      BY <2>2, <2>5, <2>6, <3>5
    <3>9. Cardinality(Unhashed(p)) = 1 <=> Unhashed(p) \ {n} = {}
      BY <2>1, <3>2, <3>3
    <3> QED
      BY <3>6, <3>7, <3>8, <3>9
  <2>7. CASE n \notin deps[p]
    <3>1. Unhashed(p)' = Unhashed(p)
      BY <2>7 DEF Unhashed
    <3> QED
      BY <2>2, <2>3, <2>4, <2>5, <2>7, <3>1
  <2> QED
    BY <2>6, <2>7
<1>2. ready' \subseteq Nodes
  BY DEF Take, MadeReady, GraphInv, QueueExact
<1>3. degree' = [p \in Nodes |-> Cardinality(Unhashed(p)')]
  BY <1>1 DEF Take
<1>4. ready' = { p \in Nodes \ Done' : Unhashed(p)' = {} }
  BY <1>1, <1>2
<1> QED
  BY <1>3, <1>4 DEF QueueExact

\* Taking a node closes no cycle: what is below it was hashed before it.
LEMMA TakeKeepsHashed ==
  ASSUME GraphInv, NEW n \in Nodes, Take(n)
  PROVE  HashedSound'
<1> USE TakenIsReady
<1>1. \A m \in Done' : deps'[m] \subseteq Done'
  BY DEF GraphInv, HashedSound
<1>2. ASSUME NEW S \in SUBSET Done', \A m \in S : deps[m] \cap S # {}, S # {}
      PROVE  FALSE
  <2> DEFINE T == S \ {n}
  <2>1. T \in SUBSET Done
    OBVIOUS
  <2>2. \A m \in S : deps[m] \cap T # {}
    BY <1>2 DEF GraphInv, HashedSound
  <2>3. Cycle(T)
    BY <1>2, <2>2 DEF Cycle
  <2> QED
    BY <2>1, <2>3 DEF GraphInv, HashedSound
<1>3. \A S \in SUBSET Done' : ~Cycle(S)'
  BY <1>2 DEF Cycle
<1> QED
  BY <1>1, <1>3 DEF HashedSound

\* Every step keeps the invariant (node_hashes, compare_context).
LEMMA GraphStep ==
  ASSUME GraphInv, [GraphNext]_graphVars
  PROVE  GraphInv'
<1>1. CASE UNCHANGED graphVars
  BY <1>1 DEF graphVars, GraphInv, GraphTypeOK, QueueExact, HashedSound, OutcomeSound,
              Done, Unhashed, deps, Cycle
<1>2. ASSUME NEW n \in Nodes, Take(n)
      PROVE  GraphInv'
  <2>1. GraphTypeOK'
    BY <1>2, TakenIsReady DEF Take, GraphInv, GraphTypeOK
  <2>2. OutcomeSound'
    BY <1>2 DEF Take, OutcomeSound
  <2> QED
    BY <1>2, <2>1, <2>2, TakeKeepsQueue, TakeKeepsHashed DEF GraphInv
<1>3. CASE Finish
  <2>1. UNCHANGED << manifest, degree, ready, hashed >>
    BY <1>3 DEF Finish
  <2>2. OutcomeSound'
    BY <1>3, <2>1 DEF Finish, OutcomeSound, AllHashed, Done
  <2> QED
    BY <2>1, <2>2 DEF GraphInv, GraphTypeOK, QueueExact, HashedSound, Done, Unhashed, deps, Cycle
<1>4. CASE Replace
  <2>1. PICK m \in Edits(manifest) : Starts(m)
    BY <1>4 DEF Replace
  <2>2. manifest \in Manifests
    BY DEF GraphInv, GraphTypeOK
  <2>3. m \in Manifests
    BY <2>1, <2>2 DEF Edits, Manifests
  <2>4. Fresh'
    BY <2>1, <2>3 DEF Starts, Fresh, deps
  <2> QED
    BY <2>4, FreshQueue, PTL
<1> QED
  BY <1>1, <1>2, <1>3, <1>4 DEF GraphNext

\* An empty queue and a node that is not hashed leave a cycle: every such node
\* still waits for another one.
LEMMA StuckIsCyclic ==
  ASSUME GraphInv, outcome = "refused"
  PROVE  Cycle(Nodes \ Done)
<1>1. ready = {} /\ Nodes \ Done # {}
  BY DEF GraphInv, OutcomeSound, GraphTypeOK
<1>2. \A n \in Nodes \ Done : Unhashed(n) # {}
  BY <1>1 DEF GraphInv, QueueExact
<1> QED
  BY <1>1, <1>2 DEF Cycle, Unhashed, GraphInv, GraphTypeOK

\* Accepted or refused, the graph is what the loop says.
LEMMA CyclesShow == GraphInv => CyclesAreRefused
BY StuckIsCyclic DEF GraphInv, OutcomeSound, HashedSound, CyclesAreRefused

\* node_hashes refuses exactly the graphs with a cycle, whatever their size
\* and whatever the order of its queue.
THEOREM AcceptanceExact == GraphSpec => []CyclesAreRefused
<1>1. GraphInit => GraphInv
  BY FreshQueue DEF GraphInit, Fresh
<1>2. GraphInv /\ [GraphNext]_graphVars => GraphInv'
  BY GraphStep
<1> QED
  BY <1>1, <1>2, CyclesShow, PTL DEF GraphSpec

------------------------------------------------------------------------------
(* What digests tell about a change *)

\* The nodes S with their digests.
Labelled(S, h) == { << n, h[n] >> : n \in S }

\* h digests the nodes S of the manifest m, each with the digests below it.
Digests(h, m, S) ==
  \A n \in S : h[n] = [path |-> n, content |-> m.content[n],
                       below |-> Labelled(m.deps[n], h)]

\* The target digest of the manifest m whose nodes have the digests h.
Target(m, h) == [settings |-> m.settings, roots |-> Labelled(m.roots, h)]

\* The stored target digest is that of the stored manifest.
BeforeSound ==
  before # NoHashes =>
    /\ before.manifest \in Manifests
    /\ \E h : Digests(h, before.manifest, Nodes) /\ before.target = Target(before.manifest, h)

DigestInv == GraphInv /\ Digests(hashed, manifest, Done) /\ BeforeSound

\* Two labelled sets are equal only if their elements and labels are.
LEMMA LabelsAgree ==
  ASSUME NEW R, NEW T, NEW h, NEW g
  PROVE  Labelled(R, h) = Labelled(T, g) <=> R = T /\ \A r \in R : h[r] = g[r]
<1> SUFFICES ASSUME Labelled(R, h) = Labelled(T, g)
             PROVE  R = T /\ \A r \in R : h[r] = g[r]
  BY DEF Labelled
<1> USE DEF Labelled
<1>1. ASSUME NEW r \in R PROVE r \in T /\ h[r] = g[r]
  <2>1. << r, h[r] >> \in { << q, g[q] >> : q \in T }
    OBVIOUS
  <2> QED
    BY <2>1
<1>2. ASSUME NEW r \in T PROVE r \in R
  <2>1. << r, g[r] >> \in { << q, h[q] >> : q \in R }
    OBVIOUS
  <2> QED
    BY <2>1
<1> QED
  BY <1>1, <1>2

\* A digest tells the content and the digests below.
LEMMA DigestTells ==
  ASSUME NEW old, NEW new, NEW h, NEW g, NEW n \in Nodes,
         Digests(h, old, Nodes), Digests(g, new, Nodes)
  PROVE  h[n] = g[n] <=> /\ old.content[n] = new.content[n]
                         /\ Labelled(old.deps[n], h) = Labelled(new.deps[n], g)
<1>1. h[n] = [path |-> n, content |-> old.content[n], below |-> Labelled(old.deps[n], h)]
  BY DEF Digests
<1>2. g[n] = [path |-> n, content |-> new.content[n], below |-> Labelled(new.deps[n], g)]
  BY DEF Digests
<1>3. /\ h[n].content = old.content[n] /\ h[n].below = Labelled(old.deps[n], h)
      /\ g[n].content = new.content[n] /\ g[n].below = Labelled(new.deps[n], g)
  BY <1>1, <1>2
<1>4. ASSUME old.content[n] = new.content[n],
             Labelled(old.deps[n], h) = Labelled(new.deps[n], g)
      PROVE  h[n] = g[n]
  BY <1>1, <1>2, <1>4
<1> QED
  BY <1>3, <1>4

\* The nodes a target is built from hold its roots and all below them.
LEMMA ConeClosed ==
  ASSUME NEW m \in Manifests
  PROVE  /\ m.roots \subseteq Cone(m) /\ Cone(m) \subseteq Nodes
         /\ \A n \in Cone(m) : m.deps[n] \subseteq Cone(m)
BY DEF Cone, Manifests

\* What is true of the roots and of all below what it is true of, is true of
\* everything the target is built from.
LEMMA ConeLeast ==
  ASSUME NEW m \in Manifests, NEW S \in SUBSET Nodes,
         m.roots \subseteq S, \A n \in S : m.deps[n] \subseteq S
  PROVE  Cone(m) \subseteq S
BY DEF Cone

\* Equal target digests mean equal targets, however deep a difference is:
\* the nodes with equal digests hold the roots and what is below them.
LEMMA EqualDigests ==
  ASSUME NEW old \in Manifests, NEW new \in Manifests, NEW h, NEW g,
         Digests(h, old, Nodes), Digests(g, new, Nodes), Target(old, h) = Target(new, g)
  PROVE  /\ old.settings = new.settings /\ old.roots = new.roots
         /\ \A n \in Cone(old) : old.content[n] = new.content[n] /\ old.deps[n] = new.deps[n]
<1> DEFINE S == { n \in Nodes : h[n] = g[n] }
<1>1. /\ old.settings = new.settings
      /\ Labelled(old.roots, h) = Labelled(new.roots, g)
  BY DEF Target
<1>2. old.roots = new.roots /\ \A r \in old.roots : h[r] = g[r]
  BY <1>1, LabelsAgree
<1>3. old.roots \subseteq S
  BY <1>2 DEF Manifests
<1>4. ASSUME NEW n \in S
      PROVE  /\ old.content[n] = new.content[n] /\ old.deps[n] = new.deps[n]
             /\ \A d \in old.deps[n] : h[d] = g[d]
  <2>1. /\ old.content[n] = new.content[n]
        /\ Labelled(old.deps[n], h) = Labelled(new.deps[n], g)
    BY DigestTells
  <2> QED
    BY <2>1, LabelsAgree
<1>5. \A n \in S : old.deps[n] \subseteq S
  BY <1>4 DEF Manifests
<1>6. Cone(old) \subseteq S
  <2> HIDE DEF S
  <2>1. S \in SUBSET Nodes
    BY DEF S
  <2> QED
    BY <1>3, <1>5, <2>1, ConeLeast
<1> QED
  BY <1>1, <1>2, <1>4, <1>6

\* Equal targets have equal digests: of the nodes with different ones each
\* would depend on another of them, and such a cycle has been refused.
LEMMA EqualTargets ==
  ASSUME NEW old \in Manifests, NEW new \in Manifests, NEW h, NEW g,
         Digests(h, old, Nodes), Digests(g, new, Nodes),
         \A S \in SUBSET Nodes : S # {} => \E n \in S : new.deps[n] \cap S = {},
         old.settings = new.settings, old.roots = new.roots,
         \A n \in Cone(old) : old.content[n] = new.content[n] /\ old.deps[n] = new.deps[n]
  PROVE  Target(old, h) = Target(new, g)
<1> DEFINE S == { n \in Cone(old) : h[n] # g[n] }
<1>1. /\ old.roots \subseteq Cone(old) /\ Cone(old) \subseteq Nodes
      /\ \A n \in Cone(old) : old.deps[n] \subseteq Cone(old)
  BY ConeClosed
<1>2. ASSUME NEW n \in S, new.deps[n] \cap S = {}
      PROVE  FALSE
  <2>1. \A d \in old.deps[n] : h[d] = g[d]
    BY <1>1, <1>2
  <2>2. Labelled(old.deps[n], h) = Labelled(new.deps[n], g)
    BY <1>2, <2>1, LabelsAgree
  <2>3. n \in Nodes /\ old.content[n] = new.content[n]
    BY <1>1
  <2> QED
    BY <2>2, <2>3, DigestTells
<1>3. S = {}
  <2>1. S \in SUBSET Nodes
    BY <1>1
  <2> QED
    BY <1>2, <2>1
<1>4. \A r \in old.roots : h[r] = g[r]
  BY <1>1, <1>3
<1> QED
  BY <1>4, LabelsAgree DEF Target

\* Every step keeps the digests (node_hashes, compare_context).
LEMMA DigestStep ==
  ASSUME DigestInv, [GraphNext]_graphVars
  PROVE  DigestInv'
<1>1. GraphInv'
  BY GraphStep DEF DigestInv
<1>2. CASE UNCHANGED graphVars \/ Finish
  <2>1. UNCHANGED << manifest, hashed, before >>
    BY <1>2 DEF graphVars, Finish
  <2> QED
    BY <1>1, <2>1 DEF DigestInv, Digests, BeforeSound, Done
<1>3. ASSUME NEW n \in Nodes, Take(n)
      PROVE  DigestInv'
  <2>1. /\ n \notin Done /\ deps[n] \subseteq Done /\ Done' = Done \cup {n}
        /\ \A m \in Done : deps[m] \subseteq Done
    BY <1>3, TakenIsReady DEF DigestInv, GraphInv, HashedSound
  <2>2. UNCHANGED << manifest, before >>
    BY <1>3 DEF Take
  <2>3. hashed'[n] = NodeDigest(n) /\ \A m \in Done : hashed'[m] = hashed[m]
    BY <1>3, <2>1 DEF Take, Done
  <2>4. Digests(hashed, manifest, Done)'
    <3>1. ASSUME NEW m \in Done
          PROVE  hashed'[m] = [path |-> m, content |-> manifest.content[m],
                               below |-> Labelled(manifest.deps[m], hashed')]
      <4>1. \A d \in manifest.deps[m] : hashed'[d] = hashed[d]
        BY <2>1, <2>3 DEF deps
      <4> QED
        BY <2>3, <4>1, LabelsAgree DEF DigestInv, Digests
    <3>2. hashed'[n] = [path |-> n, content |-> manifest.content[n],
                        below |-> Labelled(manifest.deps[n], hashed')]
      <4>1. \A d \in manifest.deps[n] : hashed'[d] = hashed[d]
        BY <2>1, <2>3 DEF deps
      <4>2. NodeDigest(n) = [path |-> n, content |-> manifest.content[n],
                             below |-> Labelled(manifest.deps[n], hashed)]
        BY DEF NodeDigest, deps, Labelled
      <4>3. Labelled(manifest.deps[n], hashed) = Labelled(manifest.deps[n], hashed')
        BY <4>1, LabelsAgree
      <4> QED
        BY <2>3, <4>2, <4>3
    <3> QED
      BY <2>1, <2>2, <3>1, <3>2 DEF Digests
  <2> QED
    BY <1>1, <2>2, <2>4 DEF DigestInv, BeforeSound
<1>4. CASE Replace
  <2>1. before' = [manifest |-> manifest, target |-> TargetDigest]
    BY <1>4 DEF Replace
  <2>2. Done' = {}
    BY <1>4 DEF Replace, Starts, Done
  <2>3. manifest \in Manifests /\ Done = Nodes
    BY <1>4 DEF Replace, DigestInv, GraphInv, GraphTypeOK, OutcomeSound
  <2>4. TargetDigest = Target(manifest, hashed)
    BY DEF TargetDigest, Target, Labelled
  <2> QED
    BY <1>1, <2>1, <2>2, <2>3, <2>4 DEF DigestInv, Digests, BeforeSound
<1> QED
  BY <1>2, <1>3, <1>4 DEF GraphNext

\* Nothing is hashed at first.
LEMMA DigestStarts == GraphInit => DigestInv
<1> SUFFICES ASSUME GraphInit PROVE DigestInv
  OBVIOUS
<1>1. GraphInv /\ Done = {}
  BY FreshQueue DEF GraphInit, Fresh, Done
<1> QED
  BY <1>1 DEF GraphInit, DigestInv, Digests, BeforeSound

\* Equal digests of a target are equal files and edges below it.
LEMMA DigestsShow == DigestInv => ImpactIsReachable
<1> SUFFICES ASSUME DigestInv, outcome = "accepted", before # NoHashes
             PROVE  ImpactIsReachable
  BY DEF ImpactIsReachable
<1> DEFINE old == before.manifest
<1>1. manifest \in Manifests /\ Done = Nodes /\ \A S \in SUBSET Nodes : ~Cycle(S)
  BY DEF DigestInv, GraphInv, GraphTypeOK, OutcomeSound, HashedSound
<1>2. PICK h : old \in Manifests /\ Digests(h, old, Nodes) /\ before.target = Target(old, h)
  BY DEF DigestInv, BeforeSound
<1>3. Digests(hashed, manifest, Nodes) /\ TargetDigest = Target(manifest, hashed)
  BY <1>1 DEF DigestInv, TargetDigest, Target, Labelled
<1>4. \A S \in SUBSET Nodes : S # {} => \E n \in S : manifest.deps[n] \cap S = {}
  BY <1>1 DEF Cycle, deps
<1> HIDE DEF old
<1>5. TargetDigest = before.target <=>
        /\ old.settings = manifest.settings /\ old.roots = manifest.roots
        /\ \A n \in Cone(old) : /\ old.content[n] = manifest.content[n]
                                /\ old.deps[n] = manifest.deps[n]
  <2>1. ASSUME TargetDigest = before.target
        PROVE  /\ old.settings = manifest.settings /\ old.roots = manifest.roots
               /\ \A n \in Cone(old) : /\ old.content[n] = manifest.content[n]
                                       /\ old.deps[n] = manifest.deps[n]
    <3>1. Target(old, h) = Target(manifest, hashed)
      BY <1>2, <1>3, <2>1
    <3> QED
      BY <1>1, <1>2, <1>3, <3>1, EqualDigests
  <2>2. ASSUME old.settings = manifest.settings, old.roots = manifest.roots,
               \A n \in Cone(old) : /\ old.content[n] = manifest.content[n]
                                    /\ old.deps[n] = manifest.deps[n]
        PROVE  TargetDigest = before.target
    <3>1. Target(old, h) = Target(manifest, hashed)
      BY <1>1, <1>2, <1>3, <1>4, <2>2, EqualTargets
    <3> QED
      BY <1>2, <1>3, <3>1
  <2> QED
    BY <2>1, <2>2
<1> QED
  BY <1>5 DEF ImpactIsReachable, old, deps

\* In every behaviour of hashing, editing and hashing again, the digests of a
\* target differ exactly if its settings, its roots, or a file or an edge
\* anywhere below them does, whatever the size and the shape of the graph.
THEOREM ImpactExact == GraphSpec => []ImpactIsReachable
<1>1. DigestInv /\ [GraphNext]_graphVars => DigestInv'
  BY DigestStep
<1> QED
  BY <1>1, DigestStarts, DigestsShow, PTL DEF GraphSpec

------------------------------------------------------------------------------
(* The least rotation of a ring *)

\* doubled[x] of the list p.
At(p, x) == p[(x % Len(p)) + 1]
Point == Int \X Int

\* A remainder is below its divisor (doubled has an entry for every index).
LEMMA ModIn == ASSUME NEW n \in Nat \ {0}, NEW x \in Nat PROVE x % n \in 0 .. n - 1
OBVIOUS

\* Division with remainder.
LEMMA Division ==
  ASSUME NEW n \in Nat \ {0}, NEW x \in Nat
  PROVE  x = (n * (x \div n)) + (x % n) /\ x % n \in 0 .. n - 1 /\ x \div n \in Int
OBVIOUS

\* The only multiple of n strictly between 0 and 2n is n.
LEMMA OneRound ==
  ASSUME NEW n \in Nat \ {0}, NEW u \in Int, n * u \in 1 .. 2 * n - 1
  PROVE  u = 1
<1>1. ASSUME u >= 2 PROVE FALSE
  <2>1. n * u >= n * 2
    BY <1>1
  <2> QED BY <2>1
<1>2. ASSUME u =< 0 PROVE FALSE
  <2>1. n * u =< 0
    BY <1>2
  <2> QED BY <2>1
<1> QED BY <1>1, <1>2

\* One whole round further, the remainder is the same.
LEMMA ModRound ==
  ASSUME NEW n \in Nat \ {0}, NEW x \in Nat
  PROVE  (x + n) % n = x % n
<1> DEFINE q == x \div n
           r == x % n
           y == (x + n) \div n
           s == (x + n) % n
<1>1. x = n * q + r /\ r \in 0 .. n - 1 /\ q \in Int
  BY Division
<1>2. x + n = n * y + s /\ s \in 0 .. n - 1 /\ y \in Int
  <2>1. x + n \in Nat
    OBVIOUS
  <2> QED BY <2>1, Division
<1> HIDE DEF q, r, y, s
<1>3. n * (y - q) = n + r - s /\ y - q \in Int
  BY <1>1, <1>2
<1>4. y - q = 1
  <2>1. n * (y - q) \in 1 .. 2 * n - 1
    BY <1>1, <1>2, <1>3
  <2> QED BY <1>3, <2>1, OneRound
<1>5. n * 1 = n + r - s
  BY <1>3, <1>4
<1> QED
  BY <1>5, <1>1, <1>2 DEF r, s

\* One whole round further is the same vertex (doubled = vertices * 2).
LEMMA AtRound ==
  ASSUME NEW p \in Seq(Point), p # << >>, NEW x \in Nat
  PROVE  At(p, x + Len(p)) = At(p, x)
<1>1. Len(p) \in Nat \ {0}
  OBVIOUS
<1> QED BY <1>1, ModRound DEF At

\* Whatever the index, a vertex is read (doubled).
LEMMA AtIn ==
  ASSUME NEW p \in Seq(Point), p # << >>, NEW x \in Nat
  PROVE  At(p, x) \in Point
<1>1. Len(p) \in Nat \ {0}
  OBVIOUS
<1>2. x % Len(p) \in 0 .. Len(p) - 1
  BY <1>1, ModIn
<1>3. (x % Len(p)) + 1 \in 1 .. Len(p)
  BY <1>1, <1>2
<1> QED BY <1>3 DEF At

\* The rotation that begins at index s, vertex by vertex
\* (doubled[start:start + length]).
LEMMA TurnIs ==
  ASSUME NEW p \in Seq(Point), p # << >>, NEW s \in Nat
  PROVE  /\ Turn(p, s + 1) \in Seq(Point) /\ Len(Turn(p, s + 1)) = Len(p)
         /\ \A m \in 1 .. Len(p) : Turn(p, s + 1)[m] = At(p, s + m - 1)
<1>1. Len(p) \in Nat \ {0}
  OBVIOUS
<1> DEFINE T == [m \in 1 .. Len(p) |-> At(p, s + m - 1)]
<1>2. ASSUME NEW m \in 1 .. Len(p)
      PROVE  At(p, s + m - 1) = p[((m + (s + 1) - 2) % Len(p)) + 1]
  <2>1. m + (s + 1) - 2 = s + m - 1
     OBVIOUS
  <2> QED BY <2>1 DEF At
<1>3. Turn(p, s + 1) = T
  BY <1>2, Zenon DEF Turn
<1>4. \A m \in 1 .. Len(p) : At(p, s + m - 1) \in Point
  BY <1>1, AtIn
<1>5. T \in Seq(Point) /\ Len(T) = Len(p)
  BY <1>1, <1>4
<1> QED BY <1>3, <1>5

\* Points are totally ordered (the comparison of tuples in ring()).
LEMMA PointOrder ==
  ASSUME NEW a \in Point, NEW b \in Point, NEW c \in Point
  PROVE  /\ ~PointBefore(a, a)
         /\ PointBefore(a, b) /\ PointBefore(b, c) => PointBefore(a, c)
         /\ a = b \/ PointBefore(a, b) \/ PointBefore(b, a)
<1>1. /\ a[1] \in Int /\ a[2] \in Int /\ b[1] \in Int /\ b[2] \in Int
      /\ c[1] \in Int /\ c[2] \in Int
      /\ a[1] = b[1] /\ a[2] = b[2] => a = b
  BY DEF Point
<1> QED BY <1>1 DEF PointBefore

\* Lists of one length are strictly ordered (min over the rotations).
LEMMA Order ==
  ASSUME NEW u \in Seq(Point), NEW v \in Seq(Point), NEW w \in Seq(Point),
         Len(v) = Len(u), Len(w) = Len(u)
  PROVE  /\ ~ListBefore(u, u)
         /\ ListBefore(u, v) /\ ListBefore(v, w) => ListBefore(u, w)
<1>1. ~ListBefore(u, u)
  BY PointOrder DEF ListBefore
<1>2. ASSUME ListBefore(u, v), ListBefore(v, w)
      PROVE  ListBefore(u, w)
  <2>1. PICK m \in 1 .. Len(u) : /\ \A x \in 1 .. m - 1 : u[x] = v[x]
                                 /\ PointBefore(u[m], v[m])
    BY <1>2 DEF ListBefore
  <2>2. PICK l \in 1 .. Len(v) : /\ \A x \in 1 .. l - 1 : v[x] = w[x]
                                 /\ PointBefore(v[l], w[l])
    BY <1>2 DEF ListBefore
  <2>3. \A x \in 1 .. Len(u) : u[x] \in Point /\ v[x] \in Point /\ w[x] \in Point
    OBVIOUS
  <2>4. m \in Int /\ l \in Int /\ Len(u) \in Nat
    OBVIOUS
  <2>5. CASE m < l
    <3>1. /\ \A x \in 1 .. m - 1 : u[x] = w[x]
          /\ v[m] = w[m]
      BY <2>1, <2>2, <2>4, <2>5
    <3>2. PointBefore(u[m], w[m])
      BY <2>1, <2>3, <3>1, PointOrder
    <3> QED BY <3>1, <3>2 DEF ListBefore
  <2>6. CASE l < m
    <3>1. /\ l \in 1 .. Len(u) /\ \A x \in 1 .. l - 1 : u[x] = w[x]
          /\ u[l] = v[l]
      BY <2>1, <2>2, <2>4, <2>6
    <3> QED BY <2>2, <3>1 DEF ListBefore
  <2>7. CASE l = m
    <3>1. \A x \in 1 .. m - 1 : u[x] = w[x]
      BY <2>1, <2>2, <2>4, <2>7
    <3>2. PointBefore(u[m], w[m])
      BY <2>1, <2>2, <2>3, <2>7, PointOrder
    <3> QED BY <3>1, <3>2 DEF ListBefore
  <2> QED BY <2>4, <2>5, <2>6, <2>7
<1> QED BY <1>1, <1>2

\* A set of naturals that is not empty has a least member.
LEMMA NatLeast ==
  ASSUME NEW S \in SUBSET Nat, S # {}
  PROVE  \E x \in S : \A y \in S : x =< y
<1>1. PICK x \in S : \A y \in S : ~ (<< y, x >> \in OpToRel(<, Nat))
  BY NatLessThanWellFounded, WFMin
<1>2. \A y \in S : x =< y
  <2> TAKE y \in S
  <2>1. ~ (<< y, x >> \in {ss \in Nat \X Nat : ss[1] < ss[2]})
    BY <1>1 DEF OpToRel
  <2> QED
    BY <2>1
<1> QED BY <1>2

\* Of two lists of one length, one sorts first unless they are equal: they
\* differ at a first place.
LEMMA Total ==
  ASSUME NEW u \in Seq(Point), NEW v \in Seq(Point), Len(v) = Len(u),
         ~ListBefore(u, v), ~ListBefore(v, u)
  PROVE  u = v
<1> SUFFICES ASSUME u # v PROVE FALSE
  OBVIOUS
<1> DEFINE S == {x \in 1 .. Len(u) : u[x] # v[x]}
<1>1. S # {}
  <2> SUFFICES ASSUME \A x \in 1 .. Len(u) : u[x] = v[x] PROVE FALSE
     OBVIOUS
  <2> QED BY SeqEqual
<1>2. S \subseteq Nat
  OBVIOUS
<1> HIDE DEF S
<1>3. PICK x \in S : \A y \in S : x =< y
  BY <1>1, <1>2, NatLeast
<1>4. x \in 1 .. Len(u) /\ u[x] # v[x] /\ \A y \in 1 .. x - 1 : u[y] = v[y]
  BY <1>3 DEF S
<1>5. u[x] \in Point /\ v[x] \in Point
  BY <1>4
<1>6. PointBefore(u[x], v[x]) \/ PointBefore(v[x], u[x])
  BY <1>4, <1>5, PointOrder
<1> QED BY <1>4, <1>6 DEF ListBefore

\* The indices at which a rotation can begin.
StartsOf(p) == 0 .. Len(p) - 1

\* No rotation is less than the one that begins at s.
Best(p, s) == \A t \in StartsOf(p) : ~ListBefore(Turn(p, t + 1), Turn(p, s + 1))

\* Some start is best: one with the fewest better starts has none.
LEMMA BestExists ==
  ASSUME NEW p \in Seq(Point), p # << >>
  PROVE  \E s \in StartsOf(p) : Best(p, s)
<1> DEFINE better(s) == {t \in StartsOf(p) : ListBefore(Turn(p, t + 1), Turn(p, s + 1))}
           ranks == {Cardinality(better(s)) : s \in StartsOf(p)}
<1>1. Len(p) \in Nat \ {0} /\ 0 \in StartsOf(p) /\ StartsOf(p) \subseteq Nat
  BY DEF StartsOf
<1>2. IsFiniteSet(StartsOf(p))
  BY <1>1, FS_Interval DEF StartsOf
<1>3. ASSUME NEW s \in StartsOf(p)
      PROVE  IsFiniteSet(better(s)) /\ Cardinality(better(s)) \in Nat
  <2>1. better(s) \in SUBSET StartsOf(p)
    OBVIOUS
  <2> HIDE DEF better
  <2> QED BY <1>2, <2>1, FS_Subset, FS_CardinalityType
<1>4. ranks \in SUBSET Nat /\ ranks # {}
  <2> HIDE DEF better
  <2> QED BY <1>1, <1>3
<1>5. PICK c \in ranks : \A d \in ranks : c =< d
  <2> HIDE DEF ranks
  <2> QED BY <1>4, NatLeast
<1>6. PICK s \in StartsOf(p) : c = Cardinality(better(s))
  OBVIOUS
<1>7. ASSUME NEW t \in better(s)
      PROVE  FALSE
  <2>1. t \in StartsOf(p) /\ ListBefore(Turn(p, t + 1), Turn(p, s + 1))
    BY <1>7
  <2>2. ASSUME NEW r \in Nat
        PROVE  Turn(p, r + 1) \in Seq(Point) /\ Len(Turn(p, r + 1)) = Len(p)
    BY TurnIs
  <2>3. ASSUME NEW r \in better(t)
        PROVE  r \in better(s)
    <3>1. r \in StartsOf(p) /\ ListBefore(Turn(p, r + 1), Turn(p, t + 1))
      BY <2>3
    <3>2. /\ Turn(p, r + 1) \in Seq(Point) /\ Turn(p, t + 1) \in Seq(Point)
          /\ Turn(p, s + 1) \in Seq(Point)
          /\ Len(Turn(p, t + 1)) = Len(Turn(p, r + 1))
          /\ Len(Turn(p, s + 1)) = Len(Turn(p, r + 1))
      BY <1>1, <1>6, <2>1, <2>2, <3>1
    <3>3. ListBefore(Turn(p, r + 1), Turn(p, s + 1))
      BY <2>1, <3>1, <3>2, Order
    <3> QED BY <3>1, <3>3
  <2>4. t \notin better(t)
    <3>1. Turn(p, t + 1) \in Seq(Point)
      BY <1>1, <2>1, <2>2
    <3>2. ~ListBefore(Turn(p, t + 1), Turn(p, t + 1))
      BY <3>1, Order
    <3> QED BY <3>2
  <2>5. better(t) \in SUBSET better(s) /\ better(t) # better(s)
    <3> HIDE DEF better
    <3> QED BY <1>7, <2>3, <2>4
  <2>6. Cardinality(better(t)) \in ranks
    BY <2>1
  <2>7. c =< Cardinality(better(t))
    BY <1>5, <2>6
  <2> HIDE DEF better, ranks
  <2>8. /\ Cardinality(better(t)) =< Cardinality(better(s))
        /\ Cardinality(better(s)) # Cardinality(better(t))
    BY <1>3, <1>6, <2>5, FS_Subset
  <2> QED BY <1>3, <1>6, <2>1, <2>7, <2>8
<1> QED BY <1>6, <1>7 DEF Best

\* There is a first best start.
LEMMA FirstBest ==
  ASSUME NEW p \in Seq(Point), p # << >>
  PROVE  \E s \in StartsOf(p) : Best(p, s) /\ \A t \in StartsOf(p) : Best(p, t) => s =< t
<1> DEFINE S == {s \in StartsOf(p) : Best(p, s)}
<1>1. S \in SUBSET Nat /\ S # {}
  BY BestExists DEF StartsOf
<1> HIDE DEF S
<1>2. PICK s \in S : \A t \in S : s =< t
  BY <1>1, NatLeast
<1> QED BY <1>2 DEF S

\* What the loop leaves out is never best: where the list from a and the
\* list from b agree up to l and b is lower there, every start from a to a + l
\* is beaten by the one as far from b.
LEMMA Eliminates ==
  ASSUME NEW p \in Seq(Point), p # << >>,
         NEW a \in StartsOf(p), NEW b \in StartsOf(p), NEW l \in 0 .. Len(p) - 1,
         \A m \in 0 .. l - 1 : At(p, a + m) = At(p, b + m),
         PointBefore(At(p, b + l), At(p, a + l)),
         NEW s \in StartsOf(p), a =< s, s =< a + l
  PROVE  ~Best(p, s)
<1> DEFINE n == Len(p)
           d == s - a
           t == IF b + d < n THEN b + d ELSE b + d - n
           x == l - d + 1
<1>1. /\ n \in Nat \ {0} /\ d \in 0 .. l /\ b \in 0 .. n - 1 /\ t \in StartsOf(p)
      /\ x \in 1 .. n /\ a + d = s /\ a \in Nat /\ s \in Nat /\ l \in Nat /\ t \in Nat
  BY DEF StartsOf
<1>2. ASSUME NEW y \in 1 .. n
      PROVE  /\ Turn(p, s + 1)[y] = At(p, a + (d + y - 1))
             /\ Turn(p, t + 1)[y] = At(p, b + (d + y - 1))
  <2>1. /\ Turn(p, s + 1)[y] = At(p, s + y - 1)
        /\ Turn(p, t + 1)[y] = At(p, t + y - 1)
    BY <1>1, TurnIs
  <2>2. s + y - 1 = a + (d + y - 1)
    BY <1>1
  <2>3. At(p, t + y - 1) = At(p, b + (d + y - 1))
    <3>1. CASE b + d < n
      BY <3>1, <1>1
    <3>2. CASE ~(b + d < n)
      <4>1. /\ t + y - 1 \in Nat
            /\ (t + y - 1) + n = b + (d + y - 1)
        BY <3>2, <1>1
      <4> HIDE DEF t, d
      <4> QED BY <4>1, AtRound
    <3> QED BY <3>1, <3>2
  <2> QED BY <2>1, <2>2, <2>3
<1> HIDE DEF t
<1>3. \A y \in 1 .. x - 1 : Turn(p, t + 1)[y] = Turn(p, s + 1)[y]
  <2> TAKE y \in 1 .. x - 1
  <2>1. y \in 1 .. n /\ d + y - 1 \in 0 .. l - 1
    BY <1>1
  <2> HIDE DEF d, x
  <2> QED BY <1>2, <2>1
<1>4. PointBefore(Turn(p, t + 1)[x], Turn(p, s + 1)[x])
  <2>1. d + x - 1 = l
    BY <1>1
  <2> HIDE DEF d, x
  <2> QED BY <1>1, <1>2, <2>1
<1>5. Len(Turn(p, t + 1)) = n
  BY <1>1, TurnIs
<1> HIDE DEF x, d
<1>6. ListBefore(Turn(p, t + 1), Turn(p, s + 1))
  BY <1>1, <1>3, <1>4, <1>5 DEF ListBefore
<1> QED BY <1>1, <1>6 DEF Best

\* Two starts that agree all the way make the list periodic, so the first
\* best start lies before the later one: it is the earlier one.
LEMMA Periodic ==
  ASSUME NEW p \in Seq(Point), p # << >>,
         NEW a \in StartsOf(p), NEW b \in StartsOf(p), a < b,
         \A m \in 0 .. Len(p) - 1 : At(p, a + m) = At(p, b + m),
         \A s \in StartsOf(p) : s < b => s = a \/ ~Best(p, s)
  PROVE  Best(p, a)
<1> DEFINE n == Len(p)
<1>1. n \in Nat \ {0} /\ a \in Nat /\ b \in Nat /\ a < n /\ b < n
  BY DEF StartsOf
<1>2. ASSUME NEW y \in 0 .. 2 * n - 1
      PROVE  At(p, a + y) = At(p, b + y)
  <2>1. CASE y < n
    BY <1>1, <2>1
  <2>2. CASE ~(y < n)
    <3> DEFINE m == y - n
    <3>1. /\ m \in 0 .. n - 1 /\ a + m \in Nat /\ b + m \in Nat
          /\ a + y = (a + m) + n /\ b + y = (b + m) + n
      BY <1>1, <2>2
    <3> HIDE DEF m
    <3>2. At(p, (a + m) + n) = At(p, a + m) /\ At(p, (b + m) + n) = At(p, b + m)
      BY <3>1, AtRound
    <3> QED BY <3>1, <3>2
  <2> QED BY <2>1, <2>2
<1>3. PICK s \in StartsOf(p) : Best(p, s) /\ \A t \in StartsOf(p) : Best(p, t) => s =< t
  BY FirstBest
<1>4. ASSUME s >= b
      PROVE  FALSE
  <2> DEFINE t == s - (b - a)
  <2>1. t \in StartsOf(p) /\ t < s /\ t \in Nat /\ s \in Nat /\ s < n /\ t >= a
    BY <1>1, <1>4 DEF StartsOf
  <2>2. ASSUME NEW y \in 1 .. n
        PROVE  Turn(p, t + 1)[y] = Turn(p, s + 1)[y]
    <3> DEFINE z == t - a + y - 1
    <3>1. /\ z \in 0 .. 2 * n - 1 /\ t + y - 1 = a + z /\ s + y - 1 = b + z
      BY <1>1, <2>1
    <3>2. /\ Turn(p, t + 1)[y] = At(p, t + y - 1)
          /\ Turn(p, s + 1)[y] = At(p, s + y - 1)
      <4> HIDE DEF t
      <4> QED BY <2>1, TurnIs
    <3> HIDE DEF z, t
    <3> QED BY <1>2, <3>1, <3>2
  <2> HIDE DEF t
  <2>3. /\ Turn(p, t + 1) \in Seq(Point) /\ Turn(p, s + 1) \in Seq(Point)
        /\ Len(Turn(p, t + 1)) = n /\ Len(Turn(p, s + 1)) = n
    BY <2>1, TurnIs
  <2>4. Turn(p, t + 1) = Turn(p, s + 1)
    BY <2>2, <2>3, SeqEqual
  <2>5. Best(p, t)
    BY <1>3, <2>4 DEF Best
  <2> QED BY <1>3, <2>1, <2>5
<1> QED BY <1>1, <1>3, <1>4 DEF StartsOf

\* u is a least member of S.
Least(u, S) == u \in S /\ \A v \in S : ~ListBefore(v, u)

\* A least member of a set of lists is the one that min returns.
LEMMA LeastIs ==
  ASSUME NEW n, NEW S, \A v \in S : v \in Seq(Point) /\ Len(v) = n, NEW u, Least(u, S)
  PROVE  LeastList(S) = u
<1> DEFINE w == LeastList(S)
<1>1. w \in S /\ \A v \in S : ~ListBefore(v, w)
  BY DEF LeastList, Least
<1> HIDE DEF w
<1>2. u \in S /\ \A v \in S : ~ListBefore(v, u)
  BY DEF Least
<1>3. w = u
  BY <1>1, <1>2, Total
<1> QED BY <1>3 DEF w

\* The rotation from a best start is least of all rotations.
LEMMA BestIsLeast ==
  ASSUME NEW p \in Seq(Point), p # << >>, NEW s \in StartsOf(p), Best(p, s)
  PROVE  Least(Turn(p, s + 1), Turns(p))
<1>1. Len(p) \in Nat \ {0}
  OBVIOUS
<1>2. s + 1 \in 1 .. Len(p)
  BY <1>1 DEF StartsOf
<1>3. ASSUME NEW v \in Turns(p)
      PROVE  ~ListBefore(v, Turn(p, s + 1))
  <2>1. PICK r \in 1 .. Len(p) : v = Turn(p, r)
    BY DEF Turns
  <2>2. r - 1 \in StartsOf(p) /\ (r - 1) + 1 = r
    BY <1>1 DEF StartsOf
  <2>3. ~ListBefore(Turn(p, (r - 1) + 1), Turn(p, s + 1))
    BY <2>2 DEF Best
  <2> QED BY <2>1, <2>2, <2>3
<1> QED BY <1>2, <1>3 DEF Least, Turns

\* Rotations are lists of the same length.
LEMMA TurnsTyped ==
  ASSUME NEW p \in Seq(Point), p # << >>, NEW v \in Turns(p)
  PROVE  v \in Seq(Point) /\ Len(v) = Len(p)
<1>1. PICK r \in 1 .. Len(p) : v = Turn(p, r)
  BY DEF Turns
<1>2. r - 1 \in Nat /\ (r - 1) + 1 = r
  OBVIOUS
<1>3. Turn(p, (r - 1) + 1) \in Seq(Point) /\ Len(Turn(p, (r - 1) + 1)) = Len(p)
  BY <1>2, TurnIs
<1> QED BY <1>1, <1>2, <1>3

\* The least of the two least rotations is least of both directions
\* (min(rotation(ring), rotation(reversed ring))).
LEMMA BothWays ==
  ASSUME NEW n, NEW S, \A v \in S : v \in Seq(Point) /\ Len(v) = n,
         NEW T, \A v \in T : v \in Seq(Point) /\ Len(v) = n,
         NEW u, Least(u, S), NEW w, Least(w, T)
  PROVE  LeastList({u, w}) = LeastList(S \cup T)
<1> DEFINE x == IF ListBefore(u, w) THEN u ELSE w
<1>1. /\ u \in Seq(Point) /\ w \in Seq(Point) /\ Len(u) = n /\ Len(w) = n
      /\ u \in S /\ w \in T
      /\ \A v \in S : ~ListBefore(v, u)
      /\ \A v \in T : ~ListBefore(v, w)
  BY DEF Least
<1>2. Least(x, {u, w})
  BY <1>1, Order DEF Least
<1>3. ASSUME NEW v \in S, ListBefore(v, w), ~ListBefore(u, w)
      PROVE  FALSE
  <2>1. v \in Seq(Point) /\ Len(v) = n /\ ~ListBefore(v, u)
    BY <1>1
  <2>2. CASE ListBefore(w, u)
    BY <1>1, <1>3, <2>1, <2>2, Order
  <2>3. CASE u = w
    BY <1>3, <2>1, <2>3
  <2> QED BY <1>1, <1>3, <2>2, <2>3, Total
<1>4. ASSUME NEW v \in T, ListBefore(v, u), ListBefore(u, w)
      PROVE  FALSE
  <2>1. v \in Seq(Point) /\ Len(v) = n /\ ~ListBefore(v, w)
    BY <1>1
  <2> QED BY <1>1, <1>4, <2>1, Order
<1>5. Least(x, S \cup T)
  BY <1>1, <1>3, <1>4 DEF Least
<1>6. LeastList({u, w}) = x
  BY <1>1, <1>2, LeastIs
<1>7. LeastList(S \cup T) = x
  BY <1>5, LeastIs
<1> QED BY <1>6, <1>7

\* The loop on the list p with starts a and b that agree in l vertices: what
\* a and b have passed is not best, except one another.
Searching(p, a, b, l) ==
  /\ a \in Nat /\ b \in Nat /\ a # b /\ l \in 0 .. Len(p)
  /\ a < Len(p) \/ b < Len(p)
  /\ l > 0 => a < Len(p) /\ b < Len(p)
  /\ \A m \in 0 .. l - 1 : At(p, a + m) = At(p, b + m)
  /\ \A s \in StartsOf(p) : Best(p, s) => (s < a => s = b) /\ (s < b => s = a)

\* Nothing is excluded when the loop starts with i = 0, j = 1, k = 0.
LEMMA SearchBegins ==
  ASSUME NEW p \in Seq(Point), p # << >>
  PROVE  Searching(p, 0, 1, 0)
<1>1. Len(p) \in Nat \ {0}
  OBVIOUS
<1> QED BY <1>1 DEF Searching, StartsOf

\* One more equal vertex excludes nothing (k += 1).
LEMMA StartsAgree ==
  ASSUME NEW p \in Seq(Point), p # << >>, NEW a, NEW b, NEW l, Searching(p, a, b, l),
         a < Len(p), b < Len(p), l < Len(p), At(p, a + l) = At(p, b + l)
  PROVE  Searching(p, a, b, l + 1)
<1>1. Len(p) \in Nat /\ l \in Nat /\ l + 1 \in 0 .. Len(p) /\ (l + 1) - 1 = l
  BY DEF Searching
<1>2. \A m \in 0 .. l : m = l \/ m \in 0 .. l - 1
  BY <1>1
<1>3. \A m \in 0 .. (l + 1) - 1 : At(p, a + m) = At(p, b + m)
  BY <1>1, <1>2 DEF Searching
<1> QED BY <1>1, <1>3 DEF Searching

\* The start that moves on passes only starts that are not best, and the
\* other start (i += k + 1, and one more if i meets j).
LEMMA StartsDiffer ==
  ASSUME NEW p \in Seq(Point), p # << >>, NEW a, NEW b, NEW l, Searching(p, a, b, l),
         a < Len(p), b < Len(p), l < Len(p), PointBefore(At(p, b + l), At(p, a + l))
  PROVE  Searching(p, IF a + l + 1 = b THEN a + l + 2 ELSE a + l + 1, b, 0)
<1> DEFINE c == IF a + l + 1 = b THEN a + l + 2 ELSE a + l + 1
<1>1. /\ Len(p) \in Nat /\ a \in Nat /\ b \in Nat /\ l \in Nat /\ l \in 0 .. Len(p) - 1
      /\ a \in StartsOf(p) /\ b \in StartsOf(p)
  BY DEF Searching, StartsOf
<1>2. ASSUME NEW s \in StartsOf(p), a =< s, s =< a + l
      PROVE  ~Best(p, s)
  <2>1. \A m \in 0 .. l - 1 : At(p, a + m) = At(p, b + m)
    BY DEF Searching
  <2> QED BY <1>1, <1>2, <2>1, Eliminates
<1>3. ASSUME NEW s \in StartsOf(p), Best(p, s)
      PROVE  (s < c => s = b) /\ (s < b => s = c)
  <2>1. s \in Nat /\ (s < a => s = b) /\ (s < b => s = a)
    BY <1>3 DEF Searching, StartsOf
  <2>2. ~(a =< s /\ s =< a + l)
    BY <1>2, <1>3
  <2> QED BY <1>1, <2>1, <2>2
<1>4. c \in Nat /\ c # b
  BY <1>1
<1> HIDE DEF c
<1>5. Searching(p, c, b, 0)
  BY <1>1, <1>3, <1>4 DEF Searching
<1> QED BY <1>5 DEF c

\* The loop treats i and j alike.
LEMMA SearchTurns ==
  ASSUME NEW p, NEW a, NEW b, NEW l, Searching(p, a, b, l)
  PROVE  Searching(p, b, a, l)
BY DEF Searching

\* When the loop ends, the smaller index is a best start: either the list
\* is periodic, or one index has run out and all but the other are excluded
\* (start = min(i, j)).
LEMMA SearchFinds ==
  ASSUME NEW p \in Seq(Point), p # << >>, NEW a, NEW b, NEW l, Searching(p, a, b, l),
         ~(a < Len(p) /\ b < Len(p) /\ l < Len(p))
  PROVE  LET s == IF a < b THEN a ELSE b
         IN  s \in StartsOf(p) /\ Best(p, s)
<1>1. Len(p) \in Nat \ {0} /\ a \in Nat /\ b \in Nat /\ l \in Nat
  BY DEF Searching
<1>2. CASE l = Len(p)
  <2>1. /\ a \in StartsOf(p) /\ b \in StartsOf(p) /\ a # b
        /\ \A m \in 0 .. Len(p) - 1 : At(p, a + m) = At(p, b + m)
    BY <1>1, <1>2 DEF Searching, StartsOf
  <2>2. \A s \in StartsOf(p) : (s < b => s = a \/ ~Best(p, s)) /\ (s < a => s = b \/ ~Best(p, s))
    BY DEF Searching
  <2>3. CASE a < b
    BY <2>1, <2>2, <2>3, Periodic
  <2>4. CASE b < a
    <3>1. \A m \in 0 .. Len(p) - 1 : At(p, b + m) = At(p, a + m)
      BY <2>1
    <3>2. Best(p, b)
      BY <2>1, <2>2, <2>4, <3>1, Periodic
    <3> QED BY <1>1, <2>1, <2>4, <3>2
  <2> QED BY <1>1, <2>1, <2>3, <2>4
<1>3. CASE l # Len(p)
  <2>1. PICK s \in StartsOf(p) : Best(p, s)
    BY BestExists
  <2>2. /\ s \in Nat /\ s < Len(p) /\ (s < a => s = b) /\ (s < b => s = a)
        /\ a < Len(p) \/ b < Len(p)
        /\ ~(a < Len(p)) \/ ~(b < Len(p))
    BY <1>1, <1>3, <2>1 DEF Searching, StartsOf
  <2>3. s = IF a < b THEN a ELSE b
    BY <1>1, <2>2
  <2> QED BY <2>1, <2>3
<1> QED BY <1>2, <1>3

RingTypeOK ==
  /\ ring \in Seq(Point) /\ ring # << >> /\ Len(ring) >= 2
  /\ pass \in Directions \cup {"done", "refused"}
  /\ found = [d \in Directions |-> found[d]]
  /\ steps \in Nat

\* Every round advances i + j + k, which starts again with the second pass.
\* While the loop goes round, i and j differ and the three are below the length.
StepsCounted ==
  /\ steps =< Allowed
  /\ pass = "forward" => steps < i + j + k /\ steps =< 3 * Len(ring) - 4
  /\ pass = "backward" => steps < 3 * Len(ring) - 4 + (i + j + k)

\* A direction that is done has left its least rotation.
FoundLeast ==
  /\ pass \in {"backward", "done"} => Least(found["forward"], Turns(ring))
  /\ pass = "done" => Least(found["backward"], Turns(Backward(ring)))

RingInv ==
  /\ RingTypeOK
  /\ pass \in Directions => Searching(Listed, i, j, k)
  /\ StepsCounted
  /\ FoundLeast

\* The reversed ring has the same length.
LEMMA BackwardIs ==
  ASSUME NEW p \in Seq(Point), p # << >>
  PROVE  Backward(p) \in Seq(Point) /\ Len(Backward(p)) = Len(p) /\ Backward(p) # << >>
<1>1. Len(p) \in Nat \ {0}
  OBVIOUS
<1>2. \A m \in 1 .. Len(p) : p[Len(p) + 1 - m] \in Point
  BY <1>1
<1> QED BY <1>1, <1>2 DEF Backward

\* The list that the loop walks has the length of the ring.
LEMMA ListedIs ==
  ASSUME RingTypeOK
  PROVE  Listed \in Seq(Point) /\ Len(Listed) = Len(ring) /\ Listed # << >>
BY BackwardIs DEF RingTypeOK, Listed

\* Opening a ring leaves two vertices at least (ring[:-1] when the ends coincide).
LEMMA OpenedIs ==
  ASSUME NEW n \in 3 .. MaxLength, NEW p \in [1 .. n -> Points]
  PROVE  Opened(p) \in Seq(Point) /\ Opened(p) # << >> /\ Len(Opened(p)) >= 2
<1>1. p \in Seq(Point) /\ Len(p) = n /\ n \in Nat
  BY PointAssumption DEF Point
<1>2. SubSeq(p, 1, n - 1) \in Seq(Point) /\ Len(SubSeq(p, 1, n - 1)) = n - 1
  BY <1>1
<1> QED BY <1>1, <1>2 DEF Opened

\* The search begins within the invariant, also on a ring that is refused.
LEMMA SearchInitial == SearchInit => RingInv
<1> SUFFICES ASSUME SearchInit PROVE RingInv
  OBVIOUS
<1>1. ring \in Seq(Point) /\ ring # << >> /\ Len(ring) >= 2
  BY OpenedIs DEF SearchInit
<1>2. pass \in {"forward", "refused"} /\ i = 0 /\ j = 1 /\ k = 0 /\ steps = 0
  BY DEF SearchInit
<1>3. RingTypeOK
  BY <1>1, <1>2 DEF SearchInit, RingTypeOK, Directions
<1>4. Searching(Listed, 0, 1, 0)
  BY <1>3, ListedIs, SearchBegins
<1>5. StepsCounted
  <2>1. Len(ring) \in Nat /\ Len(ring) >= 2
    BY <1>1
  <2> QED BY <1>2, <2>1 DEF StepsCounted, Allowed
<1> QED BY <1>2, <1>3, <1>4, <1>5 DEF RingInv, FoundLeast

\* A round of the loop keeps the invariant.
LEMMA StepKeeps == RingInv /\ Step => RingInv'
<1> SUFFICES ASSUME RingInv, Step PROVE RingInv'
  OBVIOUS
<1>1. /\ ring' = ring /\ pass' = pass /\ found' = found /\ Listed' = Listed
      /\ pass \in Directions
  BY DEF Step, Loops, Listed
<1>2. /\ Listed \in Seq(Point) /\ Listed # << >> /\ Len(Listed) = Len(ring)
      /\ Searching(Listed, i, j, k)
      /\ i < Len(Listed) /\ j < Len(Listed) /\ k < Len(Listed)
  BY <1>1, ListedIs DEF RingInv, Step, Loops
<1>3. i \in Nat /\ j \in Nat /\ k \in Nat /\ Len(ring) \in Nat /\ steps \in Nat
  BY <1>2 DEF Searching, RingInv, RingTypeOK
<1>4. \A x \in Nat : Doubled(x) = At(Listed, x)
  BY <1>2 DEF Doubled, At
<1>5. steps =< Allowed /\ steps' = steps + 1
  BY <1>3 DEF Step, Counted, RingInv, StepsCounted, Allowed
<1>6. /\ Searching(Listed, i', j', k')
      /\ i' + j' + k' \in Int /\ i' + j' + k' > i + j + k
  <2>1. CASE Doubled(i + k) = Doubled(j + k) /\ Longer /\ UNCHANGED << i, j >>
    <3>1. At(Listed, i + k) = At(Listed, j + k)
      BY <1>3, <1>4, <2>1
    <3>2. Searching(Listed, i, j, k + 1)
      BY <1>2, <3>1, StartsAgree
    <3> QED BY <1>3, <2>1, <3>2 DEF Longer
  <2>2. CASE /\ PointBefore(Doubled(j + k), Doubled(i + k)) /\ i' = Beyond(i, j) /\ k' = 0
             /\ UNCHANGED j
    <3>1. PointBefore(At(Listed, j + k), At(Listed, i + k))
      BY <1>3, <1>4, <2>2
    <3>2. Searching(Listed, Beyond(i, j), j, 0)
      BY <1>2, <3>1, StartsDiffer DEF Beyond
    <3>3. Beyond(i, j) \in Int /\ Beyond(i, j) >= i + k + 1
      BY <1>3 DEF Beyond
    <3> QED BY <1>3, <2>2, <3>2, <3>3
  <2>3. CASE /\ PointBefore(Doubled(i + k), Doubled(j + k)) /\ j' = Beyond(j, i) /\ k' = 0
             /\ UNCHANGED i
    <3>1. PointBefore(At(Listed, i + k), At(Listed, j + k))
      BY <1>3, <1>4, <2>3
    <3>2. Searching(Listed, j, i, k)
      BY <1>2, SearchTurns
    <3>3. Searching(Listed, Beyond(j, i), i, 0)
      BY <1>2, <3>1, <3>2, StartsDiffer DEF Beyond
    <3>4. Searching(Listed, i, Beyond(j, i), 0)
      BY <3>3, SearchTurns
    <3>5. Beyond(j, i) \in Int /\ Beyond(j, i) >= j + k + 1
      BY <1>3 DEF Beyond
    <3> QED BY <1>3, <2>3, <3>4, <3>5
  <2> QED BY <2>1, <2>2, <2>3 DEF Step
<1>7. StepsCounted'
  <2>1. PICK n \in Nat : n = Len(ring)
    BY <1>3
  <2>2. PICK sum \in Int : sum = i + j + k
    BY <1>3
  <2>3. PICK more \in Int : more = i' + j' + k' /\ more > sum
    BY <1>6, <2>2
  <2>4. sum =< 3 * n - 4 /\ steps \in Nat
    <3>1. i # j
      BY <1>2 DEF Searching
    <3> QED BY <1>2, <1>3, <2>1, <2>2, <3>1
  <2>5. CASE pass = "forward"
    <3>1. steps < sum
      BY <2>2, <2>5 DEF RingInv, StepsCounted
    <3>2. steps' < more /\ steps' =< 3 * n - 4 /\ steps' =< 6 * n - 8
      BY <1>5, <2>3, <2>4, <3>1
    <3> QED BY <1>1, <2>1, <2>3, <2>5, <3>2 DEF StepsCounted, Allowed
  <2>6. CASE pass = "backward"
    <3>1. steps < 3 * n - 4 + sum
      BY <2>1, <2>2, <2>6 DEF RingInv, StepsCounted
    <3>2. steps' < 3 * n - 4 + more /\ steps' =< 6 * n - 8
      BY <1>5, <2>3, <2>4, <3>1
    <3> QED BY <1>1, <2>1, <2>3, <2>6, <3>2 DEF StepsCounted, Allowed
  <2> QED BY <1>1, <2>5, <2>6 DEF Directions
<1>8. RingTypeOK'
  BY <1>1, <1>3, <1>5 DEF RingInv, RingTypeOK
<1>9. FoundLeast'
  BY <1>1 DEF RingInv, FoundLeast
<1> QED BY <1>1, <1>6, <1>7, <1>8, <1>9 DEF RingInv

\* The end of a direction keeps the invariant: what it returns is least.
LEMMA LeaveKeeps == RingInv /\ Leave => RingInv'
<1> SUFFICES ASSUME RingInv, Leave PROVE RingInv'
  OBVIOUS
<1> DEFINE s == IF i < j THEN i ELSE j
<1>1. /\ ring' = ring /\ pass \in Directions /\ steps' = steps /\ i' = 0 /\ j' = 1 /\ k' = 0
      /\ found' = [found EXCEPT ![pass] = Turn(Listed, s + 1)]
      /\ pass' = IF pass = "forward" THEN "backward" ELSE "done"
  BY DEF Leave, Restarts
<1>2. /\ Listed \in Seq(Point) /\ Listed # << >> /\ Len(Listed) = Len(ring)
      /\ Searching(Listed, i, j, k)
      /\ ~(i < Len(Listed) /\ j < Len(Listed) /\ k < Len(Listed))
  BY <1>1, ListedIs DEF RingInv, Leave, Loops
<1>3. Least(Turn(Listed, s + 1), Turns(Listed))
  <2>1. s \in StartsOf(Listed) /\ Best(Listed, s)
    BY <1>2, SearchFinds
  <2> HIDE DEF s
  <2> QED BY <1>2, <2>1, BestIsLeast
<1> HIDE DEF s
<1>4. RingTypeOK'
  BY <1>1 DEF RingInv, RingTypeOK, Directions
<1>5. StepsCounted'
  <2>1. Len(ring) \in Nat /\ steps \in Nat /\ Len(ring) >= 2
    BY DEF RingInv, RingTypeOK
  <2> QED BY <1>1, <2>1 DEF RingInv, StepsCounted, Directions, Allowed
<1>6. pass' \in Directions => Searching(Listed', i', j', k')
  <2>1. Listed' \in Seq(Point) /\ Listed' # << >>
    BY <1>1, BackwardIs DEF Listed, RingInv, RingTypeOK
  <2> QED BY <1>1, <2>1, SearchBegins
<1>7. FoundLeast'
  <2>1. CASE pass = "forward"
    <3>1. found'["forward"] = Turn(Listed, s + 1) /\ Listed = ring
      BY <1>1, <2>1 DEF RingInv, RingTypeOK, Directions, Listed
    <3> QED BY <1>1, <1>3, <2>1, <3>1 DEF FoundLeast
  <2>2. CASE pass = "backward"
    <3>1. /\ found'["backward"] = Turn(Listed, s + 1) /\ Listed = Backward(ring)
          /\ found'["forward"] = found["forward"]
      BY <1>1, <2>2 DEF RingInv, RingTypeOK, Directions, Listed
    <3>2. Least(found["forward"], Turns(ring))
      BY <2>2 DEF RingInv, FoundLeast
    <3> QED BY <1>1, <1>3, <2>2, <3>1, <3>2 DEF FoundLeast
  <2> QED BY <1>1, <2>1, <2>2 DEF Directions
<1> QED BY <1>4, <1>5, <1>6, <1>7 DEF RingInv

\* Within the invariant the result is the canonical ring, and the rounds are
\* within the bound.
LEMMA RingInvFinds == RingInv => RingsAreFound
<1> SUFFICES ASSUME RingInv PROVE RingsAreFound
  OBVIOUS
<1>1. ASSUME pass = "done"
      PROVE  LeastList({found[d] : d \in Directions}) = Ring(ring)
  <2> DEFINE u == found["forward"]
             w == found["backward"]
             S == Turns(ring)
             T == Turns(Backward(ring))
             n == Len(ring)
  <2>1. Least(u, S) /\ Least(w, T)
    BY <1>1 DEF RingInv, FoundLeast
  <2>2. {found[d] : d \in Directions} = {u, w}
    BY DEF Directions
  <2>3. /\ \A v \in S : v \in Seq(Point) /\ Len(v) = n
        /\ \A v \in T : v \in Seq(Point) /\ Len(v) = n
    BY TurnsTyped, BackwardIs DEF RingInv, RingTypeOK
  <2>4. LeastList({u, w}) = LeastList(S \cup T)
    <3> HIDE DEF u, w, S, T, n
    <3> QED BY <2>1, <2>3, BothWays
  <2> QED BY <2>2, <2>4 DEF Ring
<1> QED BY <1>1 DEF RingsAreFound, RingIsCanonical, SearchIsLinear, RingInv, StepsCounted

\* Rounds keep the invariant, and so does leaving the loop.
LEMMA SearchStep == RingInv /\ [SearchNext]_ringVars => RingInv'
<1>1. RingInv /\ UNCHANGED ringVars => RingInv'
  BY DEF RingInv, RingTypeOK, StepsCounted, FoundLeast, ringVars, Listed, Allowed
<1> QED BY <1>1, StepKeeps, LeaveKeeps DEF SearchNext

\* Every ring is brought to its canonical form, in less than three rounds per
\* vertex and direction, whatever the vertices and however many (physical.ring,
\* identity.points).
THEOREM RingsFound == SearchSpec => []RingsAreFound
BY SearchInitial, SearchStep, RingInvFinds, PTL DEF SearchSpec

------------------------------------------------------------------------------
(* Looking up what may have moved *)

\* What a table of powers has to satisfy, up to the exponent n.
Powers(n, g) ==
  g = [e \in 0 .. n |-> IF e = 0 THEN 1 ELSE 2 * g[e - 1]]

\* Powers start at 1 and double.
LEMMA PowerIs ==
  /\ Power[0] = 1
  /\ \A e \in 0 .. Reach : Power[e] \in Nat \ {0}
  /\ \A e \in 1 .. Reach : Power[e] = 2 * Power[e - 1]
<1> DEFINE S == {n \in Nat : ~ \E g : Powers(n, g)}
<1>1. S = {}
  <2> SUFFICES ASSUME S # {} PROVE FALSE
    OBVIOUS
  <2>1. PICK n \in S : \A m \in S : n =< m
    <3> HIDE DEF S
    <3>1. S \in SUBSET Nat
      BY DEF S
    <3> QED BY <3>1, NatLeast
  <2>2. n # 0
    <3> DEFINE g == [e \in 0 .. 0 |-> 1]
    <3>1. Powers(0, g)
      BY DEF Powers
    <3> QED BY <2>1, <3>1
  <2>3. n - 1 \in Nat /\ n - 1 \notin S
    BY <2>1, <2>2
  <2>4. PICK g : Powers(n - 1, g)
    BY <2>3
  <2> DEFINE h == [e \in 0 .. n |-> IF e = 0 THEN 1 ELSE 2 * g[e - 1]]
  <2>5. \A e \in 0 .. n - 1 : h[e] = g[e]
    <3>1. \A e \in 0 .. n - 1 : e \in 0 .. n /\ g[e] = IF e = 0 THEN 1 ELSE 2 * g[e - 1]
      BY <2>1, <2>4 DEF Powers
    <3> QED BY <3>1
  <2>6. \A e \in 0 .. n : e # 0 => e - 1 \in 0 .. n - 1
    BY <2>1
  <2>7. h = [e \in 0 .. n |-> IF e = 0 THEN 1 ELSE 2 * h[e - 1]]
    <3>1. \A e \in 0 .. n : h[e] = IF e = 0 THEN 1 ELSE 2 * h[e - 1]
      BY <2>5, <2>6
    <3> QED BY <3>1
  <2>8. Powers(n, h)
    BY <2>7 DEF Powers
  <2> QED BY <2>1, <2>8
<1>2. Powers(Reach, Power)
  <2>1. \E g : Powers(Reach, g)
    BY <1>1, IndexAssumption
  <2>2. Power = CHOOSE g : Powers(Reach, g)
    BY DEF Power, Powers
  <2> QED BY <2>1, <2>2
<1>3. \A e \in 0 .. Reach : Power[e] = IF e = 0 THEN 1 ELSE 2 * Power[e - 1]
  BY <1>2 DEF Powers
<1>4. Reach \in Nat
  BY IndexAssumption
<1>5. \A e \in 0 .. Reach : Power[e] \in Nat \ {0}
  <2> DEFINE T == {n \in 0 .. Reach : Power[n] \notin Nat \ {0}}
  <2> SUFFICES ASSUME T # {} PROVE FALSE
    OBVIOUS
  <2>1. PICK n \in T : \A m \in T : n =< m
    <3>1. T \in SUBSET Nat
      BY <1>4
    <3> HIDE DEF T
    <3> QED BY <3>1, NatLeast
  <2>2. n # 0
    BY <1>3, <1>4, <2>1
  <2>3. n - 1 \in 0 .. Reach /\ n - 1 \notin T
    BY <1>4, <2>1, <2>2
  <2>4. Power[n - 1] \in Nat \ {0} /\ Power[n] = 2 * Power[n - 1]
    BY <1>3, <2>2, <2>3, <2>1
  <2> QED BY <2>1, <2>4
<1> QED BY <1>3, <1>4, <1>5

\* A power exceeds its exponent.
LEMMA PowerGrows == \A e \in 0 .. Reach : Power[e] > e
<1> DEFINE T == {n \in 0 .. Reach : ~ (Power[n] > n)}
<1> SUFFICES ASSUME T # {} PROVE FALSE
  OBVIOUS
<1>1. Reach \in Nat
  BY IndexAssumption
<1>2. PICK n \in T : \A m \in T : n =< m
  <2>1. T \in SUBSET Nat
    BY <1>1
  <2> HIDE DEF T
  <2> QED BY <2>1, NatLeast
<1>3. n # 0
  BY <1>1, <1>2, PowerIs
<1>4. n - 1 \in 0 .. Reach /\ n \in 1 .. Reach /\ n - 1 \notin T
  BY <1>1, <1>2, <1>3
<1>5. Power[n - 1] > n - 1 /\ Power[n] = 2 * Power[n - 1] /\ Power[n - 1] \in Nat
  BY <1>4, PowerIs
<1> QED BY <1>2, <1>4, <1>5

\* A greater power is at least the double of a smaller one.
LEMMA PowerDoubles ==
  ASSUME NEW d \in 0 .. Reach, NEW c \in 0 .. Reach, d < c
  PROVE  2 * Power[d] =< Power[c]
<1> DEFINE T == {n \in d + 1 .. Reach : ~ (2 * Power[d] =< Power[n])}
<1> SUFFICES ASSUME T # {} PROVE FALSE
  BY IndexAssumption
<1>1. Reach \in Nat /\ \A e \in 0 .. Reach : Power[e] \in Nat
  BY IndexAssumption, PowerIs
<1>2. PICK n \in T : \A m \in T : n =< m
  <2>1. T \in SUBSET Nat
    BY <1>1
  <2> HIDE DEF T
  <2> QED BY <2>1, NatLeast
<1>3. n \in 1 .. Reach /\ n - 1 \in 0 .. Reach /\ Power[n] = 2 * Power[n - 1]
  BY <1>1, <1>2, PowerIs
<1>4. n # d + 1
  BY <1>1, <1>2, <1>3
<1>5. n - 1 \in d + 1 .. Reach /\ n - 1 \notin T
  BY <1>1, <1>2, <1>3, <1>4
<1>6. 2 * Power[d] =< Power[n - 1]
  BY <1>5
<1> QED BY <1>1, <1>2, <1>3, <1>6

\* A difference of two coordinates.
Differences == - (2 * Reach) .. 2 * Reach

\* The spacing is the least power that leaves enough significands.
LEMMA SpacingIs ==
  ASSUME NEW n \in Differences
  PROVE  \E e \in 0 .. Reach :
           /\ Spacing(n) = Power[e] /\ Magnitude(n) < Significands * Power[e]
           /\ e # 0 => Magnitude(n) >= Significands * Power[e - 1]
<1> DEFINE fits == {e \in 0 .. Reach : Magnitude(n) < Significands * Power[e]}
<1>1. /\ Reach \in Nat /\ Significands \in Nat /\ Significands >= 2
      /\ Magnitude(n) \in 0 .. 2 * Reach
  BY IndexAssumption DEF Magnitude, Differences
<1>2. Reach \in fits
  <2>1. Power[Reach] >= Reach + 1 /\ Power[Reach] \in Nat
    BY <1>1, PowerGrows, PowerIs
  <2>2. Significands * Power[Reach] >= 2 * Power[Reach]
    BY <1>1, <2>1
  <2> QED BY <1>1, <2>1, <2>2
<1>3. \E e \in fits : \A d \in fits : e =< d
  <2>1. fits \in SUBSET Nat
    BY <1>1
  <2> HIDE DEF fits
  <2> QED BY <1>2, <2>1, NatLeast
<1> DEFINE e == CHOOSE x \in fits : \A d \in fits : x =< d
<1>4. e \in fits /\ \A d \in fits : e =< d
  <2> HIDE DEF fits
  <2> QED BY <1>3
<1>5. Spacing(n) = Power[e]
  BY DEF Spacing
<1> HIDE DEF e
<1>6. ASSUME e # 0
      PROVE  Magnitude(n) >= Significands * Power[e - 1]
  <2>1. e - 1 \in 0 .. Reach /\ e - 1 \notin fits
    BY <1>1, <1>4, <1>6
  <2>2. Power[e - 1] \in Nat
    BY <2>1, PowerIs
  <2>3. Significands * Power[e - 1] \in Int
    BY <1>1, <2>2
  <2> QED BY <1>1, <2>1, <2>3
<1> QED BY <1>4, <1>5, <1>6

\* Rounding is to one of the two multiples around a number, and leaves a
\* multiple alone.
LEMMA RoundIs ==
  ASSUME NEW n \in Int, NEW s \in Nat \ {0}, Spacing(n) = s
  PROVE  \E q \in Int :
           /\ s * q =< n /\ n < s * (q + 1)
           /\ Round(n) \in {s * q, s * (q + 1)}
           /\ n = s * q => Round(n) = n
<1> DEFINE q == n \div s
           r == n % s
<1>1. n = s * q + r /\ r \in 0 .. s - 1 /\ q \in Int
  OBVIOUS
<1>2. Round(n) = s * (IF 2 * r > s \/ (2 * r = s /\ q % 2 = 1) THEN q + 1 ELSE q)
  BY DEF Round
<1> HIDE DEF q, r
<1>3. s * (q + 1) = s * q + s /\ s * q \in Int
  BY <1>1
<1>4. s * q =< n /\ n < s * (q + 1)
  BY <1>1, <1>3
<1>5. Round(n) \in {s * q, s * (q + 1)}
  BY <1>2
<1>6. ASSUME n = s * q
      PROVE  Round(n) = n
  <2>1. r = 0
    BY <1>1, <1>3, <1>6
  <2>2. Round(n) = s * q
    BY <1>2, <2>1
  <2> QED BY <1>6, <2>2
<1> QED BY <1>1, <1>4, <1>5, <1>6

\* What is at least as far from zero as a float stays so when it is rounded.
LEMMA RoundBeyond ==
  ASSUME NEW w \in Floats, w > 0, NEW n \in Differences, Magnitude(n) >= w
  PROVE  Magnitude(Round(n)) >= w
<1>1. /\ Reach \in Nat /\ Significands \in Nat /\ w \in 0 .. Reach /\ w \in Differences
      /\ Round(w) = w /\ Magnitude(w) = w /\ n \in Int
  BY IndexAssumption DEF Floats, Differences, Magnitude
<1>2. PICK d \in 0 .. Reach :
        /\ Spacing(w) = Power[d] /\ w < Significands * Power[d]
        /\ d # 0 => w >= Significands * Power[d - 1]
  BY <1>1, SpacingIs
<1>3. PICK e \in 0 .. Reach :
        /\ Spacing(n) = Power[e] /\ Magnitude(n) < Significands * Power[e]
        /\ e # 0 => Magnitude(n) >= Significands * Power[e - 1]
  BY SpacingIs
<1>4. PICK s \in Nat \ {0} : s = Power[e]
  BY PowerIs
<1>5. \E c \in Int : w =< s * c /\ s * c =< Magnitude(n)
  <2>1. CASE e < d
    <3>1. d - 1 \in 0 .. Reach /\ d # 0 /\ Power[d - 1] \in Nat
      BY <1>1, <2>1, PowerIs
    <3>2. Power[e] =< Power[d - 1]
      <4>1. CASE e = d - 1
        BY <3>1, <4>1
      <4>2. CASE e < d - 1
        BY <1>4, <3>1, <4>2, PowerDoubles
      <4> QED BY <1>1, <2>1, <4>1, <4>2
    <3>3. Significands * Power[e] =< Significands * Power[d - 1]
      BY <1>1, <1>4, <3>1, <3>2
    <3>4. Magnitude(n) \in Int /\ Significands * Power[e] \in Int /\ Significands * Power[d - 1] \in Int
      BY <1>1, <1>4, <3>1 DEF Magnitude
    <3> QED BY <1>1, <1>2, <1>3, <3>1, <3>3, <3>4
  <2>2. CASE e = d
    <3>1. Spacing(w) = s /\ w \in Int
      BY <1>1, <1>2, <1>4, <2>2
    <3>2. PICK q \in Int : Round(w) \in {s * q, s * (q + 1)}
      BY <3>1, RoundIs
    <3>3. PICK c \in Int : w = s * c
      <4>1. q + 1 \in Int
        OBVIOUS
      <4> QED BY <1>1, <3>2, <4>1
    <3>4. w =< s * c /\ s * c =< Magnitude(n)
      <4> HIDE DEF Magnitude
      <4> QED BY <1>1, <3>3
    <3> QED BY <3>4
  <2>3. CASE d < e
    <3>1. PICK h \in Nat : Significands = 2 * h
      BY IndexAssumption
    <3>2. e # 0 /\ e - 1 \in 0 .. Reach /\ Power[e] = 2 * Power[e - 1]
          /\ Power[e - 1] \in Nat /\ Power[d] \in Nat
      BY <1>1, <2>3, PowerIs
    <3>3. Significands * Power[e - 1] = s * h
      BY <1>4, <3>1, <3>2
    <3>4. Power[d] =< Power[e - 1]
      <4>1. 2 * Power[d] =< Power[e]
        BY <2>3, PowerDoubles
      <4> QED BY <3>2, <4>1
    <3>5. Significands * Power[d] =< Significands * Power[e - 1]
      BY <1>1, <3>2, <3>4
    <3>6. Significands * Power[d] \in Int /\ Significands * Power[e - 1] \in Int
      BY <1>1, <3>2
    <3>7. w =< s * h /\ s * h =< Magnitude(n)
      <4>1. Magnitude(n) \in Int
        BY <1>1 DEF Magnitude
      <4>2. w < Significands * Power[d] /\ Magnitude(n) >= Significands * Power[e - 1]
        BY <1>2, <1>3, <3>2
      <4> HIDE DEF Magnitude
      <4> QED BY <1>1, <3>3, <3>5, <3>6, <4>1, <4>2
    <3>8. h \in Int
      OBVIOUS
    <3> HIDE DEF Magnitude
    <3> QED BY <3>7, <3>8
  <2> QED BY <1>1, <2>1, <2>2, <2>3
<1>6. PICK c \in Int : w =< s * c /\ s * c =< Magnitude(n)
  BY <1>5
<1>7. PICK q \in Int :
        /\ s * q =< n /\ n < s * (q + 1)
        /\ Round(n) \in {s * q, s * (q + 1)}
        /\ n = s * q => Round(n) = n
  BY <1>1, <1>3, <1>4, RoundIs
<1>8. \A x, y \in Int : (s * x =< s * y <=> x =< y) /\ (s * x < s * y <=> x < y) /\ s * x \in Int
                        /\ s * (- x) = - (s * x)
  OBVIOUS
<1>9. CASE n >= 0
  <2>1. s * c =< n
    BY <1>1, <1>6, <1>9 DEF Magnitude
  <2>2. s * c < s * (q + 1) /\ q + 1 \in Int
    BY <1>1, <1>7, <1>8, <2>1
  <2>3. c =< q
    BY <1>8, <2>2
  <2>4. s * c =< s * q /\ s * c =< s * (q + 1)
    BY <1>8, <2>2, <2>3
  <2>5. Round(n) >= w /\ Round(n) \in Int
    BY <1>1, <1>6, <1>7, <1>8, <2>2, <2>4
  <2> QED BY <1>1, <2>5 DEF Magnitude
<1>10. CASE n < 0
  <2>1. n =< - (s * c) /\ s * (- c) = - (s * c) /\ s * c \in Int /\ s * q \in Int
    BY <1>1, <1>6, <1>8, <1>10 DEF Magnitude
  <2>2. Round(n) =< s * (- c) /\ Round(n) \in Int
    <3>1. CASE n = s * q
      BY <1>1, <1>7, <2>1, <3>1
    <3>2. CASE n # s * q
      <4>1. s * q < s * (- c) /\ - c \in Int /\ q + 1 \in Int
        BY <1>1, <1>7, <2>1, <3>2
      <4>2. q < - c
        BY <1>8, <4>1
      <4>3. s * (q + 1) =< s * (- c) /\ s * (q + 1) \in Int
        BY <1>8, <4>1, <4>2
      <4> QED BY <1>7, <2>1, <4>1, <4>3
    <3> QED BY <3>1, <3>2
  <2> QED BY <1>1, <1>6, <2>1, <2>2 DEF Magnitude
<1> QED BY <1>1, <1>9, <1>10

------------------------------------------------------------------------------
(* Listing and bisecting *)

\* The indexed waivers have places.
CatalogueOK ==
  /\ width \in Floats /\ width > 0
  /\ indexed \in [Waivers -> Places \cup {NoTarget}]

\* Earlier orders the waivers of a file.
LEMMA EarlierIs ==
  ASSUME CatalogueOK
  PROVE  LET S == Known("source") IN
         /\ S \in SUBSET Waivers /\ IsFiniteSet(S)
         /\ \A v \in S : v \in Int /\ indexed[v].at \in Int
         /\ \A v \in S : ~Earlier(v, v)
         /\ \A u, v, w \in S : Earlier(u, v) /\ Earlier(v, w) => Earlier(u, w)
         /\ \A v, w \in S : v # w => Earlier(v, w) \/ Earlier(w, v)
<1> DEFINE S == Known("source")
<1>1. S \in SUBSET Waivers
  BY DEF Known
<1>2. IsFiniteSet(S) /\ \A v \in S : v \in Int
  BY <1>1, IndexAssumption, FS_Subset
<1>3. \A v \in S : indexed[v].at \in Int
  <2> TAKE v \in S
  <2>1. indexed[v] \in Places /\ indexed[v].kind = "source"
    BY DEF CatalogueOK, Known
  <2>2. indexed[v].at \in Lines
    BY <2>1 DEF Places
  <2>3. \A x \in Lines : x \in Int
    BY IndexAssumption
  <2> QED BY <2>2, <2>3
<1> HIDE DEF S
<1>4. /\ \A v \in S : ~Earlier(v, v)
      /\ \A u, v, w \in S : Earlier(u, v) /\ Earlier(v, w) => Earlier(u, w)
      /\ \A v, w \in S : v # w => Earlier(v, w) \/ Earlier(w, v)
  BY <1>2, <1>3 DEF Earlier
<1> QED BY <1>1, <1>2, <1>3, <1>4 DEF S

\* There is such a list: each waiver stands behind those that come before it.
LEMMA FiledIs ==
  ASSUME CatalogueOK
  PROVE  /\ Filed \in Listings /\ Filed \in Seq(Known("source"))
         /\ Len(Filed) = Cardinality(Known("source")) /\ DOMAIN Filed = 1 .. Len(Filed)
         /\ \A n, m \in DOMAIN Filed : n < m => Earlier(Filed[n], Filed[m])
         /\ \A w \in Known("source") : \E n \in DOMAIN Filed : Filed[n] = w
<1> DEFINE S == Known("source")
           N == Cardinality(S)
           below(w) == {v \in S : Earlier(v, w)}
           place == [w \in S |-> Cardinality(below(w)) + 1]
<1>1. /\ IsFiniteSet(S) /\ N \in Nat
      /\ \A v \in S : ~Earlier(v, v)
      /\ \A u, v, w \in S : Earlier(u, v) /\ Earlier(v, w) => Earlier(u, w)
      /\ \A v, w \in S : v # w => Earlier(v, w) \/ Earlier(w, v)
  BY EarlierIs, FS_CardinalityType
<1> HIDE DEF S
<1>2. \A w \in S : IsFiniteSet(below(w)) /\ Cardinality(below(w)) \in 0 .. N - 1
  <2> TAKE w \in S
  <2>1. below(w) \in SUBSET S /\ w \notin below(w)
    BY <1>1
  <2> HIDE DEF below
  <2>2. /\ IsFiniteSet(below(w)) /\ Cardinality(below(w)) =< N /\ Cardinality(below(w)) # N
        /\ Cardinality(below(w)) \in Nat
    BY <1>1, <2>1, FS_Subset, FS_CardinalityType
  <2> QED BY <1>1, <2>2
<1>3. \A v, w \in S : Earlier(v, w) => Cardinality(below(v)) < Cardinality(below(w))
  <2> SUFFICES ASSUME NEW v \in S, NEW w \in S, Earlier(v, w)
               PROVE  Cardinality(below(v)) < Cardinality(below(w))
    OBVIOUS
  <2>1. below(v) \in SUBSET below(w) /\ v \in below(w) /\ v \notin below(v)
    BY <1>1
  <2> HIDE DEF below
  <2>2. IsFiniteSet(below(w)) /\ Cardinality(below(v)) \in Nat /\ Cardinality(below(w)) \in Nat
    BY <1>1, <1>2
  <2> QED BY <2>1, <2>2, FS_Subset
<1> HIDE DEF below
<1>4. place \in [S -> 1 .. N]
  BY <1>1, <1>2
<1>5. \A v, w \in S : Earlier(v, w) => place[v] < place[w]
  BY <1>1, <1>2, <1>3
<1> HIDE DEF place
<1>6. \A v, w \in S : place[v] = place[w] => v = w
  <2> SUFFICES ASSUME NEW v \in S, NEW w \in S, place[v] = place[w], v # w
               PROVE  FALSE
    OBVIOUS
  <2>1. place[v] < place[w] \/ place[w] < place[v]
    BY <1>1, <1>5
  <2> QED BY <1>1, <1>4, <2>1
<1>7. \A n \in 1 .. N : \E w \in S : place[w] = n
  <2> DEFINE I == {place[w] : w \in S}
  <2>1. place \in Bijection(S, I)
    BY <1>4, <1>6 DEF Bijection, Injection, Surjection, IsInjective
  <2>2. IsFiniteSet(I) /\ Cardinality(I) = N
    <3> HIDE DEF I
    <3> QED BY <1>1, <2>1, FS_Bijection DEF ExistsBijection
  <2>3. IsFiniteSet(1 .. N) /\ Cardinality(1 .. N) = N
    BY <1>1, FS_Interval
  <2>4. I \in SUBSET 1 .. N
    BY <1>4
  <2>5. I = 1 .. N
    <3> HIDE DEF I
    <3> QED BY <2>2, <2>3, <2>4, FS_Subset
  <2> QED BY <2>5
<1> DEFINE good(list) == \A n, m \in DOMAIN list : n < m => Earlier(list[n], list[m])
           list == [n \in 1 .. N |-> CHOOSE w \in S : place[w] = n]
<1>8. \A n \in 1 .. N : list[n] \in S /\ place[list[n]] = n
  BY <1>7
<1>9. list \in Listings
  BY <1>8 DEF Listings, S
<1>10. good(list)
  <2> SUFFICES ASSUME NEW n \in 1 .. N, NEW m \in 1 .. N, n < m
               PROVE  Earlier(list[n], list[m])
    OBVIOUS
  <2> HIDE DEF list
  <2>1. list[n] # list[m] /\ ~Earlier(list[m], list[n])
    BY <1>1, <1>5, <1>8
  <2> QED BY <1>1, <1>8, <2>1
<1>11. Filed \in Listings /\ good(Filed)
  <2>1. \E l \in Listings : good(l)
    <3> HIDE DEF list, good
    <3> QED BY <1>9, <1>10
  <2>2. Filed = CHOOSE l \in Listings : good(l)
    BY DEF Filed
  <2> HIDE DEF good
  <2> QED BY <2>1, <2>2
<1>12. Filed \in [1 .. N -> S]
  BY <1>11 DEF Listings, S
<1>13. Filed \in Seq(S) /\ Len(Filed) = N /\ DOMAIN Filed = 1 .. N
  BY <1>1, <1>12
<1>14. \A w \in S : \E n \in 1 .. N : Filed[n] = w
  <2> DEFINE I == {Filed[n] : n \in 1 .. N}
  <2>1. \A n, m \in 1 .. N : Filed[n] = Filed[m] => n = m
    <3> SUFFICES ASSUME NEW n \in 1 .. N, NEW m \in 1 .. N, Filed[n] = Filed[m], n # m
                 PROVE  FALSE
      OBVIOUS
    <3>1. n < m \/ m < n
      OBVIOUS
    <3>2. Earlier(Filed[n], Filed[m]) \/ Earlier(Filed[m], Filed[n])
      BY <1>11, <1>13, <3>1
    <3> QED BY <1>1, <1>12, <2>1, <3>2
  <2>2. Filed \in Bijection(1 .. N, I)
    BY <1>12, <2>1 DEF Bijection, Injection, Surjection, IsInjective
  <2>3. IsFiniteSet(1 .. N) /\ Cardinality(1 .. N) = N
    BY <1>1, FS_Interval
  <2>4. IsFiniteSet(I) /\ Cardinality(I) = N
    <3> HIDE DEF I
    <3> QED BY <2>2, <2>3, FS_Bijection DEF ExistsBijection
  <2>5. I \in SUBSET S
    BY <1>12
  <2>6. I = S
    <3> HIDE DEF I
    <3> QED BY <1>1, <2>4, <2>5, FS_Subset
  <2> QED BY <2>6
<1> QED BY <1>11, <1>13, <1>14 DEF S

\* The middle is between, and closer to either.
LEMMA MiddleIs ==
  ASSUME NEW lo \in Nat, NEW hi \in Nat, lo < hi
  PROVE  LET mid == (lo + hi) \div 2 IN
         mid \in Nat /\ lo =< mid /\ mid < hi
OBVIOUS

\* Between the places p, f goes on as the bisection does.
Goes(f, p, beyond) ==
  LET lo == p[1]
      hi == p[2]
      mid == (lo + hi) \div 2
  IN  IF lo >= hi THEN lo
      ELSE IF mid + 1 \in beyond THEN f[<< mid + 1, hi >>] ELSE f[<< lo, mid >>]

Between(length) == (0 .. length) \X (0 .. length)

\* A bisection ends somewhere, since it goes on between closer places.
LEMMA HalvesExist ==
  ASSUME NEW length \in Nat, NEW beyond
  PROVE  \E f : f = [p \in Between(length) |-> Goes(f, p, beyond)]
<1> DEFINE near(n) == {p \in Between(length) : p[2] - p[1] =< n}
           good(n, f) == \A p \in near(n) : f[p] = Goes(f, p, beyond)
           S == {n \in Nat : ~ \E f : good(n, f)}
<1>1. ASSUME NEW f, NEW n \in Nat, good(n, f),
             NEW p \in Between(length), p[2] - p[1] =< n + 1, NEW h,
             \A q \in near(n) : h[q] = f[q]
      PROVE  Goes(h, p, beyond) = Goes(f, p, beyond)
  <2>1. PICK lo \in 0 .. length, hi \in 0 .. length : p = << lo, hi >>
    BY DEF Between
  <2>2. CASE lo >= hi
    BY <2>1, <2>2 DEF Goes
  <2>3. CASE lo < hi
    <3> DEFINE mid == (lo + hi) \div 2
    <3>1. mid \in 0 .. length /\ mid + 1 \in 0 .. length /\ lo =< mid /\ mid < hi
      BY <2>3, MiddleIs
    <3> HIDE DEF mid
    <3>2. hi - (mid + 1) =< n /\ mid - lo =< n
      BY <1>1, <2>1, <3>1
    <3>3. << mid + 1, hi >> \in near(n) /\ << lo, mid >> \in near(n)
      BY <3>1, <3>2 DEF Between
    <3> HIDE DEF near
    <3>4. h[<< mid + 1, hi >>] = f[<< mid + 1, hi >>] /\ h[<< lo, mid >>] = f[<< lo, mid >>]
      BY <1>1, <3>3
    <3> QED BY <2>1, <3>4 DEF Goes, mid
  <2> QED BY <2>1, <2>2, <2>3
<1>2. S = {}
  <2> SUFFICES ASSUME S # {} PROVE FALSE
    OBVIOUS
  <2>1. PICK n \in S : \A m \in S : n =< m
    <3>1. S \in SUBSET Nat
      OBVIOUS
    <3> HIDE DEF S
    <3> QED BY <3>1, NatLeast
  <2>2. n # 0
    <3> DEFINE f == [p \in Between(length) |-> p[1]]
    <3>1. \A p \in near(0) : f[p] = Goes(f, p, beyond)
      <4> TAKE p \in near(0)
      <4>1. p \in Between(length) /\ p[1] >= p[2]
        BY DEF Between
      <4> QED BY <4>1 DEF Goes
    <3> QED BY <2>1, <3>1
  <2>3. n - 1 \in Nat /\ n - 1 \notin S
    BY <2>1, <2>2
  <2>4. PICK f : good(n - 1, f)
    BY <2>3
  <2> DEFINE h == [p \in Between(length) |-> Goes(f, p, beyond)]
  <2>5. \A q \in near(n - 1) : h[q] = f[q]
    BY <2>4
  <2>6. \A p \in near(n) : Goes(h, p, beyond) = Goes(f, p, beyond)
    <3> TAKE p \in near(n)
    <3>1. p \in Between(length) /\ p[2] - p[1] =< (n - 1) + 1
      BY <2>1 DEF Between
    <3> HIDE DEF h, near, S
    <3> QED BY <1>1, <2>3, <2>4, <2>5, <3>1
  <2>7. good(n, h)
    BY <2>6
  <2> QED BY <2>1, <2>7
<1>3. PICK f : good(length, f)
  BY <1>2
<1>4. \A p \in Between(length) : p \in near(length)
  BY DEF Between
<1> DEFINE h == [p \in Between(length) |-> Goes(f, p, beyond)]
<1>5. \A q \in near(length) : h[q] = f[q]
  BY <1>3
<1>6. \A p \in Between(length) : Goes(h, p, beyond) = Goes(f, p, beyond)
  <2> TAKE p \in Between(length)
  <2>1. p[2] - p[1] =< length + 1
    BY DEF Between
  <2> HIDE DEF h, near
  <2> QED BY <1>1, <1>3, <1>5, <2>1
<1>7. h = [p \in Between(length) |-> Goes(h, p, beyond)]
  BY <1>6
<1> QED BY <1>7

\* In a sorted list a bisection ends behind the places beyond which it goes.
LEMMA HalveIs ==
  ASSUME NEW length \in Nat, NEW beyond \in SUBSET (1 .. length),
         \A n \in beyond : \A m \in 1 .. n : m \in beyond
  PROVE  Halve(beyond, length) \in 0 .. length /\ beyond = 1 .. Halve(beyond, length)
<1> DEFINE f == CHOOSE g : g = [p \in Between(length) |-> Goes(g, p, beyond)]
<1>1. f = [p \in Between(length) |-> Goes(f, p, beyond)]
  BY HalvesExist
<1>2. Halve(beyond, length) = f[<< 0, length >>]
  BY DEF Halve, Goes, Between
<1> HIDE DEF f
<1> DEFINE ends(lo, hi) == f[<< lo, hi >>] \in 0 .. length /\ beyond = 1 .. f[<< lo, hi >>]
           around(lo, hi) == (1 .. lo) \subseteq beyond /\ beyond \subseteq 1 .. hi
           S == {n \in Nat : \E lo, hi \in 0 .. length :
                               hi - lo = n /\ around(lo, hi) /\ ~ends(lo, hi)}
<1>3. S = {}
  <2> SUFFICES ASSUME S # {} PROVE FALSE
    OBVIOUS
  <2>1. PICK n \in S : \A m \in S : n =< m
    <3>1. S \in SUBSET Nat
      OBVIOUS
    <3> HIDE DEF S
    <3> QED BY <3>1, NatLeast
  <2>2. PICK lo \in 0 .. length, hi \in 0 .. length :
          hi - lo = n /\ around(lo, hi) /\ ~ends(lo, hi)
    BY <2>1
  <2>3. \A l, h \in 0 .. length : h - l \in 0 .. n - 1 /\ around(l, h) => ends(l, h)
    <3> SUFFICES ASSUME NEW l \in 0 .. length, NEW h \in 0 .. length,
                        h - l \in 0 .. n - 1, around(l, h), ~ends(l, h)
                 PROVE  FALSE
      OBVIOUS
    <3>1. h - l \in S
      <4> HIDE DEF around, ends
      <4> QED OBVIOUS
    <3>2. n =< h - l
      <4> HIDE DEF S
      <4> QED BY <2>1, <3>1
    <3> QED BY <2>1, <3>2
  <2>4. f[<< lo, hi >>] = Goes(f, << lo, hi >>, beyond)
    <3>1. << lo, hi >> \in Between(length)
      BY DEF Between
    <3> QED BY <1>1, <3>1
  <2>5. n \in Nat
    BY <2>1
  <2> HIDE DEF S
  <2>6. CASE n = 0
    <3>1. lo = hi /\ f[<< lo, hi >>] = lo
      BY <2>2, <2>4, <2>6 DEF Goes
    <3> QED BY <2>2, <3>1
  <2>7. CASE n # 0
    <3> DEFINE mid == (lo + hi) \div 2
    <3>1. lo < hi
      BY <2>2, <2>5, <2>7
    <3>2. mid \in 0 .. length /\ mid + 1 \in 0 .. length /\ lo =< mid /\ mid < hi
      BY <3>1, MiddleIs
    <3>3. f[<< lo, hi >>] = IF mid + 1 \in beyond THEN f[<< mid + 1, hi >>] ELSE f[<< lo, mid >>]
      BY <2>4, <3>1 DEF Goes
    <3> HIDE DEF mid
    <3>4. CASE mid + 1 \in beyond
      <4>1. around(mid + 1, hi)
        BY <2>2, <3>2, <3>4
      <4>2. hi - (mid + 1) \in 0 .. n - 1
        BY <2>2, <3>2
      <4>3. ends(mid + 1, hi)
        <5> HIDE DEF around, ends
        <5> QED BY <2>3, <3>2, <4>1, <4>2
      <4> QED BY <2>2, <3>3, <3>4, <4>3
    <3>5. CASE mid + 1 \notin beyond
      <4>1. around(lo, mid)
        <5>1. \A x \in beyond : x \in 1 .. mid
          <6> TAKE x \in beyond
          <6>1. x \in 1 .. hi /\ ~(mid + 1 \in 1 .. x)
            BY <2>2, <3>5
          <6> QED BY <3>2, <6>1
        <5> QED BY <2>2, <5>1
      <4>2. mid - lo \in 0 .. n - 1
        BY <2>2, <3>2
      <4>3. ends(lo, mid)
        <5> HIDE DEF around, ends
        <5> QED BY <2>3, <3>2, <4>1, <4>2
      <4> QED BY <2>2, <3>3, <3>5, <4>3
    <3> QED BY <3>4, <3>5
  <2> QED BY <2>6, <2>7
<1>4. length - 0 = length /\ around(0, length)
  OBVIOUS
<1>5. ends(0, length)
  <2> HIDE DEF around, ends
  <2> QED BY <1>3, <1>4
<1> QED BY <1>2, <1>5

\* The slice of the list is the lines within the limit.
LEMMA NearIs ==
  ASSUME CatalogueOK, NEW at \in Int
  PROVE  Near(at) = {w \in Known("source") : Magnitude(indexed[w].at - at) =< LineLimit}
<1> DEFINE list == Filed
           line(n) == indexed[list[n]].at
           below == {n \in DOMAIN list : line(n) < at - LineLimit}
           within == {n \in DOMAIN list : line(n) =< at + LineLimit}
           lo == Halve(below, Len(list))
           hi == Halve(within, Len(list))
<1>1. /\ Len(list) \in Nat /\ DOMAIN list = 1 .. Len(list) /\ LineLimit \in Nat
      /\ \A n \in DOMAIN list : list[n] \in Known("source")
      /\ \A w \in Known("source") : indexed[w].at \in Int /\ \E n \in DOMAIN list : list[n] = w
  <2>1. list \in Seq(Known("source")) /\ Len(list) \in Nat
    BY FiledIs
  <2> HIDE DEF list
  <2>2. \A n \in 1 .. Len(list) : list[n] \in Known("source")
    BY <2>1
  <2> QED BY <2>1, <2>2, FiledIs, EarlierIs, IndexAssumption DEF list
<1>2. \A n \in DOMAIN list : line(n) \in Int
  BY <1>1
<1>3. \A n, m \in DOMAIN list : n < m => line(n) =< line(m)
  <2> SUFFICES ASSUME NEW n \in DOMAIN list, NEW m \in DOMAIN list, n < m
               PROVE  line(n) =< line(m)
    OBVIOUS
  <2>1. Earlier(list[n], list[m])
    BY FiledIs
  <2> QED BY <1>2, <2>1 DEF Earlier
<1>4. Near(at) = {list[n] : n \in lo + 1 .. hi}
  BY DEF Near
<1> HIDE DEF list
<1>5. below = 1 .. lo /\ lo \in 0 .. Len(list)
  <2>1. below \in SUBSET (1 .. Len(list))
    BY <1>1
  <2>2. \A n \in below : \A m \in 1 .. n : m \in below
    <3> SUFFICES ASSUME NEW n \in below, NEW m \in 1 .. n, m # n
                 PROVE  m \in below
      OBVIOUS
    <3>1. m \in DOMAIN list /\ m < n
      BY <1>1
    <3>2. line(m) =< line(n) /\ line(m) \in Int /\ line(n) \in Int
      BY <1>2, <1>3, <3>1
    <3> QED BY <1>1, <3>1, <3>2
  <2> HIDE DEF below
  <2> QED BY <1>1, <2>1, <2>2, HalveIs
<1>6. within = 1 .. hi /\ hi \in 0 .. Len(list)
  <2>1. within \in SUBSET (1 .. Len(list))
    BY <1>1
  <2>2. \A n \in within : \A m \in 1 .. n : m \in within
    <3> SUFFICES ASSUME NEW n \in within, NEW m \in 1 .. n, m # n
                 PROVE  m \in within
      OBVIOUS
    <3>1. m \in DOMAIN list /\ m < n
      BY <1>1
    <3>2. line(m) =< line(n) /\ line(m) \in Int /\ line(n) \in Int
      BY <1>2, <1>3, <3>1
    <3> QED BY <1>1, <3>1, <3>2
  <2> HIDE DEF within
  <2> QED BY <1>1, <2>1, <2>2, HalveIs
<1> HIDE DEF lo, hi
<1>7. \A n \in DOMAIN list :
        n \in lo + 1 .. hi <=> Magnitude(line(n) - at) =< LineLimit
  <2> TAKE n \in DOMAIN list
  <2>1. n \in Nat /\ n >= 1 /\ line(n) \in Int
    BY <1>1, <1>2
  <2>2. n =< lo <=> line(n) < at - LineLimit
    BY <1>5, <2>1
  <2>3. n =< hi <=> line(n) =< at + LineLimit
    BY <1>6, <2>1
  <2> HIDE DEF line
  <2> QED BY <1>1, <1>5, <1>6, <2>1, <2>2, <2>3 DEF Magnitude
<1>8. \A n \in lo + 1 .. hi : n \in DOMAIN list
  BY <1>1, <1>5, <1>6
<1> DEFINE near(w) == Magnitude(indexed[w].at - at) =< LineLimit
<1>9. \A n \in DOMAIN list : n \in lo + 1 .. hi <=> near(list[n])
  BY <1>7
<1> HIDE DEF near
<1>10. Near(at) = {w \in Known("source") : near(w)}
  BY <1>1, <1>4, <1>8, <1>9
<1> QED BY <1>10 DEF near

\* Two cells apart is farther than the width of one.
LEMMA CellsApart ==
  ASSUME NEW s \in Nat \ {0}, NEW a \in Int, NEW b \in Int,
         (a \div s) - (b \div s) \notin {-1, 0, 1}
  PROVE  Magnitude(a - b) > s
<1> DEFINE x == a \div s
           y == b \div s
<1>1. x \in Int /\ y \in Int /\ s * x =< a /\ a < s * x + s /\ s * y =< b /\ b < s * y + s
  OBVIOUS
<1>2. x >= y + 2 \/ y >= x + 2
  BY <1>1
<1> HIDE DEF x, y
<1>3. CASE x >= y + 2
  <2>1. s * x >= s * (y + 2) /\ s * (y + 2) = s * y + 2 * s
    BY <1>1, <1>3
  <2>2. a - b > s
    BY <1>1, <2>1
  <2> QED BY <2>2 DEF Magnitude
<1>4. CASE y >= x + 2
  <2>1. s * y >= s * (x + 2) /\ s * (x + 2) = s * x + 2 * s
    BY <1>1, <1>4
  <2>2. b - a > s
    BY <1>1, <2>1
  <2> QED BY <2>2 DEF Magnitude
<1> QED BY <1>2, <1>3, <1>4

\* What similarity() accepts of a marker and is not beside it is at the limit.
LEMMA EscapesAtLimit ==
  ASSUME CatalogueOK, NEW seen \in Places, seen.kind = "marker",
         NEW w \in Waivers, indexed[w] # NoTarget, Alike(indexed[w], seen), w \notin Beside(seen.at)
  PROVE  Distance(indexed[w].at, seen.at) = width
<1> DEFINE a == indexed[w].at
           b == seen.at
<1>1. /\ indexed[w].kind = "marker" /\ Distance(a, b) =< width /\ w \in Known("marker")
  BY DEF Alike, Known
<1>2. a \in Floats /\ b \in Floats
  BY <1>1 DEF CatalogueOK, Places
<1>3. /\ a \in - Reach .. Reach /\ b \in - Reach .. Reach /\ width \in - Reach .. Reach
      /\ Reach \in Nat /\ width \in Floats /\ width > 0
  BY <1>2, IndexAssumption DEF Floats, CatalogueOK
<1>4. Cell(a) - Cell(b) \notin {-1, 0, 1}
  BY <1>1 DEF Beside
<1> HIDE DEF a, b
<1>5. Magnitude(a - b) > width
  <2>1. (a \div width) - (b \div width) \notin {-1, 0, 1}
    BY <1>4 DEF Cell
  <2>2. width \in Nat \ {0} /\ a \in Int /\ b \in Int
    BY <1>3
  <2> HIDE DEF Magnitude
  <2> QED BY <2>1, <2>2, CellsApart
<1>6. a - b \in Differences /\ Magnitude(a - b) \in Int
  BY <1>3 DEF Differences, Magnitude
<1>7. Distance(a, b) >= width
  <2>1. Magnitude(Round(a - b)) >= width
    BY <1>3, <1>5, <1>6, RoundBeyond
  <2> QED BY <2>1 DEF Distance
<1>8. Distance(a, b) \in Int
  <2>1. PICK e \in 0 .. Reach : Spacing(a - b) = Power[e]
    BY <1>6, SpacingIs
  <2>2. a - b \in Int /\ Spacing(a - b) \in Nat \ {0}
    BY <1>3, <2>1, PowerIs
  <2>3. PICK s \in Nat \ {0} : Spacing(a - b) = s
    BY <2>2
  <2>4. PICK q \in Int : Round(a - b) \in {s * q, s * (q + 1)}
    BY <2>2, <2>3, RoundIs
  <2>5. s * q \in Int /\ s * (q + 1) \in Int
    OBVIOUS
  <2>6. Round(a - b) \in Int
    BY <2>4, <2>5
  <2> QED BY <2>6 DEF Distance, Magnitude
<1> QED BY <1>1, <1>3, <1>7, <1>8 DEF a, b

\* A finding that was looked up was answered exactly.
IndexInv ==
  /\ CatalogueOK
  /\ finding # NoTarget => finding \in Places
  /\ RetrievalIsExact

\* An answer to any query is exact.
LEMMA QueryExact ==
  ASSUME CatalogueOK, NEW seen \in Places, Query(seen)
  PROVE  RetrievalIsExact'
<1> DEFINE alike == {w \in Waivers : indexed[w] # NoTarget /\ Alike(indexed[w], seen)}
<1>1. /\ indexed' = indexed /\ width' = width /\ finding' = seen
      /\ answer' = Retrieved(seen)
  BY DEF Query
<1>2. \A x, y : Distance(x, y)' = Distance(x, y)
  BY DEF Distance
<1>3. Lookalikes' = alike
  BY <1>1 DEF Lookalikes, Alike, Distance
<1>4. ASSUME seen.kind = "source"
      PROVE  Retrieved(seen) = alike
  <2>1. seen.at \in Int
    <3>1. \A x \in Lines : x \in Int
      BY IndexAssumption
    <3> QED BY <1>4, <3>1 DEF Places
  <2>2. Retrieved(seen) = {w \in Known("source") : Magnitude(indexed[w].at - seen.at) =< LineLimit}
    BY <1>4, <2>1, NearIs DEF Retrieved
  <2>3. \A w : w \in alike <=>
          w \in Known("source") /\ Magnitude(indexed[w].at - seen.at) =< LineLimit
    BY <1>4 DEF Alike, Known
  <2> HIDE DEF alike
  <2> QED BY <2>2, <2>3
<1>5. ASSUME NEW w \in alike \ Retrieved(seen)
      PROVE  seen.kind = "marker" /\ Distance(indexed[w].at, seen.at) = width
  <2>1. seen.kind = "marker"
    BY <1>4, <1>5 DEF Places
  <2>2. w \notin Beside(seen.at)
    BY <1>5, <2>1 DEF Retrieved
  <2> QED BY <1>5, <2>1, <2>2, EscapesAtLimit
<1> HIDE DEF alike
<1>6. OnlyTheLimitEscapes'
  BY <1>1, <1>2, <1>3, <1>5 DEF OnlyTheLimitEscapes
<1>7. LinesAreExact'
  BY <1>1, <1>3, <1>4 DEF LinesAreExact
<1> QED BY <1>6, <1>7 DEF RetrievalIsExact

\* Nothing has been looked up at first.
LEMMA IndexInitial == IndexInit => IndexInv
BY DEF IndexInit, IndexInv, CatalogueOK, RetrievalIsExact, OnlyTheLimitEscapes, LinesAreExact

\* A lookup is exact, and nothing is indexed after it.
LEMMA IndexStep == IndexInv /\ [IndexNext]_indexVars => IndexInv'
<1> SUFFICES ASSUME IndexInv, [IndexNext]_indexVars PROVE IndexInv'
  OBVIOUS
<1> USE DEF IndexInv
<1>1. ASSUME NEW seen \in Places, Query(seen)
      PROVE  IndexInv'
  <2>1. CatalogueOK' /\ finding' \in Places
    BY <1>1 DEF Query, CatalogueOK
  <2>2. RetrievalIsExact'
    BY <1>1, QueryExact
  <2> QED BY <2>1, <2>2
<1>2. ASSUME NEW target \in Places, NEW w \in Waivers, Index(w, target)
      PROVE  IndexInv'
  <2>1. CatalogueOK' /\ finding' = NoTarget
    BY <1>2 DEF Index, CatalogueOK
  <2> QED BY <2>1 DEF RetrievalIsExact, OnlyTheLimitEscapes, LinesAreExact
<1>3. CASE UNCHANGED indexVars
  <2>1. CatalogueOK' /\ (finding' # NoTarget => finding' \in Places)
    BY <1>3 DEF CatalogueOK, indexVars
  <2>2. Lookalikes' = Lookalikes /\ \A x, y : Distance(x, y)' = Distance(x, y)
    BY <1>3 DEF Lookalikes, Alike, Distance, indexVars
  <2>3. RetrievalIsExact'
    BY <1>3, <2>2 DEF RetrievalIsExact, OnlyTheLimitEscapes, LinesAreExact, indexVars
  <2> QED BY <2>1, <2>3
<1> QED BY <1>1, <1>2, <1>3 DEF IndexNext

\* Along one axis, whatever similarity() accepts the index retrieves, unless
\* the rounded distance is the movement limit itself; in a source file the
\* slice of the sorted list is what is within the limit.
THEOREM RetrievalExact == IndexSpec => []RetrievalIsExact
<1>1. IndexInv => RetrievalIsExact
  BY DEF IndexInv
<1> QED BY <1>1, IndexInitial, IndexStep, PTL DEF IndexSpec

==============================================================================
