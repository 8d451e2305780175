---------------------------- MODULE ContextGraph -----------------------------
(***************************************************************************)
(* context.py: the hashes of a dependency graph and what they tell about a *)
(* change.  The loop of node_hashes is one step per node taken from its    *)
(* queue, in any order of the queue; the dictionaries that fill the queue  *)
(* have no order a reader could rely on.  A digest is the document it      *)
(* digests.  One manifest is hashed, edited, hashed again, and the two are *)
(* compared as compare_context does.                                       *)
(***************************************************************************)
EXTENDS Naturals, FiniteSets

CONSTANTS
  Nodes,      \* paths of a manifest
  Contents,   \* what a file may contain
  Settings,   \* build settings
  NoHashes    \* the first manifest has not been hashed yet

ASSUME GraphAssumption == IsFiniteSet(Nodes)

VARIABLES
  manifest,  \* dependencies, file contents, settings and roots of the target
  degree,    \* how many dependencies of each node are not hashed
  ready,     \* nodes to take next
  hashed,    \* the digest of each node hashed so far
  outcome,   \* "hashing", "accepted" or "refused"
  before     \* the first manifest and its target digest, once it is replaced

graphVars == << manifest, degree, ready, hashed, outcome, before >>

Manifests ==
  [deps : [Nodes -> SUBSET Nodes], content : [Nodes -> Contents],
   settings : Settings, roots : (SUBSET Nodes) \ {{}}]

deps == manifest.deps

------------------------------------------------------------------------------
(* Hashing *)

\* The state in which the loop starts for the manifest m.
Starts(m) ==
  /\ manifest' = m
  /\ degree' = [n \in Nodes |-> Cardinality(m.deps[n])]
  /\ ready' = { n \in Nodes : Cardinality(m.deps[n]) = 0 }
  /\ hashed' = [n \in {} |-> n]
  /\ outcome' = "hashing"

GraphInit ==
  /\ manifest \in Manifests
  /\ degree = [n \in Nodes |-> Cardinality(deps[n])]
  /\ ready = { n \in Nodes : Cardinality(deps[n]) = 0 }
  /\ hashed = [n \in {} |-> n]
  /\ outcome = "hashing"
  /\ before = NoHashes

\* Mutant: the names of the dependencies, not their hashes.
NameDigest(n) == [path |-> n, content |-> manifest.content[n], below |-> deps[n]]

NodeDigest(n) ==
  [path |-> n, content |-> manifest.content[n],
   below |-> { << d, hashed[d] >> : d \in deps[n] }]

\* Parents of n that wait for nothing else.
MadeReady(n) == { p \in Nodes : n \in deps[p] /\ degree[p] = 1 }

\* Mutant: the head of the queue is read and stays there.
TakeKeeping(n) ==
  /\ outcome = "hashing"
  /\ n \in ready
  /\ hashed' = [m \in DOMAIN hashed \cup {n} |-> IF m = n THEN NodeDigest(n) ELSE hashed[m]]
  /\ ready' = ready \cup MadeReady(n)
  /\ UNCHANGED << manifest, degree, outcome, before >>

Take(n) ==
  /\ outcome = "hashing"
  /\ n \in ready
  /\ hashed' = [m \in DOMAIN hashed \cup {n} |-> IF m = n THEN NodeDigest(n) ELSE hashed[m]]
  /\ degree' = [p \in Nodes |-> IF n \in deps[p] THEN degree[p] - 1 ELSE degree[p]]
  /\ ready' = (ready \ {n}) \cup MadeReady(n)
  /\ UNCHANGED << manifest, outcome, before >>

\* Mutant: the empty queue is taken for success.
AnyHashed == hashed # << >>

AllHashed == DOMAIN hashed = Nodes

Finish ==
  /\ outcome = "hashing"
  /\ ready = {}
  /\ outcome' = IF AllHashed THEN "accepted" ELSE "refused"
  /\ UNCHANGED << manifest, degree, ready, hashed, before >>

------------------------------------------------------------------------------
(* The second manifest *)

TargetDigest ==
  [settings |-> manifest.settings, roots |-> { << r, hashed[r] >> : r \in manifest.roots }]

\* One difference between the manifests: a file, an edge set, the settings or
\* the roots of the target.
Edits(m) ==
  { [m EXCEPT !.content[n] = c] : n \in Nodes, c \in Contents } \cup
  { [m EXCEPT !.deps[n] = D] : n \in Nodes, D \in SUBSET Nodes } \cup
  { [m EXCEPT !.settings = s] : s \in Settings } \cup
  { [m EXCEPT !.roots = R] : R \in (SUBSET Nodes) \ {{}} }

Replace ==
  /\ outcome = "accepted"
  /\ before = NoHashes
  /\ before' = [manifest |-> manifest, target |-> TargetDigest]
  /\ \E m \in Edits(manifest) : Starts(m)

GraphNext == (\E n \in Nodes : Take(n)) \/ Finish \/ Replace

GraphSpec ==
  /\ GraphInit /\ [][GraphNext]_graphVars
  /\ WF_graphVars((\E n \in Nodes : Take(n)) \/ Finish)

------------------------------------------------------------------------------
(* Properties *)

\* Some nodes that each depend on one another of them.
Cycle(S) == S # {} /\ \A n \in S : deps[n] \cap S # {}

\* "Also rejects cycles without recursive Python calls" (context.py:55): a
\* manifest is accepted exactly when its graph has no cycle, in whatever
\* order the queue is filled.
CyclesAreRefused ==
  /\ outcome = "accepted" => \A S \in SUBSET Nodes : ~Cycle(S)
  /\ outcome = "refused" => \E S \in SUBSET Nodes : Cycle(S)

\* Hashing ends for every graph, cyclic ones included.
HashingEnds == (outcome = "hashing") ~> (outcome # "hashing")

\* What a target is built from: least set with its roots, closed under deps.
Cone(m) ==
  LET Closed(S) == m.roots \subseteq S /\ \A n \in S : m.deps[n] \subseteq S
  IN { n \in Nodes : \A S \in SUBSET Nodes : Closed(S) => n \in S }

\* A target counts as impacted exactly when its settings, its roots, or a file
\* or an edge below it differ, however far below (compare_context).
ImpactIsReachable ==
  outcome = "accepted" /\ before # NoHashes =>
    LET old == before.manifest
    IN (TargetDigest = before.target) <=>
         /\ old.settings = manifest.settings /\ old.roots = manifest.roots
         /\ \A n \in Cone(old) : /\ old.content[n] = manifest.content[n]
                                 /\ old.deps[n] = deps[n]

==============================================================================
