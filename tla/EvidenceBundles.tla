--------------------------- MODULE EvidenceBundles ---------------------------
(***************************************************************************)
(* Evidence bundles of snapshots (interchange.py), verified without the    *)
(* database (evidence.py).  The files of a bundle are named in its         *)
(* manifest with their digests; that they are unaltered is left out.       *)
(***************************************************************************)
EXTENDS AuditChain

VARIABLE
  exports  \* the last two bundles

bundleVars == << audit, backup, frozen, now, exports >>

------------------------------------------------------------------------------
\* Mutant: everything audited until the export.
CapturedUntilNow(events, id) == events

\* The events up to the freeze.
Captured(events, id) ==
  LET freezes == {i \in 1 .. Len(events) : events[i].entity = "snapshots" /\ events[i].id = id}
  IN  SubSeq(events, 1, CHOOSE i \in freezes : \A j \in freezes : i =< j)

\* bundle()
Bundle(events, id) ==
  LET captured == Captured(events, id)
      snapshot == Seen(events, "snapshots", id)
  IN  [manifest |-> [snapshot_id |-> id, audit_head |-> HeadOf(captured)],
       snapshot |-> snapshot, events |-> captured, waivers |-> snapshot.waivers]

\* The snapshot is what the last event froze, on the history before it.
FreezeBindsSnapshot(package) ==
  LET freeze == package.events[Len(package.events)] IN
  /\ freeze.entity = "snapshots" /\ freeze.id = package.snapshot.id
  /\ freeze.content = package.snapshot
  /\ freeze.previous = package.snapshot.audit_head

\* Mutant: the names of the YAML files only.
FilesNameRecords(package) == DOMAIN package.waivers = DOMAIN package.snapshot.waivers

\* The YAML files are the waivers of the snapshot.
FilesAreRecords(package) == package.waivers = package.snapshot.waivers

\* verify_evidence()
EvidenceHolds(package) ==
  /\ Chained(package.events)
  /\ package.manifest.snapshot_id = package.snapshot.id
  /\ package.manifest.audit_head = HeadOf(package.events)
  /\ FreezeBindsSnapshot(package)
  /\ Seen(package.events, "policy", "policy") = package.snapshot.policy
  /\ \A w \in DOMAIN package.snapshot.waivers :
       Seen(package.events, "waivers", w) = package.snapshot.waivers[w]
  /\ FilesAreRecords(package)

------------------------------------------------------------------------------
BundleInit == ChainInit /\ exports = << >>

Export(id) ==
  /\ Seen(audit, "snapshots", id) # None
  /\ LET bundle == Bundle(audit, id) IN
     /\ \A i \in 1 .. Len(exports) : exports[i] # bundle
     /\ exports' = IF Len(exports) < 2 THEN Append(exports, bundle) ELSE << exports[2], bundle >>
  /\ UNCHANGED << audit, backup, frozen, now >>

BundleNext ==
  \/ ChainNext /\ UNCHANGED exports
  \/ \E id \in Snapshots : Export(id)

BundleSpec == BundleInit /\ [][BundleNext]_bundleVars

------------------------------------------------------------------------------
(* Properties *)

\* What can be put together from the files of the last two bundles.
Mixed ==
  {[manifest |-> exports[i].manifest, snapshot |-> exports[j].snapshot,
    events |-> exports[k].events, waivers |-> exports[l].waivers] :
     i, j, k, l \in 1 .. Len(exports)}

\* A bundle verifies without its database, however much was written, or put
\* back, between the freeze and the export; and two bundles mixed up, file by
\* file, verify only as one of the two.
BundlesVerifyWhole ==
  \A package \in Mixed :
    EvidenceHolds(package) <=> \E i \in 1 .. Len(exports) : package = exports[i]

==============================================================================
