SPECIFICATION BoundedSpec
CONSTANTS
  None = None
  NoWaiver = NoWaiver
  Names <- MCNames
  Projects = {"soc"}
  Streams = {"lint"}
  Revisions = {"r1", "r2"}
  Provenances = {"deck"}
  Categories = {"cdc"}
  Rules = {"sync"}
  Places <- MCPlaces
  Contexts = {"c1"}
  OccurrenceIds = {"v1", "v2"}
  RunIds = {"run1", "run2", "run3"}
  Words = {"why"}
  WaiverIds = {w1, w2}
  Blobs = {"b1"}
  ReviewerLimit = 3
  EvidenceLimit = 1
  TagLimit = 1
  RationaleLimit = 3
  Principals <- MCPrincipals
  Reports <- MCReports
  Policies <- MCPolicies
  DefaultPolicy <- GateDefault
  Offers <- MCOffers
  MaxVersion = 7
  MaxDay = 2
  MaxSnapshots = 1
  Hierarchies = {"chip"}
  Objects = {"cell"}
  HierarchyOf <- MCHierarchyOf
  ObjectOf <- MCObjectOf
  NearPlaces <- MCNearPlaces
  AlikePlaces <- MCAlikePlaces
CHECK_DEADLOCK FALSE
SYMMETRY WaiverSymmetry
INVARIANTS WaivedWasDecided UnusedWasSought SnapshotsStayWhole
PROPERTIES OnlyVotesOpenTheGate SuppressionLasts
