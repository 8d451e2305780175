SPECIFICATION BoundedSpec
CONSTANTS
  None = None
  NoWaiver = NoWaiver
  Names <- MCNames
  Projects = {"soc"}
  Streams <- MCStreams
  Revisions = {"r1"}
  Provenances = {"deck"}
  Categories = {"cdc"}
  Rules = {"sync"}
  Places <- MCPlaces
  Contexts = {"c1"}
  OccurrenceIds = {"v1"}
  RunIds = {"run1", "run2"}
  Words = {"why"}
  WaiverIds = {w1}
  Blobs = {}
  ReviewerLimit = 3
  EvidenceLimit = 1
  TagLimit = 1
  RationaleLimit = 3
  Principals <- MCPrincipals
  Reports <- OneReport
  Policies <- OnePolicy
  DefaultPolicy <- Reviewed2
  Offers <- OneOffer
  MaxVersion = 4
  MaxDay = 1
  Hierarchies = {"chip"}
  Objects = {}
  HierarchyOf <- MCHierarchyOf
  ObjectOf <- MCObjectOf
  NearPlaces = {}
  AlikePlaces = {}
  Contract <- OneContract
  Grants <- MCGrants
  Trusts <- MCTrusts
  InitialTrust <- Approving
  Executions <- MCExecutions
  ReceiptLifetime = 6
  CapsuleLifetime = 4
  MaxInstant = 6
  MaxReceipts = 1
  MaxCapsules = 1
CHECK_DEADLOCK FALSE
INVARIANTS SuppressionsWereDecided GenuineVerifies UsableIsLive
