SPECIFICATION BoundedPlans
CONSTANTS
  None = None
  NoWaiver = NoWaiver
  Names <- MCNames
  Projects = {"soc"}
  Streams <- MCStreams
  Revisions = {"r1"}
  Provenances = {"deck1"}
  Categories <- MCCategories
  Rules <- MCRules
  Places <- MCPlaces
  Contexts <- MCContexts
  OccurrenceIds = {"v1", "v2", "v3"}
  RunIds = {"run1"}
  Words = {"why", "note"}
  WaiverIds = {w1, w2}
  Blobs = {}
  ReviewerLimit = 3
  EvidenceLimit = 1
  TagLimit = 1
  RationaleLimit = 4
  Principals <- PlanPrincipals
  Reports <- PlanReports
  Policies <- PlanPolicies
  DefaultPolicy <- NoEvidence
  Offers <- PlanOffers
  MaxVersion = 5
  MaxDay = 1
  MaxOperations = 2
  MaxPreviews = 2
  MaxHead = 6
CHECK_DEADLOCK FALSE
SYMMETRY WaiverSymmetry
INVARIANTS AppliedAsPreviewed UniqueLiveTarget
PROPERTY PlanIsWhole
