SPECIFICATION BoundedSpec
CONSTANTS
  None = None
  NoWaiver = NoWaiver
  Names <- MCNames
  Projects <- MCProjects
  Streams <- MCStreams
  Revisions <- MCRevisions
  Provenances <- MCProvenances
  Categories <- MCCategories
  Rules <- MCRules
  Places <- MCPlaces
  Contexts <- MCContexts
  OccurrenceIds <- MCOccurrenceIds
  RunIds <- MCRunIds
  Words <- MCWords
  WaiverIds = {w1, w2}
  Blobs = {b1}
  ReviewerLimit = 3
  EvidenceLimit = 1
  TagLimit = 1
  RationaleLimit = 3
  Principals <- MCPrincipals
  Reports <- MCReports
  Policies <- ReviewPolicies
  DefaultPolicy <- OneApproval
  Offers <- MCOffers
  MaxVersion = 9
  MaxDay = 2
CHECK_DEADLOCK FALSE
INVARIANTS TypeOK ReviewsAreSound ActorsAreGranted UniqueLiveTarget BaselineIsImported
PROPERTIES ReviewImplemented StepsAreSound
SYMMETRY WaiverSymmetry
