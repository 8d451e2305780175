SPECIFICATION Spec
CONSTANTS
  None = None
  NoWaiver = NoWaiver
  Names <- MCNames
  Projects <- MCProjects
  Streams <- MCStreams
  Revisions <- MCRevisions
  Provenances <- MCProvenances
  Categories <- MCCategories
  Rules <- MCRules
  Places <- MCPlaces
  Contexts <- MCContexts
  OccurrenceIds <- MCOccurrenceIds
  RunIds <- MCRunIds
  Words <- MCWords
  WaiverIds = {w1}
  Blobs = {b1}
  ReviewerLimit = 3
  EvidenceLimit = 1
  TagLimit = 1
  RationaleLimit = 2
  Principals <- MCPrincipals
  Reports <- ReviewReports
  Policies <- ReviewPolicies
  DefaultPolicy <- OneApproval
  Offers <- ReviewOffers
  MaxVersion = 3
  MaxDay = 0
CHECK_DEADLOCK FALSE
INVARIANT ReasonRetained
