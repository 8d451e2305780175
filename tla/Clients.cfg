SPECIFICATION ClientSpec
CONSTANTS
  None = None
  NoWaiver = NoWaiver
  Names <- MCNames
  Projects = {"soc"}
  Streams = {"lint"}
  Revisions = {"r1"}
  Provenances = {"deck"}
  Categories = {"cdc"}
  Rules = {"sync"}
  Places = {"top"}
  Contexts = {"c1"}
  OccurrenceIds = {"v1"}
  RunIds = {"run1"}
  Words = {"why", "note"}
  WaiverIds = {w1}
  Blobs = {"b1"}
  ReviewerLimit = 3
  EvidenceLimit = 1
  TagLimit = 1
  RationaleLimit = 3
  Principals <- MCPrincipals
  Reports <- MCReports
  Policies <- MCPolicies
  DefaultPolicy <- MCDefault
  Offers <- MCOffers
  MaxVersion = 5
  MaxDay = 0
CHECK_DEADLOCK FALSE
PROPERTIES NoLostUpdate VotesWereInformed
