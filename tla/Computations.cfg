SPECIFICATION ComputationsSpec
CONSTANTS
  Nodes = {n1, n2, n3}
  Contents = {c1, c2}
  Settings = {o1, o2}
  NoHashes = NoHashes
  Points <- CornerPoints
  MaxLength = 6
  NoTarget = NoTarget
  Waivers = {1, 2}
  Significands = 8
  Reach = 16
  Lines = {0, 1, 2, 3, 4}
  LineLimit = 1
  None = None
  Findings <- TwinFindings
  Layouts <- TwinLayouts
  Layers = {"m1", "m2"}
  Halo = 1
  Dbu = 2
  CoordinateLimit = 6
  Transforms <- MCTransforms
  Vectors <- MCVectors
  MaxEdits = 2
CHECK_DEADLOCK FALSE
INVARIANTS CyclesAreRefused ImpactIsReachable RingsAreFound RetrievalIsExact PhysicalEvidenceHolds
PROPERTY LoopsEnd
