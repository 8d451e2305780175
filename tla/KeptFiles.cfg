SPECIFICATION KeptSpec
CONSTANTS
  Callers = {c1, c2, c3}
  Paths = {"a", "b", "c"}
  Requests <- MCRequests
  NoFile = NoFile
  Commands = {p1, p2}
  Secrets = {x1, x2}
  Signed <- MCSigned
  Grants <- MCGrants
  Configs <- MCConfigs
  Expiries = {1}
  Never = Never
  Idle = Idle
  Torn = Torn
  RecordLimit = 2
  CacheLimit = 2
  LastTime = 2
  Genesis = Genesis
  None = None
  Waivers = {w1}
  Texts = {t1, t2}
  Snapshots = {s1, s2}
  Subjects = {ledger, other}
  Lifetime = 1
  MaxSigned = 3
  MaxHeld = 2
  MaxEvents = 4
  MaxTime = 1
CHECK_DEADLOCK FALSE
SYMMETRY Interchangeable
INVARIANTS KeysAreWhole CheckpointBindsHistory BundlesVerifyWhole
PROPERTY DecidedInItsTime
