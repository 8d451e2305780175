SPECIFICATION FairSpec
CONSTANTS
  Processes = {p1, p2, p3}
  Entities <- MCEntities
  Contents = {"default", "new", "changed"}
  Absent = Absent
  Policy = "policy"
  Default = "default"
  Scripts <- MCScripts
  Nobody = Nobody
  MaxEvents = 4
CHECK_DEADLOCK FALSE
INVARIANTS AuditMatchesRows VerifyNeverFails
PROPERTIES PolicyCreatedOnce LedgerImplemented NobodyWaitsForever
