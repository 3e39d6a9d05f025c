CONSTANTS
  e1 = e1
  None = None
  Etags = {e1, e2}
  Rev <- MCRev
  Malformed = {}
  Profiles = {vless, awg}
  Awg = awg
  Policies = {p1}
  FaultKinds = {"write", "runtime", "probe", "net", "crash", "power"}
  MaxFaults = 3
  MaxEdits = 1
  MaxSeq = 40
SPECIFICATION Spec
INVARIANTS
  TypeOK
  JournalSound
  RollbackAvailable
  SInv
  ForwardsKnownBundle
  ReportsTruthful
  OneVerdictPerKey
PROPERTIES
  ReportsDelivered
  KeepsPromise
CHECK_DEADLOCK FALSE
