CONSTANTS
  e1 = e1
  None = None
  Etags = {e1, e2}
  Rev <- MCRev
  Malformed = {}
  Profiles = {vless}
  Awg = None
  Policies = {p1}
  FaultKinds = {"runtime", "crash"}
  MaxFaults = 2
  MaxEdits = 0
  MaxSeq = 24
SPECIFICATION FairSpec
PROPERTY TransactionsEnd
CHECK_DEADLOCK FALSE
