CONSTANTS
  e1 = e1
  None = None
  Etags = {e1, e2}
  Rev <- MCRev
  Malformed = {}
  Profiles = {vless}
  Awg = None
  Policies = {p1}
  FaultKinds = {"crash", "power"}
  MaxFaults = 2
  MaxEdits = 1
  MaxSeq = 60
SPECIFICATION FairSpec
PROPERTY ServiceReturns
CHECK_DEADLOCK FALSE
