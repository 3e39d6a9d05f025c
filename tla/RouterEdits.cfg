CONSTANTS
  e1 = e1
  None = None
  Etags = {e1, e2, e2b}
  Rev <- MCRev
  Malformed = {e2b}
  Profiles = {vless}
  Awg = None
  Policies = {p1, p2}
  FaultKinds = {"write", "runtime", "probe", "net", "crash", "power"}
  MaxFaults = 1
  MaxEdits = 3
  MaxSeq = 22
SPECIFICATION Spec
INVARIANTS
  OnePolicyPerAttempt
PROPERTIES
  CommitsVerified
CHECK_DEADLOCK FALSE
