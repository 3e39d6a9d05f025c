CONSTANTS
  e1 = e1
  None = None
  Etags = {e1, e2}
  Rev <- MCRev
  Malformed = {}
  Profiles = {vless}
  Awg = None
  Policies = {p1}
  FaultKinds = {"write", "runtime", "probe", "net", "crash", "power"}
  MaxFaults = 2
  MaxEdits = 2
  MaxSeq = 60
SPECIFICATION FairSpec
PROPERTIES
  EndsUnlessUnheard
  ReturnsUnlessBlocked
  TakesEffectUnlessRefused
CHECK_DEADLOCK FALSE
