\* Three rotations and one lost request.
SPECIFICATION Spec
CONSTANTS
  a1 = a1
  a2 = a2
  c1 = c1
  Clients <- OneClient
  Accounts <- OneAccount
  FirstBoxes = {1}
  FaultKinds = {"net"}
  MaxOps = 3
  MaxRev = 8
  MaxEnv = 0
  MaxFaults = 1
  MaxEdits = 0
INVARIANTS ChainOffered
CHECK_DEADLOCK FALSE
