\* Two rotations, from an existing box or from none, with an edit and two
\* faults.  Two accounts are interchangeable.
SPECIFICATION Spec
CONSTANTS
  a1 = a1
  a2 = a2
  c1 = c1
  Clients <- OneClient
  Accounts <- TwoAccounts
  FirstBoxes = {0, 1}
  FaultKinds = {"crash", "net", "db"}
  MaxOps = 2
  MaxRev = 6
  MaxEnv = 0
  MaxFaults = 2
  MaxEdits = 2
SYMMETRY Exchange
INVARIANTS TypeOK BoxAccounted CleanupHonest OneOpenPurchase
PROPERTIES ActiveSpared
CHECK_DEADLOCK FALSE
