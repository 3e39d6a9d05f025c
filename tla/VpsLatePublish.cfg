\* One rotation, and one transaction that fails after the publication.
SPECIFICATION Spec
CONSTANTS
  c1 = c1
  c2 = c2
  Clients <- OneClient
  InitialClients <- FirstClients
  KindsRun = {"IP_CHANGE"}
  AwgEnabled = {TRUE, FALSE}
  FaultKinds = {"dbLate"}
  MaxOps = 1
  MaxRev = 3
  MaxEnv = 0
  MaxFaults = 1
  MaxEdits = 1
INVARIANTS QuietMain
CHECK_DEADLOCK FALSE
