\* Rotations and installs under crashes, lost requests and failed
\* transactions, with an edit of any kind, the environment's included.
\* Leases do not expire: they last an hour and every wait of a rotation is
\* shorter.
SPECIFICATION FairSpec
CONSTANTS
  c1 = c1
  c2 = c2
  Clients <- OneClient
  InitialClients <- FirstClients
  KindsRun = {"INSTALL", "IP_CHANGE"}
  AwgEnabled = {TRUE, FALSE}
  FaultKinds = {"crash", "net", "db", "dbFirst"}
  MaxOps = 2
  MaxRev = 4
  MaxEnv = 1
  MaxFaults = 2
  MaxEdits = 1
INVARIANTS WorkersAlone SnapshotCurrent OneOpenRotation QuietMain PublishedOwned AppliedIsServed
PROPERTIES PublishVerified EndsUnlessDead
CHECK_DEADLOCK FALSE
