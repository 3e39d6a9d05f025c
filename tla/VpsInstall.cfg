\* Installs, reboots and status checks.  One fault of any kind, lost leases
\* included, and one edit: enough for a late worker to meet its successor.
SPECIFICATION Spec
CONSTANTS
  c1 = c1
  c2 = c2
  Clients <- AllClients
  InitialClients <- FirstClients
  KindsRun = {"INSTALL", "REBOOT", "STATUS"}
  AwgEnabled = {FALSE}
  FaultKinds = {"crash", "net", "db", "dbFirst", "dbEnd", "expire"}
  MaxOps = 3
  MaxRev = 5
  MaxEnv = 0
  MaxFaults = 1
  MaxEdits = 1
INVARIANTS TypeOK AppliedSound RebootRemembered KeepsServedClients
PROPERTIES AppliedForward
CHECK_DEADLOCK FALSE
