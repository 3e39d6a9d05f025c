\* Two clients, routers and credentials on three addresses, one client of old,
\* two reports under way.  The two requests are interchangeable.
SPECIFICATION Spec
CONSTANTS
  w1 = w1
  w2 = w2
  Workers <- TwoWorkers
  MaxClients = 2
  MaxRouters = 2
  MaxCreds = 2
  MaxOld = 1
  LastAddr = 4
  Keys = {1}
  Outcomes = {"APPLIED", "FAILED"}
  Kinds = {"dual"}
  ScopeSets <- BothScopes
  MaxRev = 4
  MaxApplies = 1
SYMMETRY Exchange
INVARIANTS TypeOK AddressesApart RevisionTells OneResultPerKey
CHECK_DEADLOCK FALSE
