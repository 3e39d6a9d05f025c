\* Three applies, two faults, two server names.
SPECIFICATION Spec
CONSTANTS
  Torn = Torn
  n1 = n1
  n2 = n2
  Names <- TwoNames
  Plans <- FewPlans
  FaultKinds = {"step", "kill", "restore"}
  MaxRuns = 3
  MaxFaults = 2
INVARIANTS TypeOK MarksTell FailsForAReason
PROPERTIES KeepsPromise
CHECK_DEADLOCK FALSE
