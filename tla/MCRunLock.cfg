\* Crashes, stalls and expiries together: five handlers of one run.
CONSTANTS
  Deliveries = {d1, d2, d3, d4, d5}
  Attempts = 3
  CreateRejects = TRUE
  MaxDispatches = 2
  MaxCrashes = 1
  MaxStalls = 1
  MaxLapses = 2
SPECIFICATION Spec
INVARIANTS
  OneExecutes
  SettledIsClean
PROPERTY ImplementsLease
SYMMETRY Permuted
CHECK_DEADLOCK FALSE
