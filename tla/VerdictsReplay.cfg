CONSTANTS
  Runs = {r1, r2}
  FlakeRetries = 1
  Pids = {p1, p2}
  None = None
SPECIFICATION Spec
INVARIANT ReplayReproduces
CHECK_DEADLOCK FALSE
