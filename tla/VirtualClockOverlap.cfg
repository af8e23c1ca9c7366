\* The routing that ARCHITECTURE.md:136-138 describes, which two sessions in
\* one process break.
CONSTANTS
  Runs = {r1, r2}
  Sessions = {s1, s2}
  Timers = {t1}
  Delays = {1}
  Periods = {0}
  MaxHolds = 0
  Overlap = TRUE
  CallbackThrows = FALSE
  None = None
SPECIFICATION Spec
INVARIANT OwnTime
CHECK_DEADLOCK FALSE
