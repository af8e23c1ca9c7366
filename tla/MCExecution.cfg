\* One execution, with and without a sandbox: every order of body, timer and
\* daemon.  The clocks of two runs, at once or in two sessions one after the
\* other, with an interval of 0 ms beside timers of 0 to 2 ms that callbacks
\* may set again for ever.
CONSTANTS
  NumPromises = 3
  Providers = {TRUE, FALSE}
  MaxEvents = 4
  Runs = {r1, r2}
  Sessions = {s1, s2}
  Timers = {t1, t2}
  Delays = {0, 1, 2}
  Periods = {0}
  MaxHolds = 2
  Overlap = FALSE
  CallbackThrows = FALSE
  None = None
SPECIFICATION BothFairSpec
INVARIANTS
  CleanUnlessTimedOut
  GlobalsCounted
  OwnTime
PROPERTIES
  ExecutionSettles
  TimersFire
CHECK_DEADLOCK FALSE
