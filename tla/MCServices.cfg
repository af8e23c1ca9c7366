\* A search of two workers; three deliveries of one run with a stall, a crash
\* and expiring locks;
\* two subscriptions of three attempts; two projects whose ticks may come to
\* overlap; a session of two runs and a stream that breaks once; two AI
\* commands at once with a budget for one call.
CONSTANTS
  Workers = {w1, w2}
  Budgets = {2, 3}
  MaxDuplicates = 2
  FlakeRetries = 2
  EarlyExits = {TRUE, FALSE}
  Fingerprints = {f1}
  NumPromises = 1
  CallbackThrows = TRUE
  MaxResumes = 0
  NoFingerprint = NoFingerprint
  Deliveries = {d1, d2, d3}
  Attempts = 2
  CreateRejects = FALSE
  MaxDispatches = 1
  MaxCrashes = 1
  MaxStalls = 1
  MaxLapses = 1
  Subscriptions = {s1, s2}
  EventTypes = {"session.completed", "promise.failed"}
  Partial = s1
  MaxEvents = 2
  MaxAttempts = 3
  Projects = {p1, p2}
  Interval = 1
  MaxSessions = 2
  Chains = {1, 2, 3}
  Total = 2
  MaxDisconnects = 1
  Commands = {a1, a2}
  Limit = 3
  Estimate = 2
  Costs = {0, 2}
  MaxTurns = 2
  MaxAsks = 3
  None = None
SPECIFICATION Spec
INVARIANTS
  TypeOK
  NothingLostNorDoubled
  CalendarKeepsOn
  CompletedIsRecorded
  OvershootIsBounded
PROPERTIES
  EveryWorkerEnds
  RunNotStuck
  EveryDeliverySettles
  CommandsEnd
CHECK_DEADLOCK FALSE
