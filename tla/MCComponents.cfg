\* Two workers over two templates of two buckets, one bucket malformed; two
\* drivers of one resource and one of the other; transactions of up to four
\* statements; two messages and two strikes; two runs of two calls; a page
\* of two runs; two nested clocks and tasks; two sessions; two sign-ins with
\* three callbacks; three sessions of promises; three starts of the API.
CONSTANTS
  Workers = {w1, w2}
  NumTemplates = 2
  NumBuckets = 2
  Invalid <- InvalidBuckets
  MaxIssues = 3
  MaxSets = 5
  MaxResumes = 1
  Delays <- DelayRanges
  Drivers = {x1, x2, x3}
  Domain <- ResourceOf
  Runs = {r1, r2}
  MaxStatements = 5
  Messages = {m1, m2}
  MaxStrikes = 2
  MaxCalls = 2
  Network = {"http", "grpc"}
  Files = {"fs promise", "fs callback", "fs sync", "fs stream", "spawn"}
  Pids = {p1, p2}
  RunIds = {q1, q2}
  Filters = {"all", "FAILED"}
  Matches <- OldestOf
  ListLimit = 1
  MaxReloads = 1
  FlakeRetries = 1
  Clocks = {c1, c2}
  Tasks = {k1, k2}
  MaxNesting = 2
  Sessions = {s1, s2}
  MaxRunsPerSession = 2
  MaxQueuedRuns = 3
  MaxRunsPerMonth <- SeerLimit
  MaxTierChanges = 1
  States = {y1, y2}
  Tenants = {t1, t2}
  MaxCallbacks = 3
  Evidence = {e1, e2}
  Torn = Torn
  MaxSessions = 3
  Demo = {1, 2}
  Real = {11, 12}
  MaxStarts = 3
  None = None
SPECIFICATION Spec
SYMMETRY Alike
INVARIANTS
  TypeOK
  ShrunkToMinimal
  StrategiesCredit
  PressureIsGuarded
  PartialIsHalf
  OnlyLossLoses
  FaultsReplay
  ShowsWhatWasAsked
  VerdictsAgree
  ScopedTime
  LimitsHold
  RedeemedOnce
  JudgedByItsParts
  DemoApart
CHECK_DEADLOCK FALSE
