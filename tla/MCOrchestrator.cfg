SPECIFICATION Spec
CONSTANTS
  Workers = {w1, w2}
  Budgets = {3}
  MaxDuplicates = 1
  FlakeRetries = 2
  EarlyExits = {TRUE, FALSE}
  Fingerprints = {f1, f2}
  NumPromises = 1
  CallbackThrows = TRUE
  MaxResumes = 1
  NoFingerprint = NoFingerprint
SYMMETRY Permuted
INVARIANTS
  BudgetAccounting
  WorstRunIsWorst
  SeenIsLatest
PROPERTIES
  ImplementsSession
CHECK_DEADLOCK FALSE
