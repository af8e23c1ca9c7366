SPECIFICATION Spec
CONSTANTS
  Workers = {w1, w2}
  Budgets = {3}
  MaxDuplicates = 1
  FlakeRetries = 1
  EarlyExits = {TRUE, FALSE}
  Fingerprints = {f1, f2}
  NumPromises = 1
  CallbackThrows = FALSE
  MaxResumes = 0
  NoFingerprint = NoFingerprint
INVARIANT DuplicatesNotCounted
CHECK_DEADLOCK FALSE
