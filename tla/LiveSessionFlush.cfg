\* The comment of api-client.ts:61, which flushProgress() breaks.
CONSTANTS
  Total = 2
  MaxDisconnects = 0
  None = None
SPECIFICATION Spec
INVARIANT LatestIsPosted
CHECK_DEADLOCK FALSE
