\* The comment of handler.ts:24, which one crash breaks.
CONSTANTS
  Deliveries = {d1, d2, d3, d4}
  Attempts = 3
  CreateRejects = FALSE
  MaxDispatches = 1
  MaxCrashes = 1
  MaxStalls = 1
  MaxLapses = 1
SPECIFICATION FairSpec
PROPERTY CrashedRunNotStuck
CHECK_DEADLOCK FALSE
