\* The comment of orchestrator.ts:374, which a timeout during `docker run` breaks.
CONSTANTS
  NumPromises = 1
  Providers = {TRUE, FALSE}
  MaxEvents = 2
SPECIFICATION RunSpec
INVARIANT NoContainerLeft
CHECK_DEADLOCK FALSE
