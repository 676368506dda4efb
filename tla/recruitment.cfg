\* Two recipients, the worker's two processes, two messages an hour.
SPECIFICATION FairSpec
CONSTANTS
  Deliveries = 2
  Worker = {w1, w2}
  RATE_LIMIT = 2
  MaxDispatches = 2
  MaxRetries = 1
  MaxCrashes = 1
CHECK_DEADLOCK FALSE
INVARIANT
  RateIsKept
PROPERTY
  BroadcastEnds
