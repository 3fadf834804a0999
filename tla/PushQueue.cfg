SPECIFICATION FairSpec
CONSTANTS
  k1 = k1
  k2 = k2
  p1 = p1
  p2 = p2
  Jobs <- MCJobs
  Keys <- MCOneKey
  Platforms = {p1, p2}
  PlatformOf <- MCPlatformOf
  Workers = {w1, w2}
  MaxAttempts = 2
  SlowPulls = FALSE
  MaxFaults = 1
  Enqueuers = {e1}
INVARIANTS ExclusiveOwner
PROPERTIES NoRepullAfterLanding KeepsPromise QueuedWindowEnds
CHECK_DEADLOCK FALSE
