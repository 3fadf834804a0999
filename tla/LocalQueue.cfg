SPECIFICATION FairSpec
CONSTANTS
  k1 = k1
  k2 = k2
  p1 = p1
  p2 = p1
  Jobs <- MCJobs
  Keys <- MCTwoKeys
  Platforms = {p1}
  PlatformOf <- MCPlatformOf
  Workers = {w1, w2}
  MaxAttempts = 2
  SlowPulls = FALSE
  MaxFaults = 1
  Enqueuers = {e1, e2}
INVARIANTS ExclusiveOwner AttemptBudget
PROPERTIES KeepsPromise AnsweredWindowEnds
CHECK_DEADLOCK FALSE
