SPECIFICATION RunFairSpec
CONSTANTS
  k1 = k1
  k2 = k2
  p1 = p1
  Jobs <- MCJobs2
  Keys <- MCKeys
  Windows <- MCWindows
  Runs = {r1}
  Platforms = {p1}
  PlatformOf <- MCPlatformOf
  Workers = {w1, w2}
  MaxAttempts = 2
  SlowPulls = TRUE
  MaxFaults = 1
  Enqueuers = {e1}
  MayStop = TRUE
INVARIANTS RunTypeOK ClaimedDaysLanded VerdictIsFinal
PROPERTIES EndedRunFrozen StoppedRunStartsNothing RunEnds
CHECK_DEADLOCK FALSE
