SPECIFICATION Spec
CONSTANTS
  Runs = {r1, r2}
  Workers = {w1}
  MaxAttempts = 2
  Confs = {c1}
  Posts = {q1, q2}
  MaxLog = 3
  NoRun = NoRun
INVARIANTS LedgerFollowsReview
CHECK_DEADLOCK FALSE
