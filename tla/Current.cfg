SPECIFICATION FairSpec
CONSTANTS
  Runs = {r1, r2}
  Workers = {w1}
  MaxAttempts = 2
  Confs = {c1}
  Posts = {q1, q2}
  MaxLog = 3
  NoRun = NoRun
INVARIANTS TypeOK LogIsChain ReviewReplacesWhatItShowed PublishedOnce ReviewedRowsServedOnce JobAndRunAgree
PROPERTIES JobEnds KeepsHistory
CHECK_DEADLOCK FALSE
