SPECIFICATION FairSpec
CONSTANTS
  Files = {f1, f2}
  Workers = {w1, w2}
  MaxAttempts = 2
  MaxRecoveries = 1
  MaxFaults = 1
INVARIANTS TypeOK ReceiptOverJobsOver JobTellsFile ReceiptTellsJobs
PROPERTIES EvidenceStands JobsSettle
CHECK_DEADLOCK FALSE
