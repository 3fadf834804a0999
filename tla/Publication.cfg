SPECIFICATION FairSpec
CONSTANTS
  Runs = {r1}
  Workers = {w1, w2}
  NoRun = NoRun
INVARIANTS PointerBacked PublishedIsLogged OutcomesAgree RefusedLeavesNothing
PROPERTIES PromotionSettles KeepsHistory
CHECK_DEADLOCK FALSE
