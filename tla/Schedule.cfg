SPECIFICATION Spec
CONSTANTS
  Clocks = {hourly}
  HourlyClocks = {hourly}
  Period = 3
  ArrivalHour = 1
  NoHour = NoHour
  FirstRun = 0
  Change = 4
  Jump = 1
  Horizon = 6
  Outcomes <- Mixed
  Refusals = TRUE
  LossyWrites = TRUE
INVARIANTS TypeOK CatchUpOnce EveryOccurrenceCounted
PROPERTIES BackToArrivalHour DispatchedOnce
CHECK_DEADLOCK FALSE
