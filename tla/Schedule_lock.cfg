SPECIFICATION Spec
CONSTANTS
  Clocks = {hourly, nightly}
  HourlyClocks = {hourly}
  Period = 3
  ArrivalHour = 1
  NoHour = NoHour
  FirstRun = 0
  Change = 4
  Jump = 1
  Horizon = 4
  Outcomes <- Clean
  Refusals = FALSE
  LossyWrites = FALSE
INVARIANTS OneInstanceTicks
CHECK_DEADLOCK FALSE
