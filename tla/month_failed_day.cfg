SPECIFICATION MonthSpec
CONSTANTS
  Jobs = {j1, j2}
  NoJob = NoJob
  Dims <- OneTuple
  NsOf <- NsOfDim
  TeamOf <- TeamOfDim
  NoTeam = ""
  Cluster = "c"
  LastDay = 4
  FactDays <- FirstMonth
  MonthLen = 2
  MaxWindows = 1
  Invocations <- ScheduledOnly
  Scheduled = TRUE
  Faults <- FailingDay
  Operator <- NoHands
INVARIANT
  FrozenStatementsMatchFacts
CHECK_DEADLOCK FALSE
