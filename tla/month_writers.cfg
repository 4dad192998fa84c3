SPECIFICATION MonthSpec
CONSTANTS
  Jobs = {j1, j2}
  NoJob = NoJob
  Dims <- OneTuple
  NsOf <- NsOfDim
  TeamOf <- TeamOfDim
  NoTeam = ""
  Cluster = "c"
  LastDay = 2
  FactDays <- DayOne
  MonthLen = 1
  MaxWindows = 1
  Invocations <- CloseOnly
  Scheduled = FALSE
  Faults <- Interfered
  Operator <- Hands
SYMMETRY Symmetry
INVARIANTS
  MonthTypeOK
  FrozenMonthsHaveEnded
PROPERTY
  FinalisedNeverRewritten
CHECK_DEADLOCK FALSE
