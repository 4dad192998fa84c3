SPECIFICATION MonthSpec
CONSTANTS
  Jobs = {j1, j2}
  NoJob = NoJob
  Dims <- TwoNamespaces
  NsOf <- NsOfDim
  TeamOf <- TeamOfDim
  NoTeam = ""
  Cluster = "c"
  LastDay = 4
  FactDays <- FirstMonth
  MonthLen = 2
  MaxWindows = 1
  Invocations <- StatementsAndClose
  Scheduled = TRUE
  Faults <- Interrupted
  Operator <- NoHands
INVARIANTS
  FrozenStatementsMatchFacts
  StatementsAddUp
  CloseLeavesNothingOpen
CHECK_DEADLOCK FALSE
