SPECIFICATION Spec
CONSTANTS
  Jobs = {j1, j2}
  NoJob = NoJob
  Dims = {g1}
  LastDay = 2
  MonthLen = 2
  FactDays <- Days
  Scheduled = FALSE
  MaxWindows = 1
  Invocations <- NightlyAndBackfill
  Faults <- LostSession
INVARIANT
  OneProjectionPerDay
CHECK_DEADLOCK FALSE
