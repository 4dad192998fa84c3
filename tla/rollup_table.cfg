SPECIFICATION Spec
CONSTANTS
  Jobs = {j1, j2}
  NoJob = NoJob
  Dims = {g1, g2}
  LastDay = 2
  FactDays <- Days
  MonthLen = 2
  MaxWindows = 1
  Invocations <- NightlyAndBackfill
  Scheduled = FALSE
  Faults <- LocalFaults
INVARIANTS
  LockExcludes
  TxReplacesDay
  OneProjectionPerDay
  NoDayGoesMissing
PROPERTY
  ImplementsDailyTable
CHECK_DEADLOCK FALSE
