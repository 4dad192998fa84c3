SPECIFICATION FairSpec
CONSTANTS
  Jobs = {j1, j2}
  NoJob = NoJob
  Dims = {g1, g2}
  LastDay = 2
  MonthLen = 2
  FactDays <- DayOne
  Scheduled = FALSE
  MaxWindows = 1
  Invocations <- AlsoRefused
  Faults <- AnyFault
INVARIANTS
  TypeOK
  NoDayGoesMissing
PROPERTIES
  DayNeverVanishes
  LockIsReleased
CHECK_DEADLOCK FALSE
