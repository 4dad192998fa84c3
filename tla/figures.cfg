SPECIFICATION Spec
CONSTANTS
  MinWindows = 3
  MinObservation = 2
  IdleObservation = 3
  NoRegion = "none"
  NoType = "none"
  DayHours = 2
  WeekDays = 2
  MonthDays = 3
  MaxHourlySpan = 4
  MaxSpan = 6
INVARIANTS
  AdviceKeepsHeadroom
  SavingsWithinSpend
  NodeCostsAsStated
  OneRestartRevealsAll
  ReportsAgree
