SPECIFICATION Spec
CONSTANTS
  p1 = p1
  p2 = p2
  n1 = n1
  n2 = n2
  m1 = m1
  m2 = m2
  c1 = c1
  c2 = c2
  Procs = {p1, p2}
  Namespaces = {n1, n2}
  Nodes = {m1, m2}
  Containers = {c1, c2}
  NsOf <- NsOfMC
  NodeOf <- NodeOfMC
  Catalogue = {m1, m2}
  Overlap = TRUE
  Churn = {c1}
  IntervalOf <- EveryTwo
  Lag = 1
  StartTimes <- AtFive
  LastTime = 7
  DayLen = 4
  CycleTime = 1
  DownTime = 1
  Faults <- CycleFaults
INVARIANTS
  CollectorTypeOK
  NoMinuteCountedTwice
  UnsyncedNeverCounts
  SuccessMeansMeasured
PROPERTY
  ImplementsFactFeed
CHECK_DEADLOCK FALSE
