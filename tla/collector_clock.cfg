SPECIFICATION FairSpec
CONSTANTS
  p1 = p1
  p2 = p2
  n1 = n1
  n2 = n2
  m1 = m1
  m2 = m2
  c1 = c1
  c2 = c2
  Procs = {p1, p2}
  Namespaces = {n1}
  Nodes = {m1}
  Containers = {c1}
  NsOf <- NsOfOne
  NodeOf <- NodeOfOne
  Catalogue = {m1}
  Overlap = FALSE
  Churn = {}
  IntervalOf <- EveryTwo
  Lag = 1
  StartTimes <- AtFour
  LastTime = 11
  DayLen = 4
  CycleTime = 1
  DownTime = 1
  Faults <- ClockFaults
PROPERTIES
  ConsecutiveWindows
  RestartCostsOneWindow
  FailedCycleIsFollowed
  StopsWhenCancelled
CHECK_DEADLOCK FALSE
