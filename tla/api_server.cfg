SPECIFICATION FairSpec
CONSTANTS
  Requests = {r1, r2}
  MaxConns = 1
  MaxWindow = 2
  MaxOutages = 1
INVARIANTS
  ApiTypeOK
  PoolOutlivesRequests
  ExitStatusIsHonest
  NoEmptyInventory
PROPERTIES
  ShutdownIsBounded
  FreshnessCatchesUp
CHECK_DEADLOCK FALSE
