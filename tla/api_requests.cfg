SPECIFICATION Spec
CONSTANTS
  k1 = k1
  k2 = k2
  c1 = c1
  c2 = c2
  usd = usd
  eur = eur
  FirstTime = 2
  LastTime = 5
  Keys = {k1, k2}
  Num = 2
  Den = 3
  Burst = 1
  TTL = 2
  Ids = {1, 2}
  Clusters = {c1, c2}
  ClusterOf <- ClusterOfMC
  Currencies = {usd, eur}
  Catalogues <- CataloguesMC
  MaxPage = 2
  DefaultSpan = 3
  MaxSpan = 3
  Absent = Absent
  FirstWindow = 1
  LastWindow = 2
  Pinned <- PinnedMC
  SeedRows <- SeedRowsMC
  SeedFleets <- SeedFleetsMC
  Client = k1
  KeySets <- KeySetsMC
INVARIANTS
  ListedOnce
  NothingMissed
  RetryAfterIsEnough
PROPERTIES
  LimiterIsBuckets
CHECK_DEADLOCK FALSE
