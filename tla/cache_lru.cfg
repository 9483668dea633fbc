SPECIFICATION Spec
CONSTANTS
  Threads = {t1, t2}
  Keys = {k1, k2, k3}
  Answers <- AllAnswers
  MaxEntries = 2
  TtlSettings <- TwoLimits
  TicksPerSec = 2
  MaxTime = 2
  MaxReloads = 1
  MaxRequests = 0
  MaxPollFailures = 0
  MaxSnapshots = 0
  DistinctSeconds = TRUE
SYMMETRY Symmetry
INVARIANTS
  CacheShape
PROPERTIES
  ServedWithinLifetime
  EvictsLeastRecentlyUsed
