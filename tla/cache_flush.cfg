SPECIFICATION FairSpec
CONSTANTS
  Threads = {t1}
  Keys = {"k1"}
  Answers <- OneAnswer
  MaxEntries = 0
  TtlSettings <- OneLimit
  TicksPerSec = 2
  MaxTime = 3
  MaxReloads = 0
  MaxRequests = 2
  MaxPollFailures = 1
  MaxSnapshots = 1
  DistinctSeconds = TRUE
INVARIANTS
  FlushHonoured
  MirrorNeverOverstates
PROPERTIES
  FlushServed
