SPECIFICATION Spec
CONSTANTS
  Threads = {t1}
  Keys = {"k1", "k2"}
  Answers <- OneAnswer
  MaxEntries = 2
  TtlSettings <- LongerLimit
  TicksPerSec = 2
  MaxTime = 4
  MaxReloads = 0
  MaxRequests = 2
  MaxPollFailures = 0
  MaxSnapshots = 0
  DistinctSeconds = FALSE
INVARIANTS
  FlushHonoured
