SPECIFICATION FairSpec
CONSTANTS
  Threads = {t1}
  Lookups <- MCLookups
  Watched = {"queries", "events", "foreign"}
  MaxKeys <- One
  MaxRows <- One
  MaxEvents = 1
  Retention <- MCRetention
  MaxQueries = 2
  MaxHour = 1
  MaxFailures = 1
  MaxEnds = 1
  MaxDeletes = 1
INVARIANTS
  CountedOnce
  CleanExitFlushes
  LastActionCurrent
PROPERTIES
  MemoryDrains
