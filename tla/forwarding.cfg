SPECIFICATION Spec
CONSTANTS
  Threads = {t1}
  Ids = {1, 2}
  Servers <- MCServers
  Bodies <- MCBodies
  Initial <- MCInitial
  MaxQueries = 1
  MaxHour = 1
  MaxOps = 1
  MaxPasses = 2
  MaxFailures = 1
  MaxEnds = 1
  Retention = 1
INVARIANTS
  FailoverOrder
  GapsClosed
  ProbesBounded
  SamplesKept
