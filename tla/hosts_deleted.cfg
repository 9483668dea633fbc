SPECIFICATION Spec
CONSTANTS
  Ips = {a}
  Modes <- MCModes
  MaxQueries = 2
  MaxFailures = 0
  MaxCrashes = 0
  MaxDeletes = 1
  MaxOps = 0
INVARIANT DeletedHostReseeded
