SPECIFICATION FairSpec
CONSTANTS
  Ips = {a}
  Modes <- MCModes
  MaxQueries = 2
  MaxFailures = 1
  MaxCrashes = 1
  MaxDeletes = 1
  MaxOps = 2
INVARIANTS
  CountsConserved
  SeedAccounted
  OperatorChoiceStands
PROPERTIES
  EventuallyDiscovered
