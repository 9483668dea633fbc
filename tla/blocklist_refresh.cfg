SPECIFICATION FairSpec
CONSTANTS
  Ids <- MCIds
  Initial = {1}
  Domains = {d}
  Threads = {t1}
  MaxOps = 2
  MaxElapses = 1
  MaxFailures = 1
INVARIANTS
  TypeOK
  DomainCountSettled
  OverridesApplied
PROPERTIES
  EveryDueListTried
  BlocklistsConverge
