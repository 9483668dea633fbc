SPECIFICATION FairSpec
CONSTANTS
  Threads = {t1}
  Queries <- MCQueries
  PolicyTable <- MCPolicyTable
  Values <- MCValues
  MaxEdits = 2
  MaxFailures = 1
INVARIANTS
  ReadsAreRecent
  VerdictOfReads
  EnforcedScreening
PROPERTIES
  PublishedFromOnePass
  Converges
