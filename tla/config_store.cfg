SPECIFICATION FairSpec
CONSTANTS
  Null = Null
  TableOrder <- MCTableOrder
  LegacyFiles <- MCLegacyFiles
  Creates <- MCCreates
  Updates <- MCUpdates
  Puts <- MCPuts
  Modes <- MCModes
  Replies <- MCReplies
  MaxOps = 2
  MaxRestarts = 1
  MaxFailures = 1
INVARIANTS
  RowsUsable
  SettingsEffective
  FirstSeenFilled
PROPERTIES
  MigrationPromise
  DeletedStaysDeleted
  ServesAfterSetUp
