SPECIFICATION FairSpec
CONSTANTS
  Ids = {1, 2}
  Names = {"n1", "n2", "n3", "n4", "r4", "r6"}
  V4 = {"a4"}
  V6 = {"a6"}
  Reverse <- MCReverse
  Source <- MCSource
  Initial <- MCInitial
  MaxCnameDepth = 2
  MaxOps = 1
  MaxApi = 1
  MaxElapses = 1
  MaxEscapes = 1
INVARIANTS
  ForwardAndReverse
  WholeFiles
  AliasesChased
PROPERTIES
  ZonesSettle
