SPECIFICATION ScanSpec
CONSTANTS
  RuleLists <- MCRuleLists
  Clients = {"c1", "c2"}
  RawNames <- MCRawNames
INVARIANTS
  DocumentedPrecedence
  LoopComputesSelection
