SPECIFICATION Spec
CONSTANTS
  Model <- MCModel
  Parts <- MCParts
  LoadsOf <- MCLoadsOf
  StoresOf <- MCStoresOf
  How <- MCHow
  Produced <- MCProduced
  Versions = {1, 2}
  StoreLen <- MCLen
  Vars = 2
  MaxWrites = 1
  MaxCalls = 2
  MaxRuns = 3
  MaxRecs = 2
  NoFile = NoFile
  None = None
  Uninit = Uninit
INVARIANTS SeesLoads Answered StoreAsRecorded Restartable
PROPERTIES RecordsKept
CHECK_DEADLOCK FALSE
