SPECIFICATION Spec
CONSTANTS
  Model = "model"
  NoFile = NoFile
  Ensemble = TRUE
  Loads <- TwoLoads
  Outs <- TwoOuts
  Rounds = 2
  Size <- Sizes
  Type <- Types
  TrainNum = 2
  ValidNum = 2
  Batch = 2
  ForkFails = TRUE
  ChildDies = TRUE
  Surplus <- OneLine
  Trees <- OldTrees
INVARIANTS DataComplete RecordTail RecordKept
CHECK_DEADLOCK FALSE
