SPECIFICATION Spec
CONSTANTS
  Model = "model"
  NoFile = NoFile
  Ensemble = FALSE
  Loads <- OneLoad
  Outs <- TwoOuts
  Rounds = 1
  Size <- Sizes
  Type <- Types
  TrainNum = 2
  ValidNum = 0
  Batch = 2
  ForkFails = FALSE
  ChildDies = FALSE
  Surplus <- NoLine
  Trees <- NoTree
INVARIANT RecordThere
CHECK_DEADLOCK FALSE
