SPECIFICATION Spec
CONSTANTS
  Model = "model"
  NoFile = NoFile
  Ensemble = FALSE
  Loads <- OneLoad
  Outs <- TwoOuts
  Rounds = 2
  Size <- Sizes
  Type <- Types
  TrainNum = 3
  ValidNum = 2
  Batch = 2
  ForkFails = TRUE
  ChildDies = FALSE
  Surplus <- NoLine
  Trees <- NoTree
INVARIANTS BatchBound PhasesApart NoAbort
PROPERTIES Ends
CHECK_DEADLOCK FALSE
