SPECIFICATION Spec
CONSTANTS
  Loss = {0, 1, 2, 3}
  PERIOD = 3
  Epochs = {4, 6}
  LIMIT = 4
  TrainStopThd = 2
  ValidStopThd = 2
  TrainRestartThd = 2
  ValidRestartThd = 2
  TrainSaveThd = 2
  ValidSaveThd = 5
  SaveThdStep = 1
  MaxRuns = 2
  MaxAttempts = 3
  None = None
INVARIANTS SavedMeasured LatestStrictest TrainedAndSaved
CHECK_DEADLOCK FALSE
