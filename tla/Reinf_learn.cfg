SPECIFICATION Spec
CONSTANTS
  OBSERVE = 3
  REPLAYSIZE = 3
  BATCHSIZE = 2
  EXPLORE = 15
  IEPS = 6
  FEPS = 3
  STEP = 2
  MinEpisode = 2
  MaxFrames = 10
  MaxRuns = 3
  MaxDrops = 1
  Nothing = Nothing
  Torn = Torn
INVARIANTS OneEpisode MemCount EnoughToSample Annealed DiskOrdered TestAsks
PROPERTIES LearningKept
CHECK_DEADLOCK FALSE
