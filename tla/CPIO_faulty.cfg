SPECIFICATION Spec
CONSTANTS
  N = 4
  MaxLen = 3
  Cap = 2
  SndTimeo = TRUE
  RcvTimeo = TRUE
  MayDie = TRUE
  MaxStall = 2
INVARIANTS FullCount
CHECK_DEADLOCK FALSE
