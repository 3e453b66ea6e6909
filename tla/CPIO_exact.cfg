SPECIFICATION Spec
CONSTANTS
  N = 6
  MaxLen = 3
  Cap = 2
  SndTimeo = FALSE
  RcvTimeo = FALSE
  MayDie = FALSE
  MaxStall = 0
INVARIANT ExactRead
PROPERTIES StreamSpec AllArrives
CHECK_DEADLOCK FALSE
