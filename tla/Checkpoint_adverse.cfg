SPECIFICATION Spec
CONSTANTS
  Files = {f1, f2}
  Conn = {c1, c2}
  NoConn = NoConn
  NoFile = NoFile
  NoSnap = NoSnap
  Stale = Stale
  QueueMax = 2
  Lines <- AllLines
  Slow = TRUE
  Waits = FALSE
  VirshFails = FALSE
  MaxVer = 1
  MaxTyped = 1
  MaxKills = 1
  MaxCrashes = 1
INVARIANTS TypeOK Bookkeeping InTurn CkptedMeansSnapshot
PROPERTIES NoOvertaking BackupBeforeRevert
CHECK_DEADLOCK FALSE
SYMMETRY Alike
