SPECIFICATION Spec
CONSTANTS
  Files = {f1, f2}
  Conn = {c1, c2, c3}
  NoConn = NoConn
  NoFile = NoFile
  NoSnap = NoSnap
  Stale = Stale
  QueueMax = 2
  Lines <- Commands
  Slow = FALSE
  Waits = TRUE
  VirshFails = FALSE
  MaxVer = 2
  MaxTyped = 2
  MaxKills = 0
  MaxCrashes = 0
INVARIANTS NoUnsupportedHeader CheckedPoint SnapshotInWait
PROPERTIES GetBringsBackup ServerReturns GuestReturns KeepsPromise UserHeard
CHECK_DEADLOCK FALSE
