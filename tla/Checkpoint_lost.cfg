SPECIFICATION Spec
CONSTANTS
  Files = {f1}
  Conn = {c1, c2}
  NoConn = NoConn
  NoFile = NoFile
  NoSnap = NoSnap
  Stale = Stale
  QueueMax = 2
  Lines <- Commands
  Slow = FALSE
  Waits = FALSE
  VirshFails = FALSE
  MaxVer = 1
  MaxTyped = 1
  MaxKills = 0
  MaxCrashes = 0
PROPERTIES ServerListens
CHECK_DEADLOCK FALSE
