SPECIFICATION FairSpec
CONSTANTS
  Platforms = {"windows", "macos"}
  Call = {1, 2}
  Loop = {1, 2}
  First = 1
  QueueCap = 0
PROPERTIES FailsOpen StopIsHeard
CHECK_DEADLOCK FALSE
