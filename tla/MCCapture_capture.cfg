SPECIFICATION Spec
CONSTANTS
  Platforms = {"windows", "macos"}
  Call = {1, 2}
  Loop = {1, 2}
  First = 1
  QueueCap = 1
INVARIANTS TypeOK OneHolder SwallowedForSomebody MouseIsFree KeyActsOnce
CHECK_DEADLOCK FALSE
