SPECIFICATION Spec
CONSTANTS
  Machine = {1, 2, 3}
  Sharers = {1, 2, 3}
  Togglers = {}
  MailCap = 3
  QueueCap = 8
  SinkCap = 2
  MaxCrossings = 2
  MaxBatches = 1
  MaxFaults = 0
INVARIANTS PointerNotLost
CHECK_DEADLOCK FALSE
