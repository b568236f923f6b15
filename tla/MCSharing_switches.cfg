SPECIFICATION FairSpec
CONSTANTS
  Machine = {1, 2}
  Sharers = {1}
  Togglers = {2}
  MailCap = 2
  QueueCap = 1
  SinkCap = 1
  MaxCrossings = 2
  MaxBatches = 1
  MaxFaults = 1
INVARIANTS TypeOK SwallowsExactlyWhenAway PointerNotLost
PROPERTIES KeyboardComesBack
CHECK_DEADLOCK FALSE
