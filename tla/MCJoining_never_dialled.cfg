SPECIFICATION MCFairSpec
CONSTANTS
  Machine = {1, 2}
  Value = {v}
  Removed = Removed
  Absent = Absent
  Workspace = {1, 2, 3}
  MailCap = 1
  EventCap = 1
  MaxLamport = 4
  MaxTroubles = 1
PROPERTIES TrustedPeersReconnect
