SPECIFICATION MCFairSpec
CONSTANTS
  Machine = {1, 2}
  Value = {v}
  Removed = Removed
  Absent = Absent
  Workspace = {1, 2, 3}
  MailCap = 1
  EventCap = 1
  MaxLamport = 3
  MaxTroubles = 1
INVARIANTS TypeOK MemberOfItsOwn DiskOfThisWorkspace
PROPERTIES PairedComeTogether
