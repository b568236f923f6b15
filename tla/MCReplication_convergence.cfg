SPECIFICATION FairSpec
CONSTANTS
  v1 = v1
  v2 = v2
  Machine = {1, 2}
  Value = {v1}
  Removed = Removed
  Absent = Absent
  Connection = {1, 2}
  InitialDoc <- MCInitialDoc2
  Edits <- MCNames
  EditedMachines = {}
  QueueCap = 1
  InboxCap = 2
  MaxLamport = 3
  MaxFaults = 1
  PersistMayFail = FALSE
PROPERTIES Converges ImplementsSharedRegisters
CHECK_DEADLOCK FALSE
