SPECIFICATION Spec
CONSTANTS
  v1 = v1
  v2 = v2
  Machine = {1, 2}
  Value = {v1}
  Removed = Removed
  Absent = Absent
  Connection = {1, 2}
  InitialDoc <- MCInitialDocUnpaired
  Edits <- MCMembers
  EditedMachines = {2}
  QueueCap = 1
  InboxCap = 2
  MaxLamport = 5
  MaxFaults = 1
  PersistMayFail = FALSE
INVARIANTS TypeOK ClockCoversStamps StampsIdentifyWrites DiskHoldsDocument OwnEditsArrive SettledMachinesAgree
PROPERTIES NoStaleOverwrite
CHECK_DEADLOCK FALSE
