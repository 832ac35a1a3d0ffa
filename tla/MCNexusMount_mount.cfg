\* Two mounts: saving, reading, deleting, crowding, renaming and lost replies.
CONSTANTS
  d1 = d1
  d2 = d2
  Device <- MCDevice
  Request <- MCRequests
  Served = {}
  TombstoneTtl = 1
  MaxEntries = 1
  MaxNow = 1
  Failures = {"disconnect"}
  Unlocked = Unlocked
  Capacity = 2
  Files <- ABC
  MaxEdits = 2
  Scenarios <- AllScenarios
SPECIFICATION BoundedSpec
CHECK_DEADLOCK FALSE
INVARIANTS TablesAgree TablesBounded OwnCountAhead
PROPERTIES NoUnseenLoss SavedIsStored
