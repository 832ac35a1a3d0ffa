\* A mount that is told of a conflict overwrites the other version next time.
CONSTANTS
  d1 = d1
  d2 = d2
  Device <- MCDevice
  Request <- MCRequests
  Served = {}
  TombstoneTtl = 1
  MaxEntries = 1
  MaxNow = 1
  Failures = {"disconnect"}
  Unlocked = Unlocked
  Capacity = 2
  Files <- ABC
  MaxEdits = 2
  Scenarios <- Blind
SPECIFICATION BoundedSpec
CHECK_DEADLOCK FALSE
PROPERTY BlindWritesConflict
