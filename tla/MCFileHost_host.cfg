\* Writes, deletes and renames of two files, or a name that is a file, a tombstone and a
\* directory in turn, or writes and stale deletes of one that the collector meets too
\* late, by two devices.
CONSTANTS
  d1 = d1
  d2 = d2
  Device <- MCDevice
  Request <- HostRequests
  Served <- ServedB
  TombstoneTtl = 1
  MaxEntries = 1
  MaxNow = 2
  Scenarios <- FilesDirsMoves
  Failures = {}
  Unlocked = Unlocked
SPECIFICATION BoundedSpec
INVARIANTS TypeOK OneStorePerName DeletedIsGone
PROPERTIES VersionsOnlyGrow AnswersAreTrue CoveredEditsSurvive EditsStayCovered
