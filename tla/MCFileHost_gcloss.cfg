\* The collector takes the clock of a file that came back while it looked.
CONSTANTS
  d1 = d1
  d2 = d2
  Device <- MCDevice
  Request <- EditRequests
  Served = {}
  TombstoneTtl = 1
  MaxEntries = 1
  MaxNow = 2
  Scenarios <- JustEdits
  Failures = {}
  Unlocked = Unlocked
SPECIFICATION BoundedSpec
PROPERTY EditsSurvive
