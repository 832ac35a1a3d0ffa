\* Snapshots that cross, repeat and come late, between versions and restarts.
CONSTANTS
  sdk = sdk
  jni = jni
  new = new
  app = app
  keep = keep
  merge = merge
  Device <- MCDevice
  Sdk = {sdk}
  Jni = {jni, new}
  Key = {keep, merge}
  App <- MCApp
  AppClock <- MCAppClock
  MaxEdits = 3
  MaxExports = 2
  Scenarios <- AllScenarios
CHECK_DEADLOCK FALSE
SPECIFICATION BoundedSpec
PROPERTIES NothingLostSilently StaysReadable
