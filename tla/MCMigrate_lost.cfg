\* A device of the JNI layer that was restarted imports a snapshot.
CONSTANTS
  sdk = sdk
  jni = jni
  new = new
  app = app
  keep = keep
  merge = merge
  Device <- MCDevice
  Sdk = {sdk}
  Jni = {jni, new}
  Key = {keep, merge}
  App <- MCApp
  AppClock <- MCAppClock
  MaxEdits = 3
  MaxExports = 2
  Scenarios <- JustRestarting
CHECK_DEADLOCK FALSE
SPECIFICATION BoundedSpec
PROPERTY KeepBothNeverLost
