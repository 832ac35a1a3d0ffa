\* serve and pair-mode at once, each with its own copy of peers.json.
CONSTANTS
  d1 = d1
  d2 = d2
  cert = cert
  Device <- MCDevice
  Request <- MCRequest
  MaxGuesses = 2
  MaxAttempts <- MCMaxAttempts
  CodeTimeout = 1
  Window = 2
  MaxTracked = 1
  MaxNow = 3
  Scenarios <- AllScenarios
  Faults = {"kill", "cancel", "persist"}
  NoFile = NoFile
  Torn = Torn
  Nobody = Nobody
SPECIFICATION BoundedSpec
CHECK_DEADLOCK FALSE
INVARIANT PairedStaysPaired
