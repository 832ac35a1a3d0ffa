\* Who holds the lock, and what fairness gives, when handlers are dropped and the agent dies.
CONSTANTS
  d1 = d1
  d2 = d2
  Device <- MCDevice
  Request <- LookRequests
  Served = {}
  TombstoneTtl = 1
  MaxEntries = 1
  MaxNow = 2
  Scenarios <- JustLooks
  Failures = {"crash", "disconnect"}
  Unlocked = Unlocked
SPECIFICATION FairSpec
INVARIANT TypeOK
PROPERTIES EveryRequestAnswered OverdueTombsGo
