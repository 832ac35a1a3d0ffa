\* Crashes at every step, appends that fail whole, compactions that fail.
CONSTANTS
  d = d
  c = c
  v1 = v1
  v2 = v2
  NoValue = NoValue
  Key = {d, c}
  Value = {v1, v2}
  Moves <- MCMoves
  CompactMinOps = 2
  MaxJournal = 2
  Tears = {"torn", "torn_char", "no_newline"}
  Faults = {"append_error", "compact_error"}
SPECIFICATION Spec
INVARIANTS TypeOK AcknowledgedSurvives DurableInv
PROPERTIES FreshAppendsStartClean ImplementsDurableMap
