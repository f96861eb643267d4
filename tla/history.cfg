\* Requests of two slots, a ring of one: the file is too long at its third line.
SPECIFICATION Spec
CONSTANTS
  Slot = {blue, green}
  RingSize = 1
  MaxRecords = 4
  MaxOpen = 2
  MaxUpsets = 1
SYMMETRY Alike
INVARIANTS NewestKeptUnlessExposed ClearedStaysCleared
CHECK_DEADLOCK FALSE
