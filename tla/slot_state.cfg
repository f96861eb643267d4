SPECIFICATION SlotStateSpec
CONSTANTS
  Router = {blue, green}
  Outcome = {o1, o2}
  Binding = {b1}
  Saver = {w1, w2}
  MaxSwitches = 2
  NoFile = NoFile
INVARIANTS KeptAcrossSwitches ReadableUnlessOverlapped
SYMMETRY Symmetry
CHECK_DEADLOCK FALSE
