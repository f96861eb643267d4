SPECIFICATION MCSpec
CONSTANTS
  Profile = {home, cloud}
  Model = {m1}
  Setting = {s0, s1}
  s0 = s0
  s1 = s1
  home = home
  cloud = cloud
  m1 = m1
  MaxEvents = 3
  MaxChanges = 2
  NoFile = NoFile
INVARIANTS SetupKept NothingMissed LoadsUnlessExposed
PROPERTY EditsApply
CHECK_DEADLOCK FALSE
