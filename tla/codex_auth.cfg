\* Three workers of two slots around a handover, every kind of fault.
SPECIFICATION Spec
CONSTANTS
  w1 = w1
  w2 = w2
  Thread <- TwoSlots
  Account = {personal, work}
  Faults = {"net", "lost", "disk", "restart", "revoked"}
  MaxFaults = 1
  MaxGrants = 2
SYMMETRY Alike
INVARIANTS RedeemedOnce SignInSticks
PROPERTY SignedOutForCause
