SPECIFICATION LimitsSpec
CONSTANTS
  Process = {blue, green}
  MaxTime = 2
  ClockSkew = 0
  MaxObservations = 3
  MaxChanges = 1
PROPERTIES NeverOlder ObservedIsSaved
CHECK_DEADLOCK FALSE
