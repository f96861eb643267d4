\* Two requests of two sessions, room for one binding less than sessions.
SPECIFICATION MCSpec
CONSTANTS
  Request = {r1, r2}
  Session = {s1, s2, s3}
  a1 = a1
  a2 = a2
  b = b
  Pool <- TwoConnections
  Connection <- OfConnection
  Codex = {b}
  None = None
  Cap = 2
  MaxCool = 2
  MaxTrouble = 2
SYMMETRY Alike
INVARIANTS InflightExact SessionsPlaced
PROPERTIES MovesOnFailure NewSessionAvoidsCooling
