SPECIFICATION Spec
CONSTANTS
  Sessions = {"s1", "s2"}
  Channels = {"amplitude", "phase"}
  FirstChannel = "amplitude"
  MaxConns = 2
  MaxClicks = 3
  Duration <- MCDuration
CHECK_DEADLOCK FALSE
INVARIANTS PageConsistent
PROPERTIES RequestAnswered
