SPECIFICATION ServerSpec
CONSTANTS
  Viewers = {"c1", "c2"}
  MaxQueue = 2
  MaxSamples = 4
CHECK_DEADLOCK FALSE
INVARIANTS ViewersInformed StreamUnbroken
PROPERTIES TransportReleased
