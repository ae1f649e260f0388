SPECIFICATION LiveSpec
CONSTANTS
  Programs <- MCPrograms
  GatePackets = 2
  RecheckEvery = 4
  WindowPackets = 3
  StridePackets = 2
  AggregateWindows = 1
  CalibSeconds = 1
  Bands = {"ch6", "ch11"}
  Expected = "ch6"
  TaskNames = {"presence", "auth"}
  MaxFrames = 8
  MaxOdd = 1
  MaxTime = 3
  MaxSignals = 2
CHECK_DEADLOCK FALSE
INVARIANTS LiveIsBatch PhasesNotCutShort
PROPERTIES RecordingKept
