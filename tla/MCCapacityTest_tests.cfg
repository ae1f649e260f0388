SPECIFICATION Spec
CONSTANTS
  Setups <- MCSetups
  Original <- MCOriginal
  MaxDropPct = 1
  DropPcts = {0, 2}
  CanFail = TRUE
\* the test ends
CHECK_DEADLOCK FALSE
INVARIANTS EndsConsistent SweepDecision FindMaxDecision NoMixOfTests
PROPERTIES MeasuresWhatRuns
