SPECIFICATION Spec
CONSTANTS
  b1 = b1
  b2 = b2
  k1 = k1
  k2 = k2
  k3 = k3
  dotless = dotless
  Boards = {b1}
  Keys = {k1}
  Tags <- AllTags
  Tag <- Sanitized
  MaxSeq = 3
  MaxConns = 2
  MaxChunk = 2
  HasDuration = FALSE
  MaxSignals = 1
CHECK_DEADLOCK FALSE
INVARIANTS StreamIntact DropsAreGaps OneInterruptSaves
PROPERTIES InterruptEnds
