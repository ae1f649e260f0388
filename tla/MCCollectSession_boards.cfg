SPECIFICATION Spec
CONSTANTS
  b1 = b1
  b2 = b2
  k1 = k1
  k2 = k2
  k3 = k3
  dotless = dotless
  Boards = {b1, b2}
  Keys = {k1, k2, k3}
  Tags <- AllTags
  Tag <- Sanitized
  MaxSeq = 1
  MaxConns = 2
  MaxChunk = 1
  HasDuration = TRUE
  MaxSignals = 1
SYMMETRY Alike
CHECK_DEADLOCK FALSE
INVARIANTS EverythingSaved
