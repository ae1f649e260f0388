SPECIFICATION Spec
CONSTANTS
  b1 = b1
  b2 = b2
  k1 = k1
  k2 = k2
  k3 = k3
  dotless = dotless
  Boards = {b1}
  Keys = {k1}
  Tags <- AllTags
  Tag <- Sanitized
  MaxSeq = 1
  MaxConns = 1
  MaxChunk = 1
  HasDuration = TRUE
  MaxSignals = 1
CHECK_DEADLOCK FALSE
INVARIANTS NeitherLosesSession
