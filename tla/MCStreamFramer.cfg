SPECIFICATION Spec
CONSTANTS
  Sent <- MCSent
  HeaderSize = 4
  TailMax = 2
  MaxChunk = 3
\* the stream ends
CHECK_DEADLOCK FALSE
INVARIANTS ChunkingIrrelevant ItemsIntact
PROPERTIES ReadsAll
