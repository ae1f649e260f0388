SPECIFICATION Spec
CONSTANTS
  QueueLen = 2
  FilterEnabled = TRUE
  MaxEvents = 3
CHECK_DEADLOCK FALSE
INVARIANTS
  Accounting GapsAreDrops
PROPERTIES
  EverySampleSettles FifoSpec LinesAdvance
