SPECIFICATION Spec
CONSTANTS
  a = a
  b = b
  NoMac = NoMac
  NSessions = 2
  Macs = {a, b}
  BoardsOf <- MCBoardsOf
  Recordings <- MCRecordings
  Workers = {w1, w2}
  Requests <- MCRequests
  Window = 2
  Stride = 1
  MaxCrashes = 1
CHECK_DEADLOCK FALSE
INVARIANTS ListedIsReadable DataFaithful
PROPERTIES FailuresExcused
SYMMETRY Symmetry
