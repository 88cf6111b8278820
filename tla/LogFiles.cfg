SPECIFICATION Spec
CONSTANTS
  Main = Main
  Fetcher = Fetcher
  Capacity = 2
  MaxFiles = 3
  NoFile = NoFile
  Garbled = Garbled
  Closed = Closed
  Unlinked = Unlinked
  MaxLines = 5
  MaxStarts = 2
  TakesUpRaced = FALSE
INVARIANT InOrder
INVARIANT UrgentOnDisk
PROPERTY ViewerCatchesUp
CHECK_DEADLOCK FALSE
