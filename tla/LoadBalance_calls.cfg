SPECIFICATION Spec
CONSTANTS
  Count = 4
  Threads = 3
  Slow = 4
  StateIds = {1}
  TransferMayFail = TRUE
  Fractions <- UpperHalf
  CellTimes <- SlowCells
  ThreadTimes <- SlowThreads
INVARIANTS TypeOK RangesPartitionCells WorkersHoldTheirRanges NoCellLost
PROPERTIES ImplementsOwnership
