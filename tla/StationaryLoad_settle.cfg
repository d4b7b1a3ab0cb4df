SPECIFICATION StationarySpec
CONSTANTS
  Count = 8
  Threads = 3
  StateIds = {}
  Modes = {TRUE, FALSE}
  TransferMayFail = FALSE
  Fractions <- SomeFractions
  CellTimes <- Costs
  ThreadTimes <- NoThreadTimes
PROPERTIES RangesSettleByCell
