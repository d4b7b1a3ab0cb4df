CONSTANTS
  even = even  uneven = uneven
  Cuts <- MCCuts
  Tasks = 3
  StateIds = {0, 1}
  MaxPending = 2
  MaxCalls = 3
  BadSizes = FALSE
  ZeroFirst = TRUE
  TransfersFail = FALSE
SPECIFICATION Spec
CHECK_DEADLOCK FALSE
INVARIANTS TypeOK ProcessesAgree PartsFollow
PROPERTIES WorkersRespond RunCellsReturns
