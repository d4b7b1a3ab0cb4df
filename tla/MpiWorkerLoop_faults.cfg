CONSTANTS
  even = even  uneven = uneven
  Cuts <- MCCuts
  Tasks = 2
  StateIds = {0, 1}
  MaxPending = 2
  MaxCalls = 3
  BadSizes = TRUE
  ZeroFirst = FALSE
  TransfersFail = TRUE
SPECIFICATION Spec
CHECK_DEADLOCK FALSE
INVARIANTS SameCalls
