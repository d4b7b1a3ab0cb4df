CONSTANTS
  Count = 4
  Threads = 3
  MaxCalls = 2
  Distributions <- AllCuts
  DrySets <- SomeDry
SPECIFICATION Spec
INVARIANTS TypeOK GatheredInCellOrder
PROPERTIES  RunCellsReturns
