CONSTANTS
  heads = heads  chemistry = chemistry
  Control <- MCControl
  Once <- MCOnce
  Starts = {0, 20}
  Ends = {15, 150, 203}
  Lengths = {17, 200}
  Intervals <- MCSteps
  InputErrors = TRUE
  SolverFails = TRUE
SPECIFICATION Spec
CHECK_DEADLOCK FALSE
INVARIANTS TypeOK DataChangeOnTime ZeroStepOnlyAfterError StepLengthKept
PROPERTIES EveryPrintTimeHit SimulationEnds
