CONSTANTS
  heads = heads
  Control <- MCControl
  Once = {}
  Starts = {0, 6}
  Ends = {1, 2, 3, 4, 5, 6, 7, 8, 9, 10, 11, 12, 13, 14, 15, 16}
  Lengths = {3, 4, 20}
  Intervals = {0, 5}
  InputErrors = TRUE
  SolverFails = TRUE
  Series <- MCSeries
  Inputs <- MCFiles
SPECIFICATION SimulationSpec
CHECK_DEADLOCK FALSE
INVARIANTS PeriodsJoin SimulatorFollowsSeries DataInForce
