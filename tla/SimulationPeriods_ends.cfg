CONSTANTS
  Series <- MCSeries
  Inputs <- MCInputs
SPECIFICATION PeriodsSpec
CHECK_DEADLOCK FALSE
INVARIANTS EndOfPeriodFollowsSeries
