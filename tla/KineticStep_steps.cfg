CONSTANTS
  KinTime = 5
  Inputs <- MCInputs
  BadStepMax = 2
  MaxTries = 14
  MixMayFail = TRUE
  UnitMayFail = FALSE
SPECIFICATION Spec
CHECK_DEADLOCK FALSE
INVARIANTS TypeOK WholeTimeIntegrated StepFromLastSaved FirstRateForStep
PROPERTY StepEnds
