CONSTANTS
  Setups <- MCSetups
  MaxSteps = 2
  MaxBlocks = 2
  Failing = {0}
SPECIFICATION Spec
CHECK_DEADLOCK FALSE
INVARIANTS TypeOK
PROPERTIES SameAsSerial AllLeave
