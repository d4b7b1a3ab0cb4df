CONSTANTS
  c1 = c1  c2 = c2  w1 = w1  w2 = w2
  Cell <- MCCell
  Task <- MCTask
  Full = 4
  Parts = 4
  StateIds = {1}
  MayTurnOff = FALSE
SPECIFICATION Spec
SYMMETRY Symmetry
INVARIANTS TypeOK SolidsKept OneReservoir FractionUntilRestored
