CONSTANTS
  Count = 4
  Inputs <- MCInputs
  Divisions <- MCDivisions
  WetCells <- MCWetCells
  MaxClock = 3
  MaxRuns = 3
  MaxFaults = 1
SPECIFICATION Spec
CHECK_DEADLOCK FALSE
INVARIANTS TypeOK LatestKept RestoredAsSaved
