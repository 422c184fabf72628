SPECIFICATION Spec
CONSTANTS
  Claims <- MCClaims
  MaxRows = 3
  MaxBatches = 2
  MaxPresses = 2
INVARIANT RollbackPossible
CHECK_DEADLOCK FALSE
