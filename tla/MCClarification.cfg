CONSTANTS
  Task = {t1, t2}
  TTL = 1
  Horizon = 2
  MaxWrites = 3
  MaxQuestions = 2
  MaxCrashes = 1
SPECIFICATION Spec
INVARIANTS TypeOK AppliedOnce BatchOnce
PROPERTY StaleSpared
SYMMETRY Symmetry
CHECK_DEADLOCK FALSE
