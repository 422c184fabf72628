SPECIFICATION Spec
CONSTANTS
  Claims <- MCClaims
  MaxRows = 3
  MaxBatches = 2
  MaxPresses = 2
INVARIANTS TypeOK LinksKept CanonicalAcyclic AnswersConsistent RolledBackGone
CHECK_DEADLOCK FALSE
