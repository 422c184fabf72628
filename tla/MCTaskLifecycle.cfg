CONSTANTS
  TaskId = {t1, t2, t3}
  NoId = NoId
  NoDay = NoDay
  Dates = {1}
  Rules = {"daily", "weekly"}
  Horizon = 2
  WeekLen = 2
  MaxWrites = 2
  MaxEvents = 1
SYMMETRY Symmetry
SPECIFICATION Spec
INVARIANTS TypeOK UniqueOccurrence RecordedNextInSeries
PROPERTIES OnlyGeneratedDeleted BatchUndoSparesLaterWork RecordedCompletionHasSuccessor
CHECK_DEADLOCK FALSE
