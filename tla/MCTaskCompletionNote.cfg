CONSTANTS
  TaskId = {t1, t2, t3}
  NoId = NoId
  NoDay = NoDay
  Dates = {1}
  Rules = {"daily"}
  Horizon = 1
  WeekLen = 2
  MaxWrites = 2
  MaxEvents = 1
SYMMETRY Symmetry
SPECIFICATION Spec
PROPERTIES EveryCompletionSchedulesNext
CHECK_DEADLOCK FALSE
