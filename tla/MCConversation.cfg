SPECIFICATION Spec
CONSTANTS
  Task = {1, 2, 3}
  Rows <- MCRows
  Views = {"today", "tasks", "query_tasks", "briefing", "tomorrow"}
  Page = 2
  Top = 1
  Threshold = 2
  TTL = 1
  DayLen = 2
  End = 2
  MaxTitled = 1
  MaxTurns = 3
  MaxLost = 1
  Entity <- MCEntity
  TypeOf <- MCTypeOf
INVARIANTS TypeOK NumberMeansShown FocusIsLastNamed
PROPERTIES UnaskedRemembered
CHECK_DEADLOCK FALSE
