CONSTANTS
  Loops = {reminders, briefing}
  Handler = handler
  Singles = {s1, s2, s3}
  Blocks = {b1, b2}
  Size = 2
  MaxLevels = 2
  MaxCrashes = 1
  NoOperation = NoOperation
SPECIFICATION Spec
INVARIANTS TypeOK DoneIsDurable IdleIsClean
PROPERTIES Atomic
CHECK_DEADLOCK FALSE
