CONSTANTS
  Message = {plain, daily, question}
  Queries = {question}
  Recurring = {daily}
  NoMessage = NoMessage
  MaxPresses = 1
  MaxCrashes = 1
SPECIFICATION Spec
INVARIANTS TypeOK OncePerSource FailedKeepsNothing RollbackHasObject
CHECK_DEADLOCK FALSE
