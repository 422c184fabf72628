CONSTANTS
  Message = {plain, daily, question}
  Queries = {question}
  Recurring = {daily}
  NoMessage = NoMessage
  MaxPresses = 1
  MaxCrashes = 1
SPECIFICATION Spec
INVARIANT FailureCanRetry
CHECK_DEADLOCK FALSE
