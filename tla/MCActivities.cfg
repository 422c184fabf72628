SPECIFICATION ActivitySpec
CONSTANTS
  TaskId = {1, 2, 3, 4}
  Meeting = {"m", "n"}
  Person = {"ann", "bob"}
  Title = {"call", "call ann"}
  Note = {"a", "b", "c"}
  NoPerson = "nobody"
  Mentions <- MCMentions
  Joined <- MCJoined
  Alike <- MCAlike
  Covers <- MCCovers
  FirstRows <- MCRows
  Unset = 9
  Times = {1}
  Merges = "merges"
  MaxHandled = 5
  MaxCrashes = 1
INVARIANTS ActivityTypeOK MergeKeepsMeetings
PROPERTIES UndoRestores
CHECK_DEADLOCK FALSE
