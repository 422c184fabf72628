SPECIFICATION ActivitySpec
CONSTANTS
  TaskId = {1, 2, 3}
  Meeting = {"m", "n"}
  Person = {"ann", "bob"}
  Title = {"call", "call ann"}
  Note = {"a", "b", "c"}
  NoPerson = "nobody"
  Mentions <- MCMentions
  Joined <- MCJoined
  Alike <- MCAlike
  Covers <- MCCovers
  FirstRows <- MCRows
  Unset = 9
  Times = {1}
  Merges = "merges"
  MaxHandled = 4
  MaxCrashes = 1
PROPERTIES UndoRestoresPeople
CHECK_DEADLOCK FALSE
