SPECIFICATION ActivitySpec
CONSTANTS
  TaskId = {1, 2, 3, 4}
  Meeting = {"m", "n"}
  Person = {"ann", "bob"}
  Title = {"call", "call ann"}
  Note = {"a", "b", "c"}
  NoPerson = "nobody"
  Mentions <- MCMentions
  Joined <- MCJoined
  Alike <- MCAlike
  Covers <- MCCovers
  FirstRows <- MCThree
  Unset = 9
  Times = {1}
  Merges = "merges"
  MaxHandled = 4
  MaxCrashes = 1
INVARIANTS MergesNamed
CHECK_DEADLOCK FALSE
