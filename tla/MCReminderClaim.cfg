CONSTANTS
  Reminder = {once, daily}
  Repeating = {daily}
  NoTime = NoTime
  NoReminder = NoReminder
  Times = {1, 3}
  Period = 2
  Lease = 2
  End = 4
  MaxWrites = 2
  MaxCrashes = 1
SPECIFICATION Spec
PROPERTY ClaimedWhenDue
CHECK_DEADLOCK FALSE
