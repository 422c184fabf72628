CONSTANTS
  Reminder = {once, daily}
  Repeating = {daily}
  NoTime = NoTime
  NoReminder = NoReminder
  Times = {1}
  Period = 2
  Lease = 2
  End = 4
  MaxWrites = 3
  MaxCrashes = 1
SPECIFICATION FairSpec
INVARIANTS TypeOK OnePerSchedule LeaseSeparates
PROPERTIES DueHandled
CHECK_DEADLOCK FALSE
