SPECIFICATION FairSpec
CONSTANTS
  Scripts <- MCScripts
  MaxRestarts = 2
  MaxCrashes = 2
  Daily <- MCDaily
  Items = {"task"}
  DayLen = 4
  SendHour = 1
  SendDays <- MCSendDays
  QuietStart = 3
  QuietEnd = 1
  Cooldown = 2
  Late <- MCLate
  End = 5
  MaxErrors = 1
INVARIANTS TypeOK LedgerTrue OncePerDay RecordIsTrue NudgesSpaced
PROPERTIES Recovers
CHECK_DEADLOCK FALSE
