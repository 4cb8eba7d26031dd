\* An upload beside backups and one restore, over three days.
SPECIFICATION Spec
CONSTANTS
  scan = scan
  photo = photo
  Attachments = {scan}
  Restorers = {"r"}
  Kinds = {"server", "portable"}
  MaxBackups = 3
  MaxDay = 2
  MaxFaults = 1
  MaxLosses = 1
  DailyDays = 0
  WeeklyDays = 1
  MonthlyDays = 2
  DaysPerWeek = 1
  DaysPerMonth = 2
CHECK_DEADLOCK FALSE
INVARIANTS
  TypeOK
  SafetyCopyHoldsAll
  PeriodKeepsABackup
PROPERTIES
  FailedRestoreLosesNothing
  RestoredRowsHaveFiles
  EverythingEnds
