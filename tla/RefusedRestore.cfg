SPECIFICATION Spec
CONSTANTS
  m1 = m1  m2 = m2
  Contents <- OneMessage
  QuarantineDays = 1  ArchiveDays = 2  MonthDays = 2
  LateReplies = FALSE  DiskLoses = FALSE  Redelivery = FALSE
  MaxTime = 2  MaxUid = 3  MaxRow = 2  MaxFaults = 1  MaxExternal = 2
CHECK_DEADLOCK FALSE
INVARIANT MissingCanBeRestored
