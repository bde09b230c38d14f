SPECIFICATION Spec
CONSTANTS
  m1 = m1  m2 = m2
  Contents <- OneMessage
  QuarantineDays = 1  ArchiveDays = 2  MonthDays = 2
  LateReplies = TRUE  DiskLoses = FALSE  Redelivery = TRUE
  MaxTime = 4  MaxUid = 4  MaxRow = 3  MaxFaults = 2  MaxExternal = 3
CHECK_DEADLOCK FALSE
INVARIANTS
  DeletedStayRecoverable
  NeededCopiesKept
