SPECIFICATION FairSpec
CONSTANTS
  m1 = m1  m2 = m2
  Contents <- OneMessage
  QuarantineDays = 1  ArchiveDays = 2  MonthDays = 2
  LateReplies = FALSE  DiskLoses = TRUE  Redelivery = FALSE
  MaxTime = 3  MaxUid = 4  MaxRow = 3  MaxFaults = 2  MaxExternal = 3
CHECK_DEADLOCK FALSE
INVARIANTS
  OneCopyPerRestore
PROPERTIES
  DeletionsArePermitted
  RestoresComplete
  ExpiredCopiesGo
