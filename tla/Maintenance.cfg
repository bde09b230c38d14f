SPECIFICATION FairSpec
CONSTANTS
  MaxVersion = 1
  MaxFaults = 2
  MaxManual = 1
  MaxForeign = 1
  None = None
  Foreign = Foreign
CHECK_DEADLOCK FALSE
INVARIANTS
  OneJournal
  PassesSeeOneInstallation
  BuiltFromInstalled
  SchedulingReturns
PROPERTIES
  ChangesAreBackedUp
  UpdatesSettle
