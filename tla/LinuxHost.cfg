SPECIFICATION FairSpec
CONSTANTS
  Passwords = {a, b}
  MaxChanges = 1
  MaxFaults = 2
  None = None
CHECK_DEADLOCK FALSE
INVARIANTS
  OneRelease
  BackupIsCoherent
  ControllerMatches
PROPERTIES
  ScannerReturns
