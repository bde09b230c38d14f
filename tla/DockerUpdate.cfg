SPECIFICATION Spec
CONSTANTS
  Txns = {1, 2}
  Releases <- NewVersions
  Installed0 <- ThisVersion
  Keep = 1
  MaxFaults = 2
  MaxOther = 1
  None = None
  Foreign = Foreign
INVARIANTS
  UnfinishedChangeIsFenced
  MarkerHasItsJournal
  RollbackKept
PROPERTIES
  IdleIsTrue
