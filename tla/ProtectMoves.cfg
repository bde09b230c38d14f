SPECIFICATION Spec
CONSTANTS
  m1 = m1
  m2 = m2
  hash0 = hash0
  Contents <- OneMessage
  Absent = hash0
  Malformed <- NoMessage
  Modes <- AnyMode
  MaxPerFolder = 1
  BodyGlitch = FALSE
  Duplicates = FALSE
  MaxUid = 4
  MaxRow = 3
  MaxFaults = 2
  MaxExternal = 2
INVARIANT ProtectModeSparesInbox
