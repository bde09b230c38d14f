SPECIFICATION FairSpec
CONSTANTS
  m1 = m1
  m2 = m2
  hash0 = hash0
  Contents <- OneMessage
  Absent = hash0
  Malformed <- NoMessage
  Modes <- ProtectOnly
  MaxPerFolder = 1
  BodyGlitch = FALSE
  Duplicates = FALSE
  MaxUid = 5
  MaxRow = 4
  MaxFaults = 1
  MaxExternal = 2
PROPERTY ArrivalsAreConfirmed
