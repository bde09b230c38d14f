SPECIFICATION Spec
CONSTANTS
  m1 = m1
  m2 = m2
  hash0 = hash0
  Contents <- OneMessage
  Absent = hash0
  Malformed <- NoMessage
  Modes <- ProtectOnly
  MaxPerFolder = 2
  BodyGlitch = FALSE
  Duplicates = TRUE
  MaxUid = 5
  MaxRow = 4
  MaxFaults = 2
  MaxExternal = 3
INVARIANT CorrectionsNotWrittenOff
