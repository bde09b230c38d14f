SPECIFICATION Spec
CONSTANTS
  m1 = m1
  m2 = m2
  hash0 = hash0
  Contents <- TwoMessages
  Absent = hash0
  Malformed <- SecondBad
  Modes <- ProtectOnly
  MaxPerFolder = 1
  BodyGlitch = TRUE
  Duplicates = TRUE
  MaxUid = 5
  MaxRow = 4
  MaxFaults = 1
  MaxExternal = 3
INVARIANTS
  RowsNameTheirCopy
  LearnsOnlyCorrections
  WrittenOffForACorrection
PROPERTIES
  HamWishKept
