SPECIFICATION Spec
CONSTANTS
  p1 = p1  p2 = p2  l1 = l1  l2 = l2
  Procs <- OneProcess  Layouts <- OneLayout  Linux = TRUE  Commands <- NoCommands
  CutShort = FALSE  ProtectDays = 1  PurgeDays = 1  MinLearn = 1
  MaxTime = 3  MaxRevision = 3  MaxFaults = 2  MaxRestores = 1
SYMMETRY Symmetry
CHECK_DEADLOCK FALSE
INVARIANTS
  MarkerCoversLearning
  KnownLossNoticed
