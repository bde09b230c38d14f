SPECIFICATION Spec
CONSTANTS
  p1 = p1  p2 = p2  l1 = l1  l2 = l2
  Procs <- OneProcess  Layouts <- TwoLayouts  Linux = FALSE  Commands <- AllCommands
  CutShort = FALSE  ProtectDays = 1  PurgeDays = 1  MinLearn = 1
  MaxTime = 2  MaxRevision = 1  MaxFaults = 1  MaxRestores = 1
SYMMETRY Symmetry
CHECK_DEADLOCK FALSE
INVARIANTS
  ObservationPrecedesActive
  PurgeNeedsActivePeriod
  LiveRunsWereRehearsed
