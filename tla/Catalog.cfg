SPECIFICATION Spec
CONSTANTS
  p1 = p1  p2 = p2  d1 = d1  d2 = d2
  Procs <- TwoProcesses  Digests <- TwoDigests  MaxSeq = 2
SYMMETRY Symmetry
INVARIANTS
  AnswersStand
PROPERTIES
  AnswersInOrder
  FloorKept
