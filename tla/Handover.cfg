SPECIFICATION Spec
CONSTANTS
  Stages = {s1, s2}
  UiAgent = TRUE
  MaxPass = 1
  MaxModel = 1
  MaxFaults = 1
  Careful = TRUE
  None = None
CHECK_DEADLOCK FALSE
INVARIANTS
  OneOwner
  ServerContinuesTheMac
  PauseIsRecoverable
  MacIsPutBack
