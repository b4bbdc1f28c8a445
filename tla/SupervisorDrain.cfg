SPECIFICATION FairSpec
CONSTANTS
  Keys = {k1, k2}
  Scopes = {p}
  None = None
  MaxStarts = 2
  ExitedCap = 1
  Patient = FALSE
PROPERTIES
  ShutdownDrains
CHECK_DEADLOCK FALSE
