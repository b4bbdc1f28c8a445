SPECIFICATION FairSpec
CONSTANTS
  Keys = {k1, k2}
  Scopes = {p}
  None = None
  MaxStarts = 2
  ExitedCap = 2
  Patient = TRUE
INVARIANTS
  NoOrphan
  
PROPERTIES
  
  ShutdownDrains
CHECK_DEADLOCK FALSE
