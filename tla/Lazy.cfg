SPECIFICATION LazyFairSpec
CONSTANTS
  Clients = {c1, c2}
  Chans = {h1, h2, h3, h4}
  MaxStreams = 2
  HasForward = TRUE
INVARIANTS
  NoLostWake
  ClosedOnce
PROPERTIES
  WaiterAnswered
  
CHECK_DEADLOCK FALSE
