CONSTANTS
    Clients = {k1, k2}
    Nil = nil
    Kinds = {"unix", "vip", "denied"}
    Cap = 1
    MaxSessions = 2
    ClientsFinish = TRUE
SPECIFICATION DataSpec
CHECK_DEADLOCK FALSE
INVARIANT ListenerReachable
INVARIANT NothingCut
 
