SPECIFICATION Spec
CONSTANTS
    c1 = c1
    c2 = c2
    c3 = c3
    s1 = s1
    s2 = s2
    Conns <- MCConns
    SourceOf <- MCSourceOf
    Allowed = {s1, s2}
    MaxConns = 2
    MaxPerIP = 1
INVARIANT SlotsExact
INVARIANT OpenHoldsSlot
PROPERTY SlotsImplementPool
PROPERTY SlotReturned
CHECK_DEADLOCK FALSE
