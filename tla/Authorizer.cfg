SPECIFICATION Spec
CONSTANTS
    k1 = k1
    k2 = k2
    r1 = r1
    r2 = r2
    r3 = r3
    c1 = c1
    c2 = c2
    NoCode = NoCode
    NoReg = NoReg
    Keys <- MCKeys
    Regs <- MCRegs
    Codes <- MCCodes
    KeyOf <- MCKeyOf
    TsOf <- MCTsOf
    CodeOf <- MCCodeOf
    StartLists <- MCStartLists
    Workers = {w1}
    Skew = 1
    Slack = 0
    MaxReplayRegs = 1
    MaxPreAuthRegs = 1
    MaxPending = 1
    MaxAuthorizedKeys = 2
    PendingTTL = 1
    DistinctMtimes = TRUE
    MaxNow = 2
    MaxEdits = 2
INVARIANT CachesBounded
PROPERTY ReplayRefused
PROPERTY PreAuthRefused
PROPERTY AllowlistConverges
