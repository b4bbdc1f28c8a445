SPECIFICATION Spec
CONSTANTS
    k1 = k1
    k2 = k2
    w1 = w1
    w2 = w2
    n1 = n1
    Me = Me
    NoKey = NoKey
    NoName = NoName
    Absent = Absent
    Keys = {k1, k2, Me}
    Names = {n1}
    Workers = {w1, w2}
    Friends = {k1}
    Setups <- MCSetups
    Rosters <- MCRosters
    Caches <- MCCaches
    Rank <- MCRank
    MaxOutages = 1
    MaxRestarts = 1
INVARIANT OnlyConfirmedCached
INVARIANT TunnelsAuthenticated
PROPERTY CacheOnlyGrows
 
CHECK_DEADLOCK FALSE
