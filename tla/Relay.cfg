CONSTANTS
  s1 = s1  s2 = s2
  x1 = x1  x2 = x2  y1 = y1
  k1 = k1  k2 = k2
  e1 = e1  e2 = e2  e3 = e3
  None = None
  Sids = {s1, s2}
  Addrs = {x1, x2, y1}
  Accts = {k1, k2}
  AcctOf <- MCAcctOf
  Epks = {e1, e2, e3}
  Binds <- RoamBinds
  NetBinds <- SharedNetBinds
  MaxSessions = 2
  MaxLegsPerIP = 2
  MaxInFlight = 2
  TTL = 0
  PendingPair = 0
SPECIFICATION FairSpec
INVARIANTS IndexSound PeersMatch AccountingExact LegCapRespected PairForwards
PROPERTIES LegMovesOnlyByItsKey UnpairedExpires
