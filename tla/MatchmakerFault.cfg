SPECIFICATION Spec
CONSTANTS
  t1 = t1
  t2 = t2
  ka = ka
  kb = kb
  Keys = {ka, kb}
  KeyOf <- MCKeyOf
  None = None
  MaxIDs = 2
  TTL = 1
  Tokens = {t1, t2}
  Ids = {1, 2, 3, 4}
  Regs <- PressRegs
  Requests = {r1, r2}
  Sids = {d1, d2}
  MaxTokens = 1
  EvictSample = 8
INVARIANT ServerSurvives
CHECK_DEADLOCK FALSE
