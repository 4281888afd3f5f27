SPECIFICATION Spec
CONSTANTS
  p1 = p1
  p2 = p2
  t1 = t1
  t2 = t2
  Proc = {p1, p2}
  MaxTries = 1
  CallsMayFail = FALSE
  WatchMayFail = FALSE
  Thread = {t1, t2}
  ProcOf <- ProcOfThread
  Page = {g1, g2, g3}
  Free = Free
  NoThread = NoThread
  Quota = 1
  Alloc <- Calls
  Slack = 1
  Word = 16
SYMMETRY Symmetry
INVARIANTS
  Inv
  QuotaRespected
PROPERTIES
  SettledCheckSeesAll
CHECK_DEADLOCK FALSE
