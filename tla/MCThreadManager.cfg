SPECIFICATION FairSpec
CONSTANTS
  t1 = t1
  t2 = t2
  t3 = t3
  w1 = w1
  w2 = w2
  a1 = a1
  a2 = a2
  m = m
  Workers = {w1, w2}
  Adders = {a1, a2}
  Controllers = {m}
  Tasks = {t1, t2, t3}
  Timeout <- MCTimeout
  Expiring <- MCExpiring
  PendingMax = 1
  MaxCalls = 2
  None = None
INVARIANTS TasksAccounted NoTaskSleptOn LimitKept BlockedAddNeedsExcuse
PROPERTIES JoinFinishesWork ControllerReturns
CHECK_DEADLOCK FALSE
