CONSTANTS
  t1 = t1
  t2 = t2
  a = a
  b = b
  User = {u1}
  Closable = {}
  Tab = {t1}
  Slot = {a}
  TabOf <- OneRequest
  None = None
  MaxIssued = 3
  MaxFaults = 0
SPECIFICATION Spec
CHECK_DEADLOCK FALSE
INVARIANTS LoginOnlyAfterExpiry
