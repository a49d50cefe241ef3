CONSTANTS
  t1 = t1
  t2 = t2
  a = a
  b = b
  User = {u1}
  Closable = {u1}
  Tab = {t1}
  Slot = {a, b}
  TabOf <- OneTab
  None = None
  MaxIssued = 2
  MaxFaults = 1
SPECIFICATION Spec
CHECK_DEADLOCK FALSE
INVARIANTS OneRefreshPerTab
PROPERTIES AnswersComeBack
