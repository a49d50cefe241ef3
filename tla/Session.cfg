CONSTANTS
  t1 = t1
  t2 = t2
  a = a
  b = b
  User = {u1, u2}
  Closable = {}
  Tab = {t1, t2}
  Slot = {a, b}
  TabOf <- TwoTabs
  None = None
  MaxIssued = 3
  MaxFaults = 0
SYMMETRY Symmetry
SPECIFICATION Spec
CHECK_DEADLOCK FALSE
INVARIANTS TypeOK OneUsersSession LogoutEndsSession
PROPERTIES SessionOnlyByLogin ReuseRefused
