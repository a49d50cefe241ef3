CONSTANTS
  User = {u1, u2}
  Portfolio = {p1, p2}
  Call = {c1, c2}
  None = None
  Rowid <- Sequence
  Fault = {"cache", "crash"}
  MaxFaults = 1
SPECIFICATION Spec
SYMMETRY Symmetry
CHECK_DEADLOCK FALSE
INVARIANTS TypeOK HistoryFresh DetailFresh OwnDetailOnly
PROPERTIES DeletesOwnOnly
