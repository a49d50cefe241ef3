CONSTANTS
  Replica = {r1, r2, r3}
  None = None
  HasRedis = TRUE
  LastDay = 1
  MaxFaults = 2
SPECIFICATION Spec
CHECK_DEADLOCK FALSE
INVARIANTS TypeOK Exclusive RefreshedDaily
PROPERTIES LockIsKept
