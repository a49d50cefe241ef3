CONSTANTS
  Job = {j1, j2}
  Key = {}
  Request = {r1, r2}
  Worker = {w1}
  None = None
  HasRedis = FALSE
  MaxRetries = 2
  Faults = {"crash", "expiry"}
  MaxFaults = 1
SPECIFICATION Spec
CHECK_DEADLOCK FALSE
PROPERTIES ImplementsPromise
