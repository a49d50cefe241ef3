CONSTANTS
  Job = {j1, j2}
  Key = {k1}
  Request = {r1, r2}
  Worker = {w1, w2}
  None = None
  HasRedis = TRUE
  MaxRetries = 2
  Faults = {"cache", "crash", "enqueue", "expiry", "timeout"}
  MaxFaults = 1
SPECIFICATION Spec
SYMMETRY Symmetry
CHECK_DEADLOCK FALSE
INVARIANTS TypeOK NoStuckJob DeadLetterEarned CompletedIsBacked DeadIsInspectable
