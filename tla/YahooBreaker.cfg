CONSTANTS
  Thread = {t1, t2, t3}
  FailMax = 2
  ResetTimeout = 1
  MaxFailures = 5
  None = None
SPECIFICATION Spec
CHECK_DEADLOCK FALSE
INVARIANTS TypeOK OpenGetsDated
PROPERTIES RecoversWhenHealthy
