CONSTANTS
  Thread = {t1, t2}
  Job = {"job"}
  Flag = {"flag"}
  Aside = {"universe"}
  Ttl <- ItemTtl
  CounterTtl = 2
  Cap = 2
  Duration = {1, 2}
  MaxTime = 2
  MaxCalls = 4
SPECIFICATION Spec
SYMMETRY Symmetry
CHECK_DEADLOCK FALSE
INVARIANTS TypeOK AverageHonest
PROPERTIES EvictsSoonest
