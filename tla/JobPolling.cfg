CONSTANTS
  Job = {j1, j2}
  None = None
  MaxPolls = 2
  MaxFaults = 1
SPECIFICATION PollingSpec
CHECK_DEADLOCK FALSE
INVARIANTS TypeOK OwnTimerOnly SpinnerWatched OutcomeShown
PROPERTIES SpinnerEnds PollingEnds
