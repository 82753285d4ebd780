SPECIFICATION FairSpec
CONSTANTS
  Workers = {w1}
  Jobs = {1}
  BACKOFF_MIN = 1
  BACKOFF_MAX = 2
  MaxFaults = 1
  None = None
PROPERTIES CtrlCStopsWork
CHECK_DEADLOCK FALSE
