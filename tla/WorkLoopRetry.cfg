SPECIFICATION FairSpec
CONSTANTS
  Workers = {w1}
  Jobs = {1, 2}
  BACKOFF_MIN = 1
  BACKOFF_MAX = 2
  MaxFaults = 0
  None = None
PROPERTIES FailedSettleIsRetried
CHECK_DEADLOCK FALSE
