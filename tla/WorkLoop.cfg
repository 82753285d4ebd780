SPECIFICATION FairSpec
CONSTANTS
  Workers = {w1, w2}
  Jobs = {1}
  BACKOFF_MIN = 1
  BACKOFF_MAX = 1
  MaxFaults = 1
  None = None
INVARIANTS TypeOK NeverSpins ChildrenAreDropped
CHECK_DEADLOCK FALSE
PROPERTIES KeepsWorking ImplementsSettlement
