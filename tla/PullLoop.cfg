SPECIFICATION FairSpec
CONSTANTS
  j1 = j1
  j2 = j2
  Jobs = {j1, j2}
  NoJob = NoJob
  Nonces <- MCNonces
  MaxNonceChars = 64
  NonceBytes = 32
  AuthDomainTag = "nexus-compute-node-auth:v1"
  MaxJobOutput = 2
  DeltaSizes = {1, 2}
  BackoffMin = 1
  BackoffMax = 3
  MaxInbox = 1
INVARIANTS TypeOK AnswersInTurn SignsOneChallenge
PROPERTIES ImplementsJobAnswer StopsDeliberately BackoffSchedule LostSocketIsRedialled JobSettles CtrlCStops QueuedJobAnswered
CHECK_DEADLOCK FALSE
