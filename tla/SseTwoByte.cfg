SPECIFICATION Spec
CONSTANTS
  Streams <- MCTwoByte
  MaxChunk = 3
  MaxSseBuffer = 20
  MaxJobOutput = 20
  NoUsage = "none"
INVARIANTS DeltasReassemble
CHECK_DEADLOCK FALSE
