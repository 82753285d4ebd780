SPECIFICATION Spec
CONSTANTS
  Streams <- MCStreams
  MaxChunk = 4
  MaxSseBuffer = 6
  MaxJobOutput = 4
  NoUsage = "none"
INVARIANTS TypeOK ChunksFollowTheResponse  MemoryIsBounded NoSpuriousAbort
CHECK_DEADLOCK FALSE
