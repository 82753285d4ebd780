SPECIFICATION Spec
CONSTANTS
  Boards <- MCBoards
  Own = "us"
  Floor = 2
  MarginNum = 3
  MarginDen = 4
  TokenPrice = 3
  MaxU64 = 31
  MaxI64 = 15
  NoJob = NoJob
INVARIANTS TypeOK SelectsTheBestPaid DecidesExactly
CHECK_DEADLOCK FALSE
