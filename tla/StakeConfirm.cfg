SPECIFICATION Spec
CONSTANTS
  r1 = r1
  r2 = r2
  Runs = {r1, r2}
  Amounts = {0, 4, 15, 20, 31}
  Ata = 3
  Other = 1
  MaxAttempts = 2
  MaxBlock = 2
  HashLife = 1
  NoTx = NoTx
PROPERTIES ConfirmGivesUpForCause
CHECK_DEADLOCK FALSE
