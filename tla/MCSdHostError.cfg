SPECIFICATION Spec
CONSTANTS
  Words = 2
  BlockSize = 2
  FifoSize = 3
  Sectors = 4
  SizeShift = 1
  V2BlLen = 1
  Register <- MCRegister
  Kinds = {"hc"}
  Flushes = 3
  MaxImages = 1
  MaxReads = 1
  MaxFaults = 1
INVARIANTS
  ReadReportsError
CHECK_DEADLOCK FALSE
