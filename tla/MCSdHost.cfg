SPECIFICATION Spec
CONSTANTS
  Words = 2
  BlockSize = 2048
  FifoSize = 3
  Sectors = 4
  SizeShift = 1
  V2BlLen = 1
  Register <- MCRegister
  Kinds = {"v1", "v2", "hc"}
  Flushes = 3
  MaxImages = 2
  MaxReads = 3
  MaxFaults = 2
INVARIANTS
  KnowsSize
  RightWords
  BreaksOnlyOnFault
PROPERTIES
  ReadsReturn
  ComesUp
\* Nothing is left to do after MaxReads reads.
CHECK_DEADLOCK FALSE
