SPECIFICATION Spec
CONSTANTS
  NCpus = 2
  MemSize = 4
  Trees <- MCTrees
  MuFifo = 1
  MuBuf = 2
  MaxEvents = 3
  MaxAttempts = 3
  ErrAttempts = 2
  MaxOther = 2
  MaxNeighbour = 1
INVARIANTS MemoryKeptApart
PROPERTIES AllStart ThreadIsSeen
CHECK_DEADLOCK FALSE
