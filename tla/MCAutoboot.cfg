SPECIFICATION Spec
CONSTANTS
  Keys = {"X", "y"}
  FifoSize = 2
  Trigger = 2
  RxBufSize = 2
  TxSize = 1
  Threads = {"start", "main", "waker", "core2"}
  Prompt = 2
  MaxTyped = 3
INVARIANTS
  FirstKeyDecides
  OutputKept
PROPERTIES
  XIsHeard
\* stage1 leaves the prompt for good.
CHECK_DEADLOCK FALSE
