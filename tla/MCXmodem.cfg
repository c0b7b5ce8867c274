SPECIFICATION FairSpec
CONSTANTS
  N = 7
  M = 6
  Capacities = {4, 7, 8}
  LineCap = 2
  MaxFaults = 3
INVARIANTS
  TypeOK
  ImageInBuffer
  Window
PROPERTIES
  Refines
  AckedIsStored
  Completes
\* stage1 stops once it has jumped to the image, and the host may give up.
CHECK_DEADLOCK FALSE
