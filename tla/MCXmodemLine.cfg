SPECIFICATION Spec
CONSTANTS
  File <- ShortFile
  M = 6
  MaxFaults = 5
PROPERTIES
  Refines
  Completes
\* Nobody goes on once the receiver has the EOT and the host has given up.
CHECK_DEADLOCK FALSE
