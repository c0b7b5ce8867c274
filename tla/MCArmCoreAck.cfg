SPECIFICATION Spec
CONSTANTS
  Procs = {"vpu", "arm"}
  W = 5
  Milli = 1
  Intervals = {1, 3}
  Slack = 1
  MaxAsked = 3
INVARIANT TimerArrives
CHECK_DEADLOCK FALSE
