SPECIFICATION Spec
CONSTANTS
  Procs = {"vpu"}
  W = 3
  Milli = 1
  Intervals = {1}
  Slack = 1
  MaxAsked = 2
  Threads = {t1, t2, t3}
  Boot = t1
  Init2 = t2
  MaxAdds = 2
INVARIANTS LockWorks NoPanic
CHECK_DEADLOCK FALSE
