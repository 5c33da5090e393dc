SPECIFICATION FairSpec
CONSTANTS
  cleanup = cleanup
  purge = purge
  s1 = s1
  s2 = s2
  Never = Never
  Task = {cleanup, purge}
  Interval <- Intervals
  Thread = {s1}
  MaxPass = 1
  Faults = {"db", "crash", "stop", "register"}
PROPERTIES
  IntervalRespected
  TasksRecur
