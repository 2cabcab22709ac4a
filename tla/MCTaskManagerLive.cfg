\* One worker, every kind of dispatch with start times before, at and after the deadline.
CONSTANTS
  Tasks = {t1, t2}
  Workers = {w1}
  Handlers = {h1}
  NoTask = NoTask
  Timeout = 1
  StartTimes = {0, 2}
  LastDispatch = 1
  MaxClock = 4
SPECIFICATION FairSpec
PROPERTIES EventuallySettled ExitEnds
