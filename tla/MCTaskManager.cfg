\* Two visits, the two workers of Manager::init, responses from two threads.
CONSTANTS
  Tasks = {t1, t2}
  Workers = {w1, w2}
  Handlers = {h1, h2}
  NoTask = NoTask
  Timeout = 1
  StartTimes = {}
  LastDispatch = 2
  MaxClock = 4
SPECIFICATION Spec
SYMMETRY Symmetry
INVARIANTS OneOwner NoMapLeak NotForgotten TimeoutNotEarly
PROPERTY ImplementsAsyncTask
