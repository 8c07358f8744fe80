SPECIFICATION Spec
CONSTANTS
  Procs = {p1, p2}
  First = p1
  t1 = t1
  t2 = t2
  Threads = {t1, t2}
  Inner = inner
  Ids = {0, 1}
  Root = 0
  Scenes <- FirstAtOnce
INVARIANT
  Reported
CHECK_DEADLOCK FALSE
