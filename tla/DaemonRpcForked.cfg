SPECIFICATION SpecFork
CONSTANTS
  Ids = {0, 1}
  Unchanged = Unchanged
  None = None
  Modes = {7}
  Rdevs = {5}
  NoXattrs = NoXattrs
  Xattrs = {NoXattrs}
  Fits = {NoXattrs}
  Absent = Absent
  Done = Done
  k = k
  Keys = {k}
  p1 = p1
  p2 = p2
  Procs = {p1, p2}
  Streams = {1, 2}
  NoStream = NoStream
  NoAnswer = NoAnswer
  Requests <- MCRequests
  MaxCalls = 2
  Scenes <- Forked
CHECK_DEADLOCK FALSE
INVARIANT
  OwnAnswer
