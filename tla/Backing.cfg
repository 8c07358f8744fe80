SPECIFICATION Spec
CONSTANTS
  Ids = {0, 1}
  Unchanged = Unchanged
  None = None
  Modes = {3, 7}
  Rdevs = {5}
  NoXattrs = NoXattrs
  Xattrs = {NoXattrs}
  Fits = {NoXattrs}
  Absent = Absent
  Done = Done
  p1 = p1
  p2 = p2
  k1 = k1
  k2 = k2
  Keys = {k1, k2}
  Procs = {p1, p2}
  Scenes <- Sound
  Chowns <- MCChowns
  Current <- Zero
INVARIANTS
  TypeOK
  Recorded
