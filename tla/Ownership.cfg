SPECIFICATION Spec
CONSTANTS
  Ids = {0, 1}
  Unchanged = Unchanged
  None = None
  Modes <- MCModes
  Rdevs = {5}
  Xattrs = {NoXattrs, x}
  NoXattrs = NoXattrs
  Fits = {NoXattrs, x}
  Keys = {1, 2, 3}
  Absent = Absent
  Done = Done
  p1 = p1
  p2 = p2
  a = a
  b = b
  c = c
  x = x
  Procs = {p1, p2}
  Names = {a, b, c}
  Target = a
  Scenes <- Sound
  Chowns <- MCChowns
  Perms = {0, 1}
  Current <- Zero
  Dev = 5
  NoFile = NoFile
INVARIANTS
  TypeOK
  Faithful
  NoGhost
  StatFaithful
