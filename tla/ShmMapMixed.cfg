SPECIFICATION Spec
CONSTANTS
  p1 = p1
  p2 = p2
  d1 = d1
  d2 = d2
  i1 = i1
  i2 = i2
  i3 = i3
  Procs = {p1, p2}
  Keys <- MixedFiles
  N = 2
  Hash <- LastBucket
  Meta = {"uid"}
  V = 1
  Unset = Unset
  NoSlot = NoSlot
  Absent = Absent
  Files <- OwnMixed
  Serial = FALSE
  MaxOps = 1
CHECK_DEADLOCK FALSE
INVARIANT
  Untouched
