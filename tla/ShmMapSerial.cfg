SPECIFICATION Spec
CONSTANTS
  p1 = p1
  p2 = p2
  d1 = d1
  d2 = d2
  i1 = i1
  i2 = i2
  i3 = i3
  Procs = {p1, p2}
  Keys <- ThreeFiles
  N = 2
  Hash <- LastBucket
  Meta = {"uid", "page"}
  V = 2
  Unset = Unset
  NoSlot = NoSlot
  Absent = Absent
  Files <- Shared
  Serial = TRUE
  MaxOps = 2
SYMMETRY Symmetry
CHECK_DEADLOCK FALSE
INVARIANTS
  OneSlotPerKey
  NoForeignRead
  Settled
