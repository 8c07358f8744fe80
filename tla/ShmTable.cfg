SPECIFICATION Spec
CONSTANTS
  Ids = {0, 1}
  Unchanged = Unchanged
  None = None
  Modes = {0, 7}
  Rdevs = {0, 5}
  NoXattrs = NoXattrs
  x = x
  big = big
  Xattrs = {NoXattrs, x, big}
  Fits = {NoXattrs, x}
  k1 = k1
  k2 = k2
  k3 = k3
  Keys = {k1, k2, k3}
  NoKey = NoKey
  Absent = Absent
  Done = Done
  N = 3
  Hash <- MCHash
  Chowns <- MCChowns
  Defaults <- MCDefaults
  Inodes <- MCInodes
INVARIANTS
  TypeOK
  Reachable
  OneSlotPerKey
PROPERTY
  ImplementsMap
