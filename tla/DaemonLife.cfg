SPECIFICATION FairSpec
CONSTANTS
  Daemons = {d1, d2}
  Commands = {c1, c2}
  NoDaemon = NoDaemon
  Scenes <- Mixed
INVARIANTS
  TypeOK
  Reachable
  CleansUp
  FreePath
PROPERTIES
  Ends
  StopReturns
