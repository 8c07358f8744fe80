SPECIFICATION Spec
CONSTANTS
  Daemons = {d1, d2}
  Commands = {c1, c2}
  NoDaemon = NoDaemon
  Scenes <- Anytime
INVARIANT
  OnlyStale
