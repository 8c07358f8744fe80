SPECIFICATION FairLaunchSpec
CONSTANTS
  Threads = {t1, t2, t3}
  Caller = caller
  Last = 2
  NoFile = NoFile
  Settings <- Sound
INVARIANTS
  Complete
  Asked
PROPERTY
  Launches
