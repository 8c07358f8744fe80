SPECIFICATION FairSpec
CONSTANTS
  Procs = {p1}
  short = short
  long = long
  Names = {short, long}
  NameLength <- NameLengths
  x = x
  y = y
  Tags = {x, y}
  Lengths = {1, 3, 4}
  MaxXattr = 3
  PageSize = 5
  LargeBuffer = 9
  None = None
  NoAnswer = NoAnswer
  MaxChanges = 3
  Scenes <- BothShort
PROPERTY
  ReadsEnd
CHECK_DEADLOCK FALSE
