SPECIFICATION FairSpec
CONSTANTS
  Paths = {log, old}
  Inodes = {i1}
  None = None
  MaxLines = 2
  MaxCreates = 2
  MaxMoves = 1
  MaxRestarts = 1
INVARIANT CursorHonest
PROPERTY EveryLineRead
CHECK_DEADLOCK FALSE
