SPECIFICATION Spec
CONSTANTS
  Paths = {log, old}
  Inodes = {i1, i2}
  None = None
  MaxLines = 2
  MaxCreates = 2
  MaxMoves = 2
  MaxRestarts = 0
INVARIANT NoNeedlessReread
SYMMETRY Symmetry
CHECK_DEADLOCK FALSE
