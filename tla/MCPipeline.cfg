SPECIFICATION FairSpec
CONSTANTS
  file = file
  windows = windows
  A = A
  B = B
  N = 3
  None = None
  Senders <- MCSenders
  BlockingSenders <- MCBlocking
  Events <- MCEvents
  Reader <- MCReader
  Size <- MCSize
  Dests <- MCDests
  Order <- MCOrder
  Setups <- MCSetups
  Budget = 2
  ChannelCapacity = 2
  RouterCapacity = 1
  UnhealthyAfter = 1
  MaxFaults = 1
INVARIANTS
  BudgetConserved
  Accounted
PROPERTIES
  OthersKeepFlowing
  StopEnds
CHECK_DEADLOCK FALSE
