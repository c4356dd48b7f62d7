SPECIFICATION Spec
CONSTANTS
  Batch = 2
  InitialDelay = 1
  MaxDelay = 3
  None = None
  MaxRecords = 2
  MaxFaults = 0
  MaxExits = 1
INVARIANT
  NothingPassedOver
