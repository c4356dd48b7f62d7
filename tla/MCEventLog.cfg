SPECIFICATION FairSpec
CONSTANTS
  Batch = 2
  InitialDelay = 1
  MaxDelay = 3
  None = None
  MaxRecords = 3
  MaxFaults = 2
  MaxExits = 1
INVARIANTS
  CheckpointHonest
  ResentOnlyAfterCrash
  HandlesClosed
PROPERTIES
  NoGapBetweenAttempts
  EveryRecordHanded
CHECK_DEADLOCK FALSE
