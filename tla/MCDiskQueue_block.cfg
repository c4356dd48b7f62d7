SPECIFICATION FairSpec
CONSTANTS
  Policies = {"block"}
  MaxBytes = 5
  SegBytes = 2
  Lens = {1, 2}
  BatchMax = 2
  MaxEvents = 4
  MaxRestarts = 1
  MaxFaults = 0
  Faults = {}
INVARIANT DuplicateWindow
PROPERTIES EveryStoredEventLeaves EveryPushReturns
