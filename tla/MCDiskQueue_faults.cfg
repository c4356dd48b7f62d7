SPECIFICATION Spec
CONSTANTS
  Policies = {"block", "drop_newest", "drop_oldest"}
  MaxBytes = 4
  SegBytes = 3
  Lens = {1, 3}
  BatchMax = 2
  MaxEvents = 4
  MaxRestarts = 1
  MaxFaults = 1
  Faults = {"open", "write", "flush", "create", "cursor"}
INVARIANTS
  TypeOK
  NoSilentLoss
  CountExact
  Lockstep
  CapRespected
PROPERTIES SavedCursorAdvances Delivers
CHECK_DEADLOCK FALSE
