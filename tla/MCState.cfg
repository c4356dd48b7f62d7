SPECIFICATION FairSpec
CONSTANTS
  Keys = {k1}
  Offsets = {0, 2}
  Hashes = {}
  Inputs = {i}
  CheckpointKeys = {c}
  Tokens = {t}
  None = None
  Minute = 2
  Retention = 2
  MaxTime = 4
  MaxFaults = 1
  MaxOpens = 1
INVARIANTS
  InSync
  PolledFileKept
PROPERTY EventuallySaved
