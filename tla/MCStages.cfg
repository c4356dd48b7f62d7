SPECIFICATION Spec
CONSTANTS
  Configs <- MCConfigs
  Lines <- MCLines
  Conditions <- MCConditions
  KeyOrder <- MCKeyOrder
INVARIANTS ValidatedStarts SameAnswer ArrivesWhole
CHECK_DEADLOCK FALSE
