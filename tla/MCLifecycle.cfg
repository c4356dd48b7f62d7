SPECIFICATION FairSpec
CONSTANTS
  Serving = Serving
  Plain = Plain
  Unstartable = Unstartable
  Broken = Broken
  c1 = c1
  c2 = c2
  Torn = Torn
  None = None
  Configs <- MCConfigs
  Valid <- MCValid
  Startable <- MCStartable
  Binding <- MCBinding
  Clients <- MCClients
  ControlCapacity = 1
  MaxRequests = 2
  MaxFaults = 1
  MaxExits = 1
INVARIANTS
  RunsOrExits
  FileUsable
PROPERTIES
  RestoresRunning
  EveryRequestAnswered
CHECK_DEADLOCK FALSE
