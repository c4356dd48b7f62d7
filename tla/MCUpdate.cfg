SPECIFICATION FairSpec
CONSTANTS
  Releases <- MCReleases
  Installed <- MCInstalled
  Needed = 2
  Polls = 3
  MaxRedirects = 1
  None = None
  MaxUpgrades = 3
  MaxFaults = 1
  MaxCrashes = 1
INVARIANTS
  LiveVerified
  NotLockedOut
  WayBack
PROPERTIES
  NoReplay
  BadBuildReplaced
CHECK_DEADLOCK FALSE
