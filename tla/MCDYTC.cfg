CONSTANTS
  m1 = m1
  Messages = {m1}
  Modes <- MCModes
  Raw <- MCRaw
  Bitmaps <- MCBitmaps
  MaxFaults = 1
SPECIFICATION Spec
INVARIANTS LockHasOwner SettingTakes PublishedAgrees
CHECK_DEADLOCK FALSE
