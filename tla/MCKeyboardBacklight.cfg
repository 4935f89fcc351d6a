CONSTANTS
  Levels = {0, 1, 2}
  Asked = {2}
  Timeouts = {0, 10}
  MaxFaults = 1
SPECIFICATION Spec
INVARIANTS LevelAgrees SleepIsDark WakeRestores RestCanBeUndone
CHECK_DEADLOCK FALSE
