CONSTANTS
  MAX_SENSOR = 5
  Presets <- MCPresets
  Machines <- MCMachines
  Consumers = {c1, c2}
  c1 = c1
  c2 = c2
SYMMETRY Interchangeable
SPECIFICATION Spec
INVARIANTS PollingFollowsPower SensorsAreOwn ConsumersAreKnown
CHECK_DEADLOCK FALSE
