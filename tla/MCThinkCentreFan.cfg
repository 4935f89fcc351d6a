CONSTANTS
  c1 = c1
  Clients = {c1}
  EcDuties = {73}
  EcLevels = {132}
  Speeds = {2}
  PwmDuties = {150}
  AutoDuties = {73}
  FactoryCfg = 5
SPECIFICATION Spec
INVARIANTS HandshakesEnd DriverAgreesWithChip LevelReadBack
  StopHandsFanBack PollerAlive MonitoringRestored
CHECK_DEADLOCK FALSE
