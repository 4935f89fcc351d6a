CONSTANTS
  c1 = c1
  Clients = {c1}
  EcDuties = {73}
  EcLevels = {132}
  Speeds = {}
  PwmDuties = {}
  AutoDuties = {90}
  FactoryCfg = 5
SPECIFICATION FairSpec
PROPERTY FanDutyRefreshes
CHECK_DEADLOCK FALSE
