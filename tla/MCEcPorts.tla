----------------------------- MODULE MCEcPorts ------------------------------
(* EcPorts for TLC: a fan's tachometer word, which the controller changes, *)
(* and the fan configuration register, for two threads.                    *)
EXTENDS EcPorts

RegFanRpm == 320
RegFanCfgCtrl == 2561

MCRegs == {RegFanRpm, RegFanRpm + 1, RegFanCfgCtrl}
=============================================================================
