----------------------------- MODULE MCIdeaModes -----------------------------
(* IdeaModes for TLC: every order of a few requests and events of the      *)
(* kinds that use the same methods.                                        *)
EXTENDS IdeaModes

BatteryScene == {"conservation", "rapid", "bdvt", "lock", "update"}
KeyboardScene == {"fn", "usb", "fnlock", "update"}
YogaScene == {"fold", "key", "fnlock"}
RefreshScene == {"key", "fnlock", "update"}

MCScenes == {BatteryScene, KeyboardScene, YogaScene, RefreshScene}

(* What a scene does not touch starts out in one way only. *)
Relevant ==
  /\ "fold" \in scene \/ (light = 0 /\ ~onYogaMode)
  /\ "conservation" \in scene \/ (~hw.conservation /\ ~hw.rapid /\ ~rapidChargeCap /\ conservationModeLock)
  /\ "usb" \in scene \/ ~hw.usb
=============================================================================
