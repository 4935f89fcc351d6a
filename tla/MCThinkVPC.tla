----------------------------- MODULE MCThinkVPC -----------------------------
(* ThinkVPC for TLC: every order of a few requests and events of the kinds *)
(* that touch the same state.                                              *)
EXTENDS ThinkVPC

LightScene == {"MuteLED", "MicMuteLED", "AutoBacklight", "power", "mic", "client"}
MuteScene == {"MuteLED", "power", "Update"}
FnScene == {"FnKey", "fnEsc", "Update"}
FoldScene == {"Clamshell", "tablet", "keyboard", "Update"}
KeyScene == {"other", "sleep", "mic", "client", "Update"}

MCScenes == {LightScene, MuteScene, FnScene, FoldScene, KeyScene}
MCLights == {{"sst", "mic"}, {"sst", "mute", "mic"}}

(* What a scene does not touch starts out in one way only. *)
Relevant ==
  /\ "tablet" \in scene \/ (fold = "laptop" /\ tabletLike /\ ~clamHw)
  /\ "power" \in scene \/ auto = {"sst", "mic"}
=============================================================================
