------------------------- MODULE KeyboardBacklight --------------------------
(***************************************************************************)
(* The keyboard backlight of a ThinkPad: automatic backlight and timeout   *)
(* (YogaSMC/YogaVPC.cpp 216-245, 399-431, 726-735), with ThinkVPC's access *)
(* to the firmware (YogaVPC/ThinkVPC.cpp 940-977).                         *)
(*                                                                         *)
(*   gate   the work loop: setPropertiesGated and the timeout's handler    *)
(*   pm     setPowerState                                                  *)
(*   keys   message, from the keyboard driver at a key press               *)
(*   acpi   message, from the firmware at the backlight's own key          *)
(*                                                                         *)
(* Only the gate excludes itself; one step of a thread is one access to    *)
(* the firmware or to fields the others read.                              *)
(***************************************************************************)
EXTENDS Integers

CONSTANTS
  Levels,     \* the levels of the backlight
  Asked,      \* values of the Backlight property
  Timeouts,   \* values of BacklightTimeout, in seconds
  MaxFaults   \* bound on the evaluations of firmware methods that fail

ASSUME LevelNumbers == Levels \subseteq 0..3 /\ {0, 1} \cup Asked \subseteq Levels
ASSUME TimeoutNumbers == Timeouts \subseteq Nat
ASSUME FaultBound == MaxFaults \in Nat

VARIABLES
  hw,        \* the level the keyboard shows
  backlightLevel,  \* also the Backlight property, which is set with it
  backlightLevelSaved, backlightTimeout,
  auto,      \* bit 0 of automaticBacklightMode
  armed,     \* the timeout is running
  power,     \* "boot" | "on" | "slept", as setPowerState has been told
  faults,
  pc, op, val,  \* each thread's next step, request and local value
  asked,     \* the value of the Backlight property being set
  alone, synced, before, rested  \* history variables: see Begin

driver == <<backlightLevel, backlightLevelSaved, backlightTimeout, auto, armed>>
history == <<alone, synced, before, rested>>
vars == <<hw, driver, power, faults, pc, op, val, asked, history>>

Threads == {"gate", "pm", "keys", "acpi"}
NoLevel == -1
StatusBits == 256  \* the reply of MLCG holds more than the level

Goto(t, step) ==
  /\ pc' = [pc EXCEPT ![t] = step]
  /\ op' = IF step = "idle" THEN [op EXCEPT ![t] = "none"] ELSE op
At(t, step, next) == pc[t] = step /\ Goto(t, next)
Quiet == \A t \in Threads : pc[t] = "idle"
Others(t) == \E u \in Threads \ {t} : pc[u] # "idle"

(***************************************************************************)
(* A request begins.  alone: no other has been under way since.  synced:   *)
(* the driver has read the level while alone, and no requests have         *)
(* overlapped since.  before: the level when the machine went to sleep,    *)
(* rested: the timeout darkened a lit keyboard; both until a request of    *)
(* another kind, an overlap or a failure.                                  *)
(***************************************************************************)
Begin(t, o, step) ==
  /\ pc[t] = "idle"
  /\ pc' = [pc EXCEPT ![t] = step]
  /\ op' = [op EXCEPT ![t] = o]
  /\ alone' = ~Others(t)
  /\ synced' = (synced /\ ~Others(t) /\ o # "key")
  /\ before' = CASE o = "sleep" /\ ~Others(t) -> hw
                 [] o = "wake" /\ ~Others(t) -> before
                 [] OTHER -> NoLevel
  /\ rested' = CASE o = "rest" /\ ~Others(t) -> synced /\ hw # 0
                 [] o \in {"sleep", "wake", "press"} /\ ~Others(t) -> rested
                 [] OTHER -> FALSE

Fault ==
  /\ faults < MaxFaults /\ faults' = faults + 1
  /\ before' = NoLevel /\ rested' = FALSE
  /\ UNCHANGED <<alone, synced>>

-----------------------------------------------------------------------------
(* What each request does after it has read the level, or failed to.       *)
AfterRead(o) == CASE o = "sleep" -> "cancel" [] o = "wake" -> "relight"
                  [] o = "backlight" -> "compare" [] OTHER -> "idle"
AfterFailedRead(o) == IF o = "backlight" THEN "idle" ELSE AfterRead(o)

(* And after it has set one. *)
AfterSet(o) == CASE o = "sleep" -> "asleep" [] o \in {"wake", "press"} -> "arm"
                 [] OTHER -> "idle"

(* updateBacklight: evaluate MLCG, then keep and publish what it said.     *)
ReadLevel(t) ==
  /\ pc[t] = "read"
  /\ \/ /\ Goto(t, "keep")
        /\ val' = [val EXCEPT ![t] = hw + StatusBits]
        /\ UNCHANGED <<faults, history>>
     \/ Goto(t, AfterFailedRead(op[t])) /\ Fault /\ UNCHANGED val
  /\ UNCHANGED <<hw, driver, power, asked>>

KeepLevel(t) ==
  /\ At(t, "keep", AfterRead(op[t]))
  /\ backlightLevel' = val[t] % 4
  /\ synced' = (synced \/ alone)
  /\ val' = [val EXCEPT ![t] = 0]
  /\ UNCHANGED <<hw, backlightLevelSaved, backlightTimeout, auto, armed, power, faults, asked,
                 alone, before, rested>>

(* setBacklight: evaluate MLCS, then keep and publish the level.  The      *)
(* level is passed on in val.                                              *)
SetLevelKeeps(t) ==  \* mutant: the level is kept before the result is known
  /\ pc[t] = "set"
  /\ \/ hw' = val[t] /\ Goto(t, "kept") /\ UNCHANGED <<driver, faults, val, history>>
     \/ /\ Goto(t, AfterSet(op[t])) /\ Fault
        /\ val' = [val EXCEPT ![t] = 0]
        /\ backlightLevel' = val[t]
        /\ UNCHANGED <<hw, backlightLevelSaved, backlightTimeout, auto, armed>>
  /\ UNCHANGED <<power, asked>>

SetLevel(t) ==
  /\ pc[t] = "set"
  /\ \/ hw' = val[t] /\ Goto(t, "kept") /\ UNCHANGED <<faults, val, history>>
     \/ Goto(t, AfterSet(op[t])) /\ Fault /\ val' = [val EXCEPT ![t] = 0] /\ UNCHANGED hw
  /\ UNCHANGED <<driver, power, asked>>

KeepSet(t) ==
  /\ At(t, "kept", AfterSet(op[t]))
  /\ backlightLevel' = val[t]
  /\ val' = [val EXCEPT ![t] = 0]
  /\ UNCHANGED <<hw, backlightLevelSaved, backlightTimeout, auto, armed, power, faults, asked,
                 history>>

Access(t) == ReadLevel(t) \/ KeepLevel(t) \/ SetLevel(t) \/ KeepSet(t)

SetTo(t, level) == Goto(t, "set") /\ val' = [val EXCEPT ![t] = level]

-----------------------------------------------------------------------------
(* setPropertiesGated: the keys Update, Backlight, AutoBacklight and       *)
(* BacklightTimeout. *)

Update ==
  /\ Begin("gate", "update", "read")
  /\ UNCHANGED <<hw, driver, power, faults, val, asked>>

SetBacklightProperty ==
  /\ Begin("gate", "backlight", "read")
  /\ asked' \in Asked
  /\ UNCHANGED <<hw, driver, power, faults, val>>

CompareLevel ==
  /\ pc["gate"] = "compare"
  /\ IF asked = backlightLevel THEN Goto("gate", "idle") /\ UNCHANGED val ELSE SetTo("gate", asked)
  /\ asked' = 0
  /\ UNCHANGED <<hw, driver, power, faults, history>>

SetAuto ==
  /\ pc["gate"] = "idle"
  /\ auto' = ~auto
  /\ before' = NoLevel
  /\ UNCHANGED <<hw, backlightLevel, backlightLevelSaved, backlightTimeout, armed,
                 power, faults, pc, op, val, asked, alone, synced, rested>>

SetTimeout ==
  /\ Begin("gate", "timeout", "timeoutSet")
  /\ backlightTimeout' \in Timeouts
  /\ UNCHANGED <<hw, backlightLevel, backlightLevelSaved, auto, armed, power, faults,
                 val, asked>>

TimeoutSet ==
  /\ At("gate", "timeoutSet", "idle")
  /\ backlightLevelSaved' = 1
  /\ armed' = (armed /\ backlightTimeout # 0)
  /\ UNCHANGED <<hw, backlightLevel, backlightTimeout, auto, power, faults, val,
                 asked, history>>

-----------------------------------------------------------------------------
(* backlightRest, when the timeout has run out. *)

RestSavesLate ==  \* mutant: the level is saved after it has been set to 0
  /\ armed /\ armed' = FALSE
  /\ Begin("gate", "rest", "set")
  /\ backlightLevelSaved' = 0
  /\ val' = [val EXCEPT !["gate"] = 0]
  /\ UNCHANGED <<hw, backlightLevel, backlightTimeout, auto, power, faults, asked>>

Rest ==
  /\ armed /\ armed' = FALSE
  /\ Begin("gate", "rest", "set")
  /\ backlightLevelSaved' = backlightLevel
  /\ val' = [val EXCEPT !["gate"] = 0]
  /\ UNCHANGED <<hw, backlightLevel, backlightTimeout, auto, power, faults, asked>>

-----------------------------------------------------------------------------
(* message. *)

KeyPress ==
  /\ backlightTimeout # 0 /\ backlightLevelSaved # 0
  /\ Begin("keys", "press", "relight")
  /\ armed' = FALSE
  /\ UNCHANGED <<hw, backlightLevel, backlightLevelSaved, backlightTimeout, auto, power,
                 faults, val, asked>>

(* The firmware cycles through the levels on its own and tells the driver. *)
BacklightKey ==
  /\ Begin("acpi", "key", "read")
  /\ hw' = IF hw + 1 \in Levels THEN hw + 1 ELSE 0
  /\ UNCHANGED <<driver, power, faults, val, asked>>

(* Lighting the keyboard again, at a key press or a wake.  A key press has *)
(* looked at the saved level before; the wake looks at it now.             *)
Lights(t) == backlightLevel = 0 /\ (op[t] = "press" \/ backlightLevelSaved # 0)

Relight(t) ==
  /\ pc[t] = "relight"
  /\ IF Lights(t) THEN SetTo(t, backlightLevelSaved)
     ELSE Goto(t, "arm") /\ UNCHANGED val
  /\ UNCHANGED <<hw, driver, power, faults, asked, history>>

Arm(t) ==
  /\ At(t, "arm", "idle")
  /\ armed' = (armed \/ op[t] = "press" \/ backlightTimeout # 0)
  /\ power' = IF op[t] = "wake" THEN "on" ELSE power
  /\ UNCHANGED <<hw, backlightLevel, backlightLevelSaved, backlightTimeout, auto, faults, val,
                 asked, history>>

-----------------------------------------------------------------------------
(* setPowerState.  With bit 0 off and no timeout it does nothing. *)

Managed == auto \/ backlightTimeout # 0

Sleep ==
  /\ power \in {"boot", "on"} /\ pc["pm"] = "idle"
  /\ IF Managed THEN Begin("pm", "sleep", "read") /\ UNCHANGED power
     ELSE /\ power' = "slept" /\ before' = NoLevel
          /\ UNCHANGED <<pc, op, alone, synced, rested>>
  /\ UNCHANGED <<hw, driver, faults, val, asked>>

CancelOnlySaves ==  \* mutant: the timeout keeps running
  /\ pc["pm"] = "cancel"
  /\ backlightLevelSaved' = IF backlightTimeout # 0 THEN backlightLevelSaved ELSE backlightLevel
  /\ IF backlightLevel # 0 THEN SetTo("pm", 0) ELSE Goto("pm", "asleep") /\ UNCHANGED val
  /\ UNCHANGED <<hw, backlightLevel, backlightTimeout, auto, armed, power, faults,
                 asked, history>>

CancelForgets ==  \* mutant: the level is not saved
  /\ pc["pm"] = "cancel"
  /\ armed' = (armed /\ backlightTimeout = 0)
  /\ IF backlightLevel # 0 THEN SetTo("pm", 0) ELSE Goto("pm", "asleep") /\ UNCHANGED val
  /\ UNCHANGED <<hw, backlightLevel, backlightLevelSaved, backlightTimeout, auto, power,
                 faults, asked, history>>

CancelOrSave ==
  /\ pc["pm"] = "cancel"
  /\ IF backlightTimeout # 0 THEN armed' = FALSE /\ UNCHANGED backlightLevelSaved
     ELSE backlightLevelSaved' = backlightLevel /\ UNCHANGED armed
  /\ IF backlightLevel # 0 THEN SetTo("pm", 0) ELSE Goto("pm", "asleep") /\ UNCHANGED val
  /\ UNCHANGED <<hw, backlightLevel, backlightTimeout, auto, power, faults, asked,
                 history>>

Asleep ==
  /\ At("pm", "asleep", "idle")
  /\ power' = "slept"
  /\ UNCHANGED <<hw, driver, faults, val, asked, history>>

(* Also the first call, after registration.                                *)
Wake ==
  /\ power \in {"boot", "slept"} /\ pc["pm"] = "idle"
  /\ IF Managed THEN Begin("pm", "wake", "read") /\ UNCHANGED power
     ELSE power' = "on" /\ UNCHANGED <<pc, op, history>>
  /\ UNCHANGED <<hw, driver, faults, val, asked>>

-----------------------------------------------------------------------------
Init ==
  /\ hw \in Levels
  /\ backlightLevel = 0 /\ backlightLevelSaved = 0 /\ backlightTimeout = 0
  /\ auto = TRUE
  /\ armed = FALSE
  /\ power = "boot"
  /\ faults = 0
  /\ pc = [t \in Threads |-> "idle"]
  /\ op = [t \in Threads |-> "none"]
  /\ val = [t \in Threads |-> 0]
  /\ asked = 0
  /\ alone = TRUE /\ synced = FALSE /\ before = NoLevel /\ rested = FALSE

Body(t) == Access(t) \/ Relight(t) \/ Arm(t)

Requests == Update \/ SetBacklightProperty \/ SetAuto \/ SetTimeout \/ Rest \/ KeyPress
              \/ BacklightKey \/ Sleep \/ Wake

Next == (\E t \in Threads : Body(t)) \/ CompareLevel \/ TimeoutSet \/ CancelOrSave \/ Asleep
          \/ Requests

Spec == Init /\ [][Next]_vars

-----------------------------------------------------------------------------

(* Once the driver has read the level undisturbed, the level it keeps is   *)
(* the keyboard's through every later request that overlaps no other,      *)
(* failed ones included (ThinkVPC.cpp:940-977).                            *)
LevelAgrees == Quiet /\ synced => backlightLevel = hw

(* A machine whose backlight is managed sleeps dark, and its timeout does  *)
(* not run (YogaVPC.cpp:406-413).                                          *)
SleepIsDark ==
  Quiet /\ power = "slept" /\ before # NoLevel /\ Managed =>
    hw = 0 /\ (backlightTimeout # 0 => ~armed)

(* Automatic backlight brings back the level the machine went to sleep     *)
(* with, where no timeout is set (YogaVPC.cpp:406-417).                    *)
WakeRestores ==
  Quiet /\ power = "on" /\ before # NoLevel /\ backlightTimeout = 0 => hw = before

(* A keyboard the timeout has darkened is lit by the next key press: what  *)
(* message tests stays true until somebody sets the level                  *)
(* (YogaVPC.cpp:426-431, 726-735).                                         *)
RestCanBeUndone ==
  Quiet /\ rested /\ backlightTimeout # 0 /\ hw = 0 => backlightLevelSaved # 0

=============================================================================
