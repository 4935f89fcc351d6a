------------------------------ MODULE TopCase -------------------------------
(***************************************************************************)
(* A convertible IdeaPad switches its keyboard and touchpad off when it is *)
(* flipped (YogaSMC/YogaWMI/IdeaWMI.cpp 55-147), by messages to the        *)
(* keyboard's and the touchpad's drivers (YogaBaseService.cpp 100-196).    *)
(*                                                                         *)
(*   acpi    ACPIEvent, when the hinge has moved                           *)
(*   pm      setPowerState                                                 *)
(*   driver  stop                                                          *)
(*                                                                         *)
(* None of them holds the command gate but for one message at a time, so   *)
(* one step of a thread is one message or one access to a shared field.    *)
(***************************************************************************)
EXTENDS Integers

CONSTANTS
  Flipped,   \* the ways the machine can be folded other than as a laptop
  Unknown    \* readings that are no mode

laptop == 1
tablet == 2
stand == 3
tent == 4
Modes == {laptop} \cup Flipped

ASSUME FlippedModes == Flipped \subseteq {tablet, stand, tent}
ASSUME UnknownModes == Unknown \subseteq Nat \ {laptop, tablet, stand, tent}

VARIABLES
  hinge,     \* how the machine is folded
  moved,     \* the hinge has moved and acpi has not been told yet
  consumers, \* the drivers that have published themselves: "kbd", "tpd"
  enabled,   \* what each of them does
  Keyboardenabled, TouchPadenabled, YogaMode,
  power,     \* "off" | "on", as setPowerState has been told: "off" at first
  phase,     \* "running" | "stopping" | "stopped"
  pc, op,    \* each thread's next step and request
  value,     \* its local of that name
  enable,    \* its argument of setTopCase
  alone, settled, doubts  \* history variables: see Begin

device == <<hinge, moved, consumers, enabled>>
fields == <<Keyboardenabled, TouchPadenabled, YogaMode>>
threads == <<pc, op, value, enable>>
history == <<alone, settled, doubts>>
vars == <<device, fields, power, phase, threads, history>>

Drivers == {"kbd", "tpd"}
Threads == {"acpi", "pm", "driver"}

Goto(t, step) ==
  /\ pc' = [pc EXCEPT ![t] = step]
  /\ op' = IF step = "idle" THEN [op EXCEPT ![t] = "none"] ELSE op
  /\ value' = IF step = "idle" THEN [value EXCEPT ![t] = laptop] ELSE value
  /\ enable' = IF step = "setTpd" THEN enable ELSE [enable EXCEPT ![t] = TRUE]

At(t, step, next) == pc[t] = step /\ Goto(t, next)

Quiet == \A t \in Threads : pc[t] = "idle"

(* A request begins.  alone: no other has been under way and nothing has   *)
(* happened to the hinge or the drivers since.  settled: such a request    *)
(* was the last thing that happened, a "reading" that was acted on or one  *)
(* that "left" the machine asleep or the driver stopped.  doubts: what has *)
(* made the drivers and YogaMode drift apart since setTopCase last ran     *)
(* alone, and reached both drivers.                                        *)
Begin(t, o, step) ==
  /\ pc[t] = "idle" /\ phase # "stopped"
  /\ pc' = [pc EXCEPT ![t] = step]
  /\ op' = [op EXCEPT ![t] = o]
  /\ alone' = \A u \in Threads \ {t} : pc[u] = "idle"
  /\ settled' = "no"
  /\ doubts' = doubts \cup {d \in {"sleep"} : o = d} \cup {d \in {"overlap"} : ~alone'}
  /\ UNCHANGED <<value, enable>>

Settle(how) ==
  /\ settled' = IF alone THEN how ELSE "no"
  /\ alone' = FALSE /\ UNCHANGED doubts

-----------------------------------------------------------------------------
(* setTopCase: a message to the keyboard's driver, one to the touchpad's.  *)
(* A driver that has not published itself gets none.                       *)

AfterTopCase(o) == CASE o = "sleep" -> "asleep" [] o = "stop" -> "stopped" [] OTHER -> "finish"

Tell(d, on) == enabled' = IF d \in consumers THEN [enabled EXCEPT ![d] = on] ELSE enabled

SetKeyboard(t) ==
  /\ At(t, "setKbd", "setTpd")
  /\ Tell("kbd", enable[t])
  /\ UNCHANGED <<hinge, moved, consumers, fields, power, phase, history>>

SetTouchPad(t) ==
  /\ At(t, "setTpd", AfterTopCase(op[t]))
  /\ Tell("tpd", enable[t])
  /\ doubts' = IF alone /\ consumers = Drivers THEN {"sleep"} \cap {op[t]} ELSE doubts
  /\ UNCHANGED <<hinge, moved, consumers, fields, power, phase, alone, settled>>

-----------------------------------------------------------------------------
(* updateYogaMode. *)

ReadMode(t) ==
  /\ pc[t] = "read"
  /\ \/ /\ \E v \in {hinge} \cup Unknown : value' = [value EXCEPT ![t] = v]
        /\ pc' = [pc EXCEPT ![t] = "getKbd"]
        /\ UNCHANGED <<op, enable, power>>
     \/ /\ Goto(t, "idle")  \* the method fails
        /\ power' = IF op[t] = "wake" THEN "on" ELSE power
  /\ UNCHANGED <<device, fields, phase, history>>

GetKeyboard(t) ==
  /\ At(t, "getKbd", "getTpd")
  /\ Keyboardenabled' = IF "kbd" \in consumers THEN enabled["kbd"] ELSE Keyboardenabled
  /\ UNCHANGED <<device, TouchPadenabled, YogaMode, power, phase, history>>

GetTouchPad(t) ==
  /\ At(t, "getTpd", "decide")
  /\ TouchPadenabled' = IF "tpd" \in consumers THEN enabled["tpd"] ELSE TouchPadenabled
  /\ UNCHANGED <<device, Keyboardenabled, YogaMode, power, phase, history>>

Sync == Keyboardenabled = TouchPadenabled

SetTopCase(t, on) ==
  /\ pc' = [pc EXCEPT ![t] = "setKbd"]
  /\ enable' = [enable EXCEPT ![t] = on]
  /\ UNCHANGED <<op, value>>

Act(t) ==
  \/ value[t] = laptop /\ SetTopCase(t, TRUE)
  \/ value[t] \in Flipped /\ (YogaMode = laptop \/ ~Sync) /\ SetTopCase(t, FALSE)
  \/ value[t] \in Flipped /\ YogaMode # laptop /\ Sync /\ Goto(t, "finish")

NothingToDo(t) == (YogaMode = value[t] /\ Sync) \/ value[t] \in Unknown

Nothing(t) ==
  /\ Goto(t, "idle")
  /\ power' = IF op[t] = "wake" THEN "on" ELSE power
  /\ Settle(IF value[t] \in Modes THEN "reading" ELSE "no")

DecideByMode(t) ==  \* mutant: keyboard and touchpad out of step are not noticed
  /\ pc[t] = "decide"
  /\ IF YogaMode = value[t] \/ value[t] \in Unknown THEN Nothing(t)
     ELSE Act(t) /\ UNCHANGED <<power, history>>
  /\ UNCHANGED <<device, fields, phase>>

DecideEnables(t) ==  \* mutant: a flipped machine switches keyboard and touchpad on
  /\ pc[t] = "decide"
  /\ IF NothingToDo(t) THEN Nothing(t)
     ELSE SetTopCase(t, TRUE) /\ UNCHANGED <<power, history>>
  /\ UNCHANGED <<device, fields, phase>>

Decide(t) ==
  /\ pc[t] = "decide"
  /\ IF NothingToDo(t) THEN Nothing(t)
     ELSE Act(t) /\ UNCHANGED <<power, history>>
  /\ UNCHANGED <<device, fields, phase>>

Finish(t) ==
  /\ At(t, "finish", "idle")
  /\ YogaMode' = value[t]
  /\ power' = IF op[t] = "wake" THEN "on" ELSE power
  /\ Settle("reading")
  /\ UNCHANGED <<device, Keyboardenabled, TouchPadenabled, phase>>

Update(t) == \/ ReadMode(t) \/ GetKeyboard(t) \/ GetTouchPad(t) \/ Decide(t)
             \/ SetKeyboard(t) \/ SetTouchPad(t) \/ Finish(t)

-----------------------------------------------------------------------------
ACPIEvent ==
  /\ moved /\ moved' = FALSE
  /\ Begin("acpi", "event", "read")
  /\ UNCHANGED <<hinge, consumers, enabled, fields, power, phase>>

(* setPowerState: sleep, wake and the first call after registration.       *)
SleepInLaptopMode ==  \* mutant: a flipped machine sleeps with its keyboard off
  /\ power = "on"
  /\ Begin("pm", "sleep", "asleep")
  /\ UNCHANGED <<device, fields, power, phase>>

Sleep ==
  /\ power = "on"
  /\ Begin("pm", "sleep", IF YogaMode # laptop THEN "setKbd" ELSE "asleep")
  /\ UNCHANGED <<device, fields, power, phase>>

Asleep ==
  /\ At("pm", "asleep", "idle")
  /\ power' = "off"
  /\ Settle("left")
  /\ UNCHANGED <<device, fields, phase>>

Wake ==
  /\ power = "off"
  /\ Begin("pm", "wake", "read")
  /\ UNCHANGED <<device, fields, power, phase>>

Stop ==
  /\ phase = "running" /\ power = "on"
  /\ Begin("driver", "stop", IF YogaMode # laptop THEN "setKbd" ELSE "stopped")
  /\ phase' = "stopping"
  /\ UNCHANGED <<device, fields, power>>

(* The gate is released last; no other thread is inside any more.          *)
Stopped ==
  /\ \A t \in Threads \ {"driver"} : pc[t] = "idle"
  /\ At("driver", "stopped", "idle")
  /\ phase' = "stopped"
  /\ Settle("left")
  /\ UNCHANGED <<device, fields, power>>

-----------------------------------------------------------------------------
(* What happens outside: the hinge, the user, the two drivers. *)

Disturbance(drift) == alone' = FALSE /\ settled' = "no" /\ doubts' = doubts \cup drift

(* Nobody need be told of a hinge that moves while the machine sleeps.     *)
MoveHinge ==
  /\ hinge' \in Modes \ {hinge}
  /\ moved' \in IF power = "on" THEN {TRUE} ELSE {moved, TRUE}
  /\ Disturbance({})
  /\ UNCHANGED <<consumers, enabled, fields, power, phase, threads>>

(* The touchpad's own key.                                                 *)
ToggleTouchPad ==
  /\ "tpd" \in consumers
  /\ enabled' = [enabled EXCEPT !["tpd"] = ~@]
  /\ Disturbance({})
  /\ UNCHANGED <<hinge, moved, consumers, fields, power, phase, threads>>

(* A driver publishes itself; one is terminated, and the next is enabled.  *)
Publish(d) ==
  /\ d \notin consumers /\ consumers' = consumers \cup {d}
  /\ Disturbance({"publish"})
  /\ UNCHANGED <<hinge, moved, enabled, fields, power, phase, threads>>

Terminate(d) ==
  /\ d \in consumers /\ consumers' = consumers \ {d}
  /\ enabled' = [enabled EXCEPT ![d] = TRUE]
  /\ Disturbance({})
  /\ UNCHANGED <<hinge, moved, fields, power, phase, threads>>

-----------------------------------------------------------------------------
Init ==
  /\ hinge \in Modes
  /\ moved = FALSE /\ consumers = Drivers /\ enabled = [d \in Drivers |-> TRUE]
  /\ Keyboardenabled = TRUE /\ TouchPadenabled = TRUE /\ YogaMode = laptop
  /\ power = "off" /\ phase = "running"
  /\ pc = [t \in Threads |-> "idle"]
  /\ op = [t \in Threads |-> "none"]
  /\ value = [t \in Threads |-> laptop]
  /\ enable = [t \in Threads |-> TRUE]
  /\ alone = FALSE /\ settled = "no" /\ doubts = {}

Outside == MoveHinge \/ ToggleTouchPad \/ \E d \in Drivers : Publish(d) \/ Terminate(d)

Next == \/ \E t \in Threads : Update(t)
        \/ ACPIEvent \/ Sleep \/ Asleep \/ Wake \/ Stop \/ Stopped
        \/ Outside

Spec == Init /\ [][Next]_vars

-----------------------------------------------------------------------------

Both == consumers = Drivers
AllOn == \A d \in Drivers : enabled[d]
AllOff == \A d \in Drivers : ~enabled[d]

Reading == Quiet /\ settled = "reading" /\ Both

(* Unfolded, the machine can be typed on: one undisturbed reading of       *)
(* laptop mode has both keyboard and touchpad on, whatever was toggled,    *)
(* restarted or missed while asleep before, unless requests have           *)
(* overlapped (IdeaWMI.cpp:86-96).                                         *)
LaptopIsEnabled == Reading /\ hinge = laptop /\ "overlap" \notin doubts => AllOn

(* Flipped, neither reacts, unless YogaMode and the drivers have drifted   *)
(* apart before (IdeaWMI.cpp:98-115).                                      *)
FlippedIsDisabled == Reading /\ hinge \in Flipped /\ doubts = {} => AllOff

(* A machine put to sleep, or one whose driver has been unloaded, is never *)
(* left without a keyboard by an undisturbed call; nor without a touchpad  *)
(* if it was not in laptop mode, in which the touchpad is left to its own  *)
(* key (IdeaWMI.cpp:125-144).                                              *)
LeftEnabled ==
  Quiet /\ settled = "left" /\ Both /\ "overlap" \notin doubts =>
    enabled["kbd"] /\ (YogaMode # laptop => enabled["tpd"])

=============================================================================
