------------------------------ MODULE ThinkVPC ------------------------------
(***************************************************************************)
(* ThinkVPC: the hotkey events of a ThinkPad's firmware, and what they and *)
(* properties and sleep do to the mute LEDs, the Fn lock, clamshell mode   *)
(* and the keyboard and touchpad of a folded machine.                      *)
(*                                                                         *)
(*   acpi   message, for each notification of the firmware                 *)
(*   gate   setPropertiesGated                                             *)
(*   pm     setPowerState                                                  *)
(*                                                                         *)
(* None waits for another.  A thread's program is the sequence of the      *)
(* steps it has left; a step is one access to the firmware, to another     *)
(* driver or to a field that two threads write.                            *)
(***************************************************************************)
EXTENDS Integers, Sequences, FiniteSets

CONSTANTS
  Scenes,       \* the kinds of requests and events a behaviour is made of, by behaviour
  Lights,       \* the values of bits 2 to 4 of AutoBacklight that are tried
  MaxRequests,  \* bound on the requests and events of a behaviour
  MaxFaults     \* bound on the evaluations of firmware methods that fail

ASSUME LightBits == Lights \subseteq SUBSET {"sst", "mute", "mic"}
ASSUME Bounds == MaxRequests \in Nat /\ MaxFaults \in Nat

VARIABLES
  events,      \* the events the firmware has queued (MHKP)
  pending,     \* its notifications that acpi has not been told of
  fold,        \* how the machine is folded
  fnHw, clamHw, muteHw, micHw, sstHw,  \* the firmware's settings and lights
  kbd, tpd,    \* whether keyboard and touchpad react
  FnlockMode, clamshellMode, tabletLike,  \* the last: validModes holds a tablet mode
  muteLEDstate, muteLEDstateSaved, micMuteLEDstate, micMuteLEDstateSaved,
  auto,        \* bits 2 to 4 of automaticBacklightMode: "sst", "mute", "mic"
  subscribed,  \* client is set
  power,
  prog, event, arg, val,  \* each thread's program and locals
  scene, requests, faults,
  answers, steady, raced, calm, before, settled  \* history variables: see below

firmware == <<events, pending, fold, fnHw, clamHw, muteHw, micHw, sstHw, kbd, tpd>>
modes == <<FnlockMode, clamshellMode, tabletLike, auto, subscribed, power>>
leds == <<muteLEDstate, muteLEDstateSaved, micMuteLEDstate, micMuteLEDstateSaved>>
locals == <<event, arg, val>>
bounds == <<scene, requests>>
history == <<answers, steady, raced, calm, before, settled>>
vars == <<firmware, modes, leds, prog, locals, bounds, faults, history>>

Threads == {"acpi", "gate", "pm"}
Folds == {"laptop", "tablet", "unknown"}  \* flat counts as laptop, stand and tent as tablet
Events == {"mic", "sleep", "keyboard", "fnEsc", "tablet", "other"}

Idle(t) == prog[t] = <<>>
Quiet == \A t \in Threads : Idle(t)
On(t, step) == prog[t] # <<>> /\ Head(prog[t]) = step
Others(t, step) == \E u \in Threads \ {t} : On(u, step)

(* The rest of the program, the same without its next n steps, or after    *)
(* some more.                                                              *)
Advance(t) == prog' = [prog EXCEPT ![t] = Tail(@)]
Skip(t, n) == prog' = [prog EXCEPT ![t] = SubSeq(@, n + 1, Len(@))]
Insert(t, steps) == prog' = [prog EXCEPT ![t] = steps \o Tail(@)]

Fails == faults < MaxFaults /\ faults' = faults + 1
Works == UNCHANGED faults

(* A local that has served its turn. *)
Forget(local, t) == [local EXCEPT ![t] = FALSE]

(* Something happens.  calm: nothing but a sleep that began alone and the  *)
(* wake after it has happened since the machine was put to sleep, with its *)
(* lights `before`; settled: an undisturbed reading of the fold was the    *)
(* last thing that happened.                                               *)
Count(kind) ==
  /\ kind \in scene /\ UNCHANGED scene
  /\ requests < MaxRequests /\ requests' = requests + 1
Disturb == calm' = FALSE /\ settled' = "no"

Begin(kind, t, steps) ==
  /\ Idle(t) /\ Count(kind)
  /\ prog' = [prog EXCEPT ![t] = steps]
  /\ settled' = IF Quiet THEN "alone" ELSE "no"

-----------------------------------------------------------------------------
(* The firmware, the user and the application. *)

Queue(e) == events' = Append(events, e) /\ pending' = pending + 1

Key(e) ==
  /\ Count(e) /\ Queue(e) /\ Disturb
  /\ fnHw' = IF e = "fnEsc" THEN ~fnHw ELSE fnHw
  /\ fold' \in IF e = "tablet" THEN Folds \ {fold} ELSE {fold}
  /\ UNCHANGED <<clamHw, muteHw, micHw, sstHw, kbd, tpd, modes, leds, prog, locals, faults>>
  /\ UNCHANGED <<answers, steady, raced, before>>

Subscription ==
  /\ Count("client") /\ Disturb
  /\ subscribed' = ~subscribed
  /\ steady' = [t \in Threads |-> FALSE]
  /\ UNCHANGED <<firmware, FnlockMode, clamshellMode, tabletLike, auto, power, leds, prog, locals, faults>>
  /\ UNCHANGED <<answers, raced, before>>

-----------------------------------------------------------------------------
(* The requests: a notification, a property, sleep and wake. *)

MessageIfIdle ==  \* mutant: a notification that comes while another is handled is dropped
  /\ pending > 0 /\ pending' = pending - 1
  /\ prog' = [prog EXCEPT !["acpi"] = IF @ = <<>> THEN <<"take">> ELSE @]
  /\ settled' = "no" /\ calm' = FALSE
  /\ UNCHANGED <<events, fold, fnHw, clamHw, muteHw, micHw, sstHw, kbd, tpd, modes, leds, locals>>
  /\ UNCHANGED <<bounds, faults, answers, steady, raced, before>>

Message ==
  /\ pending > 0 /\ pending' = pending - 1
  /\ prog["acpi"] = <<>>
  /\ prog' = [prog EXCEPT !["acpi"] = <<"take">>]
  /\ settled' = IF Quiet THEN "alone" ELSE "no"
  /\ calm' = FALSE
  /\ UNCHANGED <<events, fold, fnHw, clamHw, muteHw, micHw, sstHw, kbd, tpd, modes, leds, locals>>
  /\ UNCHANGED <<bounds, faults, answers, steady, raced, before>>

SetProperty(name, steps, x) ==
  /\ Begin(name, "gate", steps)
  /\ arg' = [arg EXCEPT !["gate"] = x]
  /\ calm' = FALSE
  /\ UNCHANGED <<firmware, modes, leds, event, val, faults>>
  /\ UNCHANGED <<answers, steady, raced, before>>

updateAll == <<"readFn", "keepFn", "readMute", "take", "readFold", "topKbd", "topTpd", "readClam">>

setPropertiesGated ==
  \/ \E on \in BOOLEAN : \/ SetProperty("MuteLED", <<"setMute">>, on)
                         \/ SetProperty("MicMuteLED", <<"setMic", "keepMic">>, on)
                         \/ SetProperty("FnKey", <<"readFn", "keepFn", "setFn", "keepSetFn">>, on)
                         \/ SetProperty("Clamshell", <<"readClam", "setClam">>, on)
  \/ SetProperty("Update", updateAll, FALSE)

SetAuto ==
  /\ Idle("gate") /\ Count("AutoBacklight") /\ Disturb
  /\ auto' \in Lights \ {auto}
  /\ UNCHANGED <<firmware, FnlockMode, clamshellMode, tabletLike, subscribed, power, leds, prog, locals, faults>>
  /\ UNCHANGED <<answers, steady, raced, before>>

Sleep ==
  /\ power = "on" /\ power' = "falling"
  /\ Begin("power", "pm", <<"sst", "saveMute", "saveMic", "asleep">>)
  /\ calm' = (Quiet /\ "mic" \notin raced)
  /\ before' = [mic |-> micHw, mute |-> muteHw, known |-> muteLEDstate = muteHw]
  /\ UNCHANGED <<firmware, FnlockMode, clamshellMode, tabletLike, auto, subscribed, leds, locals, faults>>
  /\ UNCHANGED <<answers, steady, raced>>

Wake ==
  /\ power = "off" /\ power' = "rising"
  /\ Begin("power", "pm", <<"sst", "restoreMute", "restoreMic", "awake">>)
  /\ calm' = (calm /\ Quiet)
  /\ UNCHANGED <<firmware, FnlockMode, clamshellMode, tabletLike, auto, subscribed, leds, locals, faults>>
  /\ UNCHANGED <<answers, steady, raced, before>>

-----------------------------------------------------------------------------
(* updateVPC: one event of the firmware's queue, if there is one. *)

Handler(e) ==
  CASE e = "mic" -> <<"answer", "notify">>
    [] e = "sleep" -> <<"answer", "notify">>
    [] e = "keyboard" -> <<"getKbd", "setKbd", "notify">>
    [] e = "fnEsc" -> <<"readFn", "keepFn", "notify">>
    [] e = "tablet" -> <<"readFold", "topKbd", "topTpd", "clamshell", "notify">>
    [] e = "other" -> <<"notify">>

Take(t) ==
  /\ On(t, "take")
  /\ \/ /\ events # <<>> /\ Works
        /\ events' = Tail(events)
        /\ event' = [event EXCEPT ![t] = Head(events)]
        /\ Insert(t, Handler(Head(events)))
        /\ answers' = [answers EXCEPT ![t] = 0] /\ steady' = [steady EXCEPT ![t] = TRUE]
     \/ /\ (events = <<>> /\ Works) \/ Fails
        /\ Advance(t)
        /\ UNCHANGED <<events, event, answers, steady>>
  /\ UNCHANGED <<pending, fold, fnHw, clamHw, muteHw, micHw, sstHw, kbd, tpd, modes, leds, arg, val>>
  /\ UNCHANGED <<bounds, raced, calm, before, settled>>

AnswerAlways(t) ==  \* mutant: an application is not looked for
  /\ On(t, "answer")
  /\ Insert(t, IF event[t] = "mic" THEN <<"setMic", "keepMic">> ELSE <<>>)
  /\ arg' = [arg EXCEPT ![t] = event[t] = "mic" /\ ~micMuteLEDstate]
  /\ answers' = [answers EXCEPT ![t] = @ + 1]
  /\ UNCHANGED <<firmware, modes, leds, event, val, bounds, faults, steady, raced, calm, before, settled>>

(* Without an application the driver toggles the microphone's light and    *)
(* puts the machine to sleep itself.                                       *)
Answer(t) ==
  /\ On(t, "answer")
  /\ IF subscribed THEN Advance(t) /\ UNCHANGED <<arg, answers>>
     ELSE /\ Insert(t, IF event[t] = "mic" THEN <<"setMic", "keepMic">> ELSE <<>>)
          /\ arg' = [arg EXCEPT ![t] = event[t] = "mic" /\ ~micMuteLEDstate]
          /\ answers' = [answers EXCEPT ![t] = @ + 1]
  /\ UNCHANGED <<firmware, modes, leds, event, val, bounds, faults, steady, raced, calm, before, settled>>

Notify(t) ==
  /\ On(t, "notify")
  /\ Advance(t)
  /\ answers' = [answers EXCEPT ![t] = IF subscribed THEN @ + 1 ELSE @]
  /\ UNCHANGED <<firmware, modes, leds, locals, bounds, faults, steady, raced, calm, before, settled>>

(* In clamshell mode nobody is told that the machine has been folded. *)
Clamshell(t) ==
  /\ On(t, "clamshell")
  /\ Skip(t, IF clamshellMode THEN 2 ELSE 1)
  /\ UNCHANGED <<firmware, modes, leds, locals, bounds, faults, history>>

(* toggleKeyboard. *)
GetKeyboard(t) ==
  /\ On(t, "getKbd")
  /\ val' = [val EXCEPT ![t] = ~kbd]
  /\ Advance(t)
  /\ UNCHANGED <<firmware, modes, leds, event, arg, bounds, faults, history>>

SetKeyboard(t) ==
  /\ On(t, "setKbd")
  /\ kbd' = val[t]
  /\ val' = Forget(val, t)
  /\ Advance(t)
  /\ UNCHANGED <<events, pending, fold, fnHw, clamHw, muteHw, micHw, sstHw, tpd>>
  /\ UNCHANGED <<modes, leds, event, arg, bounds, faults, history>>

-----------------------------------------------------------------------------
(* updateYogaMode: keyboard and touchpad of a folded machine. *)

ReadFold(t) ==
  /\ On(t, "readFold")
  /\ \/ Fails /\ Skip(t, 3) /\ UNCHANGED val
     \/ Works /\ fold = "laptop" /\ ~tabletLike /\ Skip(t, 3) /\ UNCHANGED val
     \/ /\ Works /\ (fold # "laptop" \/ tabletLike)
        /\ val' = [val EXCEPT ![t] = fold = "tablet"]
        /\ Advance(t)
  /\ UNCHANGED <<firmware, modes, leds, event, arg, bounds, history>>

TopKeyboardOff(t) ==  \* mutant: clamshell mode does not keep the keyboard on
  /\ On(t, "topKbd")
  /\ kbd' = ~val[t]
  /\ arg' = [arg EXCEPT ![t] = kbd']
  /\ Advance(t)
  /\ UNCHANGED <<events, pending, fold, fnHw, clamHw, muteHw, micHw, sstHw, tpd>>
  /\ UNCHANGED <<modes, leds, event, val, bounds, faults, history>>

TopKeyboard(t) ==
  /\ On(t, "topKbd")
  /\ kbd' = (~val[t] \/ clamshellMode)
  /\ arg' = [arg EXCEPT ![t] = kbd']
  /\ Advance(t)
  /\ UNCHANGED <<events, pending, fold, fnHw, clamHw, muteHw, micHw, sstHw, tpd>>
  /\ UNCHANGED <<modes, leds, event, val, bounds, faults, history>>

TopTouchPad(t) ==
  /\ On(t, "topTpd")
  /\ tpd' = arg[t]
  /\ arg' = Forget(arg, t) /\ val' = Forget(val, t)
  /\ settled' = IF settled = "alone" /\ clamshellMode = clamHw THEN "reading" ELSE settled
  /\ Advance(t)
  /\ UNCHANGED <<events, pending, fold, fnHw, clamHw, muteHw, micHw, sstHw, kbd>>
  /\ UNCHANGED <<modes, leds, event, bounds, faults, answers, steady, raced, calm, before>>

(* updateClamshell and toggleClamshell: gate is alone in changing it. *)
ReadClamshell(t) ==
  /\ On(t, "readClam")
  /\ \/ Fails /\ UNCHANGED clamshellMode
     \/ Works /\ clamshellMode' = clamHw
  /\ Advance(t)
  /\ UNCHANGED <<firmware, FnlockMode, tabletLike, auto, subscribed, power, leds, locals, bounds, history>>

SetClamshell(t) ==
  /\ On(t, "setClam")
  /\ \/ Works /\ arg[t] = clamshellMode /\ UNCHANGED <<clamHw, clamshellMode>>
     \/ Fails /\ arg[t] # clamshellMode /\ UNCHANGED <<clamHw, clamshellMode>>
     \/ Works /\ arg[t] # clamshellMode /\ clamHw' = arg[t] /\ clamshellMode' = arg[t]
  /\ Advance(t) /\ arg' = Forget(arg, t)
  /\ UNCHANGED <<events, pending, fold, fnHw, muteHw, micHw, sstHw, kbd, tpd>>
  /\ UNCHANGED <<FnlockMode, tabletLike, auto, subscribed, power, leds, event, val, bounds, history>>

-----------------------------------------------------------------------------
(* The Fn lock and the microphone's light are set in the firmware and then *)
(* kept, by any thread.  raced: a thread has set or read one while another *)
(* had still to keep what it had, and none has done so undisturbed since.  *)

Race(t, what, keeping) ==
  raced' = IF \E s \in keeping : Others(t, s) THEN raced \cup {what} ELSE raced \ {what}

ReadFn(t) ==
  /\ On(t, "readFn")
  /\ \/ Works /\ Advance(t) /\ Race(t, "fn", {"keepFn", "keepSetFn"}) /\ val' = [val EXCEPT ![t] = fnHw]
     \/ Fails /\ Skip(t, 2) /\ UNCHANGED <<raced, val>>
  /\ UNCHANGED <<firmware, modes, leds, event, arg, bounds, answers, steady, calm, before, settled>>

KeepFn(t) ==
  /\ On(t, "keepFn") \/ On(t, "keepSetFn")
  /\ FnlockMode' = val[t]
  /\ Advance(t) /\ val' = Forget(val, t)
  /\ UNCHANGED <<firmware, clamshellMode, tabletLike, auto, subscribed, power, leds>>
  /\ UNCHANGED <<event, arg, bounds, faults, history>>

SetFnBlindly(t) ==  \* mutant: what is asked for is kept, the firmware is not asked
  /\ On(t, "setFn") /\ Works
  /\ Advance(t) /\ Race(t, "fn", {"keepFn", "keepSetFn"})
  /\ val' = [val EXCEPT ![t] = arg[t]] /\ arg' = Forget(arg, t)
  /\ UNCHANGED <<firmware, modes, leds, event, bounds, answers, steady, calm, before, settled>>

SetFn(t) ==
  /\ On(t, "setFn")
  /\ arg' = Forget(arg, t)
  /\ \/ /\ arg[t] # FnlockMode /\ Works
        /\ fnHw' = ~FnlockMode /\ val' = [val EXCEPT ![t] = fnHw']
        /\ Advance(t) /\ Race(t, "fn", {"keepFn", "keepSetFn"})
     \/ /\ IF arg[t] = FnlockMode THEN Works ELSE Fails
        /\ Skip(t, 2)
        /\ UNCHANGED <<fnHw, val, raced>>
  /\ UNCHANGED <<events, pending, fold, clamHw, muteHw, micHw, sstHw, kbd, tpd>>
  /\ UNCHANGED <<modes, leds, event, bounds, answers, steady, calm, before, settled>>

SetMic(t) ==
  /\ On(t, "setMic")
  /\ \/ /\ Works
        /\ micHw' = arg[t]
        /\ Advance(t) /\ Race(t, "mic", {"keepMic"}) /\ UNCHANGED arg
     \/ Fails /\ Skip(t, 2) /\ arg' = Forget(arg, t) /\ UNCHANGED <<micHw, raced>>
  /\ calm' = (calm /\ faults' = faults)
  /\ UNCHANGED <<events, pending, fold, fnHw, clamHw, muteHw, sstHw, kbd, tpd>>
  /\ UNCHANGED <<modes, leds, event, val, bounds, answers, steady, before, settled>>

KeepMic(t) ==
  /\ On(t, "keepMic")
  /\ micMuteLEDstate' = arg[t]
  /\ Advance(t) /\ arg' = Forget(arg, t)
  /\ UNCHANGED <<firmware, modes, muteLEDstate, muteLEDstateSaved, micMuteLEDstateSaved>>
  /\ UNCHANGED <<event, val, bounds, faults, history>>

(* The mute light: muteLEDstate is what was last read, not what was set.   *)
ReadMute(t) ==
  /\ On(t, "readMute")
  /\ Advance(t)
  /\ \/ Fails /\ UNCHANGED muteLEDstate
     \/ Works /\ muteLEDstate' = muteHw
  /\ UNCHANGED <<firmware, modes, muteLEDstateSaved, micMuteLEDstate, micMuteLEDstateSaved>>
  /\ UNCHANGED <<locals, bounds, history>>

SetMute(t) ==
  /\ On(t, "setMute")
  /\ Advance(t)
  /\ \/ Fails /\ UNCHANGED muteHw
     \/ Works /\ muteHw' = arg[t]
  /\ arg' = Forget(arg, t)
  /\ calm' = (calm /\ faults' = faults)
  /\ UNCHANGED <<events, pending, fold, fnHw, clamHw, micHw, sstHw, kbd, tpd>>
  /\ UNCHANGED <<modes, leds, event, val, bounds, answers, steady, raced, before, settled>>

-----------------------------------------------------------------------------
(* setPowerState. *)

Indicate(t) ==
  /\ On(t, "sst")
  /\ Advance(t)
  /\ \/ "sst" \in auto /\ Works /\ sstHw' = power
     \/ "sst" \in auto /\ Fails /\ UNCHANGED sstHw
     \/ "sst" \notin auto /\ Works /\ UNCHANGED sstHw
  /\ calm' = (calm /\ faults' = faults)
  /\ UNCHANGED <<events, pending, fold, fnHw, clamHw, muteHw, micHw, kbd, tpd>>
  /\ UNCHANGED <<modes, leds, locals, bounds, answers, steady, raced, before, settled>>

Darken(t, light, steps) ==
  /\ Insert(t, IF light THEN steps ELSE <<>>)
  /\ arg' = [arg EXCEPT ![t] = FALSE]

SaveMute(t) ==
  /\ On(t, "saveMute")
  /\ IF "mute" \in auto
     THEN muteLEDstateSaved' = muteLEDstate /\ Darken(t, muteLEDstate, <<"setMute">>)
     ELSE Advance(t) /\ UNCHANGED <<arg, muteLEDstateSaved>>
  /\ UNCHANGED <<firmware, modes, muteLEDstate, micMuteLEDstate, micMuteLEDstateSaved>>
  /\ UNCHANGED <<event, val, bounds, faults, history>>

SaveMic(t) ==
  /\ On(t, "saveMic")
  /\ IF "mic" \in auto
     THEN micMuteLEDstateSaved' = micMuteLEDstate /\ Darken(t, micMuteLEDstate, <<"setMic", "keepMic">>)
     ELSE Advance(t) /\ UNCHANGED <<arg, micMuteLEDstateSaved>>
  /\ UNCHANGED <<firmware, modes, muteLEDstate, muteLEDstateSaved, micMuteLEDstate>>
  /\ UNCHANGED <<event, val, bounds, faults, history>>

Restore(t, light, saved, steps) ==
  /\ Insert(t, IF light \in auto /\ saved THEN steps ELSE <<>>)
  /\ arg' = [arg EXCEPT ![t] = light \in auto /\ saved]
  /\ UNCHANGED <<firmware, modes, leds, event, val, bounds, faults, history>>

RestoreMicNow(t) ==  \* mutant: the light is restored from the state it has now
  On(t, "restoreMic") /\ Restore(t, "mic", micMuteLEDstate, <<"setMic", "keepMic">>)

RestoreMute(t) == On(t, "restoreMute") /\ Restore(t, "mute", muteLEDstateSaved, <<"setMute">>)
RestoreMic(t) == On(t, "restoreMic") /\ Restore(t, "mic", micMuteLEDstateSaved, <<"setMic", "keepMic">>)

EndOfPowerState(t) ==
  /\ On(t, "asleep") \/ On(t, "awake")
  /\ power' = IF On(t, "asleep") THEN "off" ELSE "on"
  /\ Advance(t)
  /\ UNCHANGED <<firmware, FnlockMode, clamshellMode, tabletLike, auto, subscribed, leds>>
  /\ UNCHANGED <<locals, bounds, faults, history>>

-----------------------------------------------------------------------------
(* After start: initVPC darkens the microphone's light, and updateAll reads *)
(* the rest, how the machine is folded before whether clamshell mode is on;*)
(* only then are notifications delivered.                                  *)
Init ==
  /\ scene \in Scenes
  /\ events = <<>> /\ pending = 0
  /\ fold \in Folds /\ tabletLike \in BOOLEAN
  /\ fnHw = FALSE /\ clamHw \in BOOLEAN /\ muteHw = FALSE /\ micHw = FALSE /\ sstHw = "rising"
  /\ kbd = (fold # "tablet") /\ tpd = kbd
  /\ FnlockMode = fnHw /\ clamshellMode = clamHw
  /\ muteLEDstate = muteHw /\ muteLEDstateSaved = FALSE
  /\ micMuteLEDstate = micHw /\ micMuteLEDstateSaved = FALSE
  /\ auto \in Lights /\ subscribed = FALSE /\ power = "on"
  /\ prog = [t \in Threads |-> <<>>]
  /\ event = [t \in Threads |-> "other"]
  /\ arg = [t \in Threads |-> FALSE] /\ val = [t \in Threads |-> FALSE]
  /\ requests = 0 /\ faults = 0
  /\ answers = [t \in Threads |-> 0] /\ steady = [t \in Threads |-> FALSE]
  /\ raced = {} /\ calm = FALSE /\ settled = "no"
  /\ before = [mic |-> FALSE, mute |-> FALSE, known |-> FALSE]

Outside == (\E e \in Events : Key(e)) \/ Subscription \/ Message \/ setPropertiesGated \/ SetAuto

Step(t) ==
  \/ Take(t) \/ Answer(t) \/ Notify(t) \/ Clamshell(t)
  \/ GetKeyboard(t) \/ SetKeyboard(t)
  \/ ReadFold(t) \/ TopKeyboard(t) \/ TopTouchPad(t) \/ ReadClamshell(t) \/ SetClamshell(t)
  \/ ReadFn(t) \/ KeepFn(t) \/ SetFn(t) \/ SetMic(t) \/ KeepMic(t) \/ ReadMute(t) \/ SetMute(t)

PowerStep(t) ==
  Indicate(t) \/ SaveMute(t) \/ SaveMic(t) \/ RestoreMute(t) \/ RestoreMic(t) \/ EndOfPowerState(t)

(* The bound is reached and all is done. *)
Rest == requests = MaxRequests /\ Quiet /\ pending = 0 /\ UNCHANGED vars

Next == Outside \/ Sleep \/ Wake \/ (\E t \in Threads : Step(t)) \/ PowerStep("pm") \/ Rest

Spec == Init /\ [][Next]_vars

-----------------------------------------------------------------------------

(* No event of the firmware is left in its queue for the next key to bring *)
(* out: one notification or one thread is still to come for each, unless   *)
(* the firmware has failed to answer (ThinkVPC.cpp:706-716).               *)
EventsAreAnnounced ==
  faults = 0 => Len(events) <= pending + Cardinality({t \in Threads : \E i \in DOMAIN prog[t] : prog[t][i] = "take"})

(* The microphone and sleep keys are answered by the driver or by the      *)
(* application, never by both and never by none, unless the application    *)
(* came or went meanwhile (ThinkVPC.cpp:732-741, 890-891).                 *)
AnsweredOnce ==
  \A t \in Threads : Idle(t) /\ steady[t] /\ event[t] \in {"mic", "sleep"} => answers[t] = 1

(* The driver's idea of the Fn lock is the firmware's, unless two threads  *)
(* have raced or the firmware has failed to answer; a change by Fn+Esc     *)
(* comes with an event (ThinkVPC.cpp:899-925, YogaVPC.cpp:251-259).        *)
FnLockAgrees ==
  Quiet /\ faults = 0 /\ "fn" \notin raced /\ (\A i \in DOMAIN events : events[i] # "fnEsc") => FnlockMode = fnHw

(* A machine that sleeps shows that it does and has its microphone's light *)
(* off, and the mute light if the driver knew of it; when it wakes         *)
(* undisturbed they are as before (ThinkVPC.cpp:1083-1105,                 *)
(* YogaVPC.hpp:184-190).                                                   *)
LightsFollowSleep ==
  Quiet /\ calm =>
    /\ "sst" \in auto => sstHw = IF power = "off" THEN "falling" ELSE "rising"
    /\ "mic" \in auto => micHw = (power = "on" /\ before.mic)
    /\ "mute" \in auto /\ before.known => muteHw = (power = "on" /\ before.mute)

(* After an undisturbed reading of how the machine is folded, keyboard and *)
(* touchpad react unless it is a tablet, and then too in clamshell mode    *)
(* (ThinkVPC.cpp:662-703).                                                 *)
TopCaseFollowsFold ==
  Quiet /\ settled = "reading" => kbd = tpd /\ kbd = (fold # "tablet" \/ clamHw)

=============================================================================
