------------------------------ MODULE IdeaModes ------------------------------
(***************************************************************************)
(* IdeaVPC: the battery modes, the Fn lock, always-on USB and the keyboard *)
(* backlight of a folding IdeaPad.  The firmware has them; the driver keeps*)
(* what it last read or set, and sets most by toggling that.               *)
(*                                                                         *)
(*   gate   setPropertiesGated                                             *)
(*   smc    message, kSMC_setConservation, for the SMC key BDVT            *)
(*   wmi    message, kSMC_YogaEvent and kSMC_FnlockEvent                   *)
(*   acpi   updateVPC, for the firmware's keyboard events                  *)
(*                                                                         *)
(* None waits for another.  A thread's program is the sequence of the      *)
(* steps it has left, each with the mode it is about.                      *)
(***************************************************************************)
EXTENDS Integers, Sequences

CONSTANTS
  Scenes,       \* the kinds of requests and events a behaviour is made of, by behaviour
  MaxRequests,  \* bound on the requests and events of a behaviour
  MaxFaults,    \* bound on the evaluations of firmware methods that fail
  None

ASSUME Bounds == MaxRequests \in Nat /\ MaxFaults \in Nat

VARIABLES
  hw,          \* the firmware's modes
  light,       \* its keyboard backlight: off, low or high
  pending,     \* its events that acpi has not been told of
  fold,
  mode,        \* conservationMode, rapidChargeMode, FnlockMode, alwaysOnUSBMode
  conservationModeLock, rapidChargeCap, onYogaMode,  \* the last: bit 1 of automaticBacklightMode
  backlightLevel, backlightLevelSaved,
  prog, arg, val, group,  \* each thread's program, locals, and the methods it uses
  scene, requests, faults,
  alone, agreed, asked, calm, before  \* history variables: see below

firmware == <<hw, light, pending, fold>>
driver == <<mode, conservationModeLock, backlightLevel, backlightLevelSaved>>
machine == <<rapidChargeCap, onYogaMode, scene>>
history == <<alone, agreed, asked, calm, before>>
vars == <<firmware, driver, machine, prog, arg, val, group, requests, faults, history>>

Threads == {"gate", "smc", "wmi", "acpi"}
Modes == {"conservation", "rapid", "fn", "usb"}
Folds == {"laptop", "tablet", "stand"}  \* stand and tent are one

Quiet == \A t \in Threads : prog[t] = <<>>
On(t, step) == prog[t] # <<>> /\ Head(prog[t])[1] = step
Of(t) == Head(prog[t])[2]

Advance(t) == prog' = [prog EXCEPT ![t] = Tail(@)]
Skip(t, n) == prog' = [prog EXCEPT ![t] = SubSeq(@, n + 1, Len(@))]
Insert(t, steps) == prog' = [prog EXCEPT ![t] = steps \o Tail(@)]

Fails == faults < MaxFaults /\ faults' = faults + 1
Works == UNCHANGED faults

Count(kind) == kind \in scene /\ requests < MaxRequests /\ requests' = requests + 1

(* A program begins on thread t that uses the methods gs, "bat" or "kbd".  *)
(* alone: no other that uses one of them has run with it.  agreed: none    *)
(* have, or one has read it alone since.  calm: nothing has happened but   *)
(* one folding of the machine and the one back, whose light was on or off  *)
(* `before`; asked: what was last asked for alone, and did not fail.       *)
Begin(t, gs, steps, x) ==
  /\ prog[t] = <<>>
  /\ prog' = [prog EXCEPT ![t] = steps]
  /\ arg' = [arg EXCEPT ![t] = x]
  /\ group' = [group EXCEPT ![t] = gs]
  /\ LET overlaps == {u \in Threads \ {t} : prog[u] # <<>> /\ group[u] \cap gs # {}}
     IN /\ alone' = [u \in Threads |-> IF u = t THEN overlaps = {} ELSE alone[u] /\ u \notin overlaps]
        /\ agreed' = IF overlaps = {} THEN agreed ELSE agreed \ gs
  /\ UNCHANGED <<hw, light, driver, machine, val, faults>>

GroupOf(f) == IF f \in {"conservation", "rapid"} THEN "bat" ELSE "kbd"
Ask(t, f, x) ==
  asked' = IF alone'[t] THEN [asked EXCEPT ![f] = x] ELSE [g \in Modes |-> IF GroupOf(g) = GroupOf(f) THEN None ELSE asked[g]]
Nobody(gs) == asked' = [f \in Modes |-> IF GroupOf(f) \in gs THEN None ELSE asked[f]]

-----------------------------------------------------------------------------
(* The requests. *)
ReadBattery == << <<"getBattery", "bat">>, <<"setBattery", "bat">> >>
ReadKeyboard == << <<"getKeyboard", "kbd">>, <<"setKeyboard", "kbd">> >>
ReadKey == << <<"getKeyboard", "kbd">>, <<"setKeyboard", "key">> >>
Read(f) == IF GroupOf(f) = "bat" THEN ReadBattery ELSE ReadKeyboard

Request(f, x) ==
  /\ Count(f)
  /\ Begin("gate", {GroupOf(f)}, Read(f) \o << <<"compare", f>> >>, x)
  /\ IF f # "rapid" \/ rapidChargeCap THEN Ask("gate", f, x)
     ELSE IF alone'["gate"] THEN UNCHANGED asked ELSE Nobody({"bat"})
  /\ calm' = FALSE
  /\ UNCHANGED <<pending, fold, before>>

(* updateAll takes the firmware's events, and reads the keyboard again as  *)
(* YogaVPC's updateAll does.                                               *)
UpdateAll == ReadBattery \o ReadKeyboard \o << <<"events", "kbd">> >> \o ReadKeyboard

Update ==
  /\ Count("update")
  /\ Begin("gate", {"bat", "kbd"}, UpdateAll, FALSE)
  /\ IF alone'["gate"] THEN UNCHANGED asked ELSE Nobody({"bat", "kbd"})
  /\ calm' = FALSE
  /\ UNCHANGED <<pending, fold, before>>

(* The property "Battery" locks conservation mode; Reset finds a battery   *)
(* that is critical, or not.                                               *)
SetLock ==
  /\ Count("lock") /\ prog["gate"] = <<>>
  /\ conservationModeLock' \in BOOLEAN
  /\ asked' = IF prog["smc"] = <<>> THEN asked ELSE [asked EXCEPT !.conservation = None]
  /\ UNCHANGED <<firmware, mode, backlightLevel, backlightLevelSaved, machine, prog, arg, val, group, faults>>
  /\ UNCHANGED <<alone, agreed, calm, before>>

BDVT(x) ==
  /\ Count("bdvt")
  /\ Begin("smc", {"bat"}, << <<"bdvt", "conservation">> >>, x)
  /\ IF conservationModeLock THEN IF alone'["smc"] THEN UNCHANGED asked ELSE Nobody({"bat"})
     ELSE IF "bat" \in agreed' THEN Ask("smc", "conservation", x) ELSE Nobody({"bat"})
  /\ calm' = FALSE
  /\ UNCHANGED <<pending, fold, before>>

FnlockEvent ==
  /\ Count("fnlock")
  /\ Begin("wmi", {"kbd"}, ReadKeyboard \o << <<"flip", "fn">> >>, FALSE)
  /\ Ask("wmi", "fn", ~hw.fn)
  /\ calm' = FALSE
  /\ UNCHANGED <<pending, fold, before>>

YogaEvent(f) ==
  /\ Count("fold") /\ fold' = f
  /\ Begin("wmi", {"kbd"}, IF onYogaMode THEN ReadKeyboard \o << <<"yoga", "kbd">> >> ELSE <<>>, f = "laptop")
  /\ IF Quiet THEN UNCHANGED asked ELSE Nobody({"kbd"})
  /\ calm' = (IF fold = "laptop" /\ f # "laptop" THEN Quiet /\ pending = 0 ELSE calm /\ Quiet /\ f = "laptop" /\ fold # "laptop")
  /\ before' = IF fold = "laptop" THEN light > 0 ELSE before
  /\ UNCHANGED pending

KeyPress ==
  /\ Count("key")
  /\ light' = (light + 1) % 3 /\ pending' = pending + 1
  /\ calm' = FALSE
  /\ UNCHANGED <<hw, fold, driver, machine, prog, arg, val, group, faults, alone, agreed, asked, before>>

KeyboardEvent ==
  /\ pending > 0 /\ pending' = pending - 1
  /\ Begin("acpi", {"kbd"}, ReadKey, FALSE)
  /\ IF alone'["acpi"] THEN UNCHANGED asked ELSE Nobody({"kbd"})
  /\ UNCHANGED <<fold, requests, calm, before>>

-----------------------------------------------------------------------------
(* updateBattery and updateKeyboard: what is read is kept a step later. *)
Failed(t, n) ==
  /\ Fails /\ Skip(t, n)
  /\ calm' = FALSE /\ Nobody(group[t])
  /\ UNCHANGED <<firmware, driver, machine, arg, val, group, requests, alone, agreed, before>>

Get(t) ==
  /\ On(t, "getBattery") \/ On(t, "getKeyboard")
  /\ \/ /\ Works /\ Advance(t)
        /\ val' = [val EXCEPT ![t] = [modes |-> hw, lit |-> light > 0]]
        /\ UNCHANGED <<firmware, driver, machine, arg, group, requests, history>>
     \/ Failed(t, 2)

(* updateVPC in updateAll: a keyboard event that acpi has not got to.      *)
Events(t) ==
  /\ On(t, "events")
  /\ \/ /\ Works
        /\ \/ pending = 0 /\ UNCHANGED pending /\ Advance(t)
           \/ pending > 0 /\ pending' = pending - 1 /\ Insert(t, ReadKey)
        /\ UNCHANGED <<hw, light, fold, driver, machine, arg, val, group, requests, history>>
     \/ Failed(t, 1)

Agree(t, g) == agreed' = IF alone[t] THEN agreed \cup {g} ELSE agreed

SetBattery(t) ==
  /\ On(t, "setBattery")
  /\ mode' = [mode EXCEPT !.conservation = val[t].modes.conservation,
                          !.rapid = IF rapidChargeCap THEN val[t].modes.rapid ELSE @]
  /\ Advance(t) /\ Agree(t, "bat")
  /\ UNCHANGED <<firmware, conservationModeLock, backlightLevel, backlightLevelSaved>>
  /\ UNCHANGED <<machine, arg, val, group, requests, faults, alone, asked, calm, before>>

(* The level is inferred from the cycle of the key, off, low, high; a      *)
(* reading that no key has asked for leaves it.                            *)
Level(lit, level) == IF ~lit THEN 0 ELSE IF level > 0 THEN 2 ELSE 1

SetKeyboard(t) ==
  /\ On(t, "setKeyboard")
  /\ mode' = [mode EXCEPT !.fn = val[t].modes.fn, !.usb = val[t].modes.usb]
  /\ backlightLevel' = Level(val[t].lit, IF Of(t) # "key" /\ backlightLevel > 0 THEN backlightLevel - 1 ELSE backlightLevel)
  /\ Advance(t) /\ Agree(t, "kbd")
  /\ UNCHANGED <<firmware, conservationModeLock, backlightLevelSaved>>
  /\ UNCHANGED <<machine, arg, val, group, requests, faults, alone, asked, calm, before>>

-----------------------------------------------------------------------------
(* The toggles.  Conservation, rapid charge and USB are toggled from what  *)
(* is kept when the firmware is asked, and kept from what is kept after it *)
(* has answered; the Fn lock is told what to be.                           *)
Toggle(f) == << <<"send", f>>, <<"keep", f>> >>

ToggleAlways(t) ==  \* mutant: conservationModeLock is not looked at
  /\ On(t, "compare") \/ On(t, "bdvt")
  /\ Insert(t, IF arg[t] = mode[Of(t)] \/ (Of(t) = "rapid" /\ ~rapidChargeCap) THEN <<>> ELSE Toggle(Of(t)))
  /\ UNCHANGED <<firmware, driver, machine, arg, val, group, requests, faults, history>>

Compare(t) ==
  /\ On(t, "compare") \/ On(t, "bdvt")
  /\ LET skip == \/ arg[t] = mode[Of(t)]
                 \/ Of(t) = "rapid" /\ ~rapidChargeCap
                 \/ On(t, "bdvt") /\ conservationModeLock
     IN Insert(t, IF skip THEN <<>> ELSE Toggle(Of(t)))
  /\ UNCHANGED <<firmware, driver, machine, arg, val, group, requests, faults, history>>

FlipFn(t) ==
  /\ On(t, "flip")
  /\ arg' = [arg EXCEPT ![t] = ~mode.fn]
  /\ Insert(t, Toggle("fn"))
  /\ UNCHANGED <<firmware, driver, machine, val, group, requests, faults, history>>

Send(t) ==
  /\ On(t, "send")
  /\ \/ /\ Works /\ Advance(t)
        /\ hw' = [hw EXCEPT ![Of(t)] = IF Of(t) = "fn" THEN arg[t] ELSE ~mode[Of(t)]]
        /\ UNCHANGED <<light, pending, fold, driver, machine, arg, val, group, requests, history>>
     \/ Failed(t, 2)

KeepNot(t) ==  \* mutant: what was set is not kept
  /\ On(t, "keep") /\ Advance(t)
  /\ UNCHANGED <<firmware, driver, machine, arg, val, group, requests, faults, history>>

Keep(t) ==
  /\ On(t, "keep")
  /\ mode' = [mode EXCEPT ![Of(t)] = IF Of(t) = "fn" THEN arg[t] ELSE ~@]
  /\ Advance(t)
  /\ UNCHANGED <<firmware, conservationModeLock, backlightLevel, backlightLevelSaved>>
  /\ UNCHANGED <<machine, arg, val, group, requests, faults, history>>

-----------------------------------------------------------------------------
(* The machine is folded: the keyboard's light goes off, and comes back.   *)
SaveNot(t) ==  \* mutant: the level is not saved
  /\ On(t, "yoga")
  /\ LET wanted == IF arg[t] THEN backlightLevelSaved ELSE 0
     IN Insert(t, IF wanted = backlightLevel THEN <<>> ELSE << <<"light", IF wanted > 0 THEN "on" ELSE "off">> >>)
  /\ UNCHANGED <<firmware, driver, machine, arg, val, group, requests, faults, history>>

Yoga(t) ==
  /\ On(t, "yoga")
  /\ backlightLevelSaved' = IF arg[t] THEN backlightLevelSaved ELSE backlightLevel
  /\ LET wanted == IF arg[t] THEN backlightLevelSaved ELSE 0
     IN Insert(t, IF wanted = backlightLevel THEN <<>> ELSE << <<"light", IF wanted > 0 THEN "on" ELSE "off">> >>)
  /\ UNCHANGED <<firmware, mode, conservationModeLock, backlightLevel>>
  /\ UNCHANGED <<machine, arg, val, group, requests, faults, history>>

(* setBacklight does not take the level over: the firmware's event will.   *)
SetBacklight(t) ==
  /\ On(t, "light")
  /\ \/ /\ Works /\ Advance(t)
        /\ light' \in IF Of(t) = "off" THEN {0} ELSE IF light > 0 THEN {light} ELSE {1, 2}
        /\ pending' = IF light' = light THEN pending ELSE pending + 1
        /\ backlightLevel' = IF Of(t) = "on" /\ backlightLevel > 0 THEN backlightLevel - 1 ELSE backlightLevel
        /\ UNCHANGED <<hw, fold, mode, conservationModeLock, backlightLevelSaved>>
        /\ UNCHANGED <<machine, arg, val, group, requests, history>>
     \/ Failed(t, 1)

-----------------------------------------------------------------------------
Init ==
  /\ hw \in [Modes -> BOOLEAN] /\ light \in 0 .. 2 /\ pending = 0 /\ fold = "laptop"
  /\ rapidChargeCap \in BOOLEAN /\ onYogaMode \in BOOLEAN /\ scene \in Scenes
  /\ mode = [hw EXCEPT !.rapid = IF rapidChargeCap THEN @ ELSE FALSE]
  /\ conservationModeLock \in BOOLEAN
  /\ backlightLevel = Level(light > 0, 0) /\ backlightLevelSaved = 0
  /\ prog = [t \in Threads |-> <<>>] /\ arg = [t \in Threads |-> FALSE]
  /\ val = [t \in Threads |-> [modes |-> hw, lit |-> light > 0]]
  /\ group = [t \in Threads |-> {}]
  /\ requests = 0 /\ faults = 0
  /\ alone = [t \in Threads |-> TRUE] /\ agreed = {"bat", "kbd"}
  /\ asked = [f \in Modes |-> None] /\ calm = FALSE /\ before = FALSE

Outside ==
  \/ \E f \in Modes, x \in BOOLEAN : Request(f, x)
  \/ \E x \in BOOLEAN : BDVT(x)
  \/ \E f \in Folds : YogaEvent(f)
  \/ Update \/ SetLock \/ FnlockEvent \/ KeyPress \/ KeyboardEvent

Step(t) ==
  \/ Get(t) \/ Events(t) \/ SetBattery(t) \/ SetKeyboard(t)
  \/ Compare(t) \/ FlipFn(t) \/ Send(t) \/ Keep(t) \/ Yoga(t) \/ SetBacklight(t)

(* The bound is reached and all is done. *)
Rest == requests = MaxRequests /\ Quiet /\ pending = 0 /\ UNCHANGED vars

Next == Outside \/ (\E t \in Threads : Step(t)) \/ Rest

Spec == Init /\ [][Next]_vars

-----------------------------------------------------------------------------
(* What the driver keeps is what the firmware has, whatever evaluations    *)
(* have failed and whatever ran on the other of the two methods, unless    *)
(* two threads have used this one at once and none has read it alone since *)
(* (IdeaVPC.cpp:541-621, 630-656, 676-692).                                *)
Kept(f) == f # "rapid" \/ rapidChargeCap
ModesAgree ==
  Quiet => \A f \in Modes : GroupOf(f) \in agreed /\ Kept(f) => mode[f] = hw[f]

(* What was last asked for alone is set: a request is compared with what   *)
(* the firmware has, not with what the driver thinks it has, an event      *)
(* flips the Fn lock, and the SMC key, which compares with what the driver *)
(* thinks, asks for nothing while conservation mode is locked, or while    *)
(* the two disagree (IdeaVPC.cpp:134-154, 180-216).                        *)
AskedIsSet ==
  Quiet => \A f \in Modes : GroupOf(f) \in agreed /\ asked[f] # None => hw[f] = asked[f]

(* The keyboard of a laptop that has been folded is dark, and after the    *)
(* fold back it is lit if it was before.  For one fold and the one back,   *)
(* which nothing but the firmware's event for the light disturbs: a second *)
(* fold before the machine is a laptop again saves the dark level, and     *)
(* nothing is said of what comes back then (IdeaVPC.cpp:115-131).          *)
YogaRestores ==
  Quiet /\ calm /\ onYogaMode => (light > 0) = (fold = "laptop" /\ before)
=============================================================================
