---------------------------- MODULE TopCaseProofs ----------------------------
(***************************************************************************)
(* For any ways of folding the machine and any readings that are no mode:  *)
(* what an undisturbed reading, sleep or stop does to the keyboard and the *)
(* touchpad, whatever has overlapped or been restarted before.             *)
(***************************************************************************)
EXTENDS TopCase, TLAPS

Readings == {"event", "wake"}
Requested(t) == CASE t = "acpi" -> {"none", "event"} [] t = "pm" -> {"none", "sleep", "wake"}
                  [] t = "driver" -> {"none", "stop"}

(* The steps of each request, and what a message tells a driver: a reading *)
(* what its mode asks for, a sleep or a stop to be enabled.                *)
Steps(o) == CASE o = "none" -> {"idle"}
              [] o = "sleep" -> {"setKbd", "setTpd", "asleep"}
              [] o = "stop" -> {"setKbd", "setTpd", "stopped"}
              [] OTHER -> {"read", "getKbd", "getTpd", "decide", "setKbd", "setTpd", "finish"}

ThreadOK(t) ==
  /\ op[t] \in Requested(t) /\ pc[t] \in Steps(op[t])
  /\ value[t] \in Modes \cup Unknown /\ enable[t] \in BOOLEAN
  /\ op[t] \in Readings /\ pc[t] \in {"setKbd", "setTpd", "finish"} => value[t] \in Modes
  /\ enable[t] <=> (op[t] \in Readings /\ pc[t] \in {"setKbd", "setTpd"} => value[t] = laptop)

TypeOK ==
  /\ hinge \in Modes /\ moved \in BOOLEAN
  /\ consumers \subseteq Drivers
  /\ enabled \in [Drivers -> BOOLEAN]
  /\ Keyboardenabled \in BOOLEAN /\ TouchPadenabled \in BOOLEAN /\ YogaMode \in Modes
  /\ power \in {"off", "on"} /\ phase \in {"running", "stopping", "stopped"}
  /\ DOMAIN pc = Threads /\ DOMAIN op = Threads /\ DOMAIN value = Threads /\ DOMAIN enable = Threads
  /\ \A t \in Threads : ThreadOK(t)
  /\ alone \in BOOLEAN /\ settled \in {"no", "reading", "left"}
  /\ doubts \subseteq {"sleep", "overlap", "publish"}

(* A driver that has not published itself has been told nothing.           *)
Absent == \A d \in Drivers \ consumers : enabled[d]

(* What the history variables say has not overlapped, has not.             *)
Alone(t) == \A u \in Threads \ {t} : pc[u] = "idle"
AloneIsAlone ==
  /\ alone \/ "overlap" \notin doubts => \A t \in Threads : pc[t] # "idle" => Alone(t)
  /\ phase = "stopping" <=> pc["driver"] # "idle"
  /\ phase = "stopped" => Quiet
  /\ op["pm"] = "sleep" => "sleep" \in doubts

(* What an undisturbed request knows of the hinge and the drivers.         *)
Undisturbed(t) ==
  /\ op[t] \in Readings /\ pc[t] # "read" /\ value[t] \in Modes => value[t] = hinge
  /\ pc[t] \in {"getTpd", "decide"} /\ "kbd" \in consumers => Keyboardenabled = enabled["kbd"]
  /\ pc[t] = "decide" /\ "tpd" \in consumers => TouchPadenabled = enabled["tpd"]
  /\ pc[t] = "setTpd" /\ consumers = Drivers => (enabled["kbd"] <=> enable[t])
  /\ pc[t] = "finish" /\ consumers = Drivers => (enabled["kbd"] <=> enabled["tpd"])
  /\ pc[t] \in {"asleep", "stopped"} /\ YogaMode # laptop /\ consumers = Drivers => enabled["tpd"]
AloneInv == alone => \A t \in Threads : Undisturbed(t)

(* The keyboard against YogaMode, which is set only after the messages: it *)
(* is on in laptop mode, and off when the machine has been flipped.        *)
OnFor(t) ==
  /\ pc[t] = "setTpd" => (enable[t] => enabled["kbd"])
  /\ pc[t] = "finish" => (value[t] = laptop => enabled["kbd"])
  /\ pc[t] \in {"asleep", "stopped"} => enabled["kbd"]
  /\ pc[t] \notin {"setTpd", "finish", "asleep", "stopped"} => (YogaMode = laptop => enabled["kbd"])
OffFor(t) ==
  /\ pc[t] = "setTpd" => (enabled["kbd"] => enable[t])
  /\ pc[t] = "finish" => (enabled["kbd"] => value[t] = laptop)
  /\ pc[t] \notin {"setTpd", "finish"} => (enabled["kbd"] => YogaMode = laptop)
OnInv == "overlap" \notin doubts => \A t \in Threads : Alone(t) => OnFor(t)
OffInv == doubts = {} /\ phase = "running" /\ "kbd" \in consumers =>
            \A t \in Threads : Alone(t) => OffFor(t)

(* What an undisturbed request has left behind.                            *)
SettledInv ==
  /\ settled # "no" => Quiet
  /\ settled = "reading" =>
       /\ phase = "running" /\ YogaMode = hinge
       /\ consumers = Drivers => (enabled["kbd"] <=> enabled["tpd"])
  /\ settled = "left" /\ "overlap" \notin doubts => enabled["kbd"]
  /\ settled = "left" /\ consumers = Drivers => (YogaMode # laptop => enabled["tpd"])

TopCaseInv == /\ TypeOK /\ Absent /\ AloneIsAlone
              /\ AloneInv /\ OnInv /\ OffInv /\ SettledInv

-----------------------------------------------------------------------------
USE DEF Threads, Drivers

(* A thread that is idle has no request.                                   *)
LEMMA IdleIsNone ==
  ASSUME NEW t \in Threads, ThreadOK(t)
  PROVE  pc[t] = "idle" <=> op[t] = "none"
  BY DEF ThreadOK, Steps, Requested

(* What a thread in the course of its request can rely on.                 *)
LEMMA InCourse ==
  ASSUME TopCaseInv, NEW t \in Threads, pc[t] # "idle"
  PROVE  /\ phase # "stopped" /\ (t # "driver" /\ Alone(t) => phase = "running")
         /\ settled = "no"
         /\ alone => Alone(t) /\ Undisturbed(t)
         /\ "overlap" \notin doubts => Alone(t) /\ OnFor(t)
         /\ doubts = {} /\ phase = "running" /\ "kbd" \in consumers => OffFor(t)
  BY DEF TopCaseInv, TypeOK, AloneIsAlone, AloneInv, OnInv, OffInv, SettledInv, Quiet, Alone

(* What a step of thread t leaves alone: the other threads.                *)
Elsewhere(t) ==
  \A u \in Threads \ {t} :
    pc'[u] = pc[u] /\ op'[u] = op[u] /\ value'[u] = value[u] /\ enable'[u] = enable[u]

(* A step of a thread in the course of its request.                        *)
LEMMA ThreadStep ==
  ASSUME TopCaseInv, NEW t \in Threads, pc[t] # "idle", Elsewhere(t), TypeOK', Absent',
         hinge' = hinge, alone' => alone,
         "overlap" \notin doubts' => "overlap" \notin doubts \/ alone,
         phase' = "stopping" <=> pc'["driver"] # "idle",
         phase' = "stopped" => Quiet',
         op'["pm"] = "sleep" => "sleep" \in doubts',
         alone' => Undisturbed(t)',
         "overlap" \notin doubts' => OnFor(t)',
         doubts' = {} /\ phase' = "running" /\ "kbd" \in consumers' => OffFor(t)',
         settled' # "no" => alone /\ pc'[t] = "idle",
         settled' = "reading" => /\ phase' = "running" /\ YogaMode' = hinge
                                 /\ consumers' = Drivers => (enabled'["kbd"] <=> enabled'["tpd"]),
         settled' = "left" /\ "overlap" \notin doubts' => enabled'["kbd"],
         settled' = "left" /\ consumers' = Drivers => (YogaMode' # laptop => enabled'["tpd"])
  PROVE  TopCaseInv'
<1>. USE DEF Elsewhere
<1>1. alone \/ "overlap" \notin doubts' => Alone(t) /\ Alone(t)'
  BY InCourse DEF Alone
<1>2. AloneIsAlone'
  BY <1>1 DEF AloneIsAlone, Alone
<1>3. AloneInv'
  <2>. SUFFICES ASSUME alone', NEW u \in Threads \ {t}  PROVE  Undisturbed(u)'
    BY DEF AloneInv
  <2>1. pc'[u] = "idle"
    BY <1>1 DEF Alone
  <2>2. op'[u] = "none"
    BY <2>1 DEF TypeOK, ThreadOK, Steps, Requested
  <2>. QED  BY <2>1, <2>2 DEF Undisturbed, Readings
<1>4. OnInv'
  <2>. SUFFICES ASSUME "overlap" \notin doubts', NEW u \in Threads, Alone(u)'  PROVE  OnFor(u)'
    BY DEF OnInv
  <2>1. CASE u = t
    BY <2>1
  <2>2. CASE u # t
    <3>1. pc'[t] = "idle" /\ pc'[u] = "idle"
      BY <1>1, <2>2 DEF Alone
    <3>. QED  BY <3>1 DEF OnFor
  <2>. QED  BY <2>1, <2>2
<1>5. OffInv'
  <2>. SUFFICES ASSUME doubts' = {}, phase' = "running", "kbd" \in consumers',
                       NEW u \in Threads, Alone(u)'
                PROVE  OffFor(u)'
    BY DEF OffInv
  <2>1. CASE u = t
    BY <2>1
  <2>2. CASE u # t
    <3>1. pc'[t] = "idle" /\ pc'[u] = "idle"
      BY <1>1, <2>2 DEF Alone
    <3>. QED  BY <3>1 DEF OffFor
  <2>. QED  BY <2>1, <2>2
<1>6. SettledInv'
  BY <1>1 DEF SettledInv, Quiet, Alone
<1>. QED  BY <1>2, <1>3, <1>4, <1>5, <1>6 DEF TopCaseInv

(* The beginning of a request.                                             *)
LEMMA BeginStep ==
  ASSUME TopCaseInv, NEW t \in Threads, NEW o \in Requested(t) \ {"none"},
         NEW step \in Steps(o) \cap {"read", "setKbd", "asleep", "stopped"},
         Begin(t, o, step),
         step = "setKbd" => o \notin Readings,
         step \in {"asleep", "stopped"} => YogaMode = laptop,
         moved' \in BOOLEAN, UNCHANGED <<hinge, consumers, enabled, fields, power>>,
         IF o = "stop" THEN phase' = "stopping" ELSE phase' = phase
  PROVE  TopCaseInv'
<1>. USE DEF fields
<1>1. /\ pc[t] = "idle" /\ pc'[t] = step /\ op[t] = "none" /\ op'[t] = o
      /\ value' = value /\ enable' = enable
      /\ Elsewhere(t) /\ DOMAIN pc' = Threads /\ DOMAIN op' = Threads
      /\ phase # "stopped" /\ settled' = "no" /\ alone' \in BOOLEAN
      /\ alone' <=> Alone(t)
      /\ doubts' = doubts \cup {d \in {"sleep"} : o = d} \cup {d \in {"overlap"} : ~alone'}
  BY IdleIsNone DEF TopCaseInv, TypeOK, Begin, Alone, Elsewhere
<1>2. o # "none" /\ step # "idle" /\ (o = "sleep" => t = "pm") /\ (o = "stop" <=> t = "driver")
  BY DEF Requested, Steps
<1>3. TypeOK'
  <2>1. ThreadOK(t)'
    BY <1>1, <1>2 DEF TopCaseInv, TypeOK, ThreadOK, Readings
  <2>2. \A u \in Threads \ {t} : ThreadOK(u)'
    BY <1>1 DEF TopCaseInv, TypeOK, ThreadOK, Elsewhere
  <2>3. doubts' \subseteq {"sleep", "overlap", "publish"}
    BY <1>1 DEF TopCaseInv, TypeOK
  <2>. QED  BY <1>1, <2>1, <2>2, <2>3 DEF TopCaseInv, TypeOK
<1>4. Absent'
  BY DEF TopCaseInv, Absent
<1>5. /\ doubts \subseteq doubts' /\ (o = "sleep" => "sleep" \in doubts')
      /\ "overlap" \notin doubts' => "overlap" \notin doubts /\ alone'
  BY <1>1
<1>6. AloneIsAlone'
  <2>1. alone' \/ "overlap" \notin doubts' => Alone(t)'
    BY <1>1, <1>5 DEF Alone, Elsewhere
  <2>2. phase' = "stopping" <=> pc'["driver"] # "idle"
    BY <1>1, <1>2 DEF TopCaseInv, AloneIsAlone, Elsewhere
  <2>3. op'["pm"] = "sleep" => "sleep" \in doubts'
    BY <1>1, <1>5 DEF TopCaseInv, AloneIsAlone, Elsewhere
  <2>. QED  BY <1>1, <2>1, <2>2, <2>3 DEF AloneIsAlone, Alone, Quiet
<1>7. AloneInv'
  <2>. SUFFICES ASSUME alone', NEW u \in Threads  PROVE  Undisturbed(u)'
    BY DEF AloneInv
  <2>1. CASE u = t
    BY <1>1, <2>1 DEF Undisturbed, Readings, Steps
  <2>2. CASE u # t
    <3>1. pc'[u] = "idle" /\ op'[u] = "none"
      BY <1>1, <2>2, IdleIsNone DEF TopCaseInv, TypeOK, Alone, Elsewhere
    <3>. QED  BY <3>1 DEF Undisturbed, Readings
  <2>. QED  BY <2>1, <2>2
<1>8. OnInv'
  <2>. SUFFICES ASSUME "overlap" \notin doubts', NEW u \in Threads, Alone(u)'  PROVE  OnFor(u)'
    BY DEF OnInv
  <2>1. u = t /\ Alone(t)
    BY <1>1, <1>2, <1>5 DEF Alone
  <2>2. YogaMode = laptop => enabled["kbd"]
    BY <1>1, <1>5, <2>1 DEF TopCaseInv, OnInv, OnFor
  <2>. QED  BY <1>1, <2>1, <2>2 DEF OnFor
<1>9. OffInv'
  <2>. SUFFICES ASSUME doubts' = {}, phase' = "running", "kbd" \in consumers,
                       NEW u \in Threads, Alone(u)'
                PROVE  OffFor(u)'
    BY DEF OffInv
  <2>1. u = t /\ Alone(t) /\ doubts = {} /\ phase = "running"
    BY <1>1, <1>2, <1>5 DEF Alone
  <2>2. enabled["kbd"] => YogaMode = laptop
    BY <1>1, <2>1 DEF TopCaseInv, OffInv, OffFor
  <2>. QED  BY <1>1, <2>1, <2>2 DEF OffFor
<1>10. SettledInv'
  BY <1>1 DEF SettledInv
<1>. QED  BY <1>3, <1>4, <1>6, <1>7, <1>8, <1>9, <1>10 DEF TopCaseInv

(* Something happens to the hinge or the drivers.                          *)
LEMMA OutsideStep ==
  ASSUME TopCaseInv, TypeOK', Absent',
         UNCHANGED <<pc, op, value, enable, YogaMode, phase>>,
         alone' = FALSE, settled' = "no", doubts \subseteq doubts',
         enabled["kbd"] => enabled'["kbd"],
         doubts' = {} /\ "kbd" \in consumers' =>
           "kbd" \in consumers /\ enabled'["kbd"] = enabled["kbd"]
  PROVE  TopCaseInv'
<1>1. AloneIsAlone'
  BY DEF TopCaseInv, AloneIsAlone, Alone, Quiet
<1>2. AloneInv' /\ SettledInv'
  BY DEF AloneInv, SettledInv
<1>3. OnInv'
  BY DEF TopCaseInv, OnInv, OnFor, Alone
<1>4. OffInv'
  BY DEF TopCaseInv, OffInv, OffFor, Alone
<1>. QED  BY <1>1, <1>2, <1>3, <1>4 DEF TopCaseInv

-----------------------------------------------------------------------------
LEMMA GotoLocals ==
  ASSUME TypeOK, NEW t \in Threads, NEW step, Goto(t, step)
  PROVE  /\ pc'[t] = step /\ op'[t] = (IF step = "idle" THEN "none" ELSE op[t])
         /\ value'[t] = (IF step = "idle" THEN laptop ELSE value[t])
         /\ enable'[t] \in BOOLEAN /\ (enable'[t] <=> (step = "setTpd" => enable[t]))
         /\ Elsewhere(t)
         /\ DOMAIN pc' = Threads /\ DOMAIN op' = Threads
         /\ DOMAIN value' = Threads /\ DOMAIN enable' = Threads
  BY DEF TypeOK, ThreadOK, Goto, Elsewhere

LEMMA LocalsTyped ==
  ASSUME TypeOK, NEW t \in Threads, Elsewhere(t), ThreadOK(t)'
  PROVE  \A u \in Threads : ThreadOK(u)'
  BY DEF TypeOK, Elsewhere, ThreadOK

(* A message says to a driver that is there, and to no other, what it is   *)
(* told.                                                                   *)
LEMMA Told ==
  ASSUME TypeOK, Absent, NEW d \in Drivers, NEW on \in BOOLEAN, Tell(d, on), consumers' = consumers
  PROVE  /\ enabled' \in [Drivers -> BOOLEAN] /\ Absent'
         /\ \A e \in Drivers \ {d} : enabled'[e] = enabled[e]
         /\ d \in consumers => enabled'[d] = on
         /\ d \notin consumers => enabled'[d] = TRUE
  BY DEF TypeOK, Absent, Tell

LEMMA SetKeyboardPreserves ==
  ASSUME TopCaseInv, NEW t \in Threads, SetKeyboard(t)
  PROVE  TopCaseInv'
<1>1. /\ pc[t] = "setKbd" /\ Goto(t, "setTpd") /\ Tell("kbd", enable[t])
      /\ UNCHANGED <<hinge, moved, consumers, Keyboardenabled, TouchPadenabled, YogaMode, power,
                     phase, alone, settled, doubts>>
  BY DEF SetKeyboard, At, fields, history
<1>2. TypeOK /\ Absent /\ ThreadOK(t)
  BY DEF TopCaseInv, TypeOK
<1>3. /\ pc'[t] = "setTpd" /\ op'[t] = op[t] /\ value'[t] = value[t]
      /\ enable'[t] \in BOOLEAN /\ (enable'[t] <=> enable[t])
      /\ Elsewhere(t)
      /\ DOMAIN pc' = Threads /\ DOMAIN op' = Threads
      /\ DOMAIN value' = Threads /\ DOMAIN enable' = Threads
  BY <1>1, <1>2, GotoLocals
<1>4. enable[t] \in BOOLEAN
  BY <1>2 DEF ThreadOK
<1>5. /\ enabled' \in [Drivers -> BOOLEAN] /\ Absent'
      /\ "kbd" \in consumers => enabled'["kbd"] = enable[t]
      /\ "kbd" \notin consumers => enabled'["kbd"] = TRUE
  BY <1>1, <1>2, <1>4, Told
<1>6. ThreadOK(t)'
  BY <1>1, <1>2, <1>3 DEF ThreadOK, Steps, Requested, Readings
<1>7. TypeOK'
  BY <1>1, <1>2, <1>3, <1>5, <1>6, LocalsTyped DEF TypeOK
<1>8. /\ phase # "stopped" /\ settled = "no"
      /\ alone => Undisturbed(t)
  BY <1>1, InCourse
<1>9. alone' => Undisturbed(t)'
  BY <1>1, <1>3, <1>5, <1>8 DEF Undisturbed
<1>10. OnFor(t)'
  BY <1>1, <1>3, <1>5 DEF OnFor
<1>11. "kbd" \in consumers' => OffFor(t)'
  BY <1>1, <1>3, <1>5 DEF OffFor
<1>12. phase' = "stopping" <=> pc'["driver"] # "idle"
  BY <1>1, <1>3 DEF TopCaseInv, AloneIsAlone, Elsewhere
<1>13. op'["pm"] = "sleep" => "sleep" \in doubts'
  BY <1>1, <1>3 DEF TopCaseInv, AloneIsAlone, Elsewhere
<1>. QED
  BY <1>1, <1>3, <1>5, <1>7, <1>8, <1>9, <1>10, <1>11, <1>12, <1>13, ThreadStep

LEMMA SetTouchPadPreserves ==
  ASSUME TopCaseInv, NEW t \in Threads, SetTouchPad(t)
  PROVE  TopCaseInv'
<1>. DEFINE next == AfterTopCase(op[t])
<1>1. /\ pc[t] = "setTpd" /\ Goto(t, next) /\ Tell("tpd", enable[t])
      /\ doubts' = IF alone /\ consumers = Drivers THEN {"sleep"} \cap {op[t]} ELSE doubts
      /\ UNCHANGED <<hinge, moved, consumers, Keyboardenabled, TouchPadenabled, YogaMode, power,
                     phase, alone, settled>>
  BY DEF SetTouchPad, At, fields
<1>2. TypeOK /\ Absent /\ ThreadOK(t)
  BY DEF TopCaseInv, TypeOK
<1>3. /\ op[t] \in {"event", "sleep", "wake", "stop"} /\ enable[t] \in BOOLEAN
      /\ next = (IF op[t] = "sleep" THEN "asleep" ELSE IF op[t] = "stop" THEN "stopped" ELSE "finish")
      /\ op[t] \in Readings => value[t] \in Modes /\ (enable[t] <=> value[t] = laptop)
      /\ op[t] \notin Readings => enable[t] = TRUE
  BY <1>1, <1>2 DEF ThreadOK, Steps, Requested, AfterTopCase, Readings
<1>. HIDE DEF next
<1>4. /\ pc'[t] = next /\ op'[t] = op[t] /\ value'[t] = value[t]
      /\ enable'[t] \in BOOLEAN /\ enable'[t]
      /\ Elsewhere(t)
      /\ DOMAIN pc' = Threads /\ DOMAIN op' = Threads
      /\ DOMAIN value' = Threads /\ DOMAIN enable' = Threads
  BY <1>1, <1>2, <1>3, GotoLocals
<1>5. /\ enabled' \in [Drivers -> BOOLEAN] /\ Absent'
      /\ enabled'["kbd"] = enabled["kbd"]
      /\ "tpd" \in consumers => enabled'["tpd"] = enable[t]
  BY <1>1, <1>2, <1>3, Told
<1>6. ThreadOK(t)'
  BY <1>1, <1>2, <1>3, <1>4 DEF ThreadOK, Steps, Requested, Readings
<1>7. TypeOK'
  <2>1. doubts' \subseteq {"sleep", "overlap", "publish"}
    BY <1>1, <1>2 DEF TypeOK
  <2>. QED  BY <1>1, <1>2, <1>4, <1>5, <1>6, <2>1, LocalsTyped DEF TypeOK
<1>8. /\ phase # "stopped" /\ settled = "no"
      /\ t # "driver" /\ Alone(t) => phase = "running"
      /\ alone => Alone(t) /\ Undisturbed(t)
      /\ "overlap" \notin doubts => Alone(t) /\ OnFor(t)
      /\ doubts = {} /\ phase = "running" /\ "kbd" \in consumers => OffFor(t)
  BY <1>1, InCourse
<1>9. alone' => Undisturbed(t)'
  BY <1>1, <1>3, <1>4, <1>5, <1>8 DEF Undisturbed, Drivers, Readings
<1>10. "overlap" \notin doubts' => OnFor(t)'
  <2>. SUFFICES ASSUME "overlap" \notin doubts'  PROVE  OnFor(t)'
    OBVIOUS
  <2>1. enable[t] => enabled'["kbd"]
    BY <1>1, <1>5, <1>8 DEF OnFor, Undisturbed
  <2>2. next = "finish" /\ value[t] = laptop => enable[t]
    BY <1>3 DEF Readings
  <2>3. next # "finish" => enable[t] /\ next \in {"asleep", "stopped"}
    BY <1>3 DEF Readings
  <2>. QED  BY <1>4, <2>1, <2>2, <2>3 DEF OnFor
<1>11. op[t] = "sleep" => t = "pm" /\ "sleep" \in doubts'
  BY <1>1, <1>2 DEF TopCaseInv, AloneIsAlone, ThreadOK, Requested
<1>12. op[t] = "stop" => phase = "stopping"
  BY <1>1, <1>2 DEF TopCaseInv, AloneIsAlone, ThreadOK, Requested
<1>13. doubts' = {} /\ phase' = "running" /\ "kbd" \in consumers' => OffFor(t)'
  BY <1>1, <1>3, <1>4, <1>5, <1>8, <1>11, <1>12 DEF OffFor, Undisturbed, Readings
<1>14. phase' = "stopping" <=> pc'["driver"] # "idle"
  BY <1>1, <1>3, <1>4 DEF TopCaseInv, AloneIsAlone, Elsewhere
<1>15. op'["pm"] = "sleep" => "sleep" \in doubts'
  <2>1. CASE t = "pm"
    BY <1>4, <1>11, <2>1
  <2>2. CASE t # "pm"
    <3>1. alone => pc["pm"] = "idle" /\ op["pm"] = "none"
      BY <1>2, <1>8, <2>2, IdleIsNone DEF Alone, TypeOK
    <3>. QED  BY <1>1, <1>4, <2>2, <3>1 DEF TopCaseInv, AloneIsAlone, Elsewhere
  <2>. QED  BY <2>1, <2>2
<1>16. "overlap" \notin doubts' => "overlap" \notin doubts \/ alone
  BY <1>1
<1>. QED
  BY <1>1, <1>4, <1>5, <1>7, <1>8, <1>9, <1>10, <1>13, <1>14, <1>15, <1>16, ThreadStep

-----------------------------------------------------------------------------
(* updateYogaMode.                                                         *)

LEMMA ReadModePreserves ==
  ASSUME TopCaseInv, NEW t \in Threads, ReadMode(t)
  PROVE  TopCaseInv'
<1>1. /\ pc[t] = "read"
      /\ UNCHANGED <<hinge, moved, consumers, enabled, Keyboardenabled, TouchPadenabled, YogaMode,
                     phase, alone, settled, doubts>>
  BY DEF ReadMode, device, fields, history
<1>2. TypeOK /\ Absent /\ ThreadOK(t)
  BY DEF TopCaseInv, TypeOK
<1>3. op[t] \in Readings /\ t # "driver"
  BY <1>1, <1>2 DEF ThreadOK, Steps, Requested, Readings
<1>4. /\ \/ pc'[t] = "getKbd" /\ op'[t] = op[t] /\ value'[t] \in {hinge} \cup Unknown
         \/ pc'[t] = "idle" /\ op'[t] = "none" /\ value'[t] = laptop
      /\ enable'[t] \in BOOLEAN /\ enable'[t]
      /\ Elsewhere(t)
      /\ DOMAIN pc' = Threads /\ DOMAIN op' = Threads
      /\ DOMAIN value' = Threads /\ DOMAIN enable' = Threads
      /\ power' \in {"off", "on"}
  <2>1. CASE /\ \E v \in {hinge} \cup Unknown : value' = [value EXCEPT ![t] = v]
             /\ pc' = [pc EXCEPT ![t] = "getKbd"]
             /\ UNCHANGED <<op, enable, power>>
    <3>1. enable[t] = TRUE
      BY <1>1, <1>2 DEF ThreadOK
    <3>. QED  BY <1>2, <2>1, <3>1 DEF TypeOK, Elsewhere
  <2>2. CASE Goto(t, "idle") /\ power' = IF op[t] = "wake" THEN "on" ELSE power
    BY <1>2, <2>2, GotoLocals DEF TypeOK
  <2>. QED  BY <2>1, <2>2 DEF ReadMode
<1>5. ThreadOK(t)'
  BY <1>1, <1>2, <1>3, <1>4 DEF TypeOK, ThreadOK, Steps, Requested, Readings, Modes
<1>6. TypeOK' /\ Absent'
  BY <1>1, <1>2, <1>4, <1>5, LocalsTyped DEF TypeOK, Absent
<1>7. /\ phase # "stopped" /\ settled = "no"
      /\ "overlap" \notin doubts => OnFor(t)
      /\ doubts = {} /\ phase = "running" /\ "kbd" \in consumers => OffFor(t)
  BY <1>1, InCourse
<1>8. Undisturbed(t)'
  <2>1. \A v \in Unknown : v \notin Modes
    BY UnknownModes, FlippedModes DEF Modes, laptop, tablet, stand, tent
  <2>. QED  BY <1>1, <1>4, <2>1 DEF Undisturbed, Readings
<1>9. "overlap" \notin doubts' => OnFor(t)'
  BY <1>1, <1>4, <1>7 DEF OnFor
<1>10. doubts' = {} /\ phase' = "running" /\ "kbd" \in consumers' => OffFor(t)'
  BY <1>1, <1>4, <1>7 DEF OffFor
<1>11. phase' = "stopping" <=> pc'["driver"] # "idle"
  BY <1>1, <1>3, <1>4 DEF TopCaseInv, AloneIsAlone, Elsewhere
<1>12. op'["pm"] = "sleep" => "sleep" \in doubts'
  BY <1>1, <1>4 DEF TopCaseInv, AloneIsAlone, Elsewhere
<1>. QED  BY <1>1, <1>4, <1>6, <1>7, <1>8, <1>9, <1>10, <1>11, <1>12, ThreadStep

LEMMA GetKeyboardPreserves ==
  ASSUME TopCaseInv, NEW t \in Threads, GetKeyboard(t)
  PROVE  TopCaseInv'
<1>1. /\ pc[t] = "getKbd" /\ Goto(t, "getTpd")
      /\ Keyboardenabled' = IF "kbd" \in consumers THEN enabled["kbd"] ELSE Keyboardenabled
      /\ UNCHANGED <<hinge, moved, consumers, enabled, TouchPadenabled, YogaMode, power, phase,
                     alone, settled, doubts>>
  BY DEF GetKeyboard, At, device, history
<1>2. TypeOK /\ Absent /\ ThreadOK(t)
  BY DEF TopCaseInv, TypeOK
<1>3. /\ pc'[t] = "getTpd" /\ op'[t] = op[t] /\ value'[t] = value[t]
      /\ enable'[t] \in BOOLEAN /\ enable'[t]
      /\ Elsewhere(t)
      /\ DOMAIN pc' = Threads /\ DOMAIN op' = Threads
      /\ DOMAIN value' = Threads /\ DOMAIN enable' = Threads
  BY <1>1, <1>2, GotoLocals
<1>4. ThreadOK(t)'
  BY <1>1, <1>2, <1>3 DEF ThreadOK, Steps, Requested, Readings
<1>5. TypeOK' /\ Absent'
  BY <1>1, <1>2, <1>3, <1>4, LocalsTyped DEF TypeOK, Absent
<1>6. /\ phase # "stopped" /\ settled = "no"
      /\ alone => Undisturbed(t)
      /\ "overlap" \notin doubts => OnFor(t)
      /\ doubts = {} /\ phase = "running" /\ "kbd" \in consumers => OffFor(t)
  BY <1>1, InCourse
<1>7. alone' => Undisturbed(t)'
  BY <1>1, <1>3, <1>6 DEF Undisturbed
<1>8. "overlap" \notin doubts' => OnFor(t)'
  BY <1>1, <1>3, <1>6 DEF OnFor
<1>9. doubts' = {} /\ phase' = "running" /\ "kbd" \in consumers' => OffFor(t)'
  BY <1>1, <1>3, <1>6 DEF OffFor
<1>10. phase' = "stopping" <=> pc'["driver"] # "idle"
  BY <1>1, <1>3 DEF TopCaseInv, AloneIsAlone, Elsewhere
<1>11. op'["pm"] = "sleep" => "sleep" \in doubts'
  BY <1>1, <1>3 DEF TopCaseInv, AloneIsAlone, Elsewhere
<1>. QED  BY <1>1, <1>3, <1>5, <1>6, <1>7, <1>8, <1>9, <1>10, <1>11, ThreadStep

LEMMA GetTouchPadPreserves ==
  ASSUME TopCaseInv, NEW t \in Threads, GetTouchPad(t)
  PROVE  TopCaseInv'
<1>1. /\ pc[t] = "getTpd" /\ Goto(t, "decide")
      /\ TouchPadenabled' = IF "tpd" \in consumers THEN enabled["tpd"] ELSE TouchPadenabled
      /\ UNCHANGED <<hinge, moved, consumers, enabled, Keyboardenabled, YogaMode, power, phase,
                     alone, settled, doubts>>
  BY DEF GetTouchPad, At, device, history
<1>2. TypeOK /\ Absent /\ ThreadOK(t)
  BY DEF TopCaseInv, TypeOK
<1>3. /\ pc'[t] = "decide" /\ op'[t] = op[t] /\ value'[t] = value[t]
      /\ enable'[t] \in BOOLEAN /\ enable'[t]
      /\ Elsewhere(t)
      /\ DOMAIN pc' = Threads /\ DOMAIN op' = Threads
      /\ DOMAIN value' = Threads /\ DOMAIN enable' = Threads
  BY <1>1, <1>2, GotoLocals
<1>4. ThreadOK(t)'
  BY <1>1, <1>2, <1>3 DEF ThreadOK, Steps, Requested, Readings
<1>5. TypeOK' /\ Absent'
  BY <1>1, <1>2, <1>3, <1>4, LocalsTyped DEF TypeOK, Absent
<1>6. /\ phase # "stopped" /\ settled = "no"
      /\ alone => Undisturbed(t)
      /\ "overlap" \notin doubts => OnFor(t)
      /\ doubts = {} /\ phase = "running" /\ "kbd" \in consumers => OffFor(t)
  BY <1>1, InCourse
<1>7. alone' => Undisturbed(t)'
  BY <1>1, <1>3, <1>6 DEF Undisturbed
<1>8. "overlap" \notin doubts' => OnFor(t)'
  BY <1>1, <1>3, <1>6 DEF OnFor
<1>9. doubts' = {} /\ phase' = "running" /\ "kbd" \in consumers' => OffFor(t)'
  BY <1>1, <1>3, <1>6 DEF OffFor
<1>10. phase' = "stopping" <=> pc'["driver"] # "idle"
  BY <1>1, <1>3 DEF TopCaseInv, AloneIsAlone, Elsewhere
<1>11. op'["pm"] = "sleep" => "sleep" \in doubts'
  BY <1>1, <1>3 DEF TopCaseInv, AloneIsAlone, Elsewhere
<1>. QED  BY <1>1, <1>3, <1>5, <1>6, <1>7, <1>8, <1>9, <1>10, <1>11, ThreadStep

LEMMA DecidePreserves ==
  ASSUME TopCaseInv, NEW t \in Threads, Decide(t)
  PROVE  TopCaseInv'
<1>1. /\ pc[t] = "decide"
      /\ UNCHANGED <<hinge, moved, consumers, enabled, Keyboardenabled, TouchPadenabled, YogaMode,
                     phase>>
  BY DEF Decide, device, fields
<1>2. TypeOK /\ Absent /\ ThreadOK(t)
  BY DEF TopCaseInv, TypeOK
<1>3. op[t] \in Readings /\ t # "driver"
  BY <1>1, <1>2 DEF ThreadOK, Steps, Requested, Readings
<1>4. /\ phase # "stopped" /\ settled = "no"
      /\ Alone(t) => phase = "running"
      /\ alone => Alone(t) /\ Undisturbed(t)
      /\ "overlap" \notin doubts => Alone(t) /\ OnFor(t)
      /\ doubts = {} /\ phase = "running" /\ "kbd" \in consumers => OffFor(t)
  BY <1>1, <1>3, InCourse
<1>5. phase' = "stopping" <=> pc["driver"] # "idle"
  BY <1>1 DEF TopCaseInv, AloneIsAlone
<1>6. CASE NothingToDo(t) /\ Nothing(t)
  <2>1. /\ pc'[t] = "idle" /\ op'[t] = "none" /\ value'[t] = laptop
        /\ enable'[t] \in BOOLEAN /\ enable'[t]
        /\ Elsewhere(t)
        /\ DOMAIN pc' = Threads /\ DOMAIN op' = Threads
        /\ DOMAIN value' = Threads /\ DOMAIN enable' = Threads
    BY <1>2, <1>6, GotoLocals DEF Nothing
  <2>2. /\ power' \in {"off", "on"} /\ alone' = FALSE /\ doubts' = doubts
        /\ settled' = IF alone /\ value[t] \in Modes THEN "reading" ELSE "no"
    BY <1>2, <1>6 DEF Nothing, Settle, TypeOK
  <2>3. ThreadOK(t)'
    BY <2>1 DEF ThreadOK, Steps, Requested, Readings, Modes
  <2>4. TypeOK' /\ Absent'
    BY <1>1, <1>2, <2>1, <2>2, <2>3, LocalsTyped DEF TypeOK, Absent
  <2>5. "overlap" \notin doubts' => OnFor(t)'
    BY <1>1, <1>4, <2>1, <2>2 DEF OnFor
  <2>6. doubts' = {} /\ phase' = "running" /\ "kbd" \in consumers' => OffFor(t)'
    BY <1>1, <1>4, <2>1, <2>2 DEF OffFor
  <2>7. ASSUME settled' = "reading"
        PROVE  /\ phase' = "running" /\ YogaMode' = hinge
               /\ consumers' = Drivers => (enabled'["kbd"] <=> enabled'["tpd"])
    <3>1. alone /\ value[t] \in Modes
      BY <2>2, <2>7
    <3>2. value[t] \notin Unknown
      BY <3>1, UnknownModes, FlippedModes DEF Modes, laptop, tablet, stand, tent
    <3>3. YogaMode = value[t] /\ Keyboardenabled = TouchPadenabled
      BY <1>6, <3>2 DEF NothingToDo, Sync
    <3>4. value[t] = hinge
      BY <1>1, <1>3, <1>4, <3>1 DEF Undisturbed
    <3>5. consumers = Drivers => (enabled["kbd"] <=> enabled["tpd"])
      BY <1>1, <1>4, <3>1, <3>3 DEF Undisturbed
    <3>. QED  BY <1>1, <1>4, <3>1, <3>3, <3>4, <3>5
  <2>8. op'["pm"] = "sleep" => "sleep" \in doubts'
    BY <2>1, <2>2 DEF TopCaseInv, AloneIsAlone, Elsewhere
  <2>9. phase' = "stopping" <=> pc'["driver"] # "idle"
    BY <1>3, <1>5, <2>1 DEF Elsewhere
  <2>10. settled' # "left" /\ (settled' # "no" => alone) /\ phase' # "stopped"
    BY <1>1, <1>4, <2>2
  <2>. QED  BY <1>1, <2>1, <2>2, <2>4, <2>5, <2>6, <2>7, <2>8, <2>9, <2>10, ThreadStep
<1>7. CASE ~NothingToDo(t) /\ Act(t) /\ UNCHANGED <<power, history>>
  <2>1. /\ value[t] \in Modes
        /\ \/ /\ pc'[t] = "setKbd" /\ enable'[t] \in BOOLEAN
              /\ enable'[t] <=> value[t] = laptop
           \/ /\ pc'[t] = "finish" /\ enable'[t] \in BOOLEAN /\ enable'[t]
              /\ value[t] # laptop /\ YogaMode # laptop /\ Sync
        /\ op'[t] = op[t] /\ value'[t] = value[t]
        /\ Elsewhere(t)
        /\ DOMAIN pc' = Threads /\ DOMAIN op' = Threads
        /\ DOMAIN value' = Threads /\ DOMAIN enable' = Threads
    <3>1. laptop \notin Flipped
      BY FlippedModes DEF laptop, tablet, stand, tent
    <3>2. CASE value[t] = laptop /\ SetTopCase(t, TRUE)
      BY <1>2, <3>2 DEF SetTopCase, TypeOK, Elsewhere, Modes
    <3>3. CASE value[t] \in Flipped /\ SetTopCase(t, FALSE)
      BY <1>2, <3>1, <3>3 DEF SetTopCase, TypeOK, Elsewhere, Modes
    <3>4. CASE value[t] \in Flipped /\ YogaMode # laptop /\ Sync /\ Goto(t, "finish")
      BY <1>2, <3>1, <3>4, GotoLocals DEF Modes
    <3>. QED  BY <1>7, <3>2, <3>3, <3>4 DEF Act
  <2>2. UNCHANGED <<power, alone, settled, doubts>>
    BY <1>7 DEF history
  <2>3. ThreadOK(t)'
    BY <1>1, <1>2, <1>3, <2>1 DEF ThreadOK, Steps, Requested, Readings, Modes
  <2>4. TypeOK' /\ Absent'
    BY <1>1, <1>2, <2>1, <2>2, <2>3, LocalsTyped DEF TypeOK, Absent
  <2>5. "overlap" \notin doubts' => OnFor(t)'
    BY <1>1, <1>4, <2>1, <2>2 DEF OnFor
  <2>6. doubts' = {} /\ phase' = "running" /\ "kbd" \in consumers' => OffFor(t)'
    BY <1>1, <1>4, <2>1, <2>2 DEF OffFor
  <2>7. alone' => Undisturbed(t)'
    <3>. SUFFICES ASSUME alone  PROVE  Undisturbed(t)'
      BY <2>2
    <3>1. value[t] = hinge
      BY <1>1, <1>3, <1>4, <2>1 DEF Undisturbed
    <3>2. pc'[t] = "finish" /\ consumers = Drivers => (enabled["kbd"] <=> enabled["tpd"])
      BY <1>1, <1>4, <2>1 DEF Undisturbed, Sync
    <3>. QED  BY <1>1, <2>1, <3>1, <3>2 DEF Undisturbed
  <2>8. op'["pm"] = "sleep" => "sleep" \in doubts'
    BY <2>1, <2>2 DEF TopCaseInv, AloneIsAlone, Elsewhere
  <2>9. phase' = "stopping" <=> pc'["driver"] # "idle"
    BY <1>3, <1>5, <2>1 DEF Elsewhere
  <2>10. settled' = "no" /\ phase' # "stopped"
    BY <1>1, <1>4, <2>2
  <2>. QED  BY <1>1, <2>1, <2>2, <2>4, <2>5, <2>6, <2>7, <2>8, <2>9, <2>10, ThreadStep
<1>. QED  BY <1>6, <1>7 DEF Decide

LEMMA FinishPreserves ==
  ASSUME TopCaseInv, NEW t \in Threads, Finish(t)
  PROVE  TopCaseInv'
<1>1. /\ pc[t] = "finish" /\ Goto(t, "idle") /\ YogaMode' = value[t]
      /\ power' = (IF op[t] = "wake" THEN "on" ELSE power)
      /\ settled' = (IF alone THEN "reading" ELSE "no") /\ alone' = FALSE
      /\ UNCHANGED <<hinge, moved, consumers, enabled, Keyboardenabled, TouchPadenabled, phase, doubts>>
  BY DEF Finish, At, Settle, device
<1>2. TypeOK /\ Absent /\ ThreadOK(t)
  BY DEF TopCaseInv, TypeOK
<1>3. op[t] \in Readings /\ t # "driver" /\ value[t] \in Modes
  BY <1>1, <1>2 DEF ThreadOK, Steps, Requested, Readings
<1>4. /\ pc'[t] = "idle" /\ op'[t] = "none" /\ value'[t] = laptop
      /\ enable'[t] \in BOOLEAN /\ enable'[t]
      /\ Elsewhere(t)
      /\ DOMAIN pc' = Threads /\ DOMAIN op' = Threads
      /\ DOMAIN value' = Threads /\ DOMAIN enable' = Threads
  BY <1>1, <1>2, GotoLocals
<1>5. ThreadOK(t)'
  BY <1>4 DEF ThreadOK, Steps, Requested, Readings, Modes
<1>6. TypeOK' /\ Absent'
  BY <1>1, <1>2, <1>3, <1>4, <1>5, LocalsTyped DEF TypeOK, Absent
<1>7. /\ phase # "stopped"
      /\ Alone(t) => phase = "running"
      /\ alone => Alone(t) /\ Undisturbed(t)
      /\ "overlap" \notin doubts => Alone(t) /\ OnFor(t)
      /\ doubts = {} /\ phase = "running" /\ "kbd" \in consumers => OffFor(t)
  BY <1>1, <1>3, InCourse
<1>8. "overlap" \notin doubts' => OnFor(t)'
  BY <1>1, <1>4, <1>7 DEF OnFor
<1>9. doubts' = {} /\ phase' = "running" /\ "kbd" \in consumers' => OffFor(t)'
  BY <1>1, <1>4, <1>7 DEF OffFor
<1>10. settled' = "reading" =>
         /\ phase' = "running" /\ YogaMode' = hinge
         /\ consumers' = Drivers => (enabled'["kbd"] <=> enabled'["tpd"])
  BY <1>1, <1>3, <1>7 DEF Undisturbed
<1>11. phase' = "stopping" <=> pc'["driver"] # "idle"
  BY <1>1, <1>3, <1>4 DEF TopCaseInv, AloneIsAlone, Elsewhere
<1>12. op'["pm"] = "sleep" => "sleep" \in doubts'
  BY <1>1, <1>4 DEF TopCaseInv, AloneIsAlone, Elsewhere
<1>13. settled' # "left" /\ (settled' # "no" => alone)
  BY <1>1
<1>. QED  BY <1>1, <1>4, <1>6, <1>7, <1>8, <1>9, <1>10, <1>11, <1>12, <1>13, ThreadStep

-----------------------------------------------------------------------------
(* Sleep, wake and stop.                                                   *)

LEMMA AsleepPreserves ==
  ASSUME TopCaseInv, Asleep
  PROVE  TopCaseInv'
<1>1. /\ pc["pm"] = "asleep" /\ Goto("pm", "idle") /\ power' = "off"
      /\ settled' = (IF alone THEN "left" ELSE "no") /\ alone' = FALSE
      /\ UNCHANGED <<hinge, moved, consumers, enabled, Keyboardenabled, TouchPadenabled, YogaMode,
                     phase, doubts>>
  BY DEF Asleep, At, Settle, device, fields
<1>2. TypeOK /\ Absent /\ ThreadOK("pm")
  BY DEF TopCaseInv, TypeOK
<1>3. op["pm"] = "sleep" /\ "sleep" \in doubts
  BY <1>1, <1>2 DEF TopCaseInv, AloneIsAlone, ThreadOK, Steps, Requested
<1>4. /\ pc'["pm"] = "idle" /\ op'["pm"] = "none" /\ value'["pm"] = laptop
      /\ enable'["pm"] \in BOOLEAN /\ enable'["pm"]
      /\ Elsewhere("pm")
      /\ DOMAIN pc' = Threads /\ DOMAIN op' = Threads
      /\ DOMAIN value' = Threads /\ DOMAIN enable' = Threads
  BY <1>1, <1>2, GotoLocals
<1>5. ThreadOK("pm")'
  BY <1>4 DEF ThreadOK, Steps, Requested, Readings, Modes
<1>6. TypeOK' /\ Absent'
  BY <1>1, <1>2, <1>4, <1>5, LocalsTyped DEF TypeOK, Absent
<1>7. /\ phase # "stopped"
      /\ "overlap" \notin doubts => Alone("pm") /\ enabled["kbd"]
      /\ alone /\ consumers = Drivers => (YogaMode # laptop => enabled["tpd"])
  BY <1>1, InCourse DEF OnFor, Undisturbed
<1>8. "overlap" \notin doubts' => OnFor("pm")'
  BY <1>1, <1>4, <1>7 DEF OnFor
<1>9. doubts' # {}
  BY <1>1, <1>3
<1>10. phase' = "stopping" <=> pc'["driver"] # "idle"
  BY <1>1, <1>4 DEF TopCaseInv, AloneIsAlone, Elsewhere
<1>11. settled' # "reading" /\ (settled' # "no" => alone)
  BY <1>1
<1>. QED  BY <1>1, <1>4, <1>6, <1>7, <1>8, <1>9, <1>10, <1>11, ThreadStep

LEMMA StoppedPreserves ==
  ASSUME TopCaseInv, Stopped
  PROVE  TopCaseInv'
<1>1. /\ \A t \in Threads \ {"driver"} : pc[t] = "idle"
      /\ pc["driver"] = "stopped" /\ Goto("driver", "idle") /\ phase' = "stopped"
      /\ settled' = (IF alone THEN "left" ELSE "no") /\ alone' = FALSE
      /\ UNCHANGED <<hinge, moved, consumers, enabled, Keyboardenabled, TouchPadenabled, YogaMode,
                     power, doubts>>
  BY DEF Stopped, At, Settle, device, fields
<1>2. TypeOK /\ Absent /\ ThreadOK("driver")
  BY DEF TopCaseInv, TypeOK
<1>3. /\ pc'["driver"] = "idle" /\ op'["driver"] = "none" /\ value'["driver"] = laptop
      /\ enable'["driver"] \in BOOLEAN /\ enable'["driver"]
      /\ Elsewhere("driver")
      /\ DOMAIN pc' = Threads /\ DOMAIN op' = Threads
      /\ DOMAIN value' = Threads /\ DOMAIN enable' = Threads
  BY <1>1, <1>2, GotoLocals
<1>4. ThreadOK("driver")'
  BY <1>3 DEF ThreadOK, Steps, Requested, Readings, Modes
<1>5. TypeOK' /\ Absent'
  BY <1>1, <1>2, <1>3, <1>4, LocalsTyped DEF TypeOK, Absent
<1>6. /\ "overlap" \notin doubts => enabled["kbd"]
      /\ alone /\ consumers = Drivers => (YogaMode # laptop => enabled["tpd"])
  BY <1>1, InCourse DEF OnFor, Undisturbed
<1>7. "overlap" \notin doubts' => OnFor("driver")'
  BY <1>1, <1>3, <1>6 DEF OnFor
<1>8. Quiet' /\ phase' # "running"
  BY <1>1, <1>3 DEF Quiet, Elsewhere
<1>9. op'["pm"] = "sleep" => "sleep" \in doubts'
  BY <1>1, <1>3 DEF TopCaseInv, AloneIsAlone, Elsewhere
<1>10. settled' # "reading" /\ (settled' # "no" => alone)
  BY <1>1
<1>. QED  BY <1>1, <1>3, <1>5, <1>6, <1>7, <1>8, <1>9, <1>10, ThreadStep

LEMMA RequestPreserves ==
  ASSUME TopCaseInv, ACPIEvent \/ Sleep \/ Wake \/ Stop
  PROVE  TopCaseInv'
<1>. USE DEF device, fields
<1>1. CASE ACPIEvent
  BY <1>1, BeginStep DEF ACPIEvent, Requested, Steps
<1>2. CASE Sleep
  <2>1. moved \in BOOLEAN
    BY DEF TopCaseInv, TypeOK
  <2>2. CASE YogaMode # laptop
    BY <1>2, <2>1, <2>2, BeginStep DEF Sleep, Requested, Steps, Readings
  <2>3. CASE YogaMode = laptop
    BY <1>2, <2>1, <2>3, BeginStep DEF Sleep, Requested, Steps
  <2>. QED  BY <2>2, <2>3
<1>3. CASE Wake
  <2>1. moved \in BOOLEAN
    BY DEF TopCaseInv, TypeOK
  <2>. QED  BY <1>3, <2>1, BeginStep DEF Wake, Requested, Steps
<1>4. CASE Stop
  <2>1. moved \in BOOLEAN
    BY DEF TopCaseInv, TypeOK
  <2>2. CASE YogaMode # laptop
    BY <1>4, <2>1, <2>2, BeginStep DEF Stop, Requested, Steps, Readings
  <2>3. CASE YogaMode = laptop
    BY <1>4, <2>1, <2>3, BeginStep DEF Stop, Requested, Steps
  <2>. QED  BY <2>2, <2>3
<1>. QED  BY <1>1, <1>2, <1>3, <1>4

-----------------------------------------------------------------------------
LEMMA OutsidePreserves ==
  ASSUME TopCaseInv, Outside
  PROVE  TopCaseInv'
<1>. USE DEF fields, threads, Disturbance
<1>1. TypeOK /\ Absent
  BY DEF TopCaseInv
<1>2. CASE MoveHinge
  <2>1. TypeOK' /\ Absent'
    BY <1>1, <1>2 DEF MoveHinge, TypeOK, ThreadOK, Absent
  <2>. QED  BY <1>2, <2>1, OutsideStep DEF MoveHinge
<1>3. CASE ToggleTouchPad
  <2>1. TypeOK' /\ Absent'
    BY <1>1, <1>3 DEF ToggleTouchPad, TypeOK, ThreadOK, Absent
  <2>2. enabled'["kbd"] = enabled["kbd"]
    BY <1>1, <1>3 DEF ToggleTouchPad, TypeOK
  <2>. QED  BY <1>3, <2>1, <2>2, OutsideStep DEF ToggleTouchPad
<1>4. ASSUME NEW d \in Drivers, Publish(d)  PROVE  TopCaseInv'
  <2>1. TypeOK' /\ Absent'
    BY <1>1, <1>4 DEF Publish, TypeOK, ThreadOK, Absent
  <2>. QED  BY <1>4, <2>1, OutsideStep DEF Publish
<1>5. ASSUME NEW d \in Drivers, Terminate(d)  PROVE  TopCaseInv'
  <2>1. TypeOK' /\ Absent'
    BY <1>1, <1>5 DEF Terminate, TypeOK, ThreadOK, Absent
  <2>2. /\ enabled["kbd"] => enabled'["kbd"]
        /\ "kbd" \in consumers' => enabled'["kbd"] = enabled["kbd"]
    BY <1>1, <1>5 DEF Terminate, TypeOK
  <2>. QED  BY <1>5, <2>1, <2>2, OutsideStep DEF Terminate
<1>. QED  BY <1>2, <1>3, <1>4, <1>5 DEF Outside

LEMMA InitTopCase == Init => TopCaseInv
<1>. SUFFICES ASSUME Init  PROVE  TopCaseInv
  OBVIOUS
<1>1. \A t \in Threads : ThreadOK(t) /\ pc[t] = "idle" /\ op[t] = "none"
  BY DEF Init, ThreadOK, Steps, Requested, Readings, Modes
<1>2. TypeOK /\ Absent
  BY <1>1 DEF Init, TypeOK, Absent, Modes
<1>3. AloneIsAlone /\ AloneInv /\ SettledInv
  BY <1>1 DEF Init, AloneIsAlone, AloneInv, SettledInv, Alone, Quiet
<1>4. OnInv /\ OffInv
  BY <1>1 DEF Init, OnInv, OffInv, OnFor, OffFor
<1>. QED  BY <1>2, <1>3, <1>4 DEF TopCaseInv

LEMMA NextTopCase == TopCaseInv /\ [Next]_vars => TopCaseInv'
<1>. SUFFICES ASSUME TopCaseInv, [Next]_vars  PROVE  TopCaseInv'
  OBVIOUS
<1>1. ASSUME NEW t \in Threads, Update(t)  PROVE  TopCaseInv'
  BY <1>1, ReadModePreserves, GetKeyboardPreserves, GetTouchPadPreserves, DecidePreserves,
     SetKeyboardPreserves, SetTouchPadPreserves, FinishPreserves DEF Update
<1>2. CASE ACPIEvent \/ Sleep \/ Wake \/ Stop
  BY <1>2, RequestPreserves
<1>3. CASE Asleep \/ Stopped
  BY <1>3, AsleepPreserves, StoppedPreserves
<1>4. CASE Outside
  BY <1>4, OutsidePreserves
<1>5. CASE UNCHANGED vars
  <2>1. TypeOK' /\ Absent' /\ SettledInv'
    BY <1>5 DEF TopCaseInv, TypeOK, ThreadOK, Absent, SettledInv, Quiet, vars, device, fields,
                threads, history
  <2>2. AloneIsAlone' /\ AloneInv'
    BY <1>5 DEF TopCaseInv, AloneIsAlone, Alone, Quiet, AloneInv, Undisturbed, vars, device, fields,
                threads, history
  <2>3. OnInv' /\ OffInv'
    BY <1>5 DEF TopCaseInv, OnInv, OffInv, OnFor, OffFor, Alone, vars, device, fields, threads,
                history
  <2>. QED  BY <2>1, <2>2, <2>3 DEF TopCaseInv
<1>. QED  BY <1>1, <1>2, <1>3, <1>4, <1>5 DEF Next

(* What the drivers do and what YogaMode says of them, whatever overlaps,  *)
(* is toggled or restarted.                                                *)
THEOREM TopCaseIsKnown == Spec => []TopCaseInv
<1>. QED  BY InitTopCase, NextTopCase, PTL DEF Spec

(* An undisturbed reading of laptop mode has both keyboard and touchpad    *)
(* on, unless requests have overlapped (IdeaWMI.cpp:86-96).                *)
THEOREM LaptopModeEnables == Spec => []LaptopIsEnabled
<1>1. TopCaseInv => LaptopIsEnabled
  BY DEF TopCaseInv, SettledInv, OnInv, OnFor, Alone, Quiet, Reading, Both, AllOn, LaptopIsEnabled
<1>. QED  BY <1>1, TopCaseIsKnown, PTL

(* Flipped, neither reacts, unless YogaMode and the drivers have drifted   *)
(* apart before (IdeaWMI.cpp:98-115).                                      *)
THEOREM FlippedModesDisable == Spec => []FlippedIsDisabled
<1>1. laptop \notin Flipped
  BY FlippedModes DEF laptop, tablet, stand, tent
<1>2. TopCaseInv => FlippedIsDisabled
  BY <1>1 DEF TopCaseInv, SettledInv, OffInv, OffFor, Alone, Quiet, Reading, Both, AllOff,
              FlippedIsDisabled
<1>. QED  BY <1>2, TopCaseIsKnown, PTL

(* A machine put to sleep, or one whose driver has been unloaded, is left  *)
(* with a keyboard by an undisturbed call, and outside laptop mode with a  *)
(* touchpad as well (IdeaWMI.cpp:125-144).                                 *)
THEOREM KeyboardIsLeft == Spec => []LeftEnabled
<1>1. TopCaseInv => LeftEnabled
  BY DEF TopCaseInv, SettledInv, LeftEnabled, Both
<1>. QED  BY <1>1, TopCaseIsKnown, PTL

=============================================================================
