------------------------ MODULE KeyboardAndWMIProofs ------------------------
(***************************************************************************)
(* The ThinkPad keyboard's backlight, and the WMI services of a VPC.       *)
(***************************************************************************)
EXTENDS KeyboardBacklight, WMIServices, WellFoundedInduction, TLAPS

-----------------------------------------------------------------------------
(***************************************************************************)
(* KeyboardBacklight.  For any levels, timeouts and number of failures:    *)
(* the level the driver keeps is the keyboard's, a machine sleeps dark and *)
(* wakes as it was, and a keyboard the timeout has darkened can be lit by  *)
(* a key press.                                                            *)
(***************************************************************************)

Places == {"idle", "read", "keep", "compare", "set", "kept", "relight", "arm", "cancel", "asleep",
           "timeoutSet"}
Requested == {"none", "update", "backlight", "timeout", "rest", "press", "key", "sleep", "wake"}

(* The reply of MLCG is the only local value that is not a level.          *)
Status(l) == l + StatusBits
ValOK(t) == IF pc[t] = "keep" THEN \E l \in Levels : val[t] = Status(l) ELSE val[t] \in Levels

TypeOK ==
  /\ hw \in Levels
  /\ backlightLevel \in Levels /\ backlightLevelSaved \in Levels
  /\ backlightTimeout \in Nat
  /\ auto \in BOOLEAN /\ armed \in BOOLEAN
  /\ power \in {"boot", "on", "slept"}
  /\ pc \in [Threads -> Places]
  /\ op \in [Threads -> Requested]
  /\ DOMAIN val = Threads /\ \A t \in Threads : ValOK(t)
  /\ asked \in Levels
  /\ alone \in BOOLEAN /\ synced \in BOOLEAN /\ rested \in BOOLEAN
  /\ before \in Levels \cup {NoLevel}

(* The history variables speak only of requests that do not overlap.       *)
AloneIsAlone ==
  /\ alone => \A t, u \in Threads : pc[t] # "idle" /\ pc[u] # "idle" => t = u
  /\ synced \/ rested \/ before # NoLevel => alone

(* The driver's level is the keyboard's but between the evaluation of MLCS *)
(* and the assignment that follows it.                                     *)
LevelInv ==
  /\ alone => \A t \in Threads : pc[t] = "keep" => val[t] = Status(hw)
  /\ synced => \A t \in Threads : pc[t] = "kept" => val[t] = hw
  /\ synced /\ (\A t \in Threads : pc[t] # "kept") => backlightLevel = hw

(* What a sleep leaves behind for the wake.                                *)
Prepared == IF backlightTimeout # 0 THEN ~armed ELSE backlightLevelSaved = before
Unlit == hw = 0 /\ Prepared
AsBefore == backlightTimeout = 0 => hw = before

SleepStep ==
  /\ op["pm"] = "sleep" /\ power # "slept"
  /\ \/ pc["pm"] = "read" /\ hw = before
     \/ pc["pm"] = "keep" /\ hw = before /\ val["pm"] = Status(before)
     \/ pc["pm"] = "cancel" /\ hw = before /\ backlightLevel = before
     \/ pc["pm"] = "set" /\ val["pm"] = 0 /\ Prepared
     \/ pc["pm"] \in {"kept", "asleep"} /\ Unlit

WakeStep ==
  /\ op["pm"] = "wake" /\ power = "slept"
  /\ \/ pc["pm"] = "read" /\ Unlit
     \/ pc["pm"] = "keep" /\ Unlit /\ val["pm"] = Status(0)
     \/ pc["pm"] = "relight" /\ Unlit /\ backlightLevel = 0
     \/ pc["pm"] = "set" /\ (backlightTimeout = 0 => val["pm"] = before)
     \/ pc["pm"] \in {"kept", "arm"} /\ AsBefore

Between ==
  /\ pc["pm"] = "idle"
  /\ \/ power = "slept" /\ Unlit
     \/ power = "on" /\ AsBefore

(* The course of a sleep and the wake after it, as long as nothing         *)
(* disturbs them.                                                          *)
SleepInv ==
  before # NoLevel =>
    /\ Managed
    /\ \A t \in Threads \ {"pm"} : pc[t] = "idle"
    /\ SleepStep \/ WakeStep \/ Between

RestInv == rested /\ backlightTimeout # 0 => backlightLevelSaved # 0

BacklightInv == TypeOK /\ AloneIsAlone /\ LevelInv /\ SleepInv /\ RestInv

-----------------------------------------------------------------------------
USE DEF Threads, NoLevel, StatusBits

(* What the driver keeps of a reply is the level in it.                    *)
LEMMA StatusLevel ==
  ASSUME NEW l \in Levels
  PROVE  Status(l) % 4 = l
<1>1. l \in 0..3
  BY LevelNumbers
<1>. QED  BY <1>1 DEF Status

(* A step of a thread in the course of its request.                        *)
LEMMA ThreadStep ==
  ASSUME BacklightInv, NEW t \in Threads, pc[t] # "idle", TypeOK', RestInv',
         \A u \in Threads \ {t} : pc'[u] = pc[u] /\ val'[u] = val[u],
         UNCHANGED <<alone, auto, backlightTimeout>>,
         synced' => synced \/ alone, rested' => rested, before' \in {before, NoLevel},
         alone /\ pc'[t] = "keep" => val'[t] = Status(hw'),
         synced' /\ pc'[t] = "kept" => val'[t] = hw',
         synced' /\ pc'[t] # "kept" => backlightLevel' = hw',
         t = "pm" /\ before' # NoLevel /\ (SleepStep \/ WakeStep) =>
           SleepStep' \/ WakeStep' \/ Between'
  PROVE  BacklightInv'
<1>. USE DEF BacklightInv
<1>1. AloneIsAlone'
  BY DEF AloneIsAlone
<1>2. alone => \A u \in Threads \ {t} : pc[u] = "idle"
  BY DEF AloneIsAlone
<1>3. synced' => alone
  BY DEF AloneIsAlone
<1>4. LevelInv'
  BY <1>2, <1>3 DEF LevelInv
<1>5. SleepInv'
  <2>1. before' # NoLevel => before # NoLevel /\ t = "pm" /\ pc["pm"] # "idle"
    BY DEF SleepInv
  <2>. QED  BY <2>1 DEF SleepInv, Managed, Between
<1>. QED  BY <1>1, <1>4, <1>5

(* The beginning of a request.                                             *)
LEMMA BeginPreserves ==
  ASSUME BacklightInv, NEW t \in Threads, NEW o \in Requested, NEW step \in Places,
         Begin(t, o, step), TypeOK', RestInv',
         step \notin {"idle", "keep", "kept"},
         t # "pm" => o \notin {"sleep", "wake"},
         backlightLevel' = backlightLevel, o # "key" => hw' = hw,
         before' # NoLevel => Managed' /\ (SleepStep' \/ WakeStep')
  PROVE  BacklightInv'
<1>. USE DEF BacklightInv
<1>1. /\ pc[t] = "idle" /\ pc'[t] = step /\ \A u \in Threads \ {t} : pc'[u] = pc[u]
      /\ alone' <=> ~Others(t)
      /\ synced' <=> synced /\ ~Others(t) /\ o # "key"
      /\ before' # NoLevel => ~Others(t) /\ t = "pm"
      /\ rested' => ~Others(t)
  BY DEF Begin, TypeOK
<1>2. ~Others(t) => \A u \in Threads : pc'[u] # "idle" => u = t
  BY <1>1 DEF Others
<1>3. AloneIsAlone'
  BY <1>1, <1>2 DEF AloneIsAlone
<1>4. LevelInv'
  <2>1. ~Others(t) => \A u \in Threads : pc[u] = "idle" /\ pc'[u] \notin {"keep", "kept"}
    BY <1>1 DEF Others
  <2>. QED  BY <1>1, <2>1 DEF LevelInv
<1>5. SleepInv'
  BY <1>1, <1>2 DEF SleepInv
<1>. QED  BY <1>3, <1>4, <1>5

-----------------------------------------------------------------------------
(* Access to the firmware.                                                 *)

LEMMA Following ==
  \A o : /\ {AfterRead(o), AfterFailedRead(o)} \subseteq {"idle", "cancel", "relight", "compare"}
         /\ AfterSet(o) \in {"idle", "asleep", "arm"}
  BY DEF AfterRead, AfterFailedRead, AfterSet

LEMMA GotoTyped ==
  ASSUME TypeOK, NEW t \in Threads, NEW step \in Places, Goto(t, step)
  PROVE  /\ pc' \in [Threads -> Places] /\ op' \in [Threads -> Requested]
         /\ pc'[t] = step /\ \A u \in Threads \ {t} : pc'[u] = pc[u] /\ op'[u] = op[u]
         /\ step # "idle" => op' = op
  BY DEF TypeOK, Goto, Requested

LEMMA FaultTyped ==
  ASSUME TypeOK, Fault
  PROVE  UNCHANGED <<alone, synced>> /\ before' = NoLevel /\ rested' = FALSE
  BY DEF Fault

LEMMA ReadLevelPreserves ==
  ASSUME BacklightInv, NEW t \in Threads, ReadLevel(t)
  PROVE  BacklightInv'
<1>. USE DEF BacklightInv
<1>1. pc[t] = "read" /\ UNCHANGED <<hw, backlightLevel, backlightLevelSaved, backlightTimeout, auto,
                                     armed, power, asked>>
  BY DEF ReadLevel, driver
<1>2. CASE Goto(t, "keep") /\ val' = [val EXCEPT ![t] = hw + StatusBits] /\ UNCHANGED history
  <2>1. /\ pc' \in [Threads -> Places] /\ op' \in [Threads -> Requested]
        /\ pc'[t] = "keep" /\ \A u \in Threads \ {t} : pc'[u] = pc[u]
        /\ op' = op
    BY <1>2, GotoTyped DEF Places
  <2>2. /\ val'[t] = Status(hw) /\ DOMAIN val' = Threads
        /\ \A u \in Threads \ {t} : val'[u] = val[u]
    BY <1>2 DEF TypeOK, Status
  <2>3. TypeOK'
    BY <1>1, <1>2, <2>1, <2>2 DEF TypeOK, ValOK, history, Status
  <2>4. synced => backlightLevel = hw
    BY <1>1 DEF LevelInv, AloneIsAlone
  <2>5. t = "pm" /\ before # NoLevel /\ SleepStep => SleepStep'
    BY <1>1, <1>2, <2>1, <2>2 DEF SleepStep, history
  <2>6. t = "pm" /\ before # NoLevel /\ WakeStep => WakeStep'
    BY <1>1, <1>2, <2>1, <2>2 DEF WakeStep, Unlit, Prepared, history
  <2>. QED  BY <1>1, <1>2, <2>1, <2>2, <2>3, <2>4, <2>5, <2>6, ThreadStep DEF RestInv, history
<1>3. CASE Goto(t, AfterFailedRead(op[t])) /\ Fault /\ UNCHANGED val
  <2>1. /\ pc' \in [Threads -> Places] /\ op' \in [Threads -> Requested]
        /\ pc'[t] \in {"idle", "cancel", "relight", "compare"}
        /\ \A u \in Threads \ {t} : pc'[u] = pc[u]
    BY <1>3, Following, GotoTyped DEF Places
  <2>2. UNCHANGED <<alone, synced>> /\ before' = NoLevel /\ rested' = FALSE
    BY <1>3, FaultTyped
  <2>3. TypeOK'
    BY <1>1, <1>3, <2>1, <2>2 DEF TypeOK, ValOK
  <2>4. synced => backlightLevel = hw
    BY <1>1 DEF LevelInv, AloneIsAlone
  <2>. QED  BY <1>1, <1>3, <2>1, <2>2, <2>3, <2>4, ThreadStep DEF RestInv
<1>. QED  BY <1>2, <1>3 DEF ReadLevel

LEMMA KeepLevelPreserves ==
  ASSUME BacklightInv, NEW t \in Threads, KeepLevel(t)
  PROVE  BacklightInv'
<1>. USE DEF BacklightInv
<1>1. /\ pc[t] = "keep" /\ Goto(t, AfterRead(op[t])) /\ backlightLevel' = val[t] % 4
      /\ synced' = (synced \/ alone) /\ val' = [val EXCEPT ![t] = 0]
      /\ UNCHANGED <<hw, backlightLevelSaved, backlightTimeout, auto, armed, power, asked,
                     alone, before, rested>>
  BY DEF KeepLevel, At
<1>2. /\ pc' \in [Threads -> Places] /\ op' \in [Threads -> Requested]
      /\ pc'[t] = AfterRead(op[t])
      /\ \A u \in Threads \ {t} : pc'[u] = pc[u]
      /\ pc'[t] # "idle" => op' = op
  BY <1>1, Following, GotoTyped DEF Places
<1>3. pc'[t] \in {"idle", "cancel", "relight", "compare"}
  BY <1>2, Following
<1>4. PICK l \in Levels : val[t] = Status(l)
  BY <1>1 DEF TypeOK, ValOK
<1>5. backlightLevel' = l
  BY <1>1, <1>4, StatusLevel
<1>6. val'[t] = 0 /\ DOMAIN val' = Threads /\ \A u \in Threads \ {t} : val'[u] = val[u]
  BY <1>1 DEF TypeOK
<1>7. TypeOK'
  BY <1>1, <1>2, <1>3, <1>5, <1>6, LevelNumbers DEF TypeOK, ValOK
<1>8. \A m \in Levels : Status(l) = Status(m) => l = m
  BY LevelNumbers DEF Status
<1>9. synced' => backlightLevel' = hw
  BY <1>1, <1>4, <1>5, <1>8 DEF LevelInv, AloneIsAlone, TypeOK
<1>10. t = "pm" /\ before # NoLevel /\ SleepStep => SleepStep'
  BY <1>1, <1>2, <1>4, <1>5, <1>8 DEF SleepStep, AfterRead, TypeOK
<1>11. t = "pm" /\ before # NoLevel /\ WakeStep => WakeStep'
  BY <1>1, <1>2, <1>4, <1>5, <1>8, LevelNumbers DEF WakeStep, AfterRead, Unlit, Prepared
<1>12. pc'[t] \notin {"keep", "kept"} /\ pc[t] # "idle"
  BY <1>1, <1>3
<1>13. (synced' => synced \/ alone) /\ (rested' => rested) /\ before' \in {before, NoLevel}
  BY <1>1
<1>14. RestInv'
  BY <1>1 DEF RestInv
<1>15. /\ synced' => backlightLevel' = hw'
       /\ t = "pm" /\ before' # NoLevel /\ (SleepStep \/ WakeStep) => SleepStep' \/ WakeStep'
  BY <1>1, <1>9, <1>10, <1>11
<1>16. UNCHANGED <<alone, auto, backlightTimeout>>
  BY <1>1
<1>. QED  BY <1>2, <1>6, <1>7, <1>12, <1>13, <1>14, <1>15, <1>16, ThreadStep

LEMMA SetLevelPreserves ==
  ASSUME BacklightInv, NEW t \in Threads, SetLevel(t)
  PROVE  BacklightInv'
<1>. USE DEF BacklightInv
<1>1. pc[t] = "set" /\ UNCHANGED <<backlightLevel, backlightLevelSaved, backlightTimeout, auto,
                                   armed, power, asked>>
  BY DEF SetLevel, driver
<1>2. val[t] \in Levels
  BY <1>1 DEF TypeOK, ValOK
<1>3. CASE hw' = val[t] /\ Goto(t, "kept") /\ UNCHANGED <<val, history>>
  <2>1. /\ pc' \in [Threads -> Places] /\ op' \in [Threads -> Requested]
        /\ pc'[t] = "kept" /\ \A u \in Threads \ {t} : pc'[u] = pc[u]
        /\ op' = op
    BY <1>3, GotoTyped DEF Places
  <2>2. TypeOK'
    BY <1>1, <1>2, <1>3, <2>1 DEF TypeOK, ValOK, history
  <2>3. t = "pm" /\ before # NoLevel /\ SleepStep => SleepStep'
    BY <1>1, <1>3, <2>1 DEF SleepStep, Unlit, Prepared, history
  <2>4. t = "pm" /\ before # NoLevel /\ WakeStep => WakeStep'
    BY <1>1, <1>3, <2>1 DEF WakeStep, AsBefore, history
  <2>. QED  BY <1>1, <1>3, <2>1, <2>2, <2>3, <2>4, ThreadStep DEF RestInv, history
<1>4. CASE Goto(t, AfterSet(op[t])) /\ Fault /\ val' = [val EXCEPT ![t] = 0] /\ UNCHANGED hw
  <2>1. /\ pc' \in [Threads -> Places] /\ op' \in [Threads -> Requested]
        /\ pc'[t] \in {"idle", "asleep", "arm"}
        /\ \A u \in Threads \ {t} : pc'[u] = pc[u]
    BY <1>4, Following, GotoTyped DEF Places
  <2>2. UNCHANGED <<alone, synced>> /\ before' = NoLevel /\ rested' = FALSE
    BY <1>4, FaultTyped
  <2>3. val'[t] = 0 /\ DOMAIN val' = Threads /\ \A u \in Threads \ {t} : val'[u] = val[u]
    BY <1>4 DEF TypeOK
  <2>4. TypeOK'
    <3>1. \A u \in Threads : ValOK(u)'
      BY <2>1, <2>3, LevelNumbers DEF TypeOK, ValOK
    <3>. QED  BY <1>1, <1>4, <2>1, <2>2, <2>3, <3>1 DEF TypeOK
  <2>5. synced => backlightLevel = hw
    BY <1>1 DEF LevelInv, AloneIsAlone
  <2>. QED  BY <1>1, <1>4, <2>1, <2>2, <2>3, <2>4, <2>5, ThreadStep DEF RestInv
<1>. QED  BY <1>3, <1>4 DEF SetLevel

LEMMA KeepSetPreserves ==
  ASSUME BacklightInv, NEW t \in Threads, KeepSet(t)
  PROVE  BacklightInv'
<1>. USE DEF BacklightInv
<1>1. /\ pc[t] = "kept" /\ Goto(t, AfterSet(op[t])) /\ backlightLevel' = val[t]
      /\ val' = [val EXCEPT ![t] = 0]
      /\ UNCHANGED <<hw, backlightLevelSaved, backlightTimeout, auto, armed, power, asked,
                     alone, synced, before, rested>>
  BY DEF KeepSet, At, history
<1>2. /\ pc' \in [Threads -> Places] /\ op' \in [Threads -> Requested]
      /\ pc'[t] = AfterSet(op[t])
      /\ \A u \in Threads \ {t} : pc'[u] = pc[u]
      /\ pc'[t] # "idle" => op' = op
  BY <1>1, Following, GotoTyped DEF Places
<1>3. pc'[t] \in {"idle", "asleep", "arm"}
  BY <1>2, Following
<1>4. val[t] \in Levels
  BY <1>1 DEF TypeOK, ValOK
<1>5. val'[t] = 0 /\ DOMAIN val' = Threads /\ \A u \in Threads \ {t} : val'[u] = val[u]
  BY <1>1 DEF TypeOK
<1>6. TypeOK'
  BY <1>1, <1>2, <1>3, <1>4, <1>5, LevelNumbers DEF TypeOK, ValOK
<1>7. synced => backlightLevel' = hw
  BY <1>1 DEF LevelInv
<1>8. t = "pm" /\ before # NoLevel /\ SleepStep => SleepStep'
  BY <1>1, <1>2 DEF SleepStep, AfterSet, Unlit, Prepared
<1>9. t = "pm" /\ before # NoLevel /\ WakeStep => WakeStep'
  BY <1>1, <1>2 DEF WakeStep, AfterSet, AsBefore
<1>. QED  BY <1>1, <1>2, <1>3, <1>5, <1>6, <1>7, <1>8, <1>9, ThreadStep DEF RestInv

-----------------------------------------------------------------------------
(* The steps of the handlers themselves.                                   *)

LEMMA CompareLevelPreserves ==
  ASSUME BacklightInv, CompareLevel
  PROVE  BacklightInv'
<1>. USE DEF BacklightInv
<1>1. /\ pc["gate"] = "compare" /\ asked' = 0
      /\ UNCHANGED <<hw, backlightLevel, backlightLevelSaved, backlightTimeout, auto, armed, power,
                     alone, synced, before, rested>>
  BY DEF CompareLevel, driver, history
<1>2. /\ pc' \in [Threads -> Places] /\ op' \in [Threads -> Requested]
      /\ pc'["gate"] \in {"idle", "set"} /\ \A u \in Threads \ {"gate"} : pc'[u] = pc[u]
      /\ val'["gate"] \in {val["gate"], asked} /\ DOMAIN val' = Threads
      /\ \A u \in Threads \ {"gate"} : val'[u] = val[u]
  <2>1. CASE Goto("gate", "idle") /\ UNCHANGED val
    BY <2>1, GotoTyped DEF TypeOK, Places
  <2>2. CASE Goto("gate", "set") /\ val' = [val EXCEPT !["gate"] = asked]
    BY <2>2, GotoTyped DEF TypeOK, Places
  <2>. QED  BY <2>1, <2>2 DEF CompareLevel, SetTo
<1>3. TypeOK'
  BY <1>1, <1>2, LevelNumbers DEF TypeOK, ValOK
<1>4. synced => backlightLevel = hw
  BY <1>1 DEF LevelInv, AloneIsAlone
<1>. QED  BY <1>1, <1>2, <1>3, <1>4, ThreadStep DEF RestInv

LEMMA TimeoutSetPreserves ==
  ASSUME BacklightInv, TimeoutSet
  PROVE  BacklightInv'
<1>. USE DEF BacklightInv
<1>1. /\ pc["gate"] = "timeoutSet" /\ Goto("gate", "idle") /\ backlightLevelSaved' = 1
      /\ armed' \in BOOLEAN
      /\ UNCHANGED <<hw, backlightLevel, backlightTimeout, auto, power, val, asked,
                     alone, synced, before, rested>>
  BY DEF TimeoutSet, At, history, TypeOK
<1>2. /\ pc' \in [Threads -> Places] /\ op' \in [Threads -> Requested]
      /\ pc'["gate"] = "idle" /\ \A u \in Threads \ {"gate"} : pc'[u] = pc[u]
  BY <1>1, GotoTyped DEF Places
<1>3. TypeOK'
  BY <1>1, <1>2, LevelNumbers DEF TypeOK, ValOK
<1>4. synced => backlightLevel = hw
  BY <1>1 DEF LevelInv, AloneIsAlone
<1>. QED  BY <1>1, <1>2, <1>3, <1>4, ThreadStep DEF RestInv

(* A sleep saves the level for a wake that finds no timeout; where there   *)
(* is one, the level saved is left alone.                                  *)
LEMMA CancelOrSavePreserves ==
  ASSUME BacklightInv, CancelOrSave
  PROVE  BacklightInv'
<1>. USE DEF BacklightInv
<1>1. /\ pc["pm"] = "cancel"
      /\ UNCHANGED <<hw, backlightLevel, backlightTimeout, auto, power, asked,
                     alone, synced, before, rested>>
  BY DEF CancelOrSave, history
<1>2. IF backlightTimeout # 0 THEN armed' = FALSE /\ backlightLevelSaved' = backlightLevelSaved
      ELSE backlightLevelSaved' = backlightLevel /\ armed' = armed
  BY DEF CancelOrSave
<1>3. \/ Goto("pm", "set") /\ val' = [val EXCEPT !["pm"] = 0]
      \/ Goto("pm", "asleep") /\ val' = val /\ backlightLevel = 0
  BY DEF CancelOrSave, SetTo
<1>4. /\ pc' \in [Threads -> Places] /\ op' \in [Threads -> Requested] /\ op' = op
      /\ \/ pc'["pm"] = "set" /\ val'["pm"] = 0
         \/ pc'["pm"] = "asleep" /\ val'["pm"] = val["pm"] /\ backlightLevel = 0
      /\ \A u \in Threads \ {"pm"} : pc'[u] = pc[u]
      /\ DOMAIN val' = Threads /\ \A u \in Threads \ {"pm"} : val'[u] = val[u]
  <2>1. CASE Goto("pm", "set") /\ val' = [val EXCEPT !["pm"] = 0]
    BY <2>1, GotoTyped DEF TypeOK, Places
  <2>2. CASE Goto("pm", "asleep") /\ val' = val /\ backlightLevel = 0
    BY <2>2, GotoTyped DEF TypeOK, Places
  <2>. QED  BY <1>3, <2>1, <2>2
<1>5. TypeOK'
  <2>1. backlightLevelSaved' \in Levels /\ armed' \in BOOLEAN
    BY <1>2 DEF TypeOK
  <2>2. \A t \in Threads : ValOK(t)'
    BY <1>1, <1>4, LevelNumbers DEF TypeOK, ValOK
  <2>. QED  BY <1>1, <1>4, <2>1, <2>2 DEF TypeOK
<1>6. RestInv'
  BY <1>1, <1>2 DEF RestInv
<1>7. synced => backlightLevel = hw
  BY <1>1 DEF LevelInv, AloneIsAlone
<1>8. before # NoLevel /\ SleepStep => SleepStep'
  <2>. SUFFICES ASSUME before # NoLevel, SleepStep  PROVE  SleepStep'
    OBVIOUS
  <2>1. hw = before /\ backlightLevel = before
    BY <1>1 DEF SleepStep
  <2>2. Prepared'
    BY <1>1, <1>2, <2>1 DEF Prepared
  <2>. QED  BY <1>1, <1>4, <2>1, <2>2 DEF SleepStep, Unlit
<1>9. ~WakeStep
  BY <1>1 DEF WakeStep
<1>. QED  BY <1>1, <1>4, <1>5, <1>6, <1>7, <1>8, <1>9, ThreadStep

LEMMA AsleepPreserves ==
  ASSUME BacklightInv, Asleep
  PROVE  BacklightInv'
<1>. USE DEF BacklightInv
<1>1. /\ pc["pm"] = "asleep" /\ Goto("pm", "idle") /\ power' = "slept"
      /\ UNCHANGED <<hw, backlightLevel, backlightLevelSaved, backlightTimeout, auto, armed, val,
                     asked, alone, synced, before, rested>>
  BY DEF Asleep, At, driver, history
<1>2. /\ pc' \in [Threads -> Places] /\ op' \in [Threads -> Requested]
      /\ pc'["pm"] = "idle" /\ \A u \in Threads \ {"pm"} : pc'[u] = pc[u]
  BY <1>1, GotoTyped DEF Places
<1>3. TypeOK'
  BY <1>1, <1>2 DEF TypeOK, ValOK
<1>4. synced => backlightLevel = hw
  BY <1>1 DEF LevelInv, AloneIsAlone
<1>5. SleepStep \/ WakeStep => Between'
  BY <1>1, <1>2 DEF SleepStep, WakeStep, Between, Unlit, Prepared
<1>. QED  BY <1>1, <1>2, <1>3, <1>4, <1>5, ThreadStep DEF RestInv

LEMMA RelightPreserves ==
  ASSUME BacklightInv, NEW t \in Threads, Relight(t)
  PROVE  BacklightInv'
<1>. USE DEF BacklightInv
<1>1. /\ pc[t] = "relight"
      /\ UNCHANGED <<hw, backlightLevel, backlightLevelSaved, backlightTimeout, auto, armed, power,
                     asked, alone, synced, before, rested>>
  BY DEF Relight, driver, history
<1>2. IF Lights(t)
      THEN Goto(t, "set") /\ val' = [val EXCEPT ![t] = backlightLevelSaved]
      ELSE Goto(t, "arm") /\ val' = val
  BY DEF Relight, SetTo
<1>3. /\ pc' \in [Threads -> Places] /\ op' \in [Threads -> Requested] /\ op' = op
      /\ IF Lights(t)
         THEN pc'[t] = "set" /\ val'[t] = backlightLevelSaved
         ELSE pc'[t] = "arm" /\ val'[t] = val[t]
      /\ \A u \in Threads \ {t} : pc'[u] = pc[u]
      /\ DOMAIN val' = Threads /\ \A u \in Threads \ {t} : val'[u] = val[u]
  <2>1. CASE Lights(t)
    BY <1>2, <2>1, GotoTyped DEF TypeOK, Places
  <2>2. CASE ~Lights(t)
    BY <1>2, <2>2, GotoTyped DEF TypeOK, Places
  <2>. QED  BY <2>1, <2>2
<1>4. TypeOK'
  BY <1>1, <1>3 DEF TypeOK, ValOK
<1>5. synced => backlightLevel = hw
  BY <1>1 DEF LevelInv, AloneIsAlone
<1>6. t = "pm" /\ before # NoLevel /\ WakeStep => WakeStep'
  BY <1>1, <1>3 DEF Lights, WakeStep, Unlit, Prepared, AsBefore
<1>7. t = "pm" => ~SleepStep
  BY <1>1 DEF SleepStep
<1>. QED  BY <1>1, <1>3, <1>4, <1>5, <1>6, <1>7, ThreadStep DEF RestInv

LEMMA ArmPreserves ==
  ASSUME BacklightInv, NEW t \in Threads, Arm(t)
  PROVE  BacklightInv'
<1>. USE DEF BacklightInv
<1>1. /\ pc[t] = "arm" /\ Goto(t, "idle") /\ armed' \in BOOLEAN
      /\ power' = IF op[t] = "wake" THEN "on" ELSE power
      /\ UNCHANGED <<hw, backlightLevel, backlightLevelSaved, backlightTimeout, auto, val, asked,
                     alone, synced, before, rested>>
  BY DEF Arm, At, history
<1>2. /\ pc' \in [Threads -> Places] /\ op' \in [Threads -> Requested]
      /\ pc'[t] = "idle" /\ \A u \in Threads \ {t} : pc'[u] = pc[u]
  BY <1>1, GotoTyped DEF Places
<1>3. TypeOK'
  BY <1>1, <1>2 DEF TypeOK, ValOK
<1>4. synced => backlightLevel = hw
  BY <1>1 DEF LevelInv, AloneIsAlone
<1>5. t = "pm" /\ (SleepStep \/ WakeStep) => Between'
  BY <1>1, <1>2 DEF SleepStep, WakeStep, Between, AsBefore
<1>. QED  BY <1>1, <1>2, <1>3, <1>4, <1>5, ThreadStep DEF RestInv

-----------------------------------------------------------------------------
(* The beginnings of the requests.                                         *)

LEMMA BeginTyped ==
  ASSUME TypeOK, NEW t \in Threads, NEW o \in Requested, NEW step \in Places, Begin(t, o, step)
  PROVE  /\ pc' \in [Threads -> Places] /\ op' \in [Threads -> Requested]
         /\ pc[t] = "idle" /\ pc'[t] = step /\ op'[t] = o
         /\ \A u \in Threads \ {t} : pc'[u] = pc[u] /\ op'[u] = op[u]
         /\ alone' \in BOOLEAN /\ synced' \in BOOLEAN /\ rested' \in BOOLEAN
         /\ before' \in Levels \cup {NoLevel}
         /\ before' # NoLevel => o \in {"sleep", "wake"} /\ ~Others(t)
         /\ before' # NoLevel /\ o = "sleep" => before' = hw
         /\ before' # NoLevel /\ o = "wake" => before' = before
         /\ rested' => ~Others(t)
         /\ rested' /\ o = "rest" => synced /\ hw # 0
         /\ rested' /\ o # "rest" => rested
  BY DEF Begin, TypeOK

LEMMA UpdatePreserves ==
  ASSUME BacklightInv, Update
  PROVE  BacklightInv'
<1>. USE DEF BacklightInv
<1>1. Begin("gate", "update", "read") /\ UNCHANGED <<hw, driver, power, val, asked>>
  BY DEF Update
<1>2. /\ pc' \in [Threads -> Places] /\ op' \in [Threads -> Requested]
      /\ pc["gate"] = "idle" /\ pc'["gate"] = "read"
      /\ \A u \in Threads \ {"gate"} : pc'[u] = pc[u]
      /\ alone' \in BOOLEAN /\ synced' \in BOOLEAN /\ rested' = FALSE /\ before' = NoLevel
  <2>1. rested' = FALSE /\ before' = NoLevel
    BY <1>1 DEF Begin
  <2>. QED  BY <1>1, <2>1, BeginTyped DEF Places, Requested
<1>3. TypeOK'
  BY <1>1, <1>2 DEF TypeOK, ValOK, driver
<1>. QED  BY <1>1, <1>2, <1>3, BeginPreserves DEF RestInv, driver, Places, Requested

LEMMA SetBacklightPropertyPreserves ==
  ASSUME BacklightInv, SetBacklightProperty
  PROVE  BacklightInv'
<1>. USE DEF BacklightInv
<1>1. /\ Begin("gate", "backlight", "read") /\ asked' \in Levels
      /\ UNCHANGED <<hw, driver, power, val>>
  BY LevelNumbers DEF SetBacklightProperty
<1>2. /\ pc' \in [Threads -> Places] /\ op' \in [Threads -> Requested]
      /\ pc["gate"] = "idle" /\ pc'["gate"] = "read"
      /\ \A u \in Threads \ {"gate"} : pc'[u] = pc[u]
      /\ alone' \in BOOLEAN /\ synced' \in BOOLEAN /\ rested' = FALSE /\ before' = NoLevel
  <2>1. rested' = FALSE /\ before' = NoLevel
    BY <1>1 DEF Begin
  <2>. QED  BY <1>1, <2>1, BeginTyped DEF Places, Requested
<1>3. TypeOK'
  BY <1>1, <1>2 DEF TypeOK, ValOK, driver
<1>. QED  BY <1>1, <1>2, <1>3, BeginPreserves DEF RestInv, driver, Places, Requested

LEMMA SetTimeoutPreserves ==
  ASSUME BacklightInv, SetTimeout
  PROVE  BacklightInv'
<1>. USE DEF BacklightInv
<1>1. /\ Begin("gate", "timeout", "timeoutSet") /\ backlightTimeout' \in Nat
      /\ UNCHANGED <<hw, backlightLevel, backlightLevelSaved, auto, armed, power, val, asked>>
  BY TimeoutNumbers DEF SetTimeout
<1>2. /\ pc' \in [Threads -> Places] /\ op' \in [Threads -> Requested]
      /\ pc["gate"] = "idle" /\ pc'["gate"] = "timeoutSet"
      /\ \A u \in Threads \ {"gate"} : pc'[u] = pc[u]
      /\ alone' \in BOOLEAN /\ synced' \in BOOLEAN /\ rested' = FALSE /\ before' = NoLevel
  <2>1. rested' = FALSE /\ before' = NoLevel
    BY <1>1 DEF Begin
  <2>. QED  BY <1>1, <2>1, BeginTyped DEF Places, Requested
<1>3. TypeOK'
  BY <1>1, <1>2 DEF TypeOK, ValOK
<1>. QED  BY <1>1, <1>2, <1>3, BeginPreserves DEF RestInv, Places, Requested

LEMMA RestPreserves ==
  ASSUME BacklightInv, Rest
  PROVE  BacklightInv'
<1>. USE DEF BacklightInv
<1>1. /\ Begin("gate", "rest", "set") /\ armed' = FALSE
      /\ backlightLevelSaved' = backlightLevel /\ val' = [val EXCEPT !["gate"] = 0]
      /\ UNCHANGED <<hw, backlightLevel, backlightTimeout, auto, power, asked>>
  BY DEF Rest
<1>2. /\ pc' \in [Threads -> Places] /\ op' \in [Threads -> Requested]
      /\ pc["gate"] = "idle" /\ pc'["gate"] = "set"
      /\ \A u \in Threads \ {"gate"} : pc'[u] = pc[u]
      /\ alone' \in BOOLEAN /\ synced' \in BOOLEAN /\ rested' \in BOOLEAN
      /\ rested' => ~Others("gate") /\ synced /\ hw # 0
      /\ before' = NoLevel
  <2>1. before' = NoLevel
    BY <1>1 DEF Begin
  <2>. QED  BY <1>1, <2>1, BeginTyped DEF Places, Requested
<1>3. TypeOK'
  <2>1. DOMAIN val' = Threads /\ val'["gate"] = 0
        /\ \A u \in Threads \ {"gate"} : val'[u] = val[u]
    BY <1>1 DEF TypeOK
  <2>2. \A u \in Threads : ValOK(u)'
    BY <1>2, <2>1, LevelNumbers DEF TypeOK, ValOK
  <2>. QED  BY <1>1, <1>2, <2>1, <2>2 DEF TypeOK
<1>4. RestInv'
  <2>1. rested' => \A u \in Threads : pc[u] # "kept"
    BY <1>2 DEF Others
  <2>2. rested' => backlightLevel # 0
    BY <1>2, <2>1 DEF LevelInv
  <2>. QED  BY <1>1, <2>2 DEF RestInv
<1>. QED  BY <1>1, <1>2, <1>3, <1>4, BeginPreserves DEF Places, Requested

LEMMA KeyPressPreserves ==
  ASSUME BacklightInv, KeyPress
  PROVE  BacklightInv'
<1>. USE DEF BacklightInv
<1>1. /\ Begin("keys", "press", "relight") /\ armed' = FALSE
      /\ UNCHANGED <<hw, backlightLevel, backlightLevelSaved, backlightTimeout, auto, power, val,
                     asked>>
  BY DEF KeyPress
<1>2. /\ pc' \in [Threads -> Places] /\ op' \in [Threads -> Requested]
      /\ pc["keys"] = "idle" /\ pc'["keys"] = "relight"
      /\ \A u \in Threads \ {"keys"} : pc'[u] = pc[u]
      /\ alone' \in BOOLEAN /\ synced' \in BOOLEAN /\ rested' \in BOOLEAN
      /\ rested' => rested
      /\ before' = NoLevel
  <2>1. before' = NoLevel
    BY <1>1 DEF Begin
  <2>. QED  BY <1>1, <2>1, BeginTyped DEF Places, Requested
<1>3. TypeOK'
  BY <1>1, <1>2 DEF TypeOK, ValOK
<1>4. RestInv'
  BY <1>1, <1>2 DEF RestInv
<1>. QED  BY <1>1, <1>2, <1>3, <1>4, BeginPreserves DEF Places, Requested

LEMMA BacklightKeyPreserves ==
  ASSUME BacklightInv, BacklightKey
  PROVE  BacklightInv'
<1>. USE DEF BacklightInv
<1>1. /\ Begin("acpi", "key", "read") /\ hw' \in Levels
      /\ UNCHANGED <<driver, power, val, asked>>
  BY LevelNumbers DEF BacklightKey
<1>2. /\ pc' \in [Threads -> Places] /\ op' \in [Threads -> Requested]
      /\ pc["acpi"] = "idle" /\ pc'["acpi"] = "read"
      /\ \A u \in Threads \ {"acpi"} : pc'[u] = pc[u]
      /\ alone' \in BOOLEAN /\ synced' \in BOOLEAN /\ rested' = FALSE /\ before' = NoLevel
  <2>1. rested' = FALSE /\ before' = NoLevel
    BY <1>1 DEF Begin
  <2>. QED  BY <1>1, <2>1, BeginTyped DEF Places, Requested
<1>3. TypeOK'
  BY <1>1, <1>2 DEF TypeOK, ValOK, driver
<1>. QED  BY <1>1, <1>2, <1>3, BeginPreserves DEF RestInv, driver, Places, Requested

(* A change of power the driver has nothing to do for.                     *)
LEMMA UnmanagedPreserves ==
  ASSUME BacklightInv, before' = NoLevel, auto' \in BOOLEAN, power' \in {"boot", "on", "slept"},
         UNCHANGED <<hw, backlightLevel, backlightLevelSaved, backlightTimeout, armed, pc, op, val,
                     asked, alone, synced, rested>>
  PROVE  BacklightInv'
<1>. USE DEF BacklightInv
<1>1. TypeOK'
  BY DEF TypeOK, ValOK
<1>2. AloneIsAlone' /\ LevelInv' /\ SleepInv' /\ RestInv'
  BY DEF AloneIsAlone, LevelInv, SleepInv, RestInv
<1>. QED  BY <1>1, <1>2

LEMMA SleepPreserves ==
  ASSUME BacklightInv, Sleep
  PROVE  BacklightInv'
<1>. USE DEF BacklightInv
<1>1. power \in {"boot", "on"} /\ UNCHANGED <<hw, driver, val, asked>>
  BY DEF Sleep
<1>2. CASE Managed /\ Begin("pm", "sleep", "read") /\ power' = power
  <2>1. /\ pc' \in [Threads -> Places] /\ op' \in [Threads -> Requested]
        /\ pc["pm"] = "idle" /\ pc'["pm"] = "read" /\ op'["pm"] = "sleep"
        /\ \A u \in Threads \ {"pm"} : pc'[u] = pc[u]
        /\ alone' \in BOOLEAN /\ synced' \in BOOLEAN /\ rested' \in BOOLEAN
        /\ rested' => rested
        /\ before' \in Levels \cup {NoLevel}
        /\ before' # NoLevel => before' = hw
    BY <1>2, BeginTyped DEF Places, Requested
  <2>2. TypeOK'
    BY <1>1, <1>2, <2>1 DEF TypeOK, ValOK, driver
  <2>3. RestInv'
    BY <1>1, <2>1 DEF RestInv, driver
  <2>4. before' # NoLevel => Managed' /\ SleepStep'
    BY <1>1, <1>2, <2>1 DEF Managed, SleepStep, driver
  <2>. QED  BY <1>1, <1>2, <2>2, <2>3, <2>4, BeginPreserves DEF driver, Places, Requested
<1>3. CASE power' = "slept" /\ before' = NoLevel /\ UNCHANGED <<pc, op, alone, synced, rested>>
  BY <1>1, <1>3, UnmanagedPreserves DEF driver, TypeOK
<1>. QED  BY <1>2, <1>3 DEF Sleep

LEMMA WakePreserves ==
  ASSUME BacklightInv, Wake
  PROVE  BacklightInv'
<1>. USE DEF BacklightInv
<1>1. power \in {"boot", "slept"} /\ pc["pm"] = "idle" /\ UNCHANGED <<hw, driver, val, asked>>
  BY DEF Wake
<1>2. CASE Managed /\ Begin("pm", "wake", "read") /\ power' = power
  <2>1. /\ pc' \in [Threads -> Places] /\ op' \in [Threads -> Requested]
        /\ pc'["pm"] = "read" /\ op'["pm"] = "wake"
        /\ \A u \in Threads \ {"pm"} : pc'[u] = pc[u]
        /\ alone' \in BOOLEAN /\ synced' \in BOOLEAN /\ rested' \in BOOLEAN
        /\ rested' => rested
        /\ before' \in Levels \cup {NoLevel}
        /\ before' # NoLevel => before' = before
    BY <1>2, BeginTyped DEF Places, Requested
  <2>2. TypeOK'
    BY <1>1, <1>2, <2>1 DEF TypeOK, ValOK, driver
  <2>3. RestInv'
    BY <1>1, <2>1 DEF RestInv, driver
  <2>4. before' # NoLevel => power = "slept" /\ Unlit
    BY <1>1, <2>1 DEF SleepInv, SleepStep, WakeStep, Between
  <2>5. before' # NoLevel => Managed' /\ WakeStep'
    BY <1>1, <1>2, <2>1, <2>4 DEF Managed, WakeStep, Unlit, Prepared, driver
  <2>. QED  BY <1>1, <1>2, <2>2, <2>3, <2>5, BeginPreserves DEF driver, Places, Requested
<1>3. CASE ~Managed /\ power' = "on" /\ UNCHANGED <<pc, op, history>>
  <2>1. before = NoLevel
    BY <1>3 DEF SleepInv
  <2>. QED  BY <1>1, <1>3, <2>1, UnmanagedPreserves DEF driver, history, TypeOK
<1>. QED  BY <1>2, <1>3 DEF Wake

LEMMA SetAutoPreserves ==
  ASSUME BacklightInv, SetAuto
  PROVE  BacklightInv'
  BY UnmanagedPreserves DEF BacklightInv, SetAuto, TypeOK

-----------------------------------------------------------------------------
LEMMA InitBacklight == Init => BacklightInv
<1>. SUFFICES ASSUME Init  PROVE  BacklightInv
  OBVIOUS
<1>1. \A t \in Threads : pc[t] = "idle" /\ val[t] = 0
  BY DEF Init
<1>2. TypeOK
  BY <1>1, LevelNumbers DEF Init, TypeOK, ValOK, Places, Requested
<1>3. AloneIsAlone /\ LevelInv /\ SleepInv /\ RestInv
  BY <1>1 DEF Init, AloneIsAlone, LevelInv, SleepInv, RestInv
<1>. QED  BY <1>2, <1>3 DEF BacklightInv

LEMMA NextBacklight == BacklightInv /\ [Next]_vars => BacklightInv'
<1>. SUFFICES ASSUME BacklightInv, [Next]_vars  PROVE  BacklightInv'
  OBVIOUS
<1>1. ASSUME NEW t \in Threads, Body(t)  PROVE  BacklightInv'
  BY <1>1, ReadLevelPreserves, KeepLevelPreserves, SetLevelPreserves, KeepSetPreserves,
     RelightPreserves, ArmPreserves DEF Body, Access
<1>2. CASE CompareLevel \/ TimeoutSet \/ CancelOrSave \/ Asleep
  BY <1>2, CompareLevelPreserves, TimeoutSetPreserves, CancelOrSavePreserves, AsleepPreserves
<1>3. CASE Requests
  BY <1>3, UpdatePreserves, SetBacklightPropertyPreserves, SetAutoPreserves, SetTimeoutPreserves,
     RestPreserves, KeyPressPreserves, BacklightKeyPreserves, SleepPreserves, WakePreserves
     DEF Requests
<1>4. CASE UNCHANGED vars
  <2>1. TypeOK'
    BY <1>4 DEF BacklightInv, TypeOK, ValOK, vars, driver, history
  <2>2. AloneIsAlone' /\ LevelInv' /\ RestInv'
    BY <1>4 DEF BacklightInv, AloneIsAlone, LevelInv, RestInv, vars, driver, history
  <2>3. SleepInv'
    BY <1>4 DEF BacklightInv, SleepInv, SleepStep, WakeStep, Between, Unlit, Prepared, AsBefore,
                Managed, vars, driver, history
  <2>. QED  BY <2>1, <2>2, <2>3 DEF BacklightInv
<1>. QED  BY <1>1, <1>2, <1>3, <1>4 DEF Next

(* What the driver knows of the keyboard, whatever requests overlap and    *)
(* whatever accesses to the firmware fail.                                 *)
THEOREM BacklightIsKnown == Spec => []BacklightInv
<1>. QED  BY InitBacklight, NextBacklight, PTL DEF Spec

(* Once the driver has read the level undisturbed, the level it keeps is   *)
(* the keyboard's (ThinkVPC.cpp:940-977).                                  *)
THEOREM KeptLevelAgrees == Spec => []LevelAgrees
<1>1. BacklightInv => LevelAgrees
  BY DEF BacklightInv, LevelInv, LevelAgrees, Quiet
<1>. QED  BY <1>1, BacklightIsKnown, PTL

(* A machine whose backlight is managed sleeps dark, with its timeout      *)
(* cancelled (YogaVPC.cpp:406-413).                                        *)
THEOREM SleepingIsDark == Spec => []SleepIsDark
<1>1. BacklightInv => SleepIsDark
  BY DEF BacklightInv, SleepInv, SleepStep, WakeStep, Between, Unlit, Prepared, SleepIsDark, Quiet
<1>. QED  BY <1>1, BacklightIsKnown, PTL

(* Where no timeout is set, a wake brings back the level of the sleep      *)
(* before it (YogaVPC.cpp:406-417).                                        *)
THEOREM WakingRestores == Spec => []WakeRestores
<1>1. BacklightInv => WakeRestores
  BY DEF BacklightInv, SleepInv, SleepStep, WakeStep, Between, AsBefore, WakeRestores, Quiet
<1>. QED  BY <1>1, BacklightIsKnown, PTL

(* The next key press lights a keyboard that the timeout has darkened      *)
(* (YogaVPC.cpp:426-431, 726-735).                                         *)
THEOREM DarkenedIsLitAgain == Spec => []RestCanBeUndone
<1>1. BacklightInv => RestCanBeUndone
  BY DEF BacklightInv, RestInv, RestCanBeUndone
<1>. QED  BY <1>1, BacklightIsKnown, PTL

-----------------------------------------------------------------------------
(***************************************************************************)
(* WMIServices.  For every device, machine and description: the calls of   *)
(* the firmware are ones it answers, a folding machine's hinge is read,    *)
(* and a VPC stops every service it has started.                           *)
(***************************************************************************)

(* The last of some places in a sequence is one of them. *)
LEMMA LastIsOne ==
  ASSUME NEW n \in Nat, NEW I, I \subseteq 1 .. n, I # {}
  PROVE  Last(I) \in I
<1>. DEFINE T == {n - i : i \in I}
            R == {ss \in Nat \X Nat : ss[1] < ss[2]}
<1>1. T \subseteq Nat /\ T # {}
  <2>1. \A i \in I : n - i \in Nat
    OBVIOUS
  <2>. QED  BY <2>1
<1>2. PICK x \in T : \A y \in T : ~ (<<y, x>> \in R)
  <2>1. IsWellFoundedOn(R, Nat)
    BY NatLessThanWellFounded, Zenon DEF OpToRel
  <2>. HIDE DEF T, R
  <2>. QED  BY <1>1, <2>1, WFMin, Zenon
<1>3. \A y \in T : x <= y
  <2>1. ASSUME NEW y \in T PROVE x <= y
    <3>1. x \in Nat /\ y \in Nat /\ ~ (<<y, x>> \in R)
      BY <1>1, <1>2, <2>1
    <3>2. y < x => <<y, x>> \in R
      BY <3>1
    <3>. HIDE DEF R
    <3>. QED  BY <3>1, <3>2
  <2>. QED  BY <2>1
<1>4. PICK i \in I : x = n - i
  OBVIOUS
<1>5. \A j \in I : j <= i
  <2>1. ASSUME NEW j \in I PROVE j <= i
    <3>1. n - j \in T
      OBVIOUS
    <3>2. n - i <= n - j
      BY <1>3, <1>4, <3>1
    <3>. QED  BY <3>2
  <2>. QED  BY <2>1
<1>. QED  BY <1>5 DEF Last

(* What a table is read into: the entry of a GUID is a block with it, that *)
(* of a notification an event with it, and no block is without one.        *)
LEMMA TableIsRead ==
  ASSUME NEW t, t \in Seq(Range(t)), NEW w, w = extractData(t)
  PROVE  /\ \A g \in DOMAIN w.data : \E i \in DOMAIN t : w.data[g] = t[i] /\ t[i].guid = g
         /\ \A n \in DOMAIN w.event : \E i \in DOMAIN t : w.event[n] = t[i] /\ t[i].id = n /\ IsEvent(t[i])
         /\ \A i \in DOMAIN t : t[i].guid \in DOMAIN w.data /\ (IsEvent(t[i]) => t[i].id \in DOMAIN w.event)
<1>1. /\ DOMAIN w.data = {t[i].guid : i \in DOMAIN t}
      /\ \A g \in DOMAIN w.data : w.data[g] = t[Last(BlocksOf(t, g))]
      /\ DOMAIN w.event = {t[i].id : i \in {j \in DOMAIN t : IsEvent(t[j])}}
      /\ \A n \in DOMAIN w.event : w.event[n] = t[Last(EventsOf(t, n))]
  BY DEF extractData
<1>2. DOMAIN t = 1 .. Len(t) /\ Len(t) \in Nat
  OBVIOUS
<1>3. ASSUME NEW g \in DOMAIN w.data
      PROVE  Last(BlocksOf(t, g)) \in BlocksOf(t, g)
  <2>1. BlocksOf(t, g) \subseteq 1 .. Len(t) /\ BlocksOf(t, g) # {}
    BY <1>1, <1>2 DEF BlocksOf
  <2>. QED  BY <1>2, <2>1, LastIsOne
<1>4. ASSUME NEW n \in DOMAIN w.event
      PROVE  Last(EventsOf(t, n)) \in EventsOf(t, n)
  <2>1. EventsOf(t, n) \subseteq 1 .. Len(t) /\ EventsOf(t, n) # {}
    BY <1>1, <1>2 DEF EventsOf
  <2>. QED  BY <1>2, <2>1, LastIsOne
<1>. QED  BY <1>1, <1>3, <1>4 DEF BlocksOf, EventsOf

-----------------------------------------------------------------------------
(* The calls. *)
CallOK(c) == Answered(c) /\ (c.block.guid \in {"bmf", "inputEvent"} \/ c.instance < c.block.count)

LEMMA ExecutedAreAnswered ==
  ASSUME NEW t, t \in Seq(Range(t)), NEW g \in {"bmf", "inputEvent"}, NEW c \in executeMethod(extractData(t), g)
  PROVE  CallOK(c)
<1>. DEFINE w == extractData(t)
<1>1. /\ NameOf(w.data[g]) = "WE" \/ HasObjectId(w.data[g])
      /\ c = [name |-> NameOf(w.data[g]), block |-> w.data[g], instance |-> 0]
  BY DEF executeMethod, getMethod, Call
<1>2. g \in DOMAIN w.data /\ w.data[g].guid = g
  <2>1. g \in DOMAIN w.data
    BY DEF executeMethod, getMethod
  <2>. QED  BY <2>1, TableIsRead
<1>. HIDE DEF w
<1>. QED  BY <1>1, <1>2 DEF CallOK, Answered, NameOf, HasObjectId

LEMMA EvaluatedAreAnswered ==
  ASSUME NEW w, NEW g, NEW i, NEW c \in evaluateMethod(w, g, i), \A h \in DOMAIN w.data : w.data[h].count \in Nat, i \in Nat
  PROVE  CallOK(c)
<1>1. /\ g \in DOMAIN w.data /\ w.data[g].flags \cap {"method"} # {} /\ HasObjectId(w.data[g]) /\ w.data[g].count > i
      /\ c = [name |-> "WM", block |-> w.data[g], instance |-> i]
  BY DEF evaluateMethod, getMethod, Call
<1>. QED  BY <1>1 DEF CallOK, Answered, HasObjectId

LEMMA QueriedAreAnswered ==
  ASSUME NEW w, NEW g, NEW i, NEW c \in queryBlock(w, g, i), \A h \in DOMAIN w.data : w.data[h].count \in Nat, i \in Nat
  PROVE  CallOK(c)
<1>1. /\ g \in DOMAIN w.data /\ w.data[g].flags \cap {"event", "method"} = {} /\ HasObjectId(w.data[g])
      /\ w.data[g].count > i /\ c = [name |-> "WQ", block |-> w.data[g], instance |-> i]
  BY DEF queryBlock, getMethod, Call
<1>. QED  BY <1>1 DEF CallOK, Answered, HasObjectId

-----------------------------------------------------------------------------
(* What is known of the machine, of the collections and of each service.   *)
Classes == {"Yoga", "Paper", "SuperRes", "Battery", "GameZone", "YogaWMI", "DYWMI"}
Children == [device : Found, class : Classes]

MachineOK ==
  /\ vendor \in {"idea", "dy"} /\ DOMAIN wdg = Found \cup {"vpc"}
  /\ \A d \in DOMAIN wdg :
       /\ wdg[d] \in Seq(Range(wdg[d]))
       /\ \A b \in Range(wdg[d]) : IsBlock(b) /\ b.id # NoEvent

Collected ==
  /\ WMICollection \in Seq(Children) /\ WMIProvCollection \in Seq(Found)
  /\ Len(WMICollection) = Len(WMIProvCollection)
  /\ \A i \in DOMAIN WMICollection :
       /\ WMICollection[i].device = WMIProvCollection[i]
       /\ WMICollection[i].class = ClassOf(WMIProvCollection[i])
  /\ \A i, j \in DOMAIN WMIProvCollection : WMIProvCollection[i] = WMIProvCollection[j] => i = j

Listed(d) == \E i \in DOMAIN WMIProvCollection : WMIProvCollection[i] = d
StateOf(i) == service[WMIProvCollection[i]]
Early == {"matching", "probing", "refused", "failed"}
Late == {"starting", "started", "stopping", "stopped"}

LifeTypeOK ==
  /\ phase \in Early \cup Late /\ at \in Nat
  /\ service \in [Found -> {"none", "made", "dropped", "described", "registering", "started", "stopped"}]
  /\ input \in BOOLEAN /\ (input => phase \in {"starting", "started"})

(* The services that are not in the collections do not run, and those that *)
(* are are where the loops of start and stop have left them.               *)
Unlisted ==
  \A d \in Found : ~Listed(d) =>
    service[d] \in IF phase \in Early THEN {"none"} ELSE IF phase = "stopped" THEN {"none", "dropped", "stopped"} ELSE {"none", "dropped"}

Stages ==
  /\ phase = "matching" => WMIProvCollection = <<>>
  /\ phase \in Early => \A i \in DOMAIN WMIProvCollection : StateOf(i) = "made"
  /\ phase = "probing" =>
       /\ at > 0
       /\ \A i \in DOMAIN WMIProvCollection : \E k \in DOMAIN Devices : k < at /\ WMIProvCollection[i] = Devices[k]
  /\ phase \in {"starting", "stopping"} => at <= Len(WMIProvCollection)
  /\ phase = "starting" =>
       \A i \in DOMAIN WMIProvCollection :
         /\ i < at => StateOf(i) = "made"
         /\ i = at => StateOf(i) \in {"made", "described", "registering"}
         /\ i > at => StateOf(i) = "started"
  /\ phase = "started" => \A i \in DOMAIN WMIProvCollection : StateOf(i) = "started"
  /\ phase = "stopping" =>
       \A i \in DOMAIN WMIProvCollection : StateOf(i) = IF i <= at THEN "started" ELSE "stopped"
  /\ phase = "stopped" => WMIProvCollection = <<>>

Lives == MachineOK /\ Collected /\ LifeTypeOK /\ Unlisted /\ Stages

(* What a service knows of its events once it has registered some.         *)
EventsKnown(d) ==
  /\ todo[d] \subseteq DOMAIN WMIOf(d).event
  /\ event[d] # NoEvent => event[d] \in DOMAIN WMIOf(d).event /\ WMIOf(d).event[event[d]].guid \in Registers(ClassOf(d))
  /\ extension[d] => \E n \in DOMAIN WMIOf(d).event : WMIOf(d).event[n].guid = "gsensorExtEvent"
  /\ service[d] \in {"registering", "started"} =>
       \A n \in DOMAIN WMIOf(d).event \ todo[d] :
         WMIOf(d).event[n].guid \in Registers(ClassOf(d)) =>
           event[d] # NoEvent /\ (WMIOf(d).event[n].guid = "gsensorExtEvent" => extension[d])
  /\ service[d] = "started" => todo[d] = {}

Events ==
  /\ DOMAIN todo = Found /\ DOMAIN event = Found /\ extension \in [Found -> BOOLEAN]
  /\ \A d \in Found : EventsKnown(d)

LEMMA MachineStays ==
  ASSUME UNCHANGED machine
  PROVE  (\A d : WMIOf(d)' = WMIOf(d) /\ ClassOf(d)' = ClassOf(d)) /\ (MachineOK => MachineOK')
BY DEF machine, WMIOf, ClassOf, MachineOK

LEMMA ClassIsOne == \A d : ClassOf(d) \in Classes
BY DEF ClassOf, withIdeaWMI, withDYWMI, Classes

LEMMA CollectionsStay ==
  ASSUME Collected, UNCHANGED <<machine, WMICollection, WMIProvCollection>>
  PROVE  Collected'
BY MachineStays DEF Collected

LEMMA MachineInit == ServicesInit => MachineOK
BY Described DEF ServicesInit, MachineOK, Found

LEMMA LivesInit == ServicesInit => Lives
<1>. SUFFICES ASSUME ServicesInit PROVE Lives
  OBVIOUS
<1>1. MachineOK
  BY MachineInit
<1>2. /\ WMICollection = <<>> /\ WMIProvCollection = <<>> /\ phase = "matching" /\ at = 0
      /\ service = [d \in Found |-> "none"] /\ input = FALSE
  BY DEF ServicesInit
<1>3. Collected
  <2>1. WMICollection \in Seq(Children) /\ WMIProvCollection \in Seq(Found) /\ Len(WMICollection) = 0
        /\ Len(WMIProvCollection) = 0 /\ DOMAIN WMICollection = {} /\ DOMAIN WMIProvCollection = {}
    BY <1>2
  <2>. QED  BY <2>1 DEF Collected
<1>4. LifeTypeOK /\ Unlisted
  BY <1>2 DEF LifeTypeOK, Unlisted, Early, Late
<1>5. Stages
  <2>1. DOMAIN WMIProvCollection = {}
    BY <1>2
  <2>. QED  BY <1>2, <2>1 DEF Stages
<1>. QED  BY <1>1, <1>3, <1>4, <1>5 DEF Lives

(* The steps that change neither the collections nor a service. *)
LEMMA PhasesKeepLives ==
  ASSUME Lives, ProbeVPC \/ InitIdeaVPC \/ InitDYVPC \/ EndOfStart \/ ExitVPC
  PROVE  Lives'
<1>1. UNCHANGED <<machine, WMICollection, WMIProvCollection, service>>
  BY DEF ProbeVPC, InitIdeaVPC, InitDYVPC, EndOfStart, ExitVPC, child
<1>2. /\ Len(WMICollection) = Len(WMIProvCollection) /\ Len(WMIProvCollection) \in Nat
      /\ DOMAIN WMIProvCollection = 1 .. Len(WMIProvCollection)
  BY DEF Lives, Collected
<1>3. MachineOK' /\ Collected'
  BY <1>1, MachineStays, CollectionsStay DEF Lives
<1>4. LifeTypeOK'
  <2>1. phase' \in Early \cup Late /\ at' \in Nat
    <3>1. /\ phase' \in {"probing", "refused", "starting", "failed", "started", "stopping"}
          /\ at' \in {1, at, Len(WMICollection)}
      BY Zenon DEF ProbeVPC, InitIdeaVPC, InitDYVPC, EndOfStart, ExitVPC
    <3>2. at \in Nat
      BY Zenon DEF Lives, LifeTypeOK
    <3>. QED  BY <1>2, <3>1, <3>2 DEF Early, Late
  <2>2. input' \in BOOLEAN
    BY Zenon DEF Lives, LifeTypeOK, ProbeVPC, InitIdeaVPC, InitDYVPC, EndOfStart, ExitVPC
  <2>3. (input' = input /\ (phase \notin {"starting", "started"} \/ phase' = "started")) \/ phase' = "starting" \/ input' = FALSE
    BY DEF ProbeVPC, InitIdeaVPC, InitDYVPC, EndOfStart, ExitVPC
  <2>4. input' => phase' \in {"starting", "started"}
    BY <2>3, Zenon DEF Lives, LifeTypeOK
  <2>. QED  BY <1>1, <2>1, <2>2, <2>4 DEF Lives, LifeTypeOK
<1>5. Unlisted'
  <2>1. ASSUME NEW d \in Found, ~Listed(d) PROVE service[d] \in IF phase' \in Early THEN {"none"} ELSE {"none", "dropped"}
    BY <2>1 DEF Lives, Unlisted, ProbeVPC, InitIdeaVPC, InitDYVPC, EndOfStart, ExitVPC, Early, Late
  <2>2. phase' # "stopped"
    BY DEF ProbeVPC, InitIdeaVPC, InitDYVPC, EndOfStart, ExitVPC
  <2>. QED  BY <1>1, <2>1, <2>2 DEF Unlisted, Listed
<1>6. Stages'
  <2>1. \A i : StateOf(i)' = StateOf(i)
    BY <1>1 DEF StateOf
  <2>2. CASE ProbeVPC
    BY <1>1, <1>2, <2>1, <2>2 DEF Lives, Stages, ProbeVPC, Early
  <2>3. CASE InitIdeaVPC \/ InitDYVPC
    <3>1. phase = "probing" /\ phase' \in {"starting", "failed"} /\ at' = Len(WMIProvCollection)
      BY <1>2, <2>3 DEF InitIdeaVPC, InitDYVPC
    <3>2. \A i \in DOMAIN WMIProvCollection : StateOf(i)' = "made"
      BY <2>1, <3>1 DEF Lives, Stages, Early
    <3>. QED  BY <1>1, <1>2, <3>1, <3>2 DEF Stages, Early
  <2>4. CASE EndOfStart
    BY <1>1, <1>2, <2>1, <2>4 DEF Lives, Stages, EndOfStart, Early
  <2>5. CASE ExitVPC
    BY <1>1, <1>2, <2>1, <2>5 DEF Lives, Stages, ExitVPC, Early
  <2>. QED  BY <2>2, <2>3, <2>4, <2>5
<1>. QED  BY <1>3, <1>4, <1>5, <1>6 DEF Lives

(* A service is made for a device that has none. *)
LEMMA ProbeKeepsLives ==
  ASSUME Lives, ProbeWMI
  PROVE  Lives'
<1>. DEFINE d == Devices[at]
<1>1. /\ phase = "probing" /\ at <= Len(Devices) /\ at' = at + 1 /\ at \in Nat /\ at > 0
      /\ UNCHANGED <<machine, phase, input>> /\ MachineOK
  BY DEF Lives, Stages, LifeTypeOK, ProbeWMI
<1>2. at \in DOMAIN Devices /\ d \in Found /\ DOMAIN Devices \subseteq Nat
  BY <1>1, DevicesDiffer DEF Found, Range
<1>3. MachineOK'
  BY <1>1, MachineStays
<1>4. CASE UNCHANGED <<WMICollection, WMIProvCollection, service>>
  <2>1. Collected'
    BY <1>1, <1>4, CollectionsStay DEF Lives
  <2>. QED  BY <1>1, <1>2, <1>3, <1>4, <2>1 DEF Lives, LifeTypeOK, Unlisted, Listed, Stages, StateOf, Early, Late
<1>5. CASE ~UNCHANGED <<WMICollection, WMIProvCollection, service>>
  <2>. DEFINE e == [device |-> d, class |-> ClassOf(d)]
  <2>1. /\ WMICollection' = Append(WMICollection, e)
        /\ WMIProvCollection' = Append(WMIProvCollection, d)
        /\ service' = [service EXCEPT ![d] = "made"]
    BY <1>5 DEF ProbeWMI
  <2>2. e \in Children /\ e.device = d /\ e.class = ClassOf(d)
    BY <1>2, ClassIsOne DEF Children
  <2>3. \A i \in DOMAIN WMIProvCollection : WMIProvCollection[i] # d
    BY <1>1, <1>2, DevicesDiffer DEF Lives, Stages
  <2>. HIDE DEF d, e
  <2>4. /\ WMICollection \in Seq(Children) /\ WMIProvCollection \in Seq(Found)
        /\ Len(WMICollection) = Len(WMIProvCollection) /\ Len(WMIProvCollection) \in Nat
    BY DEF Lives, Collected
  <2>5. /\ WMICollection' \in Seq(Children) /\ WMIProvCollection' \in Seq(Found)
        /\ Len(WMICollection') = Len(WMICollection) + 1 /\ Len(WMIProvCollection') = Len(WMIProvCollection) + 1
        /\ \A i \in DOMAIN WMIProvCollection' :
             \/ /\ i \in DOMAIN WMIProvCollection /\ i <= Len(WMIProvCollection)
                /\ WMICollection'[i] = WMICollection[i] /\ WMIProvCollection'[i] = WMIProvCollection[i]
             \/ i = Len(WMIProvCollection') /\ WMICollection'[i] = e /\ WMIProvCollection'[i] = d
    BY <1>2, <2>1, <2>2, <2>4
  <2>6. DOMAIN WMICollection' = DOMAIN WMIProvCollection' /\ DOMAIN WMIProvCollection' \subseteq Nat
    BY <2>4, <2>5
  <2>7. \A i \in DOMAIN WMIProvCollection' :
          /\ WMICollection'[i].device = WMIProvCollection'[i]
          /\ WMICollection'[i].class = ClassOf(WMIProvCollection'[i])
    BY <2>2, <2>4, <2>5 DEF Lives, Collected
  <2>8. Collected'
    <3>1. \A i, j \in DOMAIN WMIProvCollection' : WMIProvCollection'[i] = WMIProvCollection'[j] => i = j
      BY <2>3, <2>5 DEF Lives, Collected
    <3>2. \A g : ClassOf(g)' = ClassOf(g)
      BY <1>1, MachineStays
    <3>. QED  BY <2>4, <2>5, <2>6, <2>7, <3>1, <3>2 DEF Collected
  <2>9. LifeTypeOK'
    <3>1. input' \in BOOLEAN /\ (input' => phase' \in {"starting", "started"})
      BY <1>1, Zenon DEF Lives, LifeTypeOK
    <3>2. /\ phase' \in Early \cup Late /\ at' \in Nat
          /\ service' \in [Found -> {"none", "made", "dropped", "described", "registering", "started", "stopped"}]
      BY <1>1, <1>2, <2>1 DEF Lives, LifeTypeOK
    <3>. QED  BY <3>1, <3>2, Zenon DEF LifeTypeOK
  <2>10. Unlisted'
    <3>1. \A g : Listed(g)' <=> Listed(g) \/ g = d
      <4>1. \A i \in DOMAIN WMIProvCollection : i \in DOMAIN WMIProvCollection' /\ WMIProvCollection'[i] = WMIProvCollection[i]
        BY <2>1, <2>4, <2>5, <1>2
      <4>2. Len(WMIProvCollection') \in DOMAIN WMIProvCollection' /\ WMIProvCollection'[Len(WMIProvCollection')] = d
        BY <2>1, <2>4, <2>5, <1>2
      <4>. QED  BY <2>5, <4>1, <4>2 DEF Listed
    <3>. QED  BY <1>1, <2>1, <3>1 DEF Lives, LifeTypeOK, Unlisted
  <2>11. Stages'
    <3>1. \A i \in DOMAIN WMIProvCollection' : service'[WMIProvCollection'[i]] = "made"
      BY <1>1, <1>2, <2>1, <2>3, <2>4, <2>5 DEF Lives, LifeTypeOK, Stages, StateOf, Early
    <3>2. \A i \in DOMAIN WMIProvCollection' : \E k \in DOMAIN Devices : k < at' /\ WMIProvCollection'[i] = Devices[k]
      <4>1. \A i \in DOMAIN WMIProvCollection : \E k \in DOMAIN Devices : k < at' /\ WMIProvCollection[i] = Devices[k]
        BY <1>1, <1>2 DEF Lives, Stages
      <4>2. at \in DOMAIN Devices /\ at < at' /\ d = Devices[at]
        BY <1>1, <1>2 DEF d
      <4>. QED  BY <2>5, <4>1, <4>2
    <3>. QED  BY <1>1, <3>1, <3>2 DEF Stages, StateOf
  <2>. QED  BY <1>3, <2>8, <2>9, <2>10, <2>11 DEF Lives
<1>. QED  BY <1>4, <1>5

(* What is left without one is what there was, in the same order. *)
LEMMA WithoutOne ==
  ASSUME NEW S, NEW s \in Seq(S), NEW i \in 1 .. Len(s)
  PROVE  /\ Without(s, i) \in Seq(S) /\ Len(Without(s, i)) = Len(s) - 1
         /\ \A j \in 1 .. Len(s) - 1 : Without(s, i)[j] = s[IF j < i THEN j ELSE j + 1]
<1>. DEFINE n == Len(s) - 1
<1>1. n \in Nat /\ \A j \in 1 .. n : (IF j < i THEN j ELSE j + 1) \in 1 .. Len(s)
  OBVIOUS
<1>2. Without(s, i) = [j \in 1 .. n |-> s[IF j < i THEN j ELSE j + 1]]
  BY DEF Without
<1>3. \A j \in 1 .. n : s[IF j < i THEN j ELSE j + 1] \in S
  BY <1>1
<1>. HIDE DEF n
<1>4. Without(s, i) \in [1 .. n -> S]
  BY <1>2, <1>3
<1>. QED  BY <1>1, <1>2, <1>4 DEF n

(* One that fails to start is dropped from both collections.               *)
LEMMA DropKeepsLives ==
  ASSUME Lives, DropChild
  PROVE  Lives'
<1>. DEFINE d == WMIProvCollection[at]
            n == Len(WMIProvCollection)
<1>1. /\ phase = "starting" /\ at > 0 /\ at \in Nat /\ at <= n /\ n \in Nat /\ at' = at - 1
      /\ UNCHANGED <<machine, phase, input>>
      /\ WMICollection \in Seq(Children) /\ WMIProvCollection \in Seq(Found) /\ Len(WMICollection) = n
      /\ WMICollection' = Without(WMICollection, at) /\ WMIProvCollection' = Without(WMIProvCollection, at)
  BY DEF Lives, Collected, LifeTypeOK, Stages, DropChild
<1>2. at \in DOMAIN WMIProvCollection /\ DOMAIN WMIProvCollection = 1 .. n /\ DOMAIN WMICollection = 1 .. n /\ d \in Found
  BY <1>1
<1>3. service' = [service EXCEPT ![d] = "dropped"]
  BY <1>1, <1>2 DEF Lives, Collected, DropChild, Current
<1>. HIDE DEF d
<1>4. /\ WMICollection' \in Seq(Children) /\ WMIProvCollection' \in Seq(Found)
      /\ Len(WMICollection') = n - 1 /\ Len(WMIProvCollection') = n - 1
      /\ DOMAIN WMICollection' = 1 .. n - 1 /\ DOMAIN WMIProvCollection' = 1 .. n - 1
      /\ \A j \in 1 .. n - 1 :
           /\ WMICollection'[j] = WMICollection[IF j < at THEN j ELSE j + 1]
           /\ WMIProvCollection'[j] = WMIProvCollection[IF j < at THEN j ELSE j + 1]
  <2>1. at \in 1 .. Len(WMICollection) /\ at \in 1 .. Len(WMIProvCollection)
    BY <1>1
  <2>2. /\ WMICollection' \in Seq(Children) /\ Len(WMICollection') = Len(WMICollection) - 1
        /\ \A j \in 1 .. Len(WMICollection) - 1 : WMICollection'[j] = WMICollection[IF j < at THEN j ELSE j + 1]
    BY <1>1, <2>1, WithoutOne, Zenon
  <2>3. /\ WMIProvCollection' \in Seq(Found) /\ Len(WMIProvCollection') = Len(WMIProvCollection) - 1
        /\ \A j \in 1 .. Len(WMIProvCollection) - 1 : WMIProvCollection'[j] = WMIProvCollection[IF j < at THEN j ELSE j + 1]
    BY <1>1, <2>1, WithoutOne, Zenon
  <2>4. n = Len(WMICollection) /\ n = Len(WMIProvCollection)
    BY <1>1
  <2>5. /\ Len(WMICollection') = n - 1 /\ WMICollection' \in Seq(Children)
        /\ \A j \in 1 .. n - 1 : WMICollection'[j] = WMICollection[IF j < at THEN j ELSE j + 1]
    BY <2>2, <2>4
  <2>6. /\ Len(WMIProvCollection') = n - 1 /\ WMIProvCollection' \in Seq(Found)
        /\ \A j \in 1 .. n - 1 : WMIProvCollection'[j] = WMIProvCollection[IF j < at THEN j ELSE j + 1]
    BY <2>3, <2>4
  <2>. HIDE DEF n
  <2>7. DOMAIN WMICollection' = 1 .. n - 1 /\ DOMAIN WMIProvCollection' = 1 .. n - 1
    BY <2>5, <2>6
  <2>. QED  BY <2>5, <2>6, <2>7
<1>5. ASSUME NEW j \in 1 .. n - 1
      PROVE  \E k \in DOMAIN WMIProvCollection :
               /\ k # at /\ (k < at <=> j < at) /\ (k = IF j < at THEN j ELSE j + 1)
               /\ WMICollection'[j] = WMICollection[k] /\ WMIProvCollection'[j] = WMIProvCollection[k]
  <2>1. (IF j < at THEN j ELSE j + 1) \in 1 .. n
    BY <1>1
  <2>. QED  BY <1>1, <1>2, <1>4, <2>1
<1>. HIDE DEF n
<1>6. Collected'
  <2>1. \A j \in 1 .. n - 1 :
          /\ WMICollection'[j].device = WMIProvCollection'[j]
          /\ WMICollection'[j].class = ClassOf(WMIProvCollection'[j])
    BY <1>2, <1>5 DEF Lives, Collected
  <2>2. \A j, l \in 1 .. n - 1 : WMIProvCollection'[j] = WMIProvCollection'[l] => j = l
    BY <1>1, <1>2, <1>5 DEF Lives, Collected
  <2>3. \A g : ClassOf(g)' = ClassOf(g)
    BY <1>1, MachineStays
  <2>. QED  BY <1>4, <2>1, <2>2, <2>3 DEF Collected
<1>7. \A j \in 1 .. n - 1 : WMIProvCollection'[j] # d
  BY <1>2, <1>5 DEF Lives, Collected, d
<1>8. LifeTypeOK'
  <2>1. /\ phase' \in Early \cup Late /\ at' \in Nat
        /\ service' \in [Found -> {"none", "made", "dropped", "described", "registering", "started", "stopped"}]
    BY <1>1, <1>2, <1>3 DEF Lives, LifeTypeOK
  <2>2. input' \in BOOLEAN /\ (input' => phase' \in {"starting", "started"})
    BY <1>1, Zenon DEF Lives, LifeTypeOK
  <2>. QED  BY <2>1, <2>2, Zenon DEF LifeTypeOK
<1>9. Unlisted'
  <2>1. ASSUME NEW g \in Found, ~Listed(g)', g # d PROVE ~Listed(g)
    <3>1. SUFFICES ASSUME NEW k \in DOMAIN WMIProvCollection, WMIProvCollection[k] = g PROVE FALSE
      BY DEF Listed
    <3>2. k # at
      BY <2>1, <3>1 DEF d
    <3>3. PICK j \in 1 .. n - 1 : k = IF j < at THEN j ELSE j + 1
      <4>1. CASE k < at
        BY <1>1, <1>2, <4>1
      <4>2. CASE k > at
        <5>1. k - 1 \in 1 .. n - 1 /\ ~(k - 1 < at) /\ k = (k - 1) + 1
          BY <1>1, <1>2, <4>2
        <5>. QED  BY <5>1
      <4>. QED  BY <1>1, <1>2, <3>2, <4>1, <4>2
    <3>4. WMIProvCollection'[j] = g
      BY <1>4, <3>1, <3>3
    <3>. QED  BY <1>4, <2>1, <3>4 DEF Listed
  <2>. QED  BY <1>1, <1>3, <2>1 DEF Lives, LifeTypeOK, Unlisted, Early
<1>10. Stages'
  <2>1. ASSUME NEW j \in 1 .. n - 1
        PROVE  /\ j <= at' => service'[WMIProvCollection'[j]] = "made"
               /\ j > at' => service'[WMIProvCollection'[j]] = "started"
    <3>1. PICK k \in DOMAIN WMIProvCollection :
               /\ k # at /\ (k < at <=> j < at) /\ (k = IF j < at THEN j ELSE j + 1)
               /\ WMIProvCollection'[j] = WMIProvCollection[k]
      BY <1>5
    <3>2. service'[WMIProvCollection'[j]] = service[WMIProvCollection[k]]
      BY <1>3, <1>7, <3>1, <1>1 DEF Lives, LifeTypeOK
    <3>3. (k < at => service[WMIProvCollection[k]] = "made") /\ (k > at => service[WMIProvCollection[k]] = "started")
      BY <1>1 DEF Lives, Stages, StateOf
    <3>. QED  BY <1>1, <1>2, <3>1, <3>2, <3>3
  <2>. QED  BY <1>1, <1>4, <2>1 DEF Stages, StateOf, Early
<1>. QED  BY <1>1, <1>6, <1>8, <1>9, <1>10, MachineStays DEF Lives

(* The steps of one service, the one the loop is at. *)
LEMMA ChildKeepsLives ==
  ASSUME Lives, StartChild \/ ProcessWMI \/ ChildStarted \/ StopChild
  PROVE  Lives'
<1>. DEFINE d == WMIProvCollection[at]
            n == Len(WMIProvCollection)
<1>1. /\ phase \in {"starting", "stopping"} /\ at > 0 /\ at \in Nat /\ at <= n /\ n \in Nat
      /\ UNCHANGED <<machine, phase, input, WMICollection, WMIProvCollection>>
      /\ WMIProvCollection \in Seq(Found) /\ Len(WMICollection) = n
  BY DEF Lives, Collected, LifeTypeOK, Stages, StartChild, ProcessWMI, ChildStarted, StopChild, vpc
<1>2. at \in DOMAIN WMIProvCollection /\ DOMAIN WMIProvCollection = 1 .. n /\ DOMAIN WMICollection = 1 .. n /\ d \in Found
  BY <1>1
<1>3. Current = d
  BY <1>1, <1>2 DEF Lives, Collected, Current
<1>4. \/ phase = "starting" /\ at' = at /\ service' = [service EXCEPT ![d] = "described"]
      \/ phase = "starting" /\ at' = at /\ service' = [service EXCEPT ![d] = "registering"]
      \/ phase = "starting" /\ at' = at - 1 /\ service' = [service EXCEPT ![d] = "started"]
      \/ phase = "stopping" /\ at' = at - 1 /\ service' = [service EXCEPT ![d] = "stopped"]
  BY <1>3 DEF StartChild, ProcessWMI, ChildStarted, StopChild, vpc
<1>5. \A i \in 1 .. n : i # at => WMIProvCollection[i] # d
  BY <1>2 DEF Lives, Collected
<1>6. Listed(d)
  BY <1>2 DEF Listed
<1>. HIDE DEF d, n
<1>7. \A i \in 1 .. n : StateOf(i)' = IF i = at THEN service'[d] ELSE StateOf(i)
  BY <1>1, <1>2, <1>4, <1>5 DEF Lives, LifeTypeOK, StateOf, d
<1>8. LifeTypeOK'
  <2>1. /\ phase' \in Early \cup Late /\ at' \in Nat
        /\ service' \in [Found -> {"none", "made", "dropped", "described", "registering", "started", "stopped"}]
    BY <1>1, <1>2, <1>4 DEF Lives, LifeTypeOK
  <2>2. input' \in BOOLEAN /\ (input' => phase' \in {"starting", "started"})
    BY <1>1, Zenon DEF Lives, LifeTypeOK
  <2>. QED  BY <2>1, <2>2, Zenon DEF LifeTypeOK
<1>9. Unlisted'
  <2>1. \A g : Listed(g)' = Listed(g)
    BY <1>1 DEF Listed
  <2>2. \A g \in Found : g # d => service'[g] = service[g]
    BY <1>4 DEF Lives, LifeTypeOK
  <2>3. \A g \in Found : ~Listed(g) => g # d
    BY <1>6
  <2>. QED  BY <1>1, <2>1, <2>2, <2>3 DEF Lives, Unlisted
<1>10. Stages'
  <2>2. CASE phase = "starting"
    <3>1. \A i \in 1 .. n : (i < at => StateOf(i) = "made") /\ (i > at => StateOf(i) = "started")
      BY <1>1, <1>2, <2>2 DEF Lives, Stages
    <3>2. \/ at' = at /\ service'[d] \in {"described", "registering"}
          \/ at' = at - 1 /\ service'[d] = "started"
      BY <1>2, <1>4, <2>2 DEF Lives, LifeTypeOK
    <3>. QED  BY <1>1, <1>2, <1>7, <2>2, <3>1, <3>2 DEF Stages, Early, n
  <2>3. CASE phase = "stopping"
    <3>1. \A i \in 1 .. n : StateOf(i) = IF i <= at THEN "started" ELSE "stopped"
      BY <1>1, <1>2, <2>3 DEF Lives, Stages
    <3>2. at' = at - 1 /\ service'[d] = "stopped"
      BY <1>2, <1>4, <2>3 DEF Lives, LifeTypeOK
    <3>. QED  BY <1>1, <1>2, <1>7, <2>3, <3>1, <3>2 DEF Stages, Early, n
  <2>. QED  BY <1>1, <2>2, <2>3
<1>. QED  BY <1>1, <1>8, <1>9, <1>10, MachineStays, CollectionsStay DEF Lives

LEMMA EndKeepsLives ==
  ASSUME Lives, EndOfStop
  PROVE  Lives'
<1>1. /\ phase = "stopping" /\ at = 0 /\ phase' = "stopped" /\ WMICollection' = <<>> /\ WMIProvCollection' = <<>>
      /\ UNCHANGED <<machine, at, service, input>>
  BY DEF EndOfStop, child
<1>2. /\ WMICollection' \in Seq(Children) /\ WMIProvCollection' \in Seq(Found) /\ Len(WMICollection') = 0
      /\ Len(WMIProvCollection') = 0 /\ DOMAIN WMICollection' = {} /\ DOMAIN WMIProvCollection' = {}
  BY <1>1
<1>3. Collected' /\ Stages'
  BY <1>1, <1>2 DEF Collected, Stages, Early
<1>4. LifeTypeOK'
  <2>1. /\ phase' \in Early \cup Late /\ at' \in Nat
        /\ service' \in [Found -> {"none", "made", "dropped", "described", "registering", "started", "stopped"}]
    BY <1>1 DEF Lives, LifeTypeOK, Late
  <2>2. input' \in BOOLEAN /\ ~input'
    <3>1. phase \notin {"starting", "started"}
      BY <1>1
    <3>. QED  BY <1>1, <3>1, Zenon DEF Lives, LifeTypeOK
  <2>. QED  BY <2>1, <2>2, Zenon DEF LifeTypeOK
<1>5. Unlisted'
  <2>1. \A d \in Found : Listed(d) => service[d] = "stopped"
    <3>1. \A i \in DOMAIN WMIProvCollection : StateOf(i) = "stopped"
      BY <1>1 DEF Lives, Stages, Collected
    <3>. QED  BY <3>1 DEF Listed, StateOf
  <2>. QED  BY <1>1, <2>1 DEF Lives, Unlisted, Early
<1>. QED  BY <1>1, <1>3, <1>4, <1>5, MachineStays DEF Lives

LEMMA LivesKept == Lives /\ [ServicesNext]_servicesVars => Lives'
<1>. SUFFICES ASSUME Lives, [ServicesNext]_servicesVars PROVE Lives'
  OBVIOUS
<1>1. CASE Starting \/ Stopping
  BY <1>1, PhasesKeepLives, ProbeKeepsLives, DropKeepsLives, ChildKeepsLives, EndKeepsLives DEF Starting, Stopping
<1>2. CASE UNCHANGED <<machine, vpc, service, input>>
  <2>1. UNCHANGED <<machine, phase, at, WMICollection, WMIProvCollection, service, input>>
    BY <1>2 DEF vpc
  <2>2. LifeTypeOK' /\ Unlisted' /\ Stages'
    <3>1. (\A d : Listed(d)' = Listed(d)) /\ (\A i : StateOf(i)' = StateOf(i))
      BY <2>1 DEF Listed, StateOf
    <3>2. LifeTypeOK'
      BY <2>1, Zenon DEF Lives, LifeTypeOK
    <3>3. Unlisted' /\ Stages'
      BY <2>1, <3>1 DEF Lives, Unlisted, Stages
    <3>. QED  BY <3>2, <3>3
  <2>. QED  BY <2>1, <2>2, MachineStays, CollectionsStay DEF Lives
<1>3. CASE ~(Starting \/ Stopping)
  <2>1. UNCHANGED <<machine, vpc, service, input>>
    BY <1>3 DEF ServicesNext, Over, getNotifyID, Notified, UpdateSensor, servicesVars, child
  <2>. QED  BY <1>2, <2>1
<1>. QED  BY <1>1, <1>3

THEOREM ServicesAreListed == ServicesSpec => []Lives
BY LivesInit, LivesKept, PTL DEF ServicesSpec

(* The two collections stay in step, every service that runs is in them,   *)
(* and a VPC that has stopped leaves none running and no events reported   *)
(* (YogaVPC.cpp:107-127, 170-185, DYVPC.cpp:69-95).                        *)
THEOREM NoServiceIsLeft == ServicesSpec => []ChildrenAreStopped
<1>1. Lives => ChildrenAreStopped
  <2>. SUFFICES ASSUME Lives PROVE ChildrenAreStopped
    OBVIOUS
  <2>1. \A d : d \in Range(WMIProvCollection) <=> Listed(d)
    BY DEF Range, Listed
  <2>2. Len(WMICollection) = Len(WMIProvCollection) /\ DOMAIN WMICollection = DOMAIN WMIProvCollection
    BY DEF Lives, Collected
  <2>3. ASSUME phase \notin {"stopped", "failed"}, NEW d \in Found, Running(d)
        PROVE  Listed(d)
    BY <2>3 DEF Lives, Unlisted, Running
  <2>4. ASSUME phase = "started", NEW d, Listed(d)
        PROVE  service[d] = "started"
    BY <2>4 DEF Lives, Stages, StateOf, Listed
  <2>5. ASSUME phase = "stopped"
        PROVE  ~input /\ \A d \in Found : ~Running(d)
    <3>1. \A d \in Found : ~Listed(d)
      BY <2>5 DEF Lives, Stages, Listed
    <3>2. phase \notin {"starting", "started"}
      BY <2>5
    <3>. QED  BY <2>5, <3>1, <3>2 DEF Lives, LifeTypeOK, Unlisted, Early, Running
  <2>6. \A i \in DOMAIN WMICollection : WMICollection[i].device = WMIProvCollection[i]
    BY DEF Lives, Collected
  <2>. QED  BY <2>1, <2>2, <2>3, <2>4, <2>5, <2>6, Zenon DEF ChildrenAreStopped
<1>. QED  BY <1>1, ServicesAreListed, PTL

-----------------------------------------------------------------------------
(* What the description of a found device is read into.                    *)
LEMMA FoundIsRead ==
  ASSUME MachineOK, NEW d \in Found
  PROVE  /\ wdg[d] \in Seq(Range(wdg[d]))
         /\ \A n \in DOMAIN WMIOf(d).event : n # NoEvent
<1>1. wdg[d] \in Seq(Range(wdg[d])) /\ \A b \in Range(wdg[d]) : b.id # NoEvent
  BY DEF MachineOK
<1>2. \A n \in DOMAIN WMIOf(d).event : \E i \in DOMAIN wdg[d] : wdg[d][i].id = n
  BY <1>1, TableIsRead DEF WMIOf
<1>. QED  BY <1>1, <1>2 DEF Range

(* The service that the loop is at. *)
LEMMA CurrentIsFound ==
  ASSUME Lives, phase \in {"starting", "stopping"}, at > 0
  PROVE  Current \in Found /\ WMICollection[at].class = ClassOf(Current)
<1>1. at \in DOMAIN WMICollection /\ at \in DOMAIN WMIProvCollection /\ WMIProvCollection[at] \in Found
  BY DEF Lives, Collected, LifeTypeOK, Stages
<1>. QED  BY <1>1 DEF Lives, Collected, Current

LEMMA EventsInit == ServicesInit => Events
<1>. SUFFICES ASSUME ServicesInit PROVE Events
  OBVIOUS
<1>1. /\ service = [d \in Found |-> "none"] /\ todo = [d \in Found |-> {}]
      /\ event = [d \in Found |-> NoEvent] /\ extension = [d \in Found |-> FALSE]
  BY DEF ServicesInit
<1>2. ASSUME NEW d \in Found PROVE EventsKnown(d)
  <2>1. service[d] = "none" /\ todo[d] = {} /\ event[d] = NoEvent /\ ~extension[d]
    BY <1>1
  <2>. QED  BY <2>1 DEF EventsKnown
<1>. QED  BY <1>1, <1>2 DEF Events

(* An event more is registered. *)
LEMMA RegisterKeepsEvents ==
  ASSUME Lives, Events, NEW n, getNotifyID(n)
  PROVE  Events'
<1>0. PICK c : c = Current
  OBVIOUS
<1>. DEFINE w == WMIOf(c)
            guid == w.event[n].guid
            mine == guid \in Registers(ClassOf(c))
<1>1. /\ phase = "starting" /\ at > 0 /\ service[c] = "registering" /\ n \in todo[c]
      /\ UNCHANGED <<machine, service>> /\ todo' = [todo EXCEPT ![c] = @ \ {n}]
      /\ IF guid \in Registers(WMICollection[at].class)
         THEN event' = [event EXCEPT ![c] = n] /\ extension' = [extension EXCEPT ![c] = @ \/ guid = "gsensorExtEvent"]
         ELSE UNCHANGED <<event, extension>>
  BY <1>0 DEF getNotifyID
<1>2. c \in Found /\ WMICollection[at].class = ClassOf(c)
  BY <1>0, <1>1, CurrentIsFound
<1>3. n \in DOMAIN w.event /\ n # NoEvent
  BY <1>1, <1>2, FoundIsRead DEF Lives, Events, EventsKnown
<1>4. \A d : WMIOf(d)' = WMIOf(d) /\ ClassOf(d)' = ClassOf(d)
  BY <1>1, MachineStays
<1>5. ASSUME NEW d \in Found, d # c
      PROVE  EventsKnown(d)'
  <2>1. todo'[d] = todo[d] /\ event'[d] = event[d] /\ extension'[d] = extension[d] /\ service'[d] = service[d]
    BY <1>1, <1>2, <1>5 DEF Events
  <2>. QED  BY <1>4, <2>1, Zenon DEF Events, EventsKnown
<1>6. /\ todo'[c] = todo[c] \ {n} /\ service'[c] = "registering"
      /\ event'[c] = IF mine THEN n ELSE event[c]
      /\ extension'[c] <=> extension[c] \/ (mine /\ guid = "gsensorExtEvent")
  BY <1>1, <1>2 DEF Events
<1>7. EventsKnown(c)'
  <2>. HIDE DEF w
  <2>1. /\ todo'[c] \subseteq DOMAIN w.event
        /\ event'[c] # NoEvent => event'[c] \in DOMAIN w.event /\ w.event[event'[c]].guid \in Registers(ClassOf(c))
    BY <1>2, <1>3, <1>6 DEF Events, EventsKnown, w
  <2>2. extension'[c] => \E m \in DOMAIN w.event : w.event[m].guid = "gsensorExtEvent"
    BY <1>2, <1>3, <1>6, Zenon DEF Events, EventsKnown, w
  <2>3. ASSUME NEW m \in DOMAIN w.event \ todo'[c], w.event[m].guid \in Registers(ClassOf(c))
        PROVE  event'[c] # NoEvent /\ (w.event[m].guid = "gsensorExtEvent" => extension'[c])
    <3>1. CASE m = n
      BY <1>3, <1>6, <2>3, <3>1
    <3>2. CASE m # n
      <4>1. m \in DOMAIN w.event \ todo[c]
        BY <1>6, <2>3, <3>2
      <4>2. event[c] # NoEvent /\ (w.event[m].guid = "gsensorExtEvent" => extension[c])
        BY <1>1, <1>2, <2>3, <4>1 DEF Events, EventsKnown, w
      <4>3. event'[c] # NoEvent
        BY <1>3, <1>6, <4>2
      <4>. QED  BY <1>6, <4>2, <4>3, Zenon
    <3>. QED  BY <3>1, <3>2
  <2>4. service'[c] # "started"
    BY <1>6
  <2>. QED  BY <1>4, <2>1, <2>2, <2>3, <2>4, Zenon DEF EventsKnown, w
<1>8. DOMAIN todo' = Found /\ DOMAIN event' = Found /\ extension' \in [Found -> BOOLEAN]
  <2>1. DOMAIN todo' = Found /\ DOMAIN event' = Found
    BY <1>1 DEF Events
  <2>. HIDE DEF guid
  <2>2. (extension[c] \/ guid = "gsensorExtEvent") \in BOOLEAN
    OBVIOUS
  <2>3. extension' = extension \/ extension' = [extension EXCEPT ![c] = extension[c] \/ guid = "gsensorExtEvent"]
    BY <1>1
  <2>4. extension' \in [Found -> BOOLEAN]
    BY <2>2, <2>3 DEF Events
  <2>. QED  BY <2>1, <2>4
<1>. QED  BY <1>5, <1>7, <1>8 DEF Events

(* The steps that register none. *)
LEMMA OthersKeepEvents ==
  ASSUME Lives, Events, [ServicesNext]_servicesVars, \A n : ~getNotifyID(n)
  PROVE  Events'
<1>0. PICK c : c = Current
  OBVIOUS
<1>1. UNCHANGED <<machine, event, extension>>
  BY DEF ServicesNext, Starting, Stopping, Over, ProbeVPC, ProbeWMI, InitIdeaVPC, InitDYVPC, DropChild, StartChild, ProcessWMI,
     ChildStarted, EndOfStart, ExitVPC, StopChild, EndOfStop, Notified, UpdateSensor, servicesVars, child
<1>2. \A d : WMIOf(d)' = WMIOf(d) /\ ClassOf(d)' = ClassOf(d)
  BY <1>1, MachineStays
<1>3. \/ /\ c \in Found /\ service' = [service EXCEPT ![c] = "registering"]
         /\ todo' = [todo EXCEPT ![c] = DOMAIN WMIOf(c).event]
      \/ /\ todo' = todo
         /\ \A d \in Found :
              \/ service'[d] = service[d]
              \/ service'[d] \in {"made", "dropped", "described", "stopped"}
              \/ service'[d] = "started" /\ service[d] = "registering" /\ todo[d] = {}
  <2>0. DOMAIN service = Found
    BY DEF Lives, LifeTypeOK
  <2>1. CASE ProcessWMI
    BY <1>0, <2>1, CurrentIsFound DEF ProcessWMI
  <2>2. CASE ChildStarted
    <3>1. service' = [service EXCEPT ![c] = "started"] /\ service[c] = "registering" /\ todo[c] = {} /\ todo' = todo
      BY <1>0, <2>2 DEF ChildStarted
    <3>2. \A d \in Found : service'[d] = service[d] \/ (service'[d] = "started" /\ service[d] = "registering" /\ todo[d] = {})
      BY <2>0, <3>1
    <3>. QED  BY <3>1, <3>2
  <2>3. CASE ProbeWMI
    <3>1. \A d \in Found : service'[d] = service[d] \/ service'[d] = "made"
      BY <2>0, <2>3 DEF ProbeWMI
    <3>2. todo' = todo
      BY <2>3 DEF ProbeWMI
    <3>. QED  BY <3>1, <3>2
  <2>4. CASE DropChild \/ StartChild \/ StopChild
    <3>1. \A d \in Found : service'[d] = service[d] \/ service'[d] \in {"dropped", "described", "stopped"}
      BY <2>0, <2>4 DEF DropChild, StartChild, StopChild
    <3>2. todo' = todo
      BY <2>4 DEF DropChild, StartChild, StopChild
    <3>. QED  BY <3>1, <3>2
  <2>5. CASE ~(ProcessWMI \/ ChildStarted \/ ProbeWMI \/ DropChild \/ StartChild \/ StopChild)
    <3>1. UNCHANGED <<service, todo>>
      BY <2>5 DEF ServicesNext, Starting, Stopping, Over, ProbeVPC, InitIdeaVPC, InitDYVPC, EndOfStart, ExitVPC, EndOfStop,
         Notified, UpdateSensor, servicesVars, child
    <3>. QED  BY <3>1
  <2>. QED  BY <2>1, <2>2, <2>3, <2>4, <2>5
<1>4. DOMAIN todo' = Found
  BY <1>3 DEF Events
<1>5. ASSUME NEW d \in Found PROVE EventsKnown(d)'
  <2>1. CASE /\ todo'[d] = todo[d]
             /\ \/ service'[d] = service[d]
                \/ service'[d] \in {"made", "dropped", "described", "stopped"}
                \/ service'[d] = "started" /\ service[d] = "registering" /\ todo[d] = {}
    <3>1. /\ service'[d] \in {"registering", "started"} => service[d] \in {"registering", "started"}
          /\ service'[d] = "started" => service[d] = "started" \/ todo[d] = {}
      BY <2>1
    <3>. QED  BY <1>1, <1>2, <2>1, <3>1, Zenon DEF Events, EventsKnown
  <2>2. CASE todo'[d] = DOMAIN WMIOf(d).event /\ service'[d] = "registering"
    <3>1. DOMAIN WMIOf(d).event \ todo'[d] = {} /\ todo'[d] \subseteq DOMAIN WMIOf(d).event /\ service'[d] # "started"
      BY <2>2
    <3>. QED  BY <1>1, <1>2, <3>1, Zenon DEF Events, EventsKnown
  <2>3. CASE c = d /\ todo' = [todo EXCEPT ![c] = DOMAIN WMIOf(c).event] /\ service' = [service EXCEPT ![c] = "registering"]
    BY <2>2, <2>3 DEF Events, Lives, LifeTypeOK
  <2>4. CASE c # d /\ todo' = [todo EXCEPT ![c] = DOMAIN WMIOf(c).event] /\ service' = [service EXCEPT ![c] = "registering"]
    <3>1. todo'[d] = todo[d] /\ service'[d] = service[d]
      BY <2>4 DEF Events, Lives, LifeTypeOK
    <3>. QED  BY <2>1, <3>1
  <2>5. CASE todo' = todo
    <3>1. CASE service' = [service EXCEPT ![c] = "registering"] /\ todo' = [todo EXCEPT ![c] = DOMAIN WMIOf(c).event]
      BY <2>3, <2>4, <3>1
    <3>2. CASE \/ service'[d] = service[d]
               \/ service'[d] \in {"made", "dropped", "described", "stopped"}
               \/ service'[d] = "started" /\ service[d] = "registering" /\ todo[d] = {}
      <4>1. todo'[d] = todo[d]
        BY <2>5
      <4>. QED  BY <2>1, <3>2, <4>1
    <3>. QED  BY <1>3, <3>1, <3>2
  <2>. QED  BY <1>3, <2>3, <2>4, <2>5
<1>. QED  BY <1>1, <1>4, <1>5, Zenon DEF Events

LEMMA EventsKept == Lives /\ Events /\ [ServicesNext]_servicesVars => Events'
BY RegisterKeepsEvents, OthersKeepEvents

THEOREM EventsAreKnown == ServicesSpec => []Events
BY EventsInit, EventsKept, ServicesAreListed, PTL DEF ServicesSpec

(* Where every event has a number and a GUID of its own, the firmware has  *)
(* the events that mEvent lists, and no others.                            *)
LEMMA EventsHaveGuids ==
  ASSUME NEW t, t \in Seq(Range(t)), Unambiguous(extractData(t), t), NEW g
  PROVE  getMethod(extractData(t), g, {"event"}) <=>
           \E n \in DOMAIN extractData(t).event : extractData(t).event[n].guid = g
<1>. DEFINE w == extractData(t)
<1>1. /\ \A h \in DOMAIN w.data : \E i \in DOMAIN t : w.data[h] = t[i] /\ t[i].guid = h
      /\ \A n \in DOMAIN w.event : \E i \in DOMAIN t : w.event[n] = t[i] /\ t[i].id = n /\ IsEvent(t[i])
      /\ \A i \in DOMAIN t : t[i].guid \in DOMAIN w.data /\ (IsEvent(t[i]) => t[i].id \in DOMAIN w.event)
  BY TableIsRead
<1>2. /\ \A i, j \in DOMAIN t : IsEvent(t[i]) /\ t[i].guid = t[j].guid => i = j
      /\ \A i, j \in DOMAIN t : IsEvent(t[i]) /\ IsEvent(t[j]) /\ t[i].id = t[j].id => i = j
  BY DEF Unambiguous
<1>3. getMethod(w, g, {"event"}) <=> g \in DOMAIN w.data /\ IsEvent(w.data[g])
  BY DEF getMethod, IsEvent
<1>. HIDE DEF w
<1>4. ASSUME g \in DOMAIN w.data, IsEvent(w.data[g])
      PROVE  \E n \in DOMAIN w.event : w.event[n].guid = g
  <2>1. PICK i \in DOMAIN t : w.data[g] = t[i] /\ t[i].guid = g
    BY <1>1, <1>4
  <2>2. IsEvent(t[i]) /\ t[i].id \in DOMAIN w.event
    BY <1>1, <1>4, <2>1
  <2>3. PICK j \in DOMAIN t : w.event[t[i].id] = t[j] /\ t[j].id = t[i].id /\ IsEvent(t[j])
    BY <1>1, <2>2
  <2>. QED  BY <1>2, <2>1, <2>2, <2>3
<1>5. ASSUME NEW n \in DOMAIN w.event, w.event[n].guid = g
      PROVE  g \in DOMAIN w.data /\ IsEvent(w.data[g])
  <2>1. PICK i \in DOMAIN t : w.event[n] = t[i] /\ t[i].id = n /\ IsEvent(t[i])
    BY <1>1
  <2>2. g \in DOMAIN w.data /\ t[i].guid = g
    BY <1>1, <1>5, <2>1
  <2>3. PICK j \in DOMAIN t : w.data[g] = t[j] /\ t[j].guid = g
    BY <1>1, <2>2
  <2>. QED  BY <1>2, <2>1, <2>2, <2>3
<1>. QED  BY <1>3, <1>4, <1>5 DEF w

(* A folding machine's service that has started has registered the event   *)
(* of its hinge and reads it with a method there is (IdeaWMI.cpp:46-55,    *)
(* 73-86).                                                                 *)
THEOREM HingeHasItsMethod == ServicesSpec => []HingeIsRead
<1>1. Lives /\ Events => HingeIsRead
  <2>. SUFFICES ASSUME Lives, Events, NEW i \in DOMAIN WMICollection, NEW d, d = WMICollection[i].device,
                       WMICollection[i].class = "Yoga", service[d] = "started", Unambiguous(WMIOf(d), wdg[d])
                PROVE  /\ event[d] # NoEvent
                       /\ WMIOf(d).event[event[d]].guid \in {"gsensorEvent", "gsensorExtEvent"}
                       /\ evaluateMethod(WMIOf(d), HingeMethod(d), 0) # {}
    BY DEF HingeIsRead
  <2>. DEFINE w == WMIOf(d)
              Own(g) == \E n \in DOMAIN w.event : w.event[n].guid = g
  <2>1. d \in Found /\ ClassOf(d) = "Yoga"
    BY DEF Lives, Collected
  <2>2. EventsKnown(d) /\ wdg[d] \in Seq(Range(wdg[d]))
    BY <2>1, FoundIsRead DEF Lives, Events
  <2>3. \A g : getMethod(w, g, {"event"}) <=> Own(g)
    BY <2>2, EventsHaveGuids DEF WMIOf
  <2>4. getMethod(w, "gsensorEvent", {"event"}) \/ getMethod(w, "gsensorExtEvent", {"event"})
    BY <2>1 DEF ClassOf, withIdeaWMI, withDYWMI, hasMethod
  <2>5. /\ getMethod(w, "gsensorEvent", {"event"}) => evaluateMethod(w, "gsensor", 0) # {}
        /\ getMethod(w, "gsensorExtEvent", {"event"}) => evaluateMethod(w, "gsensorExt", 0) # {}
    BY DEF Unambiguous
  <2>6. Registers("Yoga") = {"gsensorEvent", "gsensorExtEvent"}
    BY DEF Registers
  <2>. HIDE DEF w
  <2>7. \A n \in DOMAIN w.event :
          w.event[n].guid \in Registers("Yoga") => event[d] # NoEvent /\ (w.event[n].guid = "gsensorExtEvent" => extension[d])
    <3>1. \A n \in DOMAIN w.event : n \notin todo[d]
      BY <2>2 DEF EventsKnown
    <3>. QED  BY <2>1, <2>2, <3>1, Zenon DEF EventsKnown, w
  <2>8. event[d] # NoEvent
    BY <2>3, <2>4, <2>6, <2>7
  <2>9. w.event[event[d]].guid \in {"gsensorEvent", "gsensorExtEvent"}
    BY <2>1, <2>2, <2>6, <2>8 DEF EventsKnown, w
  <2>10. extension[d] <=> Own("gsensorExtEvent")
    <3>1. extension[d] => Own("gsensorExtEvent")
      BY <2>2, Zenon DEF EventsKnown, w
    <3>2. "gsensorExtEvent" \in Registers("Yoga")
      BY <2>6
    <3>. QED  BY <2>7, <3>1, <3>2, Zenon
  <2>11. evaluateMethod(w, HingeMethod(d), 0) # {}
    <3>1. CASE extension[d]
      BY <2>3, <2>5, <2>10, <3>1, Zenon DEF HingeMethod
    <3>2. CASE ~extension[d]
      <4>1. HingeMethod(d) = "gsensor"
        BY <3>2 DEF HingeMethod
      <4>. QED  BY <2>3, <2>4, <2>5, <2>10, <3>2, <4>1, Zenon
    <3>. QED  BY <3>1, <3>2
  <2>. QED  BY <2>8, <2>9, <2>11 DEF w
<1>. QED  BY <1>1, ServicesAreListed, EventsAreKnown, PTL

-----------------------------------------------------------------------------
(* Each call of the firmware that a step makes. *)
LEMMA CountsAreNumbers ==
  ASSUME MachineOK, NEW d \in Found \cup {"vpc"}
  PROVE  wdg[d] \in Seq(Range(wdg[d])) /\ \A h \in DOMAIN WMIOf(d).data : WMIOf(d).data[h].count \in Nat
<1>1. wdg[d] \in Seq(Range(wdg[d])) /\ \A b \in Range(wdg[d]) : b.count \in Nat
  <2>1. wdg[d] \in Seq(Range(wdg[d])) /\ \A b \in Range(wdg[d]) : b.count \in 0 .. 255
    BY Zenon DEF MachineOK, IsBlock
  <2>2. \A k \in 0 .. 255 : k \in Nat
    OBVIOUS
  <2>. QED  BY <2>1, <2>2, Zenon
<1>2. \A h \in DOMAIN WMIOf(d).data : \E i \in DOMAIN wdg[d] : WMIOf(d).data[h] = wdg[d][i]
  BY <1>1, TableIsRead DEF WMIOf
<1>. QED  BY <1>1, <1>2 DEF Range

LEMMA CallsOfOne ==
  ASSUME MachineOK, NEW d \in Found \cup {"vpc"}
  PROVE  /\ \A g \in {"bmf", "inputEvent"} : \A c \in executeMethod(WMIOf(d), g) : CallOK(c)
         /\ \A class : \A c \in processWMI(class, WMIOf(d)) \cup ACPIEvent(class, d) : CallOK(c)
         /\ \A i \in Nat : \A c \in queryBlock(WMIOf(d), "sensor", i) : CallOK(c)
<1>. DEFINE w == WMIOf(d)
<1>1. wdg[d] \in Seq(Range(wdg[d])) /\ \A h \in DOMAIN w.data : w.data[h].count \in Nat
  BY CountsAreNumbers
<1>2. \A g \in {"bmf", "inputEvent"} : \A c \in executeMethod(w, g) : CallOK(c)
  BY <1>1, ExecutedAreAnswered DEF WMIOf
<1>. HIDE DEF w
<1>3. \A g : \A c \in evaluateMethod(w, g, 0) : CallOK(c)
  BY <1>1, EvaluatedAreAnswered
<1>4. \A g : \A i \in Nat : \A c \in queryBlock(w, g, i) : CallOK(c)
  BY <1>1, QueriedAreAnswered
<1>5. ASSUME NEW class, NEW c \in processWMI(class, w)
      PROVE  CallOK(c)
  <2>1. \/ c \in evaluateMethod(w, "super", 0) \/ c \in evaluateMethod(w, "gameZone", 0)
        \/ \E i \in 0 .. 2 : c \in queryBlock(w, "battery", i)
    BY <1>5 DEF processWMI, SuperResStart, GameZoneStart, BatteryStart
  <2>. QED  BY <1>3, <1>4, <2>1
<1>6. ASSUME NEW class, NEW c \in ACPIEvent(class, d)
      PROVE  CallOK(c)
  <2>1. c \in evaluateMethod(w, HingeMethod(d), 0) \/ c \in evaluateMethod(w, "super", 0)
    BY <1>6 DEF ACPIEvent, w
  <2>. QED  BY <1>3, <2>1
<1>. QED  BY <1>2, <1>4, <1>5, <1>6 DEF w

LEMMA CallsKept == Lives /\ CallsAreAnswered /\ [ServicesNext]_servicesVars => CallsAreAnswered'
<1>. SUFFICES ASSUME Lives, \A c \in calls : CallOK(c), [ServicesNext]_servicesVars, NEW c \in calls'
              PROVE  CallOK(c)
  BY DEF CallsAreAnswered, CallOK
<1>1. MachineOK
  BY DEF Lives
<1>2. ASSUME NEW d, d = Current, phase = "starting", at > 0
      PROVE  d \in Found
  BY <1>2, CurrentIsFound
<1>3. ASSUME NEW i \in DOMAIN WMICollection
      PROVE  WMICollection[i].device \in Found
  BY DEF Lives, Collected, Children
<1>4. CASE c \in calls
  BY <1>4
<1>5. CASE InitDYVPC \/ ExitVPC
  <2>1. c \in executeMethod(WMIOf("vpc"), "bmf") \/ c \in executeMethod(WMIOf("vpc"), "inputEvent")
    BY <1>5 DEF InitDYVPC, ExitVPC
  <2>. QED  BY <1>1, <2>1, CallsOfOne
<1>6. CASE StartChild
  <2>1. c \in executeMethod(WMIOf(Current), "bmf") /\ Current \in Found
    BY <1>2, <1>6 DEF StartChild
  <2>. QED  BY <1>1, <2>1, CallsOfOne
<1>7. CASE ProcessWMI
  <2>1. c \in processWMI(WMICollection[at].class, WMIOf(Current)) /\ Current \in Found
    BY <1>2, <1>7 DEF ProcessWMI
  <2>. QED  BY <1>1, <2>1, CallsOfOne
<1>8. ASSUME NEW i \in DOMAIN WMICollection, Notified(i)
      PROVE  CallOK(c)
  <2>1. c \in ACPIEvent(WMICollection[i].class, WMICollection[i].device)
    BY <1>8 DEF Notified
  <2>. QED  BY <1>1, <1>3, <2>1, CallsOfOne
<1>9. ASSUME NEW i \in DOMAIN WMICollection, UpdateSensor(i)
      PROVE  CallOK(c)
  <2>1. PICK d \in Found : d = WMICollection[i].device
    BY <1>3
  <2>2. getInstanceCount(WMIOf(d), "sensor") \in Nat
    BY <1>1, CountsAreNumbers DEF getInstanceCount, getMethod
  <2>3. PICK index \in Nat : c \in queryBlock(WMIOf(d), "sensor", index)
    BY <1>9, <2>1, <2>2 DEF UpdateSensor
  <2>. QED  BY <1>1, <2>3, CallsOfOne
<1>10. CASE calls' = {}
  BY <1>10
<1>11. \/ calls' = {} \/ calls' = calls \/ InitDYVPC \/ ExitVPC \/ StartChild \/ ProcessWMI
       \/ \E i \in DOMAIN WMICollection : Notified(i) \/ UpdateSensor(i)
  BY DEF ServicesNext, Starting, Stopping, Over, ProbeVPC, ProbeWMI, InitIdeaVPC, DropChild, ChildStarted, EndOfStart,
     StopChild, EndOfStop, getNotifyID, NoCalls, servicesVars
<1>. QED  BY <1>4, <1>5, <1>6, <1>7, <1>8, <1>9, <1>10, <1>11

(* Every call of the firmware names a block of the right kind and an       *)
(* instance it has, whatever the firmware describes (WMI.cpp:230-271,      *)
(* 381-459).                                                               *)
THEOREM EveryCallIsAnswered == ServicesSpec => []CallsAreAnswered
<1>1. ServicesInit => CallsAreAnswered
  BY DEF ServicesInit, CallsAreAnswered
<1>. QED  BY <1>1, CallsKept, ServicesAreListed, PTL DEF ServicesSpec

=============================================================================
