------------------------ MODULE ThinkCentreFanProofs ------------------------
(***************************************************************************)
(* Safety of ThinkCentreFan for any number of clients, any inputs and any  *)
(* firmware configuration.                                                 *)
(***************************************************************************)
EXTENDS ThinkCentreFan, TLAPS

USE DEF Gate, PM, Driver, Threads, NoDuty, Byte

(* What levelToDuty returns is a byte, for every byte it is given. *)
LEMMA LevelToDutyIsByte ==
  ASSUME NEW v \in Byte
  PROVE  LevelToDuty(v) \in Byte
<1>1. v % 8 \in 0..7
  OBVIOUS
<1>2. \A l \in 0..7 : (l * 255 + 3) \div 7 \in Byte
  OBVIOUS
<1>. QED  BY <1>1, <1>2 DEF LevelToDuty

(* The level kept for a duty fits the three bits a reader sees. *)
LEMMA DutyToLevelIsLevel ==
  ASSUME NEW d \in Byte
  PROVE  DutyToLevel(d) \in 0..7
BY DEF DutyToLevel

(* The level kept for a byte written to EmuFanLevel fits them too. *)
LEMMA LevelIsLevel ==
  ASSUME NEW v \in Byte
  PROVE  v % 8 \in 0..7
OBVIOUS

(* A FanSpeed property reaches method_we1b as a byte. *)
LEMMA FanSpeedLevelIsByte ==
  ASSUME NEW v \in Byte
  PROVE  FanSpeedLevel(v) \in Byte
BY DEF FanSpeedLevel

-----------------------------------------------------------------------------
(* What the controller's operators return. *)

(* The controller's fan block stays well formed under every access. *)
LEMMA FanStaysTyped ==
  ASSUME fan \in FanType
  PROVE  /\ ChipReq \in FanType
         /\ \A d \in Byte : ChipDuty(d) \in FanType
         /\ ChipDone \in FanType
         /\ AutoFan \in FanType
<1>1. ChipReq \in FanType
  BY DEF FanType, ChipReq
<1>2. \A d \in Byte : ChipDuty(d) \in FanType
  BY DEF FanType, ChipDuty
<1>3. ChipDone \in FanType
  BY DEF FanType, ChipDone
<1>4. AutoFan \in FanType
  BY DEF FanType, AutoFan
<1>. QED  BY <1>1, <1>2, <1>3, <1>4

(* A reading of the PWM register is a byte. *)
LEMMA PwmReadingIsByte ==
  ASSUME fan \in FanType
  PROVE  PwmReading \subseteq Byte
<1>1. fan.duty \in Byte
  BY DEF FanType
<1>2. AutoDuties \subseteq Byte
  BY Inputs
<1>. QED  BY <1>1, <1>2 DEF PwmReading

-----------------------------------------------------------------------------
(* A byte that initMonitoring is about to write back has bit 7 clear: what *)
(* TypeOK lacks to be inductive.                                           *)
MonitorByte == \A t \in Threads : pc[t] = "monWrite" => got[t] \in 0..127

(* Every variable keeps its type, one group of actions at a time. *)

LEMMA BeginTyped ==
  ASSUME TypeOK, NEW t \in Threads,
         NEW a \in [manual : BOOLEAN, duty : Byte], NEW stale \in BOOLEAN,
         Begin(t, a, stale)
  PROVE  /\ pc' \in [Threads -> Steps]
         /\ handshakeActive' \in BOOLEAN
         /\ arg' \in [Threads -> [manual : BOOLEAN, duty : Byte]]
         /\ overlap' \in BOOLEAN /\ levelStale' \in BOOLEAN
<1>1. AfterCommand(t) \in Steps /\ "req" \in Steps
  BY DEF AfterCommand, Steps, CommandSteps, PMSteps
<1>2. CASE a.manual /\ ~pwmAvailable
  BY <1>1, <1>2 DEF TypeOK, Begin, Goto, history
<1>3. CASE ~(a.manual /\ ~pwmAvailable)
  <2>1. overlap' \in BOOLEAN
    <3>1. overlap' = (phase = "stopped" \/ \E u \in Threads \ {t} : InCommand(u))
      BY <1>3 DEF Begin
    <3>. QED  BY <3>1
  <2>2. handshakeActive' \in BOOLEAN
    BY <1>3, Zenon DEF Begin
  <2>. QED  BY <1>1, <1>3, <2>1, <2>2 DEF TypeOK, Begin, Goto
<1>. QED  BY <1>2, <1>3

LEMMA StartedCommandTyped ==
  ASSUME TypeOK, NEW t \in Threads,
         NEW a \in [manual : BOOLEAN, duty : Byte], NEW stale \in BOOLEAN,
         Begin(t, a, stale),
         manualLevel' \in 0..7,
         UNCHANGED <<chip, manualMode, manualDuty, pwmAvailable, savedHwmCfg,
                     published, poller, armed, phase, power, got>>
  PROVE  TypeOK'
<1>1. /\ pc' \in [Threads -> Steps]
      /\ handshakeActive' \in BOOLEAN
      /\ arg' \in [Threads -> [manual : BOOLEAN, duty : Byte]]
      /\ overlap' \in BOOLEAN /\ levelStale' \in BOOLEAN
  BY BeginTyped
<1>. QED  BY <1>1 DEF TypeOK, chip

LEMMA CommandTyped ==
  ASSUME TypeOK, NEW t \in Threads, Command(t)
  PROVE  TypeOK'
<1>. USE DEF TypeOK, At, Goto, driver, chip, history
<1>1. CASE WriteReq(t)
  <2>1. fan' \in FanType
    BY <1>1, FanStaysTyped DEF WriteReq
  <2>2. pc' \in [Threads -> Steps]
    BY <1>1 DEF WriteReq, Steps, CommandSteps
  <2>. QED  BY <1>1, <2>1, <2>2 DEF WriteReq
<1>2. CASE WriteTarget(t)
  BY <1>2, FanStaysTyped DEF WriteTarget, Steps, CommandSteps
<1>3. CASE WriteDone(t)
  BY <1>3, FanStaysTyped DEF WriteDone, Steps, CommandSteps
<1>4. CASE LowerFlag(t)
  <2>1. pc' \in [Threads -> Steps]
    BY <1>4 DEF LowerFlag, Steps, CommandSteps
  <2>2. handshakeActive' \in BOOLEAN
    BY <1>4, Zenon DEF LowerFlag
  <2>. QED  BY <1>4, <2>1, <2>2 DEF LowerFlag
<1>5. CASE Remember(t)
  <2>1. pc' \in [Threads -> Steps]
    BY <1>5 DEF Remember, Steps, CommandSteps
  <2>2. arg[t].manual \in BOOLEAN /\ arg[t].duty \in Byte
    OBVIOUS
  <2>. QED  BY <1>5, <2>1, <2>2 DEF Remember
<1>6. CASE Publish(t)
  <2>1. AfterCommand(t) \in Steps
    BY DEF AfterCommand, Steps, CommandSteps, PMSteps
  <2>. QED  BY <1>6, <2>1 DEF Publish, AutoArg
<1>. QED  BY <1>1, <1>2, <1>3, <1>4, <1>5, <1>6 DEF Command

LEMMA PollTyped ==
  ASSUME TypeOK, NEW t \in Threads, Poll(t)
  PROVE  TypeOK'
<1>. USE DEF TypeOK, At, Goto, driver, chip, history
<1>0. AfterPoll(t) \in Steps /\ {"pollDuty", "pollPub"} \subseteq Steps
  BY DEF AfterPoll, Steps, PollSteps, StartSteps
<1>1. CASE PollSense(t)
  BY <1>0, <1>1 DEF PollSense, Rearm
<1>2. CASE PollDuty(t)
  BY <1>0, <1>2, PwmReadingIsByte DEF PollDuty
<1>3. CASE PollPublish(t)
  BY <1>0, <1>3 DEF PollPublish, Rearm
<1>. QED  BY <1>1, <1>2, <1>3 DEF Poll

LEMMA MonitorTyped ==
  ASSUME TypeOK, MonitorByte, NEW t \in Threads, Monitor(t)
  PROVE  TypeOK'
<1>. USE DEF TypeOK, At, Goto, driver, chip, history, CfgType
<1>0. AfterMonitor(t) \in Steps /\ "monWrite" \in Steps
  BY DEF AfterMonitor, Steps, MonitorSteps, PMSteps, StartSteps
<1>1. CASE MonitorRead(t)
  <2>1. got' \in [Threads -> Byte]
    <3>1. hwmCfg.cfg \in Byte
      OBVIOUS
    <3>. QED  BY <1>1, <3>1 DEF MonitorRead
  <2>. QED  BY <1>0, <1>1, <2>1 DEF MonitorRead
<1>2. CASE MonitorWrite(t)
  BY <1>0, <1>2 DEF MonitorWrite, MonitorByte
<1>. QED  BY <1>1, <1>2 DEF Monitor

LEMMA RequestsTyped ==
  ASSUME TypeOK, Requests
  PROVE  TypeOK'
<1>0. AutoArg \in [manual : BOOLEAN, duty : Byte]
      /\ \A d \in Byte : ManualArg(d) \in [manual : BOOLEAN, duty : Byte]
  BY DEF AutoArg, ManualArg
<1>. DEFINE Rest == UNCHANGED <<chip, manualMode, manualDuty, pwmAvailable, savedHwmCfg,
                                published, poller, armed, phase, power, got>>
<1>1. ASSUME NEW t \in Threads, NEW d \in Byte, WriteFanDuty(t, d), Rest
      PROVE  TypeOK'
  <2>1. manualLevel' \in 0..7
    BY <1>1, DutyToLevelIsLevel DEF WriteFanDuty
  <2>. DEFINE a == ManualArg(d)
  <2>2. Begin(t, a, FALSE)
    BY <1>1 DEF WriteFanDuty
  <2>3. a \in [manual : BOOLEAN, duty : Byte]
    BY <1>0
  <2>. HIDE DEF a
  <2>. QED  BY <1>1, <2>1, <2>2, <2>3, StartedCommandTyped
<1>2. ASSUME NEW t \in Threads, NEW v \in Byte, WriteFanLevel(t, v), Rest
      PROVE  TypeOK'
  <2>1. manualLevel' \in 0..7
    BY <1>2, LevelIsLevel DEF WriteFanLevel
  <2>. DEFINE a == IF HasBit(v, 128) THEN AutoArg ELSE ManualArg(LevelToDuty(v))
  <2>2. Begin(t, a, FALSE)
    BY <1>2 DEF WriteFanLevel
  <2>3. a \in [manual : BOOLEAN, duty : Byte]
    BY <1>0, LevelToDutyIsByte
  <2>. HIDE DEF a
  <2>. QED  BY <1>2, <2>1, <2>2, <2>3, StartedCommandTyped
<1>3. ASSUME NEW c \in Clients, WriteEC(c)
      PROVE  TypeOK'
  <2>1. c \in Threads /\ EcDuties \subseteq Byte /\ EcLevels \subseteq Byte
    BY Inputs
  <2>. QED  BY <1>1, <1>2, <1>3, <2>1 DEF WriteEC
<1>4. CASE SetFanSpeed
  <2>1. \A v \in Speeds : FanSpeedLevel(v) \in Byte
    BY Inputs, FanSpeedLevelIsByte
  <2>. QED  BY <1>2, <1>4, <2>1 DEF SetFanSpeed
<1>5. CASE SetFanPWM
  <2>1. PICK d \in PwmDuties : Begin(Gate, ManualArg(d), TRUE)
    BY <1>5 DEF SetFanPWM
  <2>. DEFINE a == ManualArg(d)
  <2>2. a \in [manual : BOOLEAN, duty : Byte]
    BY <1>0, Inputs
  <2>3. manualLevel' \in 0..7 /\ Rest
    BY <1>5 DEF SetFanPWM, TypeOK
  <2>. HIDE DEF a, Rest
  <2>4. Begin(Gate, a, TRUE)
    BY <2>1 DEF a
  <2>. QED  BY <2>2, <2>3, <2>4, StartedCommandTyped DEF Rest
<1>6. CASE SetFanAuto
  <2>1. manualLevel' \in 0..7 /\ Rest /\ Begin(Gate, AutoArg, FALSE)
    BY <1>6 DEF SetFanAuto, TypeOK
  <2>. QED  BY <1>0, <2>1, StartedCommandTyped
<1>7. CASE SetUpdate
  <2>1. AfterPoll(Gate) \in Steps /\ "sense" \in Steps
    BY DEF AfterPoll, Steps, PollSteps
  <2>. QED  BY <1>7, <2>1 DEF SetUpdate, PollBegin, Goto, Rearm, TypeOK, chip, history
<1>. QED  BY <1>3, <1>4, <1>5, <1>6, <1>7 DEF Requests

LEMMA TimerTyped ==
  ASSUME TypeOK, TimerFires
  PROVE  TypeOK'
<1>1. AfterPoll(Gate) \in Steps /\ "sense" \in Steps
  BY DEF AfterPoll, Steps, PollSteps
<1>. QED  BY <1>1 DEF TimerFires, PollBegin, Goto, TypeOK, chip, history

LEMMA LifecycleTyped ==
  ASSUME TypeOK, Lifecycle
  PROVE  TypeOK'
<1>. USE DEF TypeOK, At, Goto, driver, chip, history
<1>0. {"idle", "started", "sense", "stopCheck", "stopPoller", "req"} \subseteq Steps
  BY DEF Steps, PollSteps, StartSteps, CommandSteps
<1>1. CASE StartSetup
  BY <1>0, <1>1 DEF StartSetup, PollBegin, AfterPoll
<1>2. CASE StartDone
  BY <1>0, <1>2 DEF StartDone
<1>3. CASE StopBegin
  BY <1>0, <1>3 DEF StopBegin
<1>4. CASE StopCheck
  <2>1. CASE manualMode
    <3>1. handshakeActive' \in BOOLEAN
      BY <1>4, <2>1, Zenon DEF StopCheck
    <3>2. AutoArg \in [manual : BOOLEAN, duty : Byte]
      BY DEF AutoArg
    <3>. QED  BY <1>0, <1>4, <2>1, <3>1, <3>2 DEF StopCheck
  <2>2. CASE ~manualMode
    BY <1>0, <1>4, <2>2 DEF StopCheck
  <2>. QED  BY <2>1, <2>2
<1>5. CASE StopPoller
  BY <1>0, <1>5 DEF StopPoller
<1>. QED  BY <1>1, <1>2, <1>3, <1>4, <1>5 DEF Lifecycle

LEMMA PowerTyped ==
  ASSUME TypeOK, PowerSteps
  PROVE  TypeOK'
<1>. USE DEF TypeOK, At, Goto, driver, chip, history
<1>0. {"idle", "monRead", "wakePoller"} \subseteq Steps
  BY DEF Steps, MonitorSteps, PMSteps
<1>1. CASE Sleep
  BY <1>1 DEF Sleep
<1>2. CASE MachineSleeps
  BY <1>2, FanStaysTyped DEF MachineSleeps, CfgType
<1>3. CASE WakeCfg
  BY <1>0, <1>3 DEF WakeCfg
<1>4. CASE WakeManual
  <2>1. CASE manualMode
    <3>. DEFINE a == ManualArg(manualDuty)
    <3>1. a \in [manual : BOOLEAN, duty : Byte]
      BY DEF ManualArg
    <3>2. (levelStale \/ overlap) \in BOOLEAN
      OBVIOUS
    <3>3. Begin(PM, a, levelStale \/ overlap)
      BY <1>4, <2>1 DEF WakeManual
    <3>4. manualLevel' \in 0..7
          /\ UNCHANGED <<chip, manualMode, manualDuty, pwmAvailable, savedHwmCfg,
                         published, poller, armed, phase, power, got>>
      BY <1>4 DEF WakeManual
    <3>. HIDE DEF a, TypeOK, chip
    <3>. QED  BY <3>1, <3>2, <3>3, <3>4, StartedCommandTyped
  <2>2. CASE ~manualMode
    BY <1>0, <1>4, <2>2 DEF WakeManual
  <2>. QED  BY <2>1, <2>2
<1>5. CASE WakePoller
  <2>1. armed' \in BOOLEAN
    BY <1>5, Zenon DEF WakePoller
  <2>. QED  BY <1>0, <1>5, <2>1 DEF WakePoller
<1>. QED  BY <1>1, <1>2, <1>3, <1>4, <1>5 DEF PowerSteps

LEMMA InitTyped ==
  Init => TypeOK /\ MonitorByte
<1>. SUFFICES ASSUME Init PROVE TypeOK /\ MonitorByte
  OBVIOUS
<1>1. fan \in FanType
  BY DEF Init, FanType, AutoFan
<1>2. hwmCfg \in CfgType /\ savedHwmCfg \in CfgType
  BY Inputs DEF Init, CfgType
<1>3. pc \in [Threads -> Steps]
  BY DEF Init, Steps, MonitorSteps
<1>4. arg \in [Threads -> [manual : BOOLEAN, duty : Byte]] /\ got \in [Threads -> Byte]
  BY DEF Init, AutoArg
<1>5. MonitorByte
  BY DEF Init, MonitorByte
<1>6. published \in [manual : BOOLEAN, duty : Byte]
  BY DEF Init
<1>7. /\ handshakeActive \in BOOLEAN /\ manualMode \in BOOLEAN /\ pwmAvailable \in BOOLEAN
      /\ armed \in BOOLEAN /\ overlap \in BOOLEAN /\ levelStale \in BOOLEAN
  BY Zenon DEF Init
<1>. QED  BY <1>1, <1>2, <1>3, <1>4, <1>5, <1>6, <1>7 DEF TypeOK, Init

(* Only MonitorRead leads to a write-back, and it has read bits 0 to 6.    *)
LEMMA MonitorByteKept ==
  ASSUME TypeOK, MonitorByte, [Next]_vars
  PROVE  MonitorByte'
<1>. USE DEF TypeOK, MonitorByte, At, Goto
<1>1. CASE UNCHANGED vars
  BY <1>1 DEF vars
<1>2. ASSUME NEW t \in Threads, Command(t)
      PROVE  MonitorByte'
  <2>1. \E step \in CommandSteps \cup {"idle", "wakePoller"} : pc' = [pc EXCEPT ![t] = step]
    BY <1>2 DEF Command, WriteReq, WriteTarget, WriteDone, LowerFlag, Remember, Publish,
                AfterCommand, CommandSteps
  <2>2. got' = got
    BY <1>2 DEF Command, WriteReq, WriteTarget, WriteDone, LowerFlag, Remember, Publish
  <2>. QED  BY <2>1, <2>2 DEF CommandSteps
<1>3. ASSUME NEW t \in Threads, Poll(t)
      PROVE  MonitorByte'
  <2>1. /\ pc[t] # "monWrite" /\ pc'[t] # "monWrite"
        /\ \A u \in Threads \ {t} : pc'[u] = pc[u] /\ got'[u] = got[u]
    BY <1>3 DEF Poll, PollSense, PollDuty, PollPublish, AfterPoll
  <2>. QED  BY <2>1
<1>4. ASSUME NEW t \in Threads, Monitor(t)
      PROVE  MonitorByte'
  <2>1. CASE MonitorRead(t)
    <3>1. hwmCfg.cfg \in 0..127
      BY DEF CfgType
    <3>. QED  BY <2>1, <3>1 DEF MonitorRead
  <2>2. CASE MonitorWrite(t)
    BY <2>2 DEF MonitorWrite, AfterMonitor
  <2>. QED  BY <1>4, <2>1, <2>2 DEF Monitor
<1>5. ASSUME NEW t \in Threads, NEW a, NEW stale, Begin(t, a, stale), got' = got
      PROVE  MonitorByte'
  BY <1>5 DEF Begin, AfterCommand
<1>6. CASE Requests
  <2>. HIDE DEF TypeOK, MonitorByte
  <2>1. CASE SetUpdate
    BY <2>1 DEF SetUpdate, PollBegin, AfterPoll, TypeOK, MonitorByte
  <2>2. CASE ~SetUpdate
    <3>1. got' = got /\ \E t \in Threads : \E a, stale : Begin(t, a, stale)
      BY <1>6, <2>2 DEF Requests, WriteEC, WriteFanDuty, WriteFanLevel, SetFanSpeed, SetFanPWM,
                        SetFanAuto
    <3>. QED  BY <1>5, <3>1
  <2>. QED  BY <2>1, <2>2
<1>7. CASE TimerFires
  BY <1>7 DEF TimerFires, PollBegin, AfterPoll
<1>8. CASE Lifecycle
  BY <1>8 DEF Lifecycle, StartSetup, StartDone, StopBegin, StopCheck, StopPoller,
              PollBegin, AfterPoll
<1>9. CASE PowerSteps
  <2>1. CASE WakeManual
    <3>1. CASE manualMode
      <4>1. Begin(PM, ManualArg(manualDuty), levelStale \/ overlap) /\ got' = got
        BY <2>1, <3>1 DEF WakeManual
      <4>. HIDE DEF TypeOK, MonitorByte
      <4>. QED  BY <1>5, <4>1
    <3>2. CASE ~manualMode
      BY <2>1, <3>2 DEF WakeManual
    <3>. QED  BY <3>1, <3>2
  <2>2. CASE ~WakeManual
    BY <1>9, <2>2 DEF PowerSteps, Sleep, MachineSleeps, WakeCfg, WakePoller
  <2>. QED  BY <2>1, <2>2
<1>. QED  BY <1>1, <1>2, <1>3, <1>4, <1>6, <1>7, <1>8, <1>9 DEF Next, Body

LEMMA TypeKept ==
  ASSUME TypeOK, MonitorByte, [Next]_vars
  PROVE  TypeOK'
<1>1. CASE UNCHANGED vars
  <2>1. UNCHANGED <<fan, hwmCfg, handshakeActive, manualMode, manualDuty, manualLevel,
                    pwmAvailable, savedHwmCfg, published, poller, armed, phase, power, pc,
                    arg, got, overlap, levelStale>>
    BY <1>1 DEF vars, chip, driver, history
  <2>. QED  BY <2>1 DEF TypeOK
<1>2. ASSUME NEW t \in Threads, Body(t)
      PROVE  TypeOK'
  BY <1>2, CommandTyped, PollTyped, MonitorTyped DEF Body
<1>3. CASE Next
  BY <1>2, <1>3, RequestsTyped, TimerTyped, LifecycleTyped, PowerTyped DEF Next
<1>. QED  BY <1>1, <1>3

(* Type correctness: manualLevel is a level, duties are bytes and a saved  *)
(* HWM_CFG is seven bits and a flag, in every reachable state.             *)
THEOREM TypeCorrect == Spec => []TypeOK
<1>1. TypeOK /\ MonitorByte /\ [Next]_vars => (TypeOK /\ MonitorByte)'
  BY TypeKept, MonitorByteKept
<1>. QED  BY InitTyped, <1>1, PTL DEF Spec

-----------------------------------------------------------------------------
(* Open windows and raised flags have owners. *)

Owning == {"req", "duty", "done", "flagOff"}

(* A step that opens nothing, raises nothing and moves no owner keeps both. *)
LEMMA BystandersKeepOwners ==
  ASSUME HandshakesEnd,
         fan'.ctrl = "REQ" => fan.ctrl = "REQ",
         handshakeActive' => handshakeActive,
         \A u \in Threads : pc[u] \in Owning => pc'[u] = pc[u]
  PROVE  HandshakesEnd'
<1>1. WindowHasOwner'
  BY DEF HandshakesEnd, WindowHasOwner, Owning
<1>2. FlagHasOwner'
  BY DEF HandshakesEnd, FlagHasOwner, Owning
<1>. QED  BY <1>1, <1>2 DEF HandshakesEnd

LEMMA BeginKeepsOwners ==
  ASSUME TypeOK, HandshakesEnd, NEW t \in Threads, NEW a, NEW stale,
         pc[t] \in {"idle", "wakeManual"}, Begin(t, a, stale), fan' = fan
  PROVE  HandshakesEnd'
<1>1. \A u \in Threads : pc[u] \in Owning => pc'[u] = pc[u]
  BY DEF TypeOK, Begin, Goto, Owning
<1>2. CASE UNCHANGED handshakeActive
  BY <1>1, <1>2, BystandersKeepOwners
<1>3. CASE handshakeActive' = TRUE
  <2>1. pc'[t] = "req" \/ UNCHANGED handshakeActive
    BY DEF TypeOK, Begin, Goto
  <2>2. CASE pc'[t] = "req"
    <3>1. WindowHasOwner'
      BY <1>1 DEF HandshakesEnd, WindowHasOwner, Owning
    <3>2. FlagHasOwner'
      BY <2>2 DEF FlagHasOwner
    <3>. QED  BY <3>1, <3>2 DEF HandshakesEnd
  <2>. QED  BY <1>2, <2>1, <2>2
<1>. QED  BY <1>2, <1>3 DEF Begin

LEMMA CommandKeepsOwners ==
  ASSUME TypeOK, HandshakesEnd, NEW t \in Threads, Command(t)
  PROVE  HandshakesEnd'
<1>. USE DEF At, Goto, HandshakesEnd
<1>0. /\ pc' = [pc EXCEPT ![t] = pc'[t]]
      /\ pc \in [Threads -> Steps]
  BY DEF Command, WriteReq, WriteTarget, WriteDone, LowerFlag, Remember, Publish, TypeOK
<1>1. CASE WriteReq(t)
  <2>1. pc[t] = "req" /\ pc'[t] \in {"duty", "done"} /\ UNCHANGED handshakeActive
    BY <1>0, <1>1 DEF WriteReq, driver
  <2>. QED  BY <1>0, <2>1 DEF WindowHasOwner, FlagHasOwner
<1>2. CASE WriteTarget(t)
  <2>1. pc[t] = "duty" /\ pc'[t] = "done" /\ UNCHANGED handshakeActive
    BY <1>0, <1>2 DEF WriteTarget, driver
  <2>. QED  BY <1>0, <2>1 DEF WindowHasOwner, FlagHasOwner
<1>3. CASE WriteDone(t)
  <2>1. pc[t] = "done" /\ pc'[t] = "flagOff" /\ UNCHANGED handshakeActive
    BY <1>0, <1>3 DEF WriteDone, driver
  <2>2. fan'.ctrl # "REQ"
    BY <1>3 DEF WriteDone, ChipDone
  <2>. QED  BY <1>0, <2>1, <2>2 DEF WindowHasOwner, FlagHasOwner
<1>4. CASE LowerFlag(t)
  <2>1. pc[t] = "flagOff" /\ ~handshakeActive' /\ fan' = fan
    BY <1>4 DEF LowerFlag, chip
  <2>. QED  BY <1>0, <2>1 DEF WindowHasOwner, FlagHasOwner
<1>5. CASE Remember(t) \/ Publish(t)
  <2>1. pc[t] \in {"mode", "publish"} /\ UNCHANGED <<fan, handshakeActive>>
    BY <1>5 DEF Remember, Publish, chip
  <2>. HIDE DEF HandshakesEnd
  <2>. QED  BY <1>0, <2>1, BystandersKeepOwners DEF Owning
<1>. QED  BY <1>1, <1>2, <1>3, <1>4, <1>5 DEF Command

LEMMA OwnersKept ==
  ASSUME TypeOK, HandshakesEnd, [Next]_vars
  PROVE  HandshakesEnd'
<1>1. CASE UNCHANGED vars
  <2>1. UNCHANGED <<fan, handshakeActive, pc>>
    BY <1>1 DEF vars, chip, driver
  <2>. QED  BY <2>1, BystandersKeepOwners
<1>2. ASSUME NEW t \in Threads, Poll(t) \/ Monitor(t)
      PROVE  HandshakesEnd'
  <2>1. UNCHANGED <<fan, handshakeActive>>
    BY <1>2 DEF Poll, PollSense, PollDuty, PollPublish, Monitor, MonitorRead, MonitorWrite,
                chip, driver
  <2>2. \A u \in Threads : pc[u] \in Owning => pc'[u] = pc[u]
    BY <1>2 DEF Poll, PollSense, PollDuty, PollPublish, Monitor, MonitorRead, MonitorWrite,
                At, Goto, Owning, TypeOK
  <2>. QED  BY <2>1, <2>2, BystandersKeepOwners
<1>3. CASE TimerFires \/ SetUpdate
  <2>1. UNCHANGED <<fan, handshakeActive>>
    BY <1>3 DEF TimerFires, SetUpdate, chip
  <2>2. \A u \in Threads : pc[u] \in Owning => pc'[u] = pc[u]
    BY <1>3 DEF TimerFires, SetUpdate, PollBegin, Goto, Owning, TypeOK
  <2>. QED  BY <2>1, <2>2, BystandersKeepOwners
<1>4. CASE Requests
  <2>1. CASE SetUpdate
    BY <1>3, <2>1
  <2>2. CASE ~SetUpdate
    <3>1. fan' = fan
      BY <1>4, <2>2 DEF Requests, WriteEC, SetFanSpeed, SetFanPWM, SetFanAuto, chip
    <3>2. \E t \in Threads : \E a, stale : pc[t] = "idle" /\ Begin(t, a, stale)
      BY <1>4, <2>2 DEF Requests, WriteEC, WriteFanDuty, WriteFanLevel, SetFanSpeed, SetFanPWM,
                        SetFanAuto
    <3>. QED  BY <3>1, <3>2, BeginKeepsOwners
  <2>. QED  BY <2>1, <2>2
<1>5. CASE StopCheck
  <2>1. fan' = fan /\ pc[Driver] = "stopCheck"
    BY <1>5 DEF StopCheck, chip
  <2>2. /\ \A u \in Threads \ {Driver} : pc'[u] = pc[u]
        /\ UNCHANGED handshakeActive \/ pc'[Driver] = "req"
    BY <1>5 DEF StopCheck, Goto, TypeOK
  <2>. QED  BY <2>1, <2>2 DEF HandshakesEnd, WindowHasOwner, FlagHasOwner
<1>6. CASE WakeManual
  <2>1. fan' = fan /\ pc[PM] = "wakeManual"
    BY <1>6 DEF WakeManual, chip
  <2>2. CASE manualMode
    <3>1. Begin(PM, ManualArg(manualDuty), levelStale \/ overlap)
      BY <1>6, <2>2 DEF WakeManual
    <3>. QED  BY <2>1, <3>1, BeginKeepsOwners
  <2>3. CASE ~manualMode
    <3>1. UNCHANGED handshakeActive /\ \A u \in Threads \ {PM} : pc'[u] = pc[u]
      BY <1>6, <2>3 DEF WakeManual, Goto, TypeOK
    <3>. QED  BY <2>1, <3>1, BystandersKeepOwners DEF Owning
  <2>. QED  BY <2>2, <2>3
<1>7. CASE (Lifecycle /\ ~StopCheck) \/ (PowerSteps /\ ~WakeManual)
  <2>1. fan'.ctrl = "REQ" => fan.ctrl = "REQ"
    BY <1>7 DEF Lifecycle, StartSetup, StartDone, StopBegin, StopPoller, PowerSteps, Sleep,
                MachineSleeps, WakeCfg, WakePoller, chip, AutoFan
  <2>2. UNCHANGED handshakeActive
    BY <1>7 DEF Lifecycle, StartSetup, StartDone, StopBegin, StopPoller, PowerSteps, Sleep,
                MachineSleeps, WakeCfg, WakePoller, driver
  <2>3. \A u \in Threads : pc[u] \in Owning => pc'[u] = pc[u]
    BY <1>7 DEF Lifecycle, StartSetup, StartDone, StopBegin, StopPoller, PowerSteps, Sleep,
                MachineSleeps, WakeCfg, WakePoller, At, Goto, PollBegin, Owning, TypeOK
  <2>. QED  BY <2>1, <2>2, <2>3, BystandersKeepOwners
<1>8. ASSUME NEW t \in Threads, Body(t)
      PROVE  HandshakesEnd'
  BY <1>2, <1>8, CommandKeepsOwners DEF Body
<1>9. CASE Next
  BY <1>3, <1>4, <1>5, <1>6, <1>7, <1>8, <1>9 DEF Next
<1>. QED  BY <1>1, <1>9

(* However commands overlap and whatever sleeps, wakes and stops come in   *)
(* between, an open configuration window has a thread that will close it   *)
(* and a raised handshakeActive has a thread that will lower it.           *)
THEOREM WindowsAndFlagsHaveOwners == Spec => []HandshakesEnd
<1>1. Init => HandshakesEnd
  <2>1. Init => fan.ctrl = "DONE" /\ ~handshakeActive
    BY DEF Init, AutoFan
  <2>. QED  BY <2>1 DEF HandshakesEnd, WindowHasOwner, FlagHasOwner
<1>2. TypeOK /\ HandshakesEnd /\ [Next]_vars => HandshakesEnd'
  BY OwnersKept
<1>. QED  BY <1>1, <1>2, TypeCorrect, PTL DEF Spec

-----------------------------------------------------------------------------
(* What the driver believes of the fan is what the controller does, and    *)
(* what a sleep takes away a wake gives back: DriverAgreesWithChip,        *)
(* StopHandsFanBack, LevelReadBack, PollerAlive and MonitoringRestored.    *)

Acting == {"req", "duty", "done", "flagOff", "mode", "publish"}
StartRange == {"monRead", "monWrite", "setup", "sense", "pollDuty", "pollPub", "started"}
PMRange == {"idle", "monRead", "monWrite", "wakeManual", "wakePoller"} \cup Acting

NoneActing == \A t \in Threads : pc[t] \notin Acting

(* Without an overlap at most one thread is inside a command or stop.      *)
Alone == ~overlap => \A t, u \in Threads : InCommand(t) /\ InCommand(u) => t = u

(* What the controller and the driver's fields have come to in the course  *)
(* of a command that runs alone.                                           *)
Staged(t) == pc[t] = "done" =>
  fan.staged = IF arg[t].manual THEN arg[t].duty ELSE NoDuty

WindowOpen(t) == pc[t] \in {"duty", "done"} => fan.ctrl = "REQ"

NothingStaged(t) == pc[t] = "duty" => arg[t].manual /\ fan.staged = NoDuty

Applied(t) == pc[t] \in {"flagOff", "mode", "publish"} =>
  /\ fan.manual = arg[t].manual
  /\ arg[t].manual => fan.duty = arg[t].duty

Remembered(t) == pc[t] = "publish" =>
  /\ manualMode = arg[t].manual
  /\ arg[t].manual => manualDuty = arg[t].duty

Stages == ~overlap => \A t \in Threads :
  Staged(t) /\ WindowOpen(t) /\ NothingStaged(t) /\ Applied(t) /\ Remembered(t)

(* Between commands: the fan is under manual control only as the driver    *)
(* says, and what the driver says holds once a wake has repeated it.       *)
Restored == power \in {"boot", "on"} \/ pc[PM] = "wakePoller"

Settled ==
  /\ fan.manual => manualMode /\ fan.duty = manualDuty
  /\ published.manual = manualMode
  /\ Restored /\ manualMode => fan.manual

Rest == ~overlap /\ NoneActing => Settled

(* setPowerState runs exactly while the machine is waking.                 *)
PMThread == pc[PM] \in PMRange /\ (pc[PM] = "idle" <=> power # "waking")

(* A duty is only ever remembered by a service that has a PWM output.      *)
PwmKnown ==
  /\ manualMode => pwmAvailable
  /\ \A t \in Threads : pc[t] \in Acting /\ arg[t].manual => pwmAvailable

(* start is over before the first command, and stop only restores auto.    *)
DriverThread ==
  /\ pc[Driver] \in StartRange => phase = "starting"
  /\ phase = "starting" => ~manualMode /\ \A t \in Threads : ~InCommand(t)
  /\ pc[Driver] \in Acting => ~arg[Driver].manual
  /\ pc[Driver] = "stopCheck" => phase = "stopping"

(* stop leaves auto mode behind, unless something ran into it.             *)
Stopped == ~overlap /\ (pc[Driver] = "stopPoller" \/ phase = "stopped") =>
  ~manualMode /\ NoneActing

AInv == /\ Alone /\ Stages /\ Rest
        /\ PMThread /\ PwmKnown /\ DriverThread /\ Stopped

-----------------------------------------------------------------------------
LEMMA InitAgrees == Init => AInv
<1>. SUFFICES ASSUME Init PROVE AInv
  OBVIOUS
<1>1. /\ \A t \in Threads : pc[t] \in {"idle", "monRead"}
      /\ pc[PM] = "idle" /\ phase = "starting" /\ power = "boot" /\ ~manualMode
      /\ ~fan.manual /\ published.manual = manualMode
  BY DEF Init, AutoFan
<1>2. Alone /\ Stages
  BY <1>1 DEF Alone, Stages, Staged, WindowOpen, NothingStaged, Applied, Remembered, InCommand,
              CommandSteps
<1>3. Rest
  BY <1>1 DEF Rest, Settled
<1>4. PMThread /\ PwmKnown /\ DriverThread /\ Stopped
  BY <1>1 DEF PMThread, PMRange, PwmKnown, DriverThread, Stopped, Acting, InCommand, CommandSteps
<1>. QED  BY <1>2, <1>3, <1>4 DEF AInv

(* Steps that do not concern commands.                                     *)
LEMMA BystanderAgrees ==
  ASSUME TypeOK, AInv, NEW t \in Threads,
         UNCHANGED <<fan, manualMode, manualDuty, arg, overlap, power>>,
         published'.manual = published.manual,
         \A u \in Threads \ {t} : pc'[u] = pc[u],
         ~InCommand(t), pc'[t] \notin CommandSteps,
         t = PM => pc'[t] \in PMRange \ {"idle", "wakePoller"} /\ pc[t] # "idle",
         t = Driver /\ pc'[t] \in StartRange => phase' = "starting",
         phase' = phase \/ (t = Driver /\ phase' = "running"),
         pwmAvailable' = pwmAvailable \/ phase = "starting"
  PROVE  AInv'
<1>1. /\ \A u \in Threads : pc[u] \in CommandSteps <=> pc'[u] \in CommandSteps
      /\ \A u \in Threads : pc[u] \in CommandSteps => pc'[u] = pc[u]
  BY DEF InCommand
<1>2. Acting \subseteq CommandSteps /\ {"stopCheck", "stopPoller"} \subseteq CommandSteps
  BY DEF Acting, CommandSteps
<1>3. \A u \in Threads : InCommand(u)' <=> InCommand(u)
  BY <1>1 DEF InCommand
<1>4. NoneActing' <=> NoneActing
  BY <1>1, <1>2 DEF NoneActing
<1>5. Alone'
  BY <1>3 DEF AInv, Alone
<1>6. Stages'
  BY <1>1, <1>2 DEF AInv, Stages, Staged, WindowOpen, NothingStaged, Applied, Remembered, Acting
<1>7. Rest'
  <2>1. Restored' => Restored
    BY DEF Restored, PMRange, Acting
  <2>. QED  BY <1>4, <2>1 DEF AInv, Rest, Settled
<1>8. PMThread'
  BY DEF AInv, PMThread
<1>9. PwmKnown'
  <2>1. CASE phase = "starting"
    BY <1>1, <1>2, <2>1 DEF AInv, DriverThread, PwmKnown, InCommand
  <2>2. CASE pwmAvailable' = pwmAvailable
    BY <1>1, <1>2, <2>2 DEF AInv, PwmKnown
  <2>. QED  BY <2>1, <2>2
<1>10. DriverThread'
  <2>1. pc'[Driver] \in StartRange => phase' = "starting"
    BY DEF AInv, DriverThread
  <2>2. phase' = "starting" => ~manualMode' /\ \A u \in Threads : ~InCommand(u)'
    BY <1>3 DEF AInv, DriverThread
  <2>3. pc'[Driver] \in Acting => ~arg'[Driver].manual
    BY <1>1, <1>2 DEF AInv, DriverThread
  <2>4. pc'[Driver] = "stopCheck" => phase' = "stopping"
    BY <1>1, <1>2 DEF AInv, DriverThread
  <2>. QED  BY <2>1, <2>2, <2>3, <2>4 DEF DriverThread
<1>11. Stopped'
  BY <1>1, <1>2, <1>4 DEF AInv, Stopped
<1>. QED  BY <1>5, <1>6, <1>7, <1>8, <1>9, <1>10, <1>11 DEF AInv

(* Beginning a command: of a client or the gate while idle, or of a wake.  *)
LEMMA BeginAgrees ==
  ASSUME TypeOK, AInv, NEW t \in Threads, NEW a, NEW stale,
         t # Driver,
         pc[t] = IF t = PM THEN "wakeManual" ELSE "idle",
         t = PM => manualMode,
         phase # "starting",
         Begin(t, a, stale),
         UNCHANGED <<fan, manualMode, manualDuty, pwmAvailable, published, phase, power>>
  PROVE  AInv'
<1>. USE DEF TypeOK, Goto
<1>1. CASE a.manual /\ ~pwmAvailable
  <2>1. t # PM
    BY <1>1 DEF AInv, PwmKnown
  <2>2. UNCHANGED <<pc, arg, overlap>>
    BY <1>1, <2>1 DEF Begin, AfterCommand, history
  <2>. HIDE DEF TypeOK
  <2>. QED
    BY <2>2 DEF AInv, Alone, Stages, Staged, WindowOpen, NothingStaged, Applied, Remembered, Rest,
                Settled, Restored, NoneActing, PMThread, PwmKnown, DriverThread, Stopped, InCommand
<1>2. CASE ~(a.manual /\ ~pwmAvailable)
  <2>1. /\ pc'[t] = "req" /\ \A u \in Threads \ {t} : pc'[u] = pc[u]
        /\ arg'[t] = a /\ \A u \in Threads \ {t} : arg'[u] = arg[u]
        /\ overlap' <=> (phase = "stopped" \/ \E u \in Threads \ {t} : InCommand(u))
    BY <1>2 DEF Begin
  <2>. HIDE DEF TypeOK
  <2>2. Alone'
    BY <2>1 DEF Alone, InCommand
  <2>3. Stages'
    BY <2>1 DEF Stages, Staged, WindowOpen, NothingStaged, Applied, Remembered, InCommand,
                CommandSteps
  <2>4. Rest' /\ Stopped'
    <3>1. ~NoneActing'
      BY <2>1 DEF NoneActing, Acting
    <3>2. ~overlap' => phase # "stopped" /\ pc'[Driver] # "stopPoller"
      BY <2>1 DEF InCommand, CommandSteps
    <3>. QED  BY <3>1, <3>2 DEF Rest, Stopped
  <2>5. PMThread'
    BY <2>1 DEF AInv, PMThread, PMRange, Acting
  <2>6. PwmKnown'
    BY <1>2, <2>1 DEF AInv, PwmKnown
  <2>7. DriverThread'
    BY <2>1 DEF AInv, DriverThread
  <2>. QED  BY <2>2, <2>3, <2>4, <2>5, <2>6, <2>7 DEF AInv
<1>. QED  BY <1>1, <1>2

(* A step of a thread inside a command, from one stage to the next.        *)
LEMMA StageAgrees ==
  ASSUME TypeOK, AInv, NEW t \in Threads,
         pc[t] \in Acting, pc'[t] \in CommandSteps \ {"stopCheck", "stopPoller"},
         \A u \in Threads \ {t} : pc'[u] = pc[u],
         UNCHANGED <<arg, overlap, pwmAvailable, phase, power>>,
         manualMode' => manualMode \/ arg[t].manual,
         ~overlap => Staged(t)' /\ WindowOpen(t)' /\ NothingStaged(t)'
                     /\ Applied(t)' /\ Remembered(t)'
  PROVE  AInv'
<1>. Acting = CommandSteps \ {"stopCheck", "stopPoller"}
  BY DEF Acting, CommandSteps
<1>1. /\ InCommand(t) /\ pc'[t] \in Acting
      /\ \A u \in Threads : InCommand(u)' <=> InCommand(u)
  BY DEF InCommand
<1>2. Alone'
  BY <1>1 DEF AInv, Alone
<1>3. ~overlap => \A u \in Threads \ {t} : ~InCommand(u)
  BY <1>1 DEF AInv, Alone
<1>4. Stages'
  <2>1. ~overlap => \A u \in Threads \ {t} :
          (Staged(u) /\ WindowOpen(u) /\ NothingStaged(u) /\ Applied(u) /\ Remembered(u))'
    BY <1>3 DEF InCommand, CommandSteps, Staged, WindowOpen, NothingStaged, Applied, Remembered
  <2>. QED  BY <2>1 DEF Stages
<1>5. Rest'
  BY <1>1 DEF Rest, NoneActing
<1>6. PMThread'
  BY <1>1 DEF AInv, PMThread, PMRange, Acting
<1>7. PwmKnown'
  BY <1>1 DEF AInv, PwmKnown
<1>8. DriverThread'
  <2>1. pc'[Driver] \in StartRange => phase' = "starting"
    BY DEF AInv, DriverThread, CommandSteps, StartRange
  <2>2. phase # "starting"
    BY <1>1 DEF AInv, DriverThread
  <2>3. pc'[Driver] \in Acting => ~arg'[Driver].manual
    BY <1>1 DEF AInv, DriverThread
  <2>4. pc'[Driver] = "stopCheck" => phase' = "stopping"
    BY DEF AInv, DriverThread
  <2>. QED  BY <2>1, <2>2, <2>3, <2>4 DEF DriverThread
<1>9. Stopped'
  <2>1. ~overlap /\ (pc[Driver] = "stopPoller" \/ phase = "stopped") => FALSE
    BY <1>1 DEF AInv, Stopped, NoneActing
  <2>. QED  BY <1>1, <2>1 DEF Stopped, Acting
<1>. QED  BY <1>2, <1>4, <1>5, <1>6, <1>7, <1>8, <1>9 DEF AInv

(* Its last step, after which the thread is out of the command.            *)
LEMMA PublishAgrees ==
  ASSUME TypeOK, AInv, NEW t \in Threads, Publish(t)
  PROVE  AInv'
<1>1. /\ pc[t] = "publish" /\ pc'[t] = AfterCommand(t)
      /\ \A u \in Threads \ {t} : pc'[u] = pc[u]
      /\ published'.manual = arg[t].manual
      /\ \A u \in Threads \ {t} : arg'[u] = arg[u]
      /\ UNCHANGED <<fan, manualMode, manualDuty, pwmAvailable, overlap, phase, power>>
  BY DEF Publish, At, Goto, TypeOK, chip, history
<1>2. /\ t = PM => pc'[t] = "wakePoller"
      /\ t = Driver => pc'[t] = "stopPoller"
      /\ t \notin {PM, Driver} => pc'[t] = "idle"
  BY <1>1 DEF AfterCommand
<1>3. pc'[t] \notin Acting /\ pc[t] \in Acting /\ InCommand(t)
  BY <1>1, <1>2 DEF Acting, InCommand, CommandSteps
<1>4. ~overlap => \A u \in Threads \ {t} : ~InCommand(u)
  BY <1>3 DEF AInv, Alone
<1>5. ~overlap => /\ fan.manual = arg[t].manual /\ manualMode = arg[t].manual
                  /\ arg[t].manual => fan.duty = arg[t].duty /\ manualDuty = arg[t].duty
  BY <1>1 DEF AInv, Stages, Applied, Remembered
<1>6. Alone'
  BY <1>1, <1>4 DEF Alone, InCommand
<1>7. Stages'
  BY <1>1, <1>2, <1>4 DEF Stages, Staged, WindowOpen, NothingStaged, Applied, Remembered, InCommand,
                CommandSteps
<1>8. Rest'
  <2>1. ~overlap => Settled'
    BY <1>1, <1>5 DEF Settled
  <2>. QED  BY <1>1, <2>1 DEF Rest
<1>9. PMThread'
  BY <1>1, <1>2 DEF AInv, PMThread, PMRange
<1>10. PwmKnown'
  BY <1>1, <1>3 DEF AInv, PwmKnown
<1>11. DriverThread'
  <2>1. phase # "starting"
    BY <1>3 DEF AInv, DriverThread
  <2>2. pc'[Driver] \in StartRange => FALSE
    BY <1>1, <1>2, <2>1 DEF AInv, DriverThread, StartRange
  <2>3. pc'[Driver] \in Acting => ~arg'[Driver].manual
    BY <1>1, <1>3 DEF AInv, DriverThread
  <2>4. pc'[Driver] = "stopCheck" => phase' = "stopping"
    BY <1>1, <1>2 DEF AInv, DriverThread
  <2>. QED  BY <1>1, <2>1, <2>2, <2>3, <2>4 DEF DriverThread
<1>12. Stopped'
  <2>1. ~overlap => NoneActing'
    BY <1>1, <1>3, <1>4 DEF NoneActing, InCommand, Acting, CommandSteps
  <2>2. ~overlap => phase # "stopped" /\ (t # Driver => pc[Driver] # "stopPoller")
    BY <1>3, <1>4 DEF AInv, Stopped, NoneActing, InCommand, CommandSteps
  <2>3. t = Driver => ~arg[t].manual
    BY <1>3 DEF AInv, DriverThread
  <2>. QED  BY <1>1, <1>5, <2>1, <2>2, <2>3 DEF Stopped
<1>. QED  BY <1>6, <1>7, <1>8, <1>9, <1>10, <1>11, <1>12 DEF AInv

LEMMA CommandAgrees ==
  ASSUME TypeOK, AInv, NEW t \in Threads, Command(t)
  PROVE  AInv'
<1>. USE DEF At, Goto
<1>0. pc \in [Threads -> Steps] /\ arg \in [Threads -> [manual : BOOLEAN, duty : Byte]]
  BY DEF TypeOK
<1>. DEFINE Steady == /\ \A u \in Threads \ {t} : pc'[u] = pc[u]
                      /\ UNCHANGED <<arg, overlap, pwmAvailable, phase, power>>
<1>1. CASE WriteReq(t)
  <2>1. /\ Steady /\ manualMode' = manualMode
        /\ pc[t] = "req" /\ pc'[t] = IF arg[t].manual THEN "duty" ELSE "done"
        /\ fan' = ChipReq
    BY <1>0, <1>1 DEF WriteReq, driver, history
  <2>2. fan'.ctrl = "REQ" /\ fan'.staged = NoDuty
    BY <2>1 DEF ChipReq, TypeOK, FanType
  <2>3. Staged(t)' /\ WindowOpen(t)' /\ NothingStaged(t)' /\ Applied(t)' /\ Remembered(t)'
    BY <2>1, <2>2 DEF Staged, WindowOpen, NothingStaged, Applied, Remembered
  <2>. QED  BY <2>1, <2>3, StageAgrees DEF Acting, CommandSteps
<1>2. CASE WriteTarget(t)
  <2>1. /\ Steady /\ manualMode' = manualMode
        /\ pc[t] = "duty" /\ pc'[t] = "done"
        /\ fan' = ChipDuty(arg[t].duty)
    BY <1>0, <1>2 DEF WriteTarget, driver, history
  <2>2. ~overlap => fan.ctrl = "REQ"
    BY <2>1 DEF AInv, Stages, WindowOpen
  <2>3. ~overlap => fan'.ctrl = "REQ" /\ fan'.staged = arg[t].duty
    BY <2>1, <2>2 DEF ChipDuty, TypeOK, FanType
  <2>4. ~overlap => arg[t].manual
    BY <2>1 DEF AInv, Stages, NothingStaged
  <2>5. ~overlap => Staged(t)' /\ WindowOpen(t)' /\ NothingStaged(t)' /\ Applied(t)'
                    /\ Remembered(t)'
    BY <2>1, <2>3, <2>4 DEF Staged, WindowOpen, NothingStaged, Applied, Remembered
  <2>. QED  BY <2>1, <2>5, StageAgrees DEF Acting, CommandSteps
<1>3. CASE WriteDone(t)
  <2>1. /\ Steady /\ manualMode' = manualMode
        /\ pc[t] = "done" /\ pc'[t] = "flagOff"
        /\ fan' = ChipDone
    BY <1>0, <1>3 DEF WriteDone, driver, history
  <2>2. ~overlap => fan.ctrl = "REQ" /\ fan.staged = IF arg[t].manual THEN arg[t].duty ELSE NoDuty
    BY <2>1 DEF AInv, Stages, WindowOpen, Staged
  <2>3. arg[t].duty \in Byte /\ arg[t].manual \in BOOLEAN
    BY <1>0
  <2>4. ~overlap => /\ fan'.manual = arg[t].manual
                    /\ arg[t].manual => fan'.duty = arg[t].duty
    BY <2>1, <2>2, <2>3 DEF ChipDone
  <2>5. ~overlap => Staged(t)' /\ WindowOpen(t)' /\ NothingStaged(t)' /\ Applied(t)'
                    /\ Remembered(t)'
    BY <2>1, <2>4 DEF Staged, WindowOpen, NothingStaged, Applied, Remembered
  <2>. QED  BY <2>1, <2>5, StageAgrees DEF Acting, CommandSteps
<1>4. CASE LowerFlag(t)
  <2>1. /\ Steady /\ manualMode' = manualMode /\ fan' = fan
        /\ pc[t] = "flagOff" /\ pc'[t] = "mode"
    BY <1>0, <1>4 DEF LowerFlag, chip, history
  <2>2. ~overlap => Staged(t)' /\ WindowOpen(t)' /\ NothingStaged(t)' /\ Applied(t)'
                    /\ Remembered(t)'
    BY <2>1 DEF AInv, Stages, Staged, WindowOpen, NothingStaged, Applied, Remembered
  <2>. QED  BY <2>1, <2>2, StageAgrees DEF Acting, CommandSteps
<1>5. CASE Remember(t)
  <2>1. /\ Steady /\ manualMode' = arg[t].manual /\ fan' = fan
        /\ arg[t].manual => manualDuty' = arg[t].duty
        /\ pc[t] = "mode" /\ pc'[t] = "publish"
    BY <1>0, <1>5 DEF Remember, chip, history
  <2>2. ~overlap => Staged(t)' /\ WindowOpen(t)' /\ NothingStaged(t)' /\ Applied(t)'
                    /\ Remembered(t)'
    BY <2>1 DEF AInv, Stages, Staged, WindowOpen, NothingStaged, Applied, Remembered
  <2>. QED  BY <2>1, <2>2, StageAgrees DEF Acting, CommandSteps
<1>6. CASE Publish(t)
  BY <1>6, PublishAgrees
<1>. QED  BY <1>1, <1>2, <1>3, <1>4, <1>5, <1>6 DEF Command

LEMMA RequestsAgree ==
  ASSUME TypeOK, AInv, Requests
  PROVE  AInv'
<1>1. CASE SetUpdate
  <2>1. /\ UNCHANGED <<fan, manualMode, manualDuty, arg, overlap, power, published, phase,
                       pwmAvailable>>
        /\ pc[Gate] = "idle" /\ pc'[Gate] \in {"idle", "sense"}
        /\ \A u \in Threads \ {Gate} : pc'[u] = pc[u]
    BY <1>1 DEF SetUpdate, PollBegin, AfterPoll, Goto, TypeOK, chip, history
  <2>. QED  BY <2>1, BystanderAgrees DEF InCommand, CommandSteps, StartRange
<1>2. CASE ~SetUpdate
  <2>1. UNCHANGED <<fan, manualMode, manualDuty, pwmAvailable, published, phase, power>>
        /\ phase # "starting"
    BY <1>2 DEF Requests, WriteEC, SetFanSpeed, SetFanPWM, SetFanAuto, chip
  <2>2. \E t \in Clients \cup {Gate} : \E a, stale : pc[t] = "idle" /\ Begin(t, a, stale)
    BY <1>2 DEF Requests, WriteEC, WriteFanDuty, WriteFanLevel, SetFanSpeed, SetFanPWM,
                SetFanAuto
  <2>3. \A t \in Clients \cup {Gate} : t # Driver /\ t # PM
    BY ThreadNames
  <2>. QED  BY <2>1, <2>2, <2>3, BeginAgrees
<1>. QED  BY <1>1, <1>2

LEMMA BystandersAgree ==
  ASSUME TypeOK, AInv,
         TimerFires \/ StartSetup \/ StartDone \/ \E t \in Threads : Poll(t) \/ Monitor(t)
  PROVE  AInv'
<1>1. CASE TimerFires
  <2>1. /\ UNCHANGED <<fan, manualMode, manualDuty, arg, overlap, power, published, phase,
                       pwmAvailable>>
        /\ pc[Gate] = "idle" /\ pc'[Gate] \in {"idle", "sense"}
        /\ \A u \in Threads \ {Gate} : pc'[u] = pc[u]
    BY <1>1 DEF TimerFires, PollBegin, AfterPoll, Goto, TypeOK, chip, history
  <2>. QED  BY <2>1, BystanderAgrees DEF InCommand, CommandSteps, StartRange
<1>2. CASE StartSetup
  <2>1. /\ UNCHANGED <<fan, manualMode, manualDuty, arg, overlap, power, published, phase>>
        /\ pc[Driver] = "setup" /\ pc'[Driver] \in {"started", "sense"}
        /\ \A u \in Threads \ {Driver} : pc'[u] = pc[u]
    BY <1>2 DEF StartSetup, PollBegin, AfterPoll, Goto, TypeOK, chip, history
  <2>2. phase = "starting"
    BY <2>1 DEF AInv, DriverThread, StartRange
  <2>. QED  BY <2>1, <2>2, BystanderAgrees DEF InCommand, CommandSteps
<1>3. CASE StartDone
  <2>1. /\ UNCHANGED <<fan, manualMode, manualDuty, arg, overlap, power, published, pwmAvailable>>
        /\ pc[Driver] = "started" /\ pc'[Driver] = "idle" /\ phase' = "running"
        /\ \A u \in Threads \ {Driver} : pc'[u] = pc[u]
    BY <1>3 DEF StartDone, At, Goto, TypeOK, chip, history
  <2>. QED  BY <2>1, BystanderAgrees DEF InCommand, CommandSteps, StartRange
<1>4. ASSUME NEW t \in Threads, Poll(t)
      PROVE  AInv'
  <2>1. /\ UNCHANGED <<fan, manualMode, manualDuty, arg, overlap, power, phase, pwmAvailable>>
        /\ pc[t] \in PollSteps /\ pc'[t] \in PollSteps \cup {AfterPoll(t)}
        /\ \A u \in Threads \ {t} : pc'[u] = pc[u]
    BY <1>4 DEF Poll, PollSense, PollDuty, PollPublish, PollSteps, At, Goto, TypeOK, chip, driver,
                history
  <2>2. published'.manual = published.manual
    BY <1>4 DEF Poll, PollSense, PollDuty, PollPublish, TypeOK, driver
  <2>3. t # PM
    BY <2>1 DEF AInv, PMThread, PMRange, PollSteps, Acting
  <2>4. t = Driver => phase = "starting"
    BY <2>1 DEF AInv, DriverThread, StartRange, PollSteps
  <2>. QED
    BY <2>1, <2>2, <2>3, <2>4, BystanderAgrees DEF InCommand, CommandSteps, PollSteps, AfterPoll
<1>5. ASSUME NEW t \in Threads, Monitor(t)
      PROVE  AInv'
  <2>1. /\ UNCHANGED <<fan, manualMode, manualDuty, arg, overlap, power, published, phase,
                       pwmAvailable>>
        /\ pc[t] \in MonitorSteps /\ pc'[t] \in {"monWrite", AfterMonitor(t)}
        /\ \A u \in Threads \ {t} : pc'[u] = pc[u]
    BY <1>5 DEF Monitor, MonitorRead, MonitorWrite, MonitorSteps, At, Goto, TypeOK, chip, driver,
                history
  <2>2. t = Driver => phase = "starting"
    BY <2>1 DEF AInv, DriverThread, StartRange, MonitorSteps
  <2>3. pc'[t] \notin CommandSteps /\ ~InCommand(t)
    BY <2>1 DEF InCommand, CommandSteps, MonitorSteps, AfterMonitor
  <2>4. t = PM => pc'[t] \in PMRange \ {"idle", "wakePoller"} /\ pc[t] # "idle"
    BY <2>1 DEF PMRange, MonitorSteps, AfterMonitor
  <2>. QED  BY <2>1, <2>2, <2>3, <2>4, BystanderAgrees
<1>. QED  BY <1>1, <1>2, <1>3, <1>4, <1>5

LEMMA StopAgrees ==
  ASSUME TypeOK, AInv, StopBegin \/ StopCheck \/ StopPoller
  PROVE  AInv'
<1>. USE DEF At, Goto
<1>0. pc \in [Threads -> Steps] /\ arg \in [Threads -> [manual : BOOLEAN, duty : Byte]]
  BY DEF TypeOK
<1>1. CASE StopBegin
  <2>1. /\ UNCHANGED <<fan, manualMode, manualDuty, pwmAvailable, published, arg, power>>
        /\ pc[Driver] = "idle" /\ pc'[Driver] = "stopCheck"
        /\ \A u \in Threads \ {Driver} : pc'[u] = pc[u]
        /\ phase = "running" /\ phase' = "stopping"
        /\ overlap' <=> (overlap \/ \E u \in Threads \ {Driver} : InCommand(u))
    BY <1>0, <1>1 DEF StopBegin, chip, driver
  <2>2. NoneActing' <=> NoneActing
    BY <2>1 DEF NoneActing, Acting
  <2>3. Alone'
    BY <2>1 DEF Alone, InCommand
  <2>4. Stages'
    BY <2>1 DEF AInv, Stages, Staged, WindowOpen, NothingStaged, Applied, Remembered
  <2>5. Rest'
    BY <2>1, <2>2 DEF AInv, Rest, Settled, Restored
  <2>6. PMThread' /\ PwmKnown' /\ DriverThread' /\ Stopped'
    BY <2>1 DEF AInv, PMThread, PwmKnown, DriverThread, Stopped, Acting, StartRange
  <2>. QED  BY <2>3, <2>4, <2>5, <2>6 DEF AInv
<1>2. CASE StopCheck
  <2>1. /\ UNCHANGED <<fan, manualMode, manualDuty, pwmAvailable, published, power, phase,
                       overlap>>
        /\ pc[Driver] = "stopCheck"
        /\ \A u \in Threads \ {Driver} : pc'[u] = pc[u] /\ arg'[u] = arg[u]
        /\ \/ manualMode /\ pc'[Driver] = "req" /\ arg'[Driver].manual = FALSE
           \/ ~manualMode /\ pc'[Driver] = "stopPoller" /\ arg' = arg
    BY <1>0, <1>2 DEF StopCheck, AutoArg, chip, history
  <2>2. \A u \in Threads : InCommand(u)' <=> InCommand(u)
    BY <2>1 DEF InCommand, CommandSteps
  <2>3. Alone'
    BY <2>1, <2>2 DEF AInv, Alone
  <2>4. ~overlap => \A u \in Threads \ {Driver} : ~InCommand(u)
    BY <2>1 DEF AInv, Alone, InCommand, CommandSteps
  <2>5. Stages'
    BY <2>1 DEF AInv, Stages, Staged, WindowOpen, NothingStaged, Applied, Remembered
  <2>6. Rest'
    <3>1. NoneActing' => NoneActing
      BY <2>1 DEF NoneActing, Acting
    <3>. QED  BY <2>1, <3>1 DEF AInv, Rest, Settled, Restored
  <2>7. phase = "stopping"
    BY <2>1 DEF AInv, DriverThread
  <2>8. PMThread' /\ PwmKnown'
    BY <2>1 DEF AInv, PMThread, PwmKnown, Acting
  <2>9. DriverThread'
    BY <2>1, <2>7 DEF AInv, DriverThread, StartRange, Acting
  <2>10. Stopped'
    <3>1. ~overlap => \A u \in Threads \ {Driver} : pc'[u] \notin Acting
      BY <2>1, <2>4 DEF InCommand, Acting, CommandSteps
    <3>. QED  BY <2>1, <2>7, <3>1 DEF Stopped, NoneActing, Acting
  <2>. QED  BY <2>3, <2>5, <2>6, <2>8, <2>9, <2>10 DEF AInv
<1>3. CASE StopPoller
  <2>1. /\ UNCHANGED <<fan, manualMode, manualDuty, pwmAvailable, published, arg, power, overlap>>
        /\ pc[Driver] = "stopPoller" /\ pc'[Driver] = "idle" /\ phase' = "stopped"
        /\ \A u \in Threads \ {Driver} : pc'[u] = pc[u]
    BY <1>0, <1>3 DEF StopPoller, chip, history
  <2>2. NoneActing' <=> NoneActing
    BY <2>1 DEF NoneActing, Acting
  <2>3. Alone'
    BY <2>1 DEF AInv, Alone, InCommand, CommandSteps
  <2>4. Stages'
    BY <2>1 DEF AInv, Stages, Staged, WindowOpen, NothingStaged, Applied, Remembered
  <2>5. Rest'
    BY <2>1, <2>2 DEF AInv, Rest, Settled, Restored
  <2>6. PMThread' /\ PwmKnown' /\ DriverThread'
    BY <2>1 DEF AInv, PMThread, PwmKnown, DriverThread, Acting, StartRange
  <2>7. Stopped'
    BY <2>1, <2>2 DEF AInv, Stopped
  <2>. QED  BY <2>3, <2>4, <2>5, <2>6, <2>7 DEF AInv
<1>. QED  BY <1>1, <1>2, <1>3

LEMMA PowerAgrees ==
  ASSUME TypeOK, AInv, PowerSteps
  PROVE  AInv'
<1>. USE DEF At, Goto
<1>0. pc \in [Threads -> Steps]
  BY DEF TypeOK
<1>. DEFINE Fields == <<manualMode, manualDuty, pwmAvailable, published, arg, phase>>
<1>1. CASE Sleep
  <2>1. UNCHANGED Fields /\ UNCHANGED <<fan, pc, overlap>>
        /\ pc[PM] = "idle" /\ power' = "slept"
    BY <1>1 DEF Sleep, chip, history
  <2>2. Restored' => Restored
    BY <2>1 DEF Restored
  <2>3. Alone' /\ Stages'
    BY <2>1 DEF AInv, Alone, InCommand, Stages, Staged, WindowOpen, NothingStaged, Applied,
                Remembered
  <2>4. Rest'
    BY <2>1, <2>2 DEF AInv, Rest, Settled, NoneActing
  <2>5. PMThread' /\ PwmKnown' /\ DriverThread' /\ Stopped'
    BY <2>1 DEF AInv, PMThread, PwmKnown, DriverThread, Stopped, NoneActing, InCommand
  <2>. QED  BY <2>3, <2>4, <2>5 DEF AInv
<1>2. CASE MachineSleeps
  <2>1. /\ UNCHANGED Fields /\ UNCHANGED pc
        /\ power = "slept" /\ power' = "off" /\ fan' = AutoFan
        /\ overlap' <=> (overlap \/ ~NoCommand)
    BY <1>2 DEF MachineSleeps, driver
  <2>2. ~Restored'
    BY <2>1 DEF Restored, AInv, PMThread
  <2>3. Alone'
    BY <2>1 DEF AInv, Alone, InCommand
  <2>4. Stages'
    <3>1. ~overlap' => \A u \in Threads : pc'[u] \notin CommandSteps
      BY <2>1 DEF NoCommand, InCommand
    <3>. QED  BY <3>1 DEF Stages, Staged, WindowOpen, NothingStaged, Applied, Remembered,
                          CommandSteps
  <2>5. Rest'
    <3>1. ~fan'.manual
      BY <2>1 DEF AutoFan
    <3>. QED  BY <2>1, <2>2, <3>1 DEF AInv, Rest, Settled, NoneActing
  <2>6. PMThread' /\ PwmKnown' /\ DriverThread' /\ Stopped'
    BY <2>1 DEF AInv, PMThread, PwmKnown, DriverThread, Stopped, NoneActing, InCommand
  <2>. QED  BY <2>3, <2>4, <2>5, <2>6 DEF AInv
<1>3. CASE WakeCfg
  <2>1. UNCHANGED Fields /\ UNCHANGED <<fan, overlap>>
        /\ pc[PM] = "idle" /\ pc'[PM] = "monRead" /\ power' = "waking"
        /\ \A u \in Threads \ {PM} : pc'[u] = pc[u]
    BY <1>0, <1>3 DEF WakeCfg, driver, history
  <2>2. /\ NoneActing' <=> NoneActing
        /\ \A u \in Threads : InCommand(u)' <=> InCommand(u)
    BY <2>1 DEF NoneActing, InCommand, Acting, CommandSteps
  <2>3. Alone' /\ Stages'
    BY <2>1, <2>2 DEF AInv, Alone, Stages, Staged, WindowOpen, NothingStaged, Applied, Remembered
  <2>4. Rest'
    BY <2>1, <2>2 DEF AInv, Rest, Settled, Restored
  <2>5. PMThread' /\ PwmKnown'
    BY <2>1 DEF AInv, PMThread, PMRange, PwmKnown, Acting
  <2>6. DriverThread' /\ Stopped'
    BY <2>1, <2>2 DEF AInv, DriverThread, Stopped
  <2>. QED  BY <2>3, <2>4, <2>5, <2>6 DEF AInv
<1>4. CASE WakeManual
  <2>1. CASE manualMode
    <3>1. Begin(PM, ManualArg(manualDuty), levelStale \/ overlap)
          /\ UNCHANGED <<fan, manualMode, manualDuty, pwmAvailable, published, phase, power>>
          /\ pc[PM] = "wakeManual"
      BY <1>4, <2>1 DEF WakeManual, chip
    <3>2. phase # "starting"
      BY <2>1 DEF AInv, DriverThread
    <3>. QED  BY <2>1, <3>1, <3>2, BeginAgrees
  <2>2. CASE ~manualMode
    <3>1. UNCHANGED Fields /\ UNCHANGED <<fan, overlap, power>>
          /\ pc[PM] = "wakeManual" /\ pc'[PM] = "wakePoller"
          /\ \A u \in Threads \ {PM} : pc'[u] = pc[u]
      BY <1>0, <1>4, <2>2 DEF WakeManual, chip, history
    <3>2. /\ NoneActing' <=> NoneActing
          /\ \A u \in Threads : InCommand(u)' <=> InCommand(u)
      BY <3>1 DEF NoneActing, InCommand, Acting, CommandSteps
    <3>3. Alone' /\ Stages'
      BY <3>1, <3>2 DEF AInv, Alone, Stages, Staged, WindowOpen, NothingStaged, Applied, Remembered
    <3>4. Rest'
      BY <2>2, <3>1, <3>2 DEF AInv, Rest, Settled
    <3>5. PMThread' /\ PwmKnown'
      BY <3>1 DEF AInv, PMThread, PMRange, PwmKnown, Acting
    <3>6. DriverThread' /\ Stopped'
      BY <3>1, <3>2 DEF AInv, DriverThread, Stopped
    <3>. QED  BY <3>3, <3>4, <3>5, <3>6 DEF AInv
  <2>. QED  BY <2>1, <2>2
<1>5. CASE WakePoller
  <2>1. UNCHANGED Fields /\ UNCHANGED <<fan, overlap>>
        /\ pc[PM] = "wakePoller" /\ pc'[PM] = "idle" /\ power' = "on"
        /\ \A u \in Threads \ {PM} : pc'[u] = pc[u]
    BY <1>0, <1>5 DEF WakePoller, chip, history
  <2>2. /\ NoneActing' <=> NoneActing
        /\ \A u \in Threads : InCommand(u)' <=> InCommand(u)
    BY <2>1 DEF NoneActing, InCommand, Acting, CommandSteps
  <2>3. Alone' /\ Stages'
    BY <2>1, <2>2 DEF AInv, Alone, Stages, Staged, WindowOpen, NothingStaged, Applied, Remembered
  <2>4. Rest'
    BY <2>1, <2>2 DEF AInv, Rest, Settled, Restored
  <2>5. PMThread' /\ PwmKnown'
    BY <2>1 DEF AInv, PMThread, PMRange, PwmKnown, Acting
  <2>6. DriverThread' /\ Stopped'
    BY <2>1, <2>2 DEF AInv, DriverThread, Stopped
  <2>. QED  BY <2>3, <2>4, <2>5, <2>6 DEF AInv
<1>. QED  BY <1>1, <1>2, <1>3, <1>4, <1>5 DEF PowerSteps

LEMMA AInvKept ==
  ASSUME TypeOK, AInv, [Next]_vars
  PROVE  AInv'
<1>1. CASE UNCHANGED vars
  <2>1. UNCHANGED <<fan, manualMode, manualDuty, pwmAvailable, published, phase, power, pc, arg,
                    overlap>>
    BY <1>1 DEF vars, chip, driver, history
  <2>. QED
    BY <2>1 DEF AInv, Alone, Stages, Staged, WindowOpen, NothingStaged, Applied, Remembered, Rest,
                Settled, Restored, NoneActing, PMThread, PwmKnown, DriverThread, Stopped, InCommand
<1>2. ASSUME NEW t \in Threads, Body(t)
      PROVE  AInv'
  BY <1>2, CommandAgrees, BystandersAgree DEF Body
<1>3. CASE Lifecycle
  BY <1>3, BystandersAgree, StopAgrees DEF Lifecycle
<1>4. CASE Next
  BY <1>2, <1>3, <1>4, RequestsAgree, BystandersAgree, PowerAgrees DEF Next
<1>. QED  BY <1>1, <1>4

LEMMA AlwaysAgrees == Spec => []AInv
<1>1. TypeOK /\ AInv /\ [Next]_vars => AInv'
  BY AInvKept
<1>. QED  BY InitAgrees, <1>1, TypeCorrect, PTL DEF Spec

(* When things are quiet and the last command ran alone, manualMode,       *)
(* manualDuty and FanManualMode are what the controller does, for any      *)
(* number of clients and however many commands, sleeps and wakes came      *)
(* before (ThinkCentre.cpp:202-238, 441-466).                              *)
THEOREM DriverAgrees == Spec => []DriverAgreesWithChip
<1>1. TypeOK /\ AInv => DriverAgreesWithChip
  <2>. SUFFICES ASSUME TypeOK, AInv, Quiet
                PROVE  /\ fan.manual = manualMode
                       /\ published.manual = manualMode
                       /\ manualMode => fan.duty = manualDuty
    BY DEF DriverAgreesWithChip
  <2>1. NoneActing /\ ~overlap /\ Restored
    BY DEF Quiet, Awake, NoCommand, InCommand, CommandSteps, NoneActing, Acting, Restored
  <2>2. Settled
    BY <2>1 DEF AInv, Rest
  <2>3. fan.manual \in BOOLEAN /\ manualMode \in BOOLEAN
    BY DEF TypeOK, FanType
  <2>. QED  BY <2>1, <2>2, <2>3 DEF Settled
<1>. QED  BY <1>1, AlwaysAgrees, TypeCorrect, PTL

(* A stop that nothing overlaps leaves the controller running its own      *)
(* curve (ThinkCentre.cpp:399-400).                                        *)
THEOREM StopRestoresAuto == Spec => []StopHandsFanBack
<1>1. AInv => StopHandsFanBack
  <2>1. NoCommand => NoneActing
    BY DEF NoCommand, InCommand, CommandSteps, NoneActing, Acting
  <2>. QED  BY <2>1 DEF AInv, Rest, Settled, Stopped, StopHandsFanBack
<1>. QED  BY <1>1, AlwaysAgrees, PTL

-----------------------------------------------------------------------------
(* The level.  manualLevel fits the duty a command is setting, and between *)
(* commands the duty the driver remembers; while a command is under way it *)
(* may belong to a duty not remembered yet.                                *)

LevelFits(d) == d = 255 \/ manualLevel = DutyToLevel(d)

LevelInv ==
  ~overlap /\ ~levelStale =>
    /\ NoneActing /\ manualMode => LevelFits(manualDuty)
    /\ \A t \in Threads : pc[t] \in Acting /\ arg[t].manual => LevelFits(arg[t].duty)

(* The duty made of a level reads back as that level.                      *)
LEMMA LevelRoundTrip ==
  ASSUME NEW l \in 0..7
  PROVE  DutyToLevel((l * 255 + 3) \div 7) = l
<1>1. l \in {0, 1, 2, 3, 4, 5, 6, 7}
  OBVIOUS
<1>. QED  BY <1>1 DEF DutyToLevel

(* Steps that begin no command and end none.                               *)
LEMMA LevelFrame ==
  ASSUME LevelInv,
         UNCHANGED <<manualDuty, manualLevel, levelStale>>,
         ~overlap' => ~overlap,
         NoneActing' => NoneActing /\ manualMode' = manualMode,
         \A t \in Threads : pc'[t] \in Acting /\ arg'[t].manual =>
           pc[t] \in Acting /\ arg[t] = arg'[t]
  PROVE  LevelInv'
  BY DEF LevelInv, LevelFits, DutyToLevel

LEMMA LevelCommand ==
  ASSUME TypeOK, AInv, LevelInv, NEW t \in Threads, Command(t)
  PROVE  LevelInv'
<1>. USE DEF At, Goto
<1>0. pc \in [Threads -> Steps] /\ arg \in [Threads -> [manual : BOOLEAN, duty : Byte]]
  BY DEF TypeOK
<1>1. CASE WriteReq(t) \/ WriteTarget(t) \/ WriteDone(t) \/ LowerFlag(t)
  <2>1. /\ pc[t] \in Acting /\ pc'[t] \in Acting /\ \A u \in Threads \ {t} : pc'[u] = pc[u]
        /\ UNCHANGED <<arg, manualMode, manualDuty, manualLevel, overlap, levelStale>>
    BY <1>0, <1>1 DEF WriteReq, WriteTarget, WriteDone, LowerFlag, driver, history, Acting
  <2>. QED  BY <2>1, LevelFrame DEF NoneActing
<1>2. CASE Remember(t)
  <2>1. /\ pc[t] = "mode" /\ pc'[t] = "publish" /\ \A u \in Threads \ {t} : pc'[u] = pc[u]
        /\ manualDuty' = (IF arg[t].manual THEN arg[t].duty ELSE manualDuty)
        /\ UNCHANGED <<arg, manualLevel, overlap, levelStale>>
    BY <1>0, <1>2 DEF Remember, history
  <2>2. ~NoneActing'
    BY <2>1 DEF NoneActing, Acting
  <2>3. \A u \in Threads : pc'[u] \in Acting => pc[u] \in Acting
    BY <2>1 DEF Acting
  <2>. QED  BY <2>1, <2>2, <2>3 DEF LevelInv, LevelFits, DutyToLevel
<1>3. CASE Publish(t)
  <2>1. /\ pc[t] = "publish" /\ pc'[t] = AfterCommand(t)
        /\ \A u \in Threads \ {t} : pc'[u] = pc[u] /\ arg'[u] = arg[u]
        /\ UNCHANGED <<manualMode, manualDuty, manualLevel, overlap, levelStale>>
    BY <1>0, <1>3 DEF Publish, history
  <2>2. pc'[t] \notin Acting /\ pc[t] \in Acting
    BY <2>1 DEF AfterCommand, Acting
  <2>3. ~overlap => /\ manualMode = arg[t].manual
                    /\ arg[t].manual => manualDuty = arg[t].duty
    BY <2>1 DEF AInv, Stages, Remembered
  <2>4. \A u \in Threads : pc'[u] \in Acting => pc[u] \in Acting /\ arg'[u] = arg[u]
    BY <2>1, <2>2
  <2>5. LevelInv /\ ~overlap /\ ~levelStale /\ manualMode => LevelFits(manualDuty)
    BY <2>2, <2>3 DEF LevelInv
  <2>. QED  BY <2>1, <2>4, <2>5 DEF LevelInv, LevelFits, DutyToLevel
<1>. QED  BY <1>1, <1>2, <1>3 DEF Command

LEMMA LevelBegin ==
  ASSUME TypeOK, AInv, LevelInv, NEW t \in Threads, NEW a, NEW stale,
         t # Driver, pc[t] \notin Acting,
         t = PM => manualMode,
         Begin(t, a, stale),
         ~stale /\ ~overlap' /\ a.manual => LevelFits(a.duty)',
         UNCHANGED <<manualMode, manualDuty>>
  PROVE  LevelInv'
<1>. USE DEF Goto
<1>0. pc \in [Threads -> Steps] /\ arg \in [Threads -> [manual : BOOLEAN, duty : Byte]]
  BY DEF TypeOK
<1>1. CASE a.manual /\ ~pwmAvailable
  <2>1. /\ ~manualMode /\ \A u \in Threads : ~(pc[u] \in Acting /\ arg[u].manual)
    BY <1>1 DEF AInv, PwmKnown
  <2>2. pc'[t] \notin Acting /\ (\A u \in Threads \ {t} : pc'[u] = pc[u]) /\ arg' = arg
    BY <1>0, <1>1 DEF Begin, AfterCommand, Acting
  <2>. QED  BY <2>1, <2>2 DEF LevelInv
<1>2. CASE ~(a.manual /\ ~pwmAvailable)
  <2>1. /\ pc'[t] = "req" /\ \A u \in Threads \ {t} : pc'[u] = pc[u]
        /\ arg'[t] = a /\ \A u \in Threads \ {t} : arg'[u] = arg[u]
        /\ ~overlap' => \A u \in Threads \ {t} : ~InCommand(u)
        /\ levelStale' = stale
    BY <1>0, <1>2 DEF Begin
  <2>2. ~NoneActing'
    BY <2>1 DEF NoneActing, Acting
  <2>3. ~overlap' => \A u \in Threads : pc'[u] \in Acting => u = t
    BY <2>1 DEF InCommand, Acting, CommandSteps
  <2>. QED  BY <2>1, <2>2, <2>3 DEF LevelInv
<1>. QED  BY <1>1, <1>2

LEMMA LevelRequests ==
  ASSUME TypeOK, AInv, LevelInv, Requests
  PROVE  LevelInv'
<1>. USE DEF Goto
<1>0. pc \in [Threads -> Steps] /\ "idle" \notin Acting
  BY DEF TypeOK, Acting
<1>1. ASSUME NEW t \in Clients \cup {Gate}, NEW d \in Byte, pc[t] = "idle", WriteFanDuty(t, d),
             UNCHANGED <<manualMode, manualDuty>>
      PROVE  LevelInv'
  <2>1. Begin(t, ManualArg(d), FALSE) /\ LevelFits(ManualArg(d).duty)'
    BY <1>1 DEF WriteFanDuty, ManualArg, LevelFits, DutyToLevel
  <2>. QED  BY <1>0, <1>1, <2>1, ThreadNames, LevelBegin
<1>2. ASSUME NEW t \in Clients \cup {Gate}, NEW v \in Byte, pc[t] = "idle", WriteFanLevel(t, v),
             UNCHANGED <<manualMode, manualDuty>>
      PROVE  LevelInv'
  <2>. DEFINE a == IF HasBit(v, 128) THEN AutoArg ELSE ManualArg(LevelToDuty(v))
  <2>1. Begin(t, a, FALSE)
    BY <1>2 DEF WriteFanLevel
  <2>2. a.manual => LevelFits(a.duty)'
    <3>1. CASE HasBit(v, 128)
      BY <3>1 DEF AutoArg
    <3>2. CASE ~HasBit(v, 128) /\ HasBit(v, 64)
      BY <3>2 DEF ManualArg, LevelToDuty, LevelFits
    <3>3. CASE ~HasBit(v, 128) /\ ~HasBit(v, 64)
      <4>1. manualLevel' = v % 8
        BY <1>2, <3>3 DEF WriteFanLevel
      <4>2. a.duty = ((v % 8) * 255 + 3) \div 7
        BY <3>3 DEF ManualArg, LevelToDuty
      <4>3. DutyToLevel(a.duty) = v % 8
        BY <4>2, LevelIsLevel, LevelRoundTrip
      <4>. HIDE DEF a
      <4>. QED  BY <4>1, <4>3 DEF LevelFits, DutyToLevel
    <3>. QED  BY <3>1, <3>2, <3>3
  <2>. HIDE DEF a
  <2>. QED  BY <1>0, <1>2, <2>1, <2>2, ThreadNames, LevelBegin
<1>3. ASSUME NEW c \in Clients, WriteEC(c)
      PROVE  LevelInv'
  BY <1>1, <1>2, <1>3, Inputs DEF WriteEC
<1>4. CASE SetFanSpeed
  <2>1. \A v \in Speeds : FanSpeedLevel(v) \in Byte
    BY Inputs, FanSpeedLevelIsByte
  <2>. QED  BY <1>2, <1>4, <2>1 DEF SetFanSpeed
<1>5. CASE SetFanPWM
  <2>1. PICK d \in PwmDuties : Begin(Gate, ManualArg(d), TRUE)
    BY <1>5 DEF SetFanPWM
  <2>. QED  BY <1>0, <1>5, <2>1, ThreadNames, LevelBegin DEF SetFanPWM
<1>6. CASE SetFanAuto
  <2>1. ~AutoArg.manual
    BY DEF AutoArg
  <2>. QED  BY <1>0, <1>6, <2>1, ThreadNames, LevelBegin DEF SetFanAuto
<1>7. CASE SetUpdate
  <2>1. /\ UNCHANGED <<manualMode, manualDuty, manualLevel, arg, overlap, levelStale>>
        /\ pc[Gate] = "idle" /\ pc'[Gate] \in {"idle", "sense"}
        /\ \A u \in Threads \ {Gate} : pc'[u] = pc[u]
    BY <1>0, <1>7 DEF SetUpdate, PollBegin, AfterPoll, history
  <2>. QED  BY <2>1, LevelFrame DEF NoneActing, Acting
<1>. QED  BY <1>3, <1>4, <1>5, <1>6, <1>7 DEF Requests

LEMMA LevelKept ==
  ASSUME TypeOK, AInv, LevelInv, [Next]_vars
  PROVE  LevelInv'
<1>. USE DEF At, Goto
<1>0. pc \in [Threads -> Steps] /\ arg \in [Threads -> [manual : BOOLEAN, duty : Byte]]
  BY DEF TypeOK
<1>. DEFINE Fields == <<manualMode, manualDuty, manualLevel, arg, levelStale>>
<1>1. ASSUME UNCHANGED Fields, ~overlap' => ~overlap, NEW t \in Threads,
             pc[t] \notin Acting, pc'[t] \notin Acting,
             \A u \in Threads \ {t} : pc'[u] = pc[u]
      PROVE  LevelInv'
  BY <1>1, LevelFrame DEF NoneActing
<1>2. ASSUME NEW t \in Threads, Poll(t) \/ Monitor(t)
      PROVE  LevelInv'
  <2>1. UNCHANGED Fields /\ overlap' = overlap
    BY <1>2 DEF Poll, PollSense, PollDuty, PollPublish, Monitor, MonitorRead, MonitorWrite, driver,
                history
  <2>2. /\ pc[t] \in PollSteps \cup MonitorSteps
        /\ pc'[t] \in PollSteps \cup MonitorSteps \cup {"started", "idle", "wakeManual", "setup"}
        /\ \A u \in Threads \ {t} : pc'[u] = pc[u]
    BY <1>0, <1>2 DEF Poll, PollSense, PollDuty, PollPublish, Monitor, MonitorRead, MonitorWrite,
                      AfterPoll, AfterMonitor, PollSteps, MonitorSteps
  <2>. QED  BY <1>1, <2>1, <2>2 DEF Acting, PollSteps, MonitorSteps
<1>3. CASE TimerFires
  <2>1. UNCHANGED Fields /\ overlap' = overlap
        /\ pc[Gate] = "idle" /\ pc'[Gate] \in {"idle", "sense"}
        /\ \A u \in Threads \ {Gate} : pc'[u] = pc[u]
    BY <1>0, <1>3 DEF TimerFires, PollBegin, AfterPoll, history
  <2>. QED  BY <1>1, <2>1 DEF Acting
<1>4. CASE StartSetup \/ StartDone \/ StopPoller
  <2>1. UNCHANGED Fields /\ overlap' = overlap
    BY <1>4 DEF StartSetup, StartDone, StopPoller, history
  <2>2. /\ pc[Driver] \in {"setup", "started", "stopPoller"}
        /\ pc'[Driver] \in {"sense", "started", "idle"}
        /\ \A u \in Threads \ {Driver} : pc'[u] = pc[u]
    BY <1>0, <1>4 DEF StartSetup, StartDone, StopPoller, PollBegin, AfterPoll
  <2>. QED  BY <1>1, <2>1, <2>2 DEF Acting
<1>5. CASE StopBegin
  <2>1. UNCHANGED Fields /\ (overlap => overlap')
        /\ pc[Driver] = "idle" /\ pc'[Driver] = "stopCheck"
        /\ \A u \in Threads \ {Driver} : pc'[u] = pc[u]
    BY <1>0, <1>5 DEF StopBegin, driver
  <2>. QED  BY <1>1, <2>1 DEF Acting
<1>6. CASE StopCheck
  <2>1. /\ UNCHANGED <<manualMode, manualDuty, manualLevel, overlap, levelStale>>
        /\ pc[Driver] = "stopCheck"
        /\ \A u \in Threads \ {Driver} : pc'[u] = pc[u] /\ arg'[u] = arg[u]
        /\ \/ pc'[Driver] = "req" /\ arg'[Driver].manual = FALSE
           \/ pc'[Driver] = "stopPoller"
    BY <1>0, <1>6 DEF StopCheck, AutoArg, history
  <2>. QED  BY <2>1, LevelFrame DEF NoneActing, Acting
<1>7. CASE Sleep \/ MachineSleeps
  <2>1. UNCHANGED Fields /\ UNCHANGED pc
    BY <1>7 DEF Sleep, MachineSleeps, driver, history
  <2>2. Sleep => overlap' = overlap
    BY DEF Sleep, history
  <2>3. MachineSleeps => (overlap => overlap')
    BY DEF MachineSleeps
  <2>. QED  BY <1>7, <2>1, <2>2, <2>3, LevelFrame DEF NoneActing
<1>8. CASE WakeCfg \/ WakePoller
  <2>1. UNCHANGED Fields /\ overlap' = overlap
    BY <1>8 DEF WakeCfg, WakePoller, driver, history
  <2>2. /\ pc[PM] \in {"idle", "wakePoller"} /\ pc'[PM] \in {"monRead", "idle"}
        /\ \A u \in Threads \ {PM} : pc'[u] = pc[u]
    BY <1>0, <1>8 DEF WakeCfg, WakePoller
  <2>. QED  BY <1>1, <2>1, <2>2 DEF Acting
<1>9. CASE WakeManual
  <2>. UNCHANGED <<manualMode, manualDuty, manualLevel>> /\ pc[PM] = "wakeManual"
    BY <1>9 DEF WakeManual
  <2>1. CASE manualMode
    <3>1. Begin(PM, ManualArg(manualDuty), levelStale \/ overlap)
      BY <1>9, <2>1 DEF WakeManual
    <3>2. ~overlap' => (~pwmAvailable \/ \A u \in Threads \ {PM} : ~InCommand(u))
      BY <3>1 DEF Begin, ManualArg
    <3>3. ~overlap' => NoneActing
      BY <2>1, <3>2 DEF AInv, PwmKnown, NoneActing, InCommand, Acting, CommandSteps
    <3>4. ~(levelStale \/ overlap) /\ ~overlap' => LevelFits(ManualArg(manualDuty).duty)'
      BY <2>1, <3>3 DEF LevelInv, LevelFits, ManualArg, DutyToLevel
    <3>5. PM # Driver /\ pc[PM] \notin Acting
      BY DEF Acting
    <3>. QED  BY <2>1, <3>1, <3>4, <3>5, LevelBegin
  <2>2. CASE ~manualMode
    <3>1. UNCHANGED Fields /\ overlap' = overlap /\ pc'[PM] = "wakePoller"
          /\ \A u \in Threads \ {PM} : pc'[u] = pc[u]
      BY <1>0, <1>9, <2>2 DEF WakeManual, history
    <3>. QED  BY <1>1, <3>1 DEF Acting
  <2>. QED  BY <2>1, <2>2
<1>10. CASE UNCHANGED vars
  <2>1. UNCHANGED Fields /\ UNCHANGED <<pc, overlap>>
    BY <1>10 DEF vars, driver, history
  <2>. QED  BY <2>1, LevelFrame DEF NoneActing
<1>. QED  BY <1>2, <1>3, <1>4, <1>5, <1>6, <1>7, <1>8, <1>9, <1>10, LevelCommand, LevelRequests
            DEF Next, Body, Lifecycle, PowerSteps

(* A client that reads EmuFanLevel finds the level of the duty the fan     *)
(* runs at, for every duty and level a client may write and for any number *)
(* of clients, unless the duty came by FanPWM (ThinkCentre.cpp:475-480,    *)
(* 515-531, 571-575).                                                      *)
THEOREM LevelReadsBack == Spec => []LevelReadBack
<1>1. Init => LevelInv
  BY DEF Init, LevelInv, AutoArg, Acting
<1>2. TypeOK /\ AInv /\ LevelInv /\ [Next]_vars => LevelInv'
  BY LevelKept
<1>3. TypeOK /\ LevelInv /\ DriverAgreesWithChip => LevelReadBack
  <2>. SUFFICES ASSUME TypeOK, LevelInv, DriverAgreesWithChip, Quiet, ~levelStale
                PROVE  FanLevelStatus = IF ~fan.manual THEN 132
                                        ELSE IF fan.duty = 255 THEN 71 ELSE DutyToLevel(fan.duty)
    BY DEF LevelReadBack
  <2>1. fan.manual = manualMode /\ (manualMode => fan.duty = manualDuty)
    BY DEF DriverAgreesWithChip
  <2>2. manualMode => LevelFits(manualDuty)
    BY DEF LevelInv, Quiet, NoCommand, InCommand, NoneActing, Acting, CommandSteps
  <2>3. manualLevel % 8 = manualLevel
    BY DEF TypeOK
  <2>. QED  BY <2>1, <2>2, <2>3 DEF FanLevelStatus, LevelFits
<1>. QED  BY <1>1, <1>2, <1>3, AlwaysAgrees, DriverAgrees, TypeCorrect, PTL DEF Spec

-----------------------------------------------------------------------------
(* The poller.  Whether a wake is under way is told by power alone, since  *)
(* setPowerState runs exactly while the machine wakes.                     *)

PollerLives == poller = "on" /\ (armed \/ pc[Gate] \in PollSteps)

PollerInv ==
  /\ pc[Driver] \in PollSteps \cup {"started"} => poller = "on"
  /\ phase = "running" => poller # "none"
  /\ phase = "running" /\ Awake => PollerLives

(* Steps that leave the poller and its timeout alone and end no poll of    *)
(* the work loop.                                                          *)
LEMMA PollerFrame ==
  ASSUME PollerInv,
         UNCHANGED poller, armed => armed',
         phase' = phase \/ phase' # "running",
         Awake' => Awake,
         pc[Gate] \in PollSteps /\ ~armed' => pc'[Gate] \in PollSteps,
         pc'[Driver] \in PollSteps \cup {"started"} => pc[Driver] \in PollSteps \cup {"started"}
  PROVE  PollerInv'
  BY DEF PollerInv, PollerLives

LEMMA PollerKept ==
  ASSUME TypeOK, AInv, PollerInv, [Next]_vars
  PROVE  PollerInv'
<1>. USE DEF At, Goto
<1>0. pc \in [Threads -> Steps] /\ Gate # Driver /\ Gate # PM /\ PM # Driver
  BY DEF TypeOK
<1>. DEFINE Fields == <<poller, armed, phase, power>>
<1>1. ASSUME UNCHANGED Fields, NEW t \in Threads, pc[t] \notin PollSteps,
             pc'[t] \notin PollSteps \cup {"started"},
             \A u \in Threads \ {t} : pc'[u] = pc[u]
      PROVE  PollerInv'
  BY <1>1, PollerFrame DEF Awake
<1>2. ASSUME NEW t \in Threads, Command(t)
      PROVE  PollerInv'
  <2>1. UNCHANGED Fields
    BY <1>2 DEF Command, WriteReq, WriteTarget, WriteDone, LowerFlag, Remember, Publish, driver
  <2>2. /\ pc[t] \in CommandSteps /\ pc'[t] \in CommandSteps \cup {"idle", "wakePoller"}
        /\ \A u \in Threads \ {t} : pc'[u] = pc[u]
    BY <1>0, <1>2 DEF Command, WriteReq, WriteTarget, WriteDone, LowerFlag, Remember, Publish,
                      AfterCommand, CommandSteps
  <2>. QED  BY <1>1, <2>1, <2>2 DEF CommandSteps, PollSteps
<1>3. ASSUME NEW t \in Threads, Monitor(t)
      PROVE  PollerInv'
  <2>1. UNCHANGED Fields
    BY <1>3 DEF Monitor, MonitorRead, MonitorWrite, driver
  <2>2. /\ pc[t] \in MonitorSteps /\ pc'[t] \in {"monWrite", "wakeManual", "setup"}
        /\ \A u \in Threads \ {t} : pc'[u] = pc[u]
    BY <1>0, <1>3 DEF Monitor, MonitorRead, MonitorWrite, AfterMonitor, MonitorSteps
  <2>. QED  BY <1>1, <2>1, <2>2 DEF MonitorSteps, PollSteps
<1>4. ASSUME NEW t \in Threads, Poll(t)
      PROVE  PollerInv'
  <2>1. UNCHANGED <<poller, phase, power>>
    BY <1>4 DEF Poll, PollSense, PollDuty, PollPublish, driver
  <2>2. /\ pc[t] \in PollSteps /\ \A u \in Threads \ {t} : pc'[u] = pc[u]
        /\ \/ pc'[t] \in PollSteps /\ armed' = armed
           \/ pc'[t] = AfterPoll(t) /\ armed' = (armed \/ poller # "none")
    BY <1>0, <1>4 DEF Poll, PollSense, PollDuty, PollPublish, Rearm, PollSteps, driver
  <2>3. armed => armed'
    BY <2>2
  <2>4. pc[Gate] \in PollSteps /\ ~armed' => pc'[Gate] \in PollSteps \/ poller = "none"
    BY <2>2
  <2>5. pc'[Driver] \in PollSteps \cup {"started"} => pc[Driver] \in PollSteps \cup {"started"}
    BY <2>2
  <2>. QED  BY <2>1, <2>3, <2>4, <2>5 DEF PollerInv, PollerLives, Awake
<1>5. CASE TimerFires
  <2>1. /\ UNCHANGED <<poller, phase, power>> /\ armed' = handshakeActive
        /\ pc'[Gate] = IF handshakeActive THEN "idle" ELSE "sense"
        /\ \A u \in Threads \ {Gate} : pc'[u] = pc[u]
    BY <1>0, <1>5 DEF TimerFires, PollBegin, AfterPoll
  <2>2. armed' \/ pc'[Gate] \in PollSteps
    BY <2>1 DEF PollSteps
  <2>. QED  BY <1>0, <2>1, <2>2 DEF PollerInv, PollerLives, Awake
<1>6. CASE SetUpdate
  <2>1. /\ UNCHANGED <<poller, phase, power>> /\ pc[Gate] = "idle"
        /\ armed' = armed \/ armed' = (armed \/ poller # "none")
        /\ \A u \in Threads \ {Gate} : pc'[u] = pc[u]
    BY <1>0, <1>6 DEF SetUpdate, PollBegin, Rearm
  <2>2. pc[Gate] \notin PollSteps
    BY <2>1 DEF PollSteps
  <2>3. armed => armed'
    BY <2>1
  <2>. QED  BY <1>0, <2>1, <2>2, <2>3, PollerFrame DEF Awake
<1>7. ASSUME Requests, ~SetUpdate
      PROVE  PollerInv'
  <2>1. UNCHANGED Fields
    BY <1>7 DEF Requests, WriteEC, SetFanSpeed, SetFanPWM, SetFanAuto
  <2>2. \E t \in Clients \cup {Gate} : \E a, stale : pc[t] = "idle" /\ Begin(t, a, stale)
    BY <1>7 DEF Requests, WriteEC, WriteFanDuty, WriteFanLevel, SetFanSpeed, SetFanPWM, SetFanAuto
  <2>3. \E t \in Threads : /\ pc[t] = "idle" /\ pc'[t] \in {"idle", "req"}
                           /\ \A u \in Threads \ {t} : pc'[u] = pc[u]
    BY <1>0, <2>2, ThreadNames DEF Begin, AfterCommand
  <2>. QED  BY <1>1, <2>1, <2>3 DEF PollSteps
<1>8. CASE StartSetup
  <2>1. poller' = "on" /\ UNCHANGED <<armed, phase, power>> /\ pc[Driver] = "setup"
    BY <1>8 DEF StartSetup
  <2>2. phase = "starting"
    BY <2>1 DEF AInv, DriverThread, StartRange
  <2>. QED  BY <2>1, <2>2 DEF PollerInv
<1>9. CASE StartDone
  <2>1. /\ UNCHANGED poller /\ armed' = TRUE /\ pc[Driver] = "started" /\ pc'[Driver] = "idle"
    BY <1>0, <1>9 DEF StartDone
  <2>. QED  BY <2>1 DEF PollerInv, PollerLives, PollSteps
<1>10. CASE StopBegin \/ StopCheck
  <2>1. UNCHANGED <<poller, armed, power>> /\ (phase' = phase \/ phase' # "running")
    BY <1>10 DEF StopBegin, StopCheck, driver
  <2>2. /\ pc'[Driver] \in {"stopCheck", "req", "stopPoller"}
        /\ \A u \in Threads \ {Driver} : pc'[u] = pc[u]
    BY <1>0, <1>10 DEF StopBegin, StopCheck
  <2>. QED  BY <1>0, <2>1, <2>2, PollerFrame DEF Awake, PollSteps
<1>11. CASE StopPoller
  <2>1. phase' = "stopped" /\ pc'[Driver] = "idle"
    BY <1>0, <1>11 DEF StopPoller
  <2>. QED  BY <2>1 DEF PollerInv, PollSteps
<1>12. CASE Sleep
  <2>1. phase # "starting" /\ ~Awake' /\ poller' = "off" /\ UNCHANGED <<phase, pc>>
    BY <1>12 DEF Sleep, Awake
  <2>. QED  BY <2>1 DEF PollerInv, AInv, DriverThread, StartRange, PollSteps
<1>13. CASE MachineSleeps
  <2>1. ~Awake' /\ UNCHANGED <<poller, armed, phase, pc>>
    BY <1>13 DEF MachineSleeps, Awake, driver
  <2>. QED  BY <2>1 DEF PollerInv
<1>14. CASE WakeCfg
  <2>1. /\ ~Awake' /\ UNCHANGED <<poller, armed, phase>>
        /\ \A u \in Threads \ {PM} : pc'[u] = pc[u]
    BY <1>0, <1>14 DEF WakeCfg, Awake, driver
  <2>. QED  BY <1>0, <2>1 DEF PollerInv
<1>15. CASE WakeManual
  <2>1. UNCHANGED Fields
    BY <1>15 DEF WakeManual
  <2>2. /\ pc[PM] = "wakeManual" /\ pc'[PM] \in {"wakePoller", "req"}
        /\ \A u \in Threads \ {PM} : pc'[u] = pc[u]
    BY <1>0, <1>15 DEF WakeManual, Begin, AfterCommand
  <2>. QED  BY <1>1, <2>1, <2>2 DEF PollSteps
<1>16. CASE WakePoller
  <2>1. /\ \/ poller = "none" /\ UNCHANGED <<poller, armed>>
           \/ poller' = "on" /\ armed' = TRUE
        /\ UNCHANGED phase
        /\ \A u \in Threads \ {PM} : pc'[u] = pc[u]
    BY <1>0, <1>16 DEF WakePoller
  <2>. QED  BY <1>0, <2>1 DEF PollerInv, PollerLives
<1>17. CASE UNCHANGED vars
  BY <1>17 DEF vars, driver, PollerInv, PollerLives, Awake
<1>. QED  BY <1>2, <1>3, <1>4, <1>5, <1>6, <1>7, <1>8, <1>9, <1>10, <1>11, <1>12, <1>13, <1>14,
             <1>15, <1>16, <1>17 DEF Next, Body, Lifecycle, PowerSteps

(* While the machine is awake the service never loses its poller, however  *)
(* its timer, the Update property, sleeps and handshakes interleave        *)
(* (ThinkCentre.cpp:241-245, 264-265, 389-391, 445-462).                   *)
THEOREM PollerStaysAlive == Spec => []PollerAlive
<1>1. Init => PollerInv
  BY DEF Init, PollerInv, PollSteps
<1>2. TypeOK /\ AInv /\ PollerInv /\ [Next]_vars => PollerInv'
  BY PollerKept
<1>3. PollerInv => PollerAlive
  BY DEF PollerInv, PollerLives, PollerAlive
<1>. QED  BY <1>1, <1>2, <1>3, AlwaysAgrees, TypeCorrect, PTL DEF Spec

-----------------------------------------------------------------------------
(* The monitoring configuration.  The one a sleep saves is the one a wake  *)
(* writes back, and a saved one that monitors needs no further write.      *)

MonitorInv ==
  /\ \A t \in Threads : pc[t] \in MonitorSteps => t \in {PM, Driver}
  /\ power = "boot" /\ pc[Driver] \notin MonitorSteps => hwmCfg.mon
  /\ power \in {"waking", "on"} /\ pc[PM] \notin MonitorSteps => hwmCfg.mon
  /\ savedHwmCfg.mon => phase # "starting" /\ power # "boot" /\ pc[PM] # "monWrite"
  /\ savedHwmCfg.mon /\ power \in {"waking", "on"} => hwmCfg = savedHwmCfg

(* Steps that leave the configuration alone.                               *)
LEMMA MonitorFrame ==
  ASSUME MonitorInv, NEW t \in Threads,
         UNCHANGED <<hwmCfg, savedHwmCfg, power>>,
         phase' = "starting" => phase = "starting",
         pc[t] \notin MonitorSteps, pc'[t] \notin MonitorSteps,
         \A u \in Threads \ {t} : pc'[u] = pc[u]
  PROVE  MonitorInv'
<1>1. "monWrite" \in MonitorSteps
  BY DEF MonitorSteps
<1>2. \A u \in Threads : /\ pc'[u] \in MonitorSteps <=> pc[u] \in MonitorSteps
                         /\ pc'[u] = "monWrite" => pc[u] = "monWrite"
  BY <1>1
<1>. QED  BY <1>2 DEF MonitorInv

LEMMA MonitorKept ==
  ASSUME TypeOK, AInv, MonitorInv, [Next]_vars
  PROVE  MonitorInv'
<1>. USE DEF At, Goto, MonitorSteps
<1>0. pc \in [Threads -> Steps] /\ Gate # Driver /\ Gate # PM /\ PM # Driver
  BY DEF TypeOK
<1>. DEFINE Fields == <<hwmCfg, savedHwmCfg, power>>
<1>1. ASSUME NEW t \in Threads, Command(t)
      PROVE  MonitorInv'
  <2>1. UNCHANGED Fields /\ phase' = phase
    BY <1>1 DEF Command, WriteReq, WriteTarget, WriteDone, LowerFlag, Remember, Publish, driver, chip
  <2>2. /\ pc[t] \in CommandSteps /\ pc'[t] \in CommandSteps \cup {"idle", "wakePoller"}
        /\ \A u \in Threads \ {t} : pc'[u] = pc[u]
    BY <1>0, <1>1 DEF Command, WriteReq, WriteTarget, WriteDone, LowerFlag, Remember, Publish,
                      AfterCommand, CommandSteps
  <2>. QED  BY <2>1, <2>2, MonitorFrame DEF CommandSteps
<1>2. ASSUME NEW t \in Threads, Poll(t)
      PROVE  MonitorInv'
  <2>1. UNCHANGED Fields /\ phase' = phase
    BY <1>2 DEF Poll, PollSense, PollDuty, PollPublish, driver, chip
  <2>2. /\ pc[t] \in PollSteps /\ pc'[t] \in PollSteps \cup {"idle", "started"}
        /\ \A u \in Threads \ {t} : pc'[u] = pc[u]
    BY <1>0, <1>2 DEF Poll, PollSense, PollDuty, PollPublish, AfterPoll, PollSteps
  <2>. QED  BY <2>1, <2>2, MonitorFrame DEF PollSteps
<1>3. ASSUME NEW t \in Threads, MonitorRead(t)
      PROVE  MonitorInv'
  <2>1. /\ UNCHANGED Fields /\ phase' = phase /\ pc[t] = "monRead"
        /\ pc'[t] = (IF hwmCfg.mon THEN AfterMonitor(t) ELSE "monWrite")
        /\ \A u \in Threads \ {t} : pc'[u] = pc[u]
    BY <1>0, <1>3 DEF MonitorRead, driver, chip
  <2>2. t \in {PM, Driver}
    BY <2>1 DEF MonitorInv
  <2>3. t = PM => power = "waking"
    BY <2>1 DEF AInv, PMThread
  <2>4. t = Driver => phase = "starting"
    BY <2>1 DEF AInv, DriverThread, StartRange
  <2>. QED  BY <2>1, <2>2, <2>3, <2>4 DEF MonitorInv, AfterMonitor
<1>4. ASSUME NEW t \in Threads, MonitorWrite(t)
      PROVE  MonitorInv'
  <2>1. /\ UNCHANGED <<savedHwmCfg, power, phase>> /\ pc[t] = "monWrite" /\ pc'[t] = AfterMonitor(t)
        /\ hwmCfg'.mon = TRUE
        /\ \A u \in Threads \ {t} : pc'[u] = pc[u]
    BY <1>0, <1>4 DEF MonitorWrite, driver
  <2>2. t \in {PM, Driver}
    BY <2>1 DEF MonitorInv
  <2>3. ~savedHwmCfg.mon
    BY <2>1, <2>2 DEF MonitorInv, AInv, DriverThread, StartRange
  <2>. QED  BY <2>1, <2>2, <2>3 DEF MonitorInv, AfterMonitor
<1>5. ASSUME TimerFires \/ SetUpdate
      PROVE  MonitorInv'
  <2>1. UNCHANGED Fields /\ phase' = phase
    BY <1>5 DEF TimerFires, SetUpdate, chip
  <2>2. /\ pc[Gate] = "idle" /\ pc'[Gate] \in {"idle", "sense"}
        /\ \A u \in Threads \ {Gate} : pc'[u] = pc[u]
    BY <1>0, <1>5 DEF TimerFires, SetUpdate, PollBegin, AfterPoll
  <2>. QED  BY <2>1, <2>2, MonitorFrame
<1>6. ASSUME Requests, ~SetUpdate
      PROVE  MonitorInv'
  <2>1. UNCHANGED Fields /\ phase' = phase
    BY <1>6 DEF Requests, WriteEC, SetFanSpeed, SetFanPWM, SetFanAuto, chip
  <2>2. \E t \in Clients \cup {Gate} : \E a, stale : pc[t] = "idle" /\ Begin(t, a, stale)
    BY <1>6 DEF Requests, WriteEC, WriteFanDuty, WriteFanLevel, SetFanSpeed, SetFanPWM, SetFanAuto
  <2>3. PICK t \in Threads : /\ pc[t] = "idle" /\ pc'[t] \in {"idle", "req"}
                             /\ \A u \in Threads \ {t} : pc'[u] = pc[u]
    BY <1>0, <2>2, ThreadNames DEF Begin, AfterCommand
  <2>. QED  BY <2>1, <2>3, MonitorFrame
<1>7. CASE Lifecycle
  <2>1. UNCHANGED Fields /\ (phase' = "starting" => phase = "starting")
    BY <1>7 DEF Lifecycle, StartSetup, StartDone, StopBegin, StopCheck, StopPoller, driver, chip
  <2>2. /\ pc[Driver] \in {"setup", "started", "idle", "stopCheck", "stopPoller"}
        /\ pc'[Driver] \in {"sense", "started", "idle", "stopCheck", "req", "stopPoller"}
        /\ \A u \in Threads \ {Driver} : pc'[u] = pc[u]
    BY <1>0, <1>7 DEF Lifecycle, StartSetup, StartDone, StopBegin, StopCheck, StopPoller, PollBegin,
                      AfterPoll
  <2>. QED  BY <2>1, <2>2, MonitorFrame
<1>8. CASE Sleep
  <2>1. /\ savedHwmCfg' = hwmCfg /\ hwmCfg' = hwmCfg /\ power' = "slept" /\ pc[PM] = "idle"
        /\ phase # "starting" /\ UNCHANGED <<phase, pc>>
    BY <1>8 DEF Sleep, chip
  <2>. QED  BY <2>1 DEF MonitorInv
<1>9. CASE MachineSleeps
  <2>1. power = "slept" /\ power' = "off" /\ UNCHANGED <<savedHwmCfg, phase, pc>>
    BY <1>9 DEF MachineSleeps, driver
  <2>. QED  BY <2>1 DEF MonitorInv
<1>10. CASE WakeCfg
  <2>1. /\ power' = "waking" /\ hwmCfg' = savedHwmCfg /\ UNCHANGED <<savedHwmCfg, phase>>
        /\ pc'[PM] = "monRead" /\ \A u \in Threads \ {PM} : pc'[u] = pc[u]
    BY <1>0, <1>10 DEF WakeCfg, driver
  <2>. QED  BY <1>0, <2>1 DEF MonitorInv
<1>11. CASE WakeManual
  <2>1. UNCHANGED Fields /\ phase' = phase
    BY <1>11 DEF WakeManual, chip
  <2>2. /\ pc[PM] = "wakeManual" /\ pc'[PM] \in {"wakePoller", "req"}
        /\ \A u \in Threads \ {PM} : pc'[u] = pc[u]
    BY <1>0, <1>11 DEF WakeManual, Begin, AfterCommand
  <2>. QED  BY <2>1, <2>2, MonitorFrame
<1>12. CASE WakePoller
  <2>1. /\ power' = "on" /\ UNCHANGED <<hwmCfg, savedHwmCfg, phase>>
        /\ pc[PM] = "wakePoller" /\ pc'[PM] = "idle" /\ \A u \in Threads \ {PM} : pc'[u] = pc[u]
    BY <1>0, <1>12 DEF WakePoller, chip
  <2>2. power = "waking"
    BY <2>1 DEF AInv, PMThread
  <2>. QED  BY <1>0, <2>1, <2>2 DEF MonitorInv
<1>13. CASE UNCHANGED vars
  BY <1>13 DEF vars, driver, chip, MonitorInv
<1>. QED  BY <1>1, <1>2, <1>3, <1>4, <1>5, <1>6, <1>7, <1>8, <1>9, <1>10, <1>11, <1>12, <1>13
            DEF Next, Body, Monitor, PowerSteps

(* Awake and started, the controller monitors, and the bits a sleep saved  *)
(* from a monitoring controller are back (ThinkCentre.cpp:196-200,         *)
(* 451-455).                                                               *)
THEOREM MonitoringComesBack == Spec => []MonitoringRestored
<1>1. Init => MonitorInv
  <2>. SUFFICES ASSUME Init
                PROVE  MonitorInv
    OBVIOUS
  <2>1. ~savedHwmCfg.mon /\ power = "boot" /\ pc[Driver] = "monRead" /\ pc[PM] = "idle"
        /\ \A t \in Threads : pc[t] = "monRead" => t = Driver
    BY DEF Init
  <2>2. \A t \in Threads : pc[t] # "monWrite"
    BY DEF Init
  <2>. QED  BY <2>1, <2>2 DEF MonitorInv, MonitorSteps
<1>2. TypeOK /\ AInv /\ MonitorInv /\ [Next]_vars => MonitorInv'
  BY MonitorKept
<1>3. AInv /\ MonitorInv => MonitoringRestored
  <2>. SUFFICES ASSUME AInv, MonitorInv, phase \in {"running", "stopping"}, Awake, pc[PM] = "idle"
                PROVE  hwmCfg.mon /\ (savedHwmCfg.mon => hwmCfg.cfg = savedHwmCfg.cfg)
    BY DEF MonitoringRestored
  <2>1. pc[Driver] \notin MonitorSteps
    BY DEF AInv, DriverThread, StartRange, MonitorSteps
  <2>. QED  BY <2>1 DEF MonitorInv, Awake, MonitorSteps
<1>. QED  BY <1>1, <1>2, <1>3, AlwaysAgrees, TypeCorrect, PTL DEF Spec

=============================================================================
