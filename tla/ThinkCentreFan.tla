--------------------------- MODULE ThinkCentreFan ---------------------------
(***************************************************************************)
(* The ThinkCentre service (YogaSMC/YogaVPC/ThinkCentre.cpp): fan control  *)
(* of a Nuvoton embedded controller by several kernel threads at once.     *)
(*                                                                         *)
(*   Clients   threads inside YogaSMCUserClient::writeEC, called ungated   *)
(*   Gate      the work loop: the poller's timer and setPropertiesGated,   *)
(*             which the command gate runs one at a time                   *)
(*   PM        the power-management thread inside setPowerState            *)
(*   Driver    the matching/termination thread inside start and stop       *)
(*                                                                         *)
(* One step of a thread is one access to an EC register (ecRead8 and       *)
(* ecWrite8 are atomic: module EcPorts) or to a field that another thread  *)
(* reads.  pc[t] names the step thread t takes next.                       *)
(***************************************************************************)
EXTENDS Integers

CONSTANTS
  Clients,      \* the client threads that may be inside writeEC
  EcDuties,     \* duties a client writes to EmuFanDuty
  EcLevels,     \* bytes a client writes to EmuFanLevel
  Speeds,       \* values of the FanSpeed property
  PwmDuties,    \* values of the FanPWM property
  AutoDuties,   \* duties the EC's own curve may run the fan at
  FactoryCfg    \* bits 0..6 of HWM_CFG as the firmware left them

Byte == 0..255

ASSUME ThreadNames == Clients \cap {"gate", "pm", "driver"} = {}
ASSUME Inputs == /\ EcDuties \cup EcLevels \cup Speeds \cup PwmDuties \subseteq Byte
                 /\ AutoDuties \subseteq Byte /\ AutoDuties # {}
                 /\ FactoryCfg \in 0..127

VARIABLES
  fan,              \* the controller's fan configuration
  hwmCfg,           \* the controller's HWM_CFG
  handshakeActive,  \* the atomic flag readers test
  manualMode, manualDuty, manualLevel, pwmAvailable, savedHwmCfg,
  published,        \* FanManualMode and FanDuty in the registry
  poller,           \* "none" | "on" | "off"
  armed,            \* the poller's timeout is set
  phase,            \* of the service: "starting" | "running" | "stopping" | "stopped"
  power,            \* of the machine, as setPowerState has been told
  pc, arg, got,     \* each thread's next step, command argument and last read
  overlap, levelStale  \* history variables: see Begin

chip == <<fan, hwmCfg>>
history == <<overlap, levelStale>>
driver == <<handshakeActive, manualMode, manualDuty, manualLevel,
            pwmAvailable, savedHwmCfg, published, poller, armed>>
vars == <<chip, driver, phase, power, pc, arg, got, history>>

Gate == "gate"
PM == "pm"
Driver == "driver"
Threads == Clients \cup {Gate, PM, Driver}

NoDuty == -1

(***************************************************************************)
(* The controller.  REQ opens a configuration window, a duty written       *)
(* inside it is staged, DONE applies it; DONE with nothing staged returns  *)
(* the fan to the EC's own curve.  HWM_CFG is bit 7 (mon) and the rest.    *)
(***************************************************************************)
ChipReq == [fan EXCEPT !.ctrl = "REQ", !.staged = NoDuty]

ChipDuty(d) == IF fan.ctrl = "REQ" THEN [fan EXCEPT !.staged = d] ELSE fan

ChipDone ==
  IF fan.ctrl # "REQ" THEN fan
  ELSE [ctrl |-> "DONE", staged |-> NoDuty, manual |-> fan.staged # NoDuty,
        duty |-> IF fan.staged # NoDuty THEN fan.staged ELSE 0]

(* What a controller that has lost its power does with the fan.            *)
AutoFan == [ctrl |-> "DONE", staged |-> NoDuty, manual |-> FALSE, duty |-> 0]

PwmReading == IF fan.manual THEN {fan.duty} ELSE AutoDuties

-----------------------------------------------------------------------------
(* Bytes to duties and back. *)

HasBit(v, bit) == (v \div bit) % 2 = 1

LevelToDuty(level) ==
  IF HasBit(level, 128) THEN 0
  ELSE IF HasBit(level, 64) THEN 255
  ELSE ((level % 8) * 255 + 3) \div 7

DutyToLevel(duty) == (duty * 7 + 127) \div 255

(* What a client reads at EmuFanLevel: full speed, a level, or auto.       *)
FanLevelStatus ==
  IF ~manualMode THEN 132 ELSE IF manualDuty = 255 THEN 71 ELSE manualLevel % 8

-----------------------------------------------------------------------------
(* Threads. *)

CommandSteps == {"req", "duty", "done", "flagOff", "mode", "publish",
                 "stopCheck", "stopPoller"}
PollSteps == {"sense", "pollDuty", "pollPub"}
MonitorSteps == {"monRead", "monWrite"}
PMSteps == {"wakeManual", "wakePoller"}
StartSteps == {"setup", "started"}
Steps == {"idle"} \cup CommandSteps \cup PollSteps \cup MonitorSteps
           \cup PMSteps \cup StartSteps

InCommand(t) == pc[t] \in CommandSteps
NoCommand == \A t \in Threads : ~InCommand(t)

Goto(t, step) == pc' = [pc EXCEPT ![t] = step]
At(t, step, next) == pc[t] = step /\ Goto(t, next)

AfterCommand(t) == CASE t = PM -> "wakePoller" [] t = Driver -> "stopPoller"
                     [] OTHER -> "idle"
AfterMonitor(t) == IF t = PM THEN "wakeManual" ELSE "setup"
AfterPoll(t) == IF t = Driver THEN "started" ELSE "idle"

ManualArg(d) == [manual |-> TRUE, duty |-> d]
AutoArg == [manual |-> FALSE, duty |-> 0]

(***************************************************************************)
(* Entering setFanDuty or restoreAutoMode; setFanDuty fails without a PWM  *)
(* output.  overlap: another command or stop was under way, or     *)
(* stop is over; the next command that starts alone clears it.             *)
(* levelStale: manualLevel need not be the level of the last duty  *)
(* (FanPWM sets none, a wake repeats whatever overlapping commands left).  *)
(***************************************************************************)
Begin(t, a, stale) ==
  IF a.manual /\ ~pwmAvailable
  THEN Goto(t, AfterCommand(t)) /\ UNCHANGED <<handshakeActive, arg, history>>
  ELSE /\ Goto(t, "req")
       /\ handshakeActive' = TRUE
       /\ arg' = [arg EXCEPT ![t] = a]
       /\ overlap' = (phase = "stopped" \/ \E u \in Threads \ {t} : InCommand(u))
       /\ levelStale' = stale

-----------------------------------------------------------------------------
(* The body of setFanDuty and restoreAutoMode, one visible access a step. *)

WriteReqAutoLeavesWindow(t) ==  \* mutant: restoreAutoMode returns before DONE
  /\ At(t, "req", IF arg[t].manual THEN "duty" ELSE "flagOff")
  /\ fan' = ChipReq
  /\ UNCHANGED <<hwmCfg, driver, phase, power, arg, got, history>>

WriteReq(t) ==
  /\ At(t, "req", IF arg[t].manual THEN "duty" ELSE "done")
  /\ fan' = ChipReq
  /\ UNCHANGED <<hwmCfg, driver, phase, power, arg, got, history>>

WriteTarget(t) ==
  /\ At(t, "duty", "done")
  /\ fan' = ChipDuty(arg[t].duty)
  /\ UNCHANGED <<hwmCfg, driver, phase, power, arg, got, history>>

WriteDone(t) ==
  /\ At(t, "done", "flagOff")
  /\ fan' = ChipDone
  /\ UNCHANGED <<hwmCfg, driver, phase, power, arg, got, history>>

LowerFlag(t) ==
  /\ At(t, "flagOff", "mode")
  /\ handshakeActive' = FALSE
  /\ UNCHANGED <<chip, manualMode, manualDuty, manualLevel, pwmAvailable, savedHwmCfg,
                 published, poller, armed, phase, power, arg, got, history>>

Remember(t) ==
  /\ At(t, "mode", "publish")
  /\ manualMode' = arg[t].manual
  /\ manualDuty' = IF arg[t].manual THEN arg[t].duty ELSE manualDuty
  /\ UNCHANGED <<chip, handshakeActive, manualLevel, pwmAvailable, savedHwmCfg,
                 published, poller, armed, phase, power, arg, got, history>>

Publish(t) ==
  /\ At(t, "publish", AfterCommand(t))
  /\ published' = [manual |-> arg[t].manual,
                   duty |-> IF arg[t].manual THEN arg[t].duty ELSE published.duty]
  /\ arg' = [arg EXCEPT ![t] = AutoArg]
  /\ UNCHANGED <<chip, handshakeActive, manualMode, manualDuty, manualLevel, pwmAvailable,
                 savedHwmCfg, poller, armed, phase, power, got, history>>

Command(t) ==
  \/ WriteReq(t) \/ WriteTarget(t) \/ WriteDone(t) \/ LowerFlag(t)
  \/ Remember(t) \/ Publish(t)

-----------------------------------------------------------------------------
(* updateSensors: from the timer, the Update property, or start. *)

PollBegin(t) == Goto(t, IF handshakeActive THEN AfterPoll(t) ELSE "sense")

Rearm == armed' = (armed \/ poller # "none")

(* The tachometer and temperature registers, whose values nothing here     *)
(* depends on, and then the test of manualMode.                            *)
PollSense(t) ==
  /\ At(t, "sense", IF manualMode THEN AfterPoll(t) ELSE "pollDuty")
  /\ IF manualMode THEN Rearm ELSE UNCHANGED armed
  /\ UNCHANGED <<chip, handshakeActive, manualMode, manualDuty, manualLevel, pwmAvailable,
                 savedHwmCfg, published, poller, phase, power, arg, got, history>>

PollDuty(t) ==
  /\ At(t, "pollDuty", "pollPub")
  /\ \E d \in PwmReading : got' = [got EXCEPT ![t] = d]
  /\ UNCHANGED <<chip, driver, phase, power, arg, history>>

PollPublish(t) ==
  /\ At(t, "pollPub", AfterPoll(t))
  /\ published' = [published EXCEPT !.duty = got[t]]
  /\ got' = [got EXCEPT ![t] = 0]
  /\ Rearm
  /\ UNCHANGED <<chip, handshakeActive, manualMode, manualDuty, manualLevel, pwmAvailable,
                 savedHwmCfg, poller, phase, power, arg, history>>

Poll(t) == PollSense(t) \/ PollDuty(t) \/ PollPublish(t)

TimerFiresOnce ==  \* mutant: a skipped poll does not set the timeout again
  /\ poller = "on" /\ armed /\ pc[Gate] = "idle"
  /\ PollBegin(Gate)
  /\ armed' = FALSE
  /\ UNCHANGED <<chip, handshakeActive, manualMode, manualDuty, manualLevel, pwmAvailable,
                 savedHwmCfg, published, poller, phase, power, arg, got, history>>

(* The timer fires on the work loop, which holds the gate meanwhile.       *)
TimerFires ==
  /\ poller = "on" /\ armed /\ pc[Gate] = "idle"
  /\ PollBegin(Gate)
  /\ armed' = handshakeActive
  /\ UNCHANGED <<chip, handshakeActive, manualMode, manualDuty, manualLevel, pwmAvailable,
                 savedHwmCfg, published, poller, phase, power, arg, got, history>>

-----------------------------------------------------------------------------
(* Requests: method_we1b and setPropertiesGated.  None finds the service   *)
(* before registerService, the last call of start.                         *)

WriteFanDutyKeepsLevel(t, duty) ==  \* mutant: manualLevel not updated
  /\ UNCHANGED manualLevel
  /\ Begin(t, ManualArg(duty), FALSE)

WriteFanDuty(t, duty) ==
  /\ manualLevel' = DutyToLevel(duty)
  /\ Begin(t, ManualArg(duty), FALSE)

WriteFanLevel(t, value) ==
  /\ manualLevel' = CASE HasBit(value, 128) -> 4
                      [] ~HasBit(value, 128) /\ HasBit(value, 64) -> 7
                      [] OTHER -> value % 8
  /\ Begin(t, IF HasBit(value, 128) THEN AutoArg ELSE ManualArg(LevelToDuty(value)), FALSE)

WriteEC(t) ==
  /\ t \in Clients /\ pc[t] = "idle" /\ phase = "running"
  /\ \/ \E d \in EcDuties : WriteFanDuty(t, d)
     \/ \E v \in EcLevels : WriteFanLevel(t, v)
  /\ UNCHANGED <<chip, manualMode, manualDuty, pwmAvailable, savedHwmCfg,
                 published, poller, armed, phase, power, got>>

FanSpeedLevel(v) == IF v > 7 /\ v < 64 THEN 7 ELSE v

SetFanSpeed ==
  /\ pc[Gate] = "idle" /\ phase \in {"running", "stopping"}
  /\ \E v \in Speeds : WriteFanLevel(Gate, FanSpeedLevel(v))
  /\ UNCHANGED <<chip, manualMode, manualDuty, pwmAvailable, savedHwmCfg,
                 published, poller, armed, phase, power, got>>

SetFanPWM ==
  /\ pc[Gate] = "idle" /\ phase \in {"running", "stopping"}
  /\ \E d \in PwmDuties : Begin(Gate, ManualArg(d), TRUE)
  /\ UNCHANGED <<chip, manualMode, manualDuty, manualLevel, pwmAvailable, savedHwmCfg,
                 published, poller, armed, phase, power, got>>

SetFanAuto ==
  /\ pc[Gate] = "idle" /\ phase \in {"running", "stopping"}
  /\ Begin(Gate, AutoArg, FALSE)
  /\ UNCHANGED <<chip, manualMode, manualDuty, manualLevel, pwmAvailable, savedHwmCfg,
                 published, poller, armed, phase, power, got>>

SetUpdate ==
  /\ phase \in {"running", "stopping"}
  /\ pc[Gate] = "idle"
  /\ PollBegin(Gate)
  /\ IF handshakeActive THEN Rearm ELSE UNCHANGED armed
  /\ UNCHANGED <<chip, handshakeActive, manualMode, manualDuty, manualLevel, pwmAvailable,
                 savedHwmCfg, published, poller, phase, power, arg, got, history>>

-----------------------------------------------------------------------------
(* initMonitoring, of start and of a wake: a read, then perhaps a write. *)

MonitorRead(t) ==
  /\ At(t, "monRead", IF hwmCfg.mon THEN AfterMonitor(t) ELSE "monWrite")
  /\ got' = [got EXCEPT ![t] = IF hwmCfg.mon THEN 0 ELSE hwmCfg.cfg]
  /\ UNCHANGED <<chip, driver, phase, power, arg, history>>

MonitorWrite(t) ==
  /\ At(t, "monWrite", AfterMonitor(t))
  /\ hwmCfg' = [mon |-> TRUE, cfg |-> got[t]]
  /\ got' = [got EXCEPT ![t] = 0]
  /\ UNCHANGED <<fan, driver, phase, power, arg, history>>

Monitor(t) == MonitorRead(t) \/ MonitorWrite(t)

-----------------------------------------------------------------------------
(* start and stop. *)

StartSetup ==
  /\ pc[Driver] = "setup"
  /\ PollBegin(Driver)
  /\ pwmAvailable' \in BOOLEAN
  /\ poller' = "on"
  /\ UNCHANGED <<chip, handshakeActive, manualMode, manualDuty, manualLevel, savedHwmCfg,
                 published, armed, phase, power, arg, got, history>>

StartDone ==
  /\ At(Driver, "started", "idle")
  /\ armed' = TRUE
  /\ phase' = "running"
  /\ UNCHANGED <<chip, handshakeActive, manualMode, manualDuty, manualLevel, pwmAvailable,
                 savedHwmCfg, published, poller, power, arg, got, history>>

(* stop comes after the clients have closed the service.                   *)
StopBegin ==
  /\ phase = "running" /\ power \in {"boot", "on"}
  /\ \A c \in Clients : pc[c] = "idle"
  /\ At(Driver, "idle", "stopCheck")
  /\ phase' = "stopping"
  /\ overlap' = (overlap \/ \E u \in Threads \ {Driver} : InCommand(u))
  /\ UNCHANGED <<chip, driver, levelStale, power, arg, got>>

StopCheckSkips ==  \* mutant: stop does not restore auto mode
  /\ At(Driver, "stopCheck", "stopPoller")
  /\ UNCHANGED <<chip, driver, phase, power, arg, got, history>>

StopCheck ==
  /\ pc[Driver] = "stopCheck"
  /\ IF manualMode
     THEN /\ Goto(Driver, "req")
          /\ handshakeActive' = TRUE
          /\ arg' = [arg EXCEPT ![Driver] = AutoArg]
     ELSE Goto(Driver, "stopPoller") /\ UNCHANGED <<handshakeActive, arg>>
  /\ UNCHANGED <<chip, manualMode, manualDuty, manualLevel, pwmAvailable, savedHwmCfg,
                 published, poller, armed, phase, power, got, history>>

(* Removing an event source waits for the work loop.                       *)
StopPoller ==
  /\ pc[Gate] = "idle"
  /\ At(Driver, "stopPoller", "idle")
  /\ poller' = "none" /\ armed' = FALSE
  /\ phase' = "stopped"
  /\ UNCHANGED <<chip, handshakeActive, manualMode, manualDuty, manualLevel, pwmAvailable,
                 savedHwmCfg, published, power, arg, got, history>>

-----------------------------------------------------------------------------
(* setPowerState, and the machine's sleep between two calls of it. *)

(* The machine does not go to sleep before its services have started.      *)
(* Removing the poller waits for the work loop.                            *)
Sleep ==
  /\ power \in {"boot", "on"} /\ phase \in {"running", "stopping"}
  /\ pc[PM] = "idle" /\ pc[Gate] = "idle"
  /\ poller' = "off"
  /\ savedHwmCfg' = hwmCfg
  /\ power' = "slept"
  /\ UNCHANGED <<chip, handshakeActive, manualMode, manualDuty, manualLevel, pwmAvailable,
                 published, armed, phase, pc, arg, got, history>>

(* The processor stops: the controller forgets what it was told.  A        *)
(* command caught half-way is finished by a thread that resumes later.     *)
MachineSleeps ==
  /\ power = "slept"
  /\ power' = "off"
  /\ fan' = AutoFan /\ hwmCfg' = [mon |-> FALSE, cfg |-> 0]
  /\ overlap' = (overlap \/ ~NoCommand)
  /\ UNCHANGED <<driver, levelStale, phase, pc, arg, got>>

WakeCfgForgets ==  \* mutant: the saved HWM_CFG is not written back
  /\ power \in {"boot", "slept", "off"} /\ phase # "stopped"
  /\ At(PM, "idle", "monRead")
  /\ power' = "waking"
  /\ UNCHANGED <<chip, driver, phase, arg, got, history>>

(* Also the first call after registration, and after an aborted sleep.     *)
WakeCfg ==
  /\ power \in {"boot", "slept", "off"} /\ phase # "stopped"
  /\ At(PM, "idle", "monRead")
  /\ hwmCfg' = savedHwmCfg
  /\ power' = "waking"
  /\ UNCHANGED <<fan, driver, phase, arg, got, history>>

WakeManualSkips ==  \* mutant: a wake does not repeat the manual duty
  /\ At(PM, "wakeManual", "wakePoller")
  /\ UNCHANGED <<chip, driver, phase, power, arg, got, history>>

WakeManual ==
  /\ pc[PM] = "wakeManual"
  /\ IF manualMode THEN Begin(PM, ManualArg(manualDuty), levelStale \/ overlap)
     ELSE Goto(PM, "wakePoller") /\ UNCHANGED <<handshakeActive, arg, history>>
  /\ UNCHANGED <<chip, manualMode, manualDuty, manualLevel, pwmAvailable, savedHwmCfg,
                 published, poller, armed, phase, power, got>>

WakePoller ==
  /\ pc[Gate] = "idle" \/ poller = "none"
  /\ At(PM, "wakePoller", "idle")
  /\ IF poller = "none" THEN UNCHANGED <<poller, armed>>
     ELSE poller' = "on" /\ armed' = TRUE
  /\ power' = "on"
  /\ UNCHANGED <<chip, handshakeActive, manualMode, manualDuty, manualLevel, pwmAvailable,
                 savedHwmCfg, published, phase, arg, got, history>>

-----------------------------------------------------------------------------
Init ==
  /\ fan = AutoFan /\ hwmCfg \in [mon : BOOLEAN, cfg : {FactoryCfg}]
  /\ handshakeActive = FALSE
  /\ manualMode = FALSE /\ manualDuty = 0 /\ manualLevel = 4
  /\ pwmAvailable = FALSE
  /\ savedHwmCfg = [mon |-> FALSE, cfg |-> 0]
  /\ published = [manual |-> FALSE, duty |-> 0]
  /\ poller = "none" /\ armed = FALSE
  /\ phase = "starting" /\ power = "boot"
  /\ pc = [t \in Threads |-> IF t = Driver THEN "monRead" ELSE "idle"]
  /\ arg = [t \in Threads |-> AutoArg]
  /\ got = [t \in Threads |-> 0]
  /\ overlap = FALSE /\ levelStale = FALSE

Body(t) == Command(t) \/ Poll(t) \/ Monitor(t)

Requests == (\E c \in Clients : WriteEC(c)) \/ SetFanSpeed \/ SetFanPWM \/ SetFanAuto \/ SetUpdate

Lifecycle == StartSetup \/ StartDone \/ StopBegin \/ StopCheck \/ StopPoller

PowerSteps == Sleep \/ MachineSleeps \/ WakeCfg \/ WakeManual \/ WakePoller

Next == (\E t \in Threads : Body(t)) \/ TimerFires \/ Requests \/ Lifecycle \/ PowerSteps

Spec == Init /\ [][Next]_vars

(* The kernel keeps running a thread inside a call, and fires a timer.     *)
FairSpec == Spec /\ (\A t \in Threads : WF_vars(Body(t))) /\ WF_vars(TimerFires)

-----------------------------------------------------------------------------
(* Every variable has its type; a duty and a level are bytes. *)
FanType == [ctrl : {"REQ", "DONE"}, staged : Byte \cup {NoDuty}, manual : BOOLEAN,
            duty : Byte]
CfgType == [mon : BOOLEAN, cfg : 0..127]

TypeOK ==
  /\ fan \in FanType /\ hwmCfg \in CfgType
  /\ handshakeActive \in BOOLEAN
  /\ manualMode \in BOOLEAN /\ manualDuty \in Byte /\ manualLevel \in 0..7
  /\ pwmAvailable \in BOOLEAN
  /\ savedHwmCfg \in CfgType
  /\ published \in [manual : BOOLEAN, duty : Byte]
  /\ poller \in {"none", "on", "off"} /\ armed \in BOOLEAN
  /\ phase \in {"starting", "running", "stopping", "stopped"}
  /\ power \in {"boot", "on", "slept", "off", "waking"}
  /\ pc \in [Threads -> Steps]
  /\ arg \in [Threads -> [manual : BOOLEAN, duty : Byte]]
  /\ got \in [Threads -> Byte]
  /\ overlap \in BOOLEAN /\ levelStale \in BOOLEAN

(* The controller is never left in its configuration window: whatever      *)
(* commands overlap, a window that is open has a thread that will close it *)
(* (ThinkCentre.cpp:209-212, 228-230).                                     *)
WindowHasOwner ==
  fan.ctrl = "REQ" => \E t \in Threads : pc[t] \in {"duty", "done"}

(* Readers are never locked out for good: a raised handshakeActive has a   *)
(* thread that will lower it (ThinkCentre.cpp:207-214, 225-232).           *)
FlagHasOwner ==
  handshakeActive => \E t \in Threads : pc[t] \in {"req", "duty", "done", "flagOff"}

(* Every handshake ends: neither the controller nor the readers wait for   *)
(* one that nobody is in (ThinkCentre.cpp:205-214, 223-232).               *)
HandshakesEnd == WindowHasOwner /\ FlagHasOwner

Awake == power \in {"boot", "on"}
Quiet == Awake /\ NoCommand /\ ~overlap

(* When no command is under way and the last one ran alone, the driver's   *)
(* manualMode and manualDuty and the registry's FanManualMode are what the *)
(* controller does, through every sleep, wake and earlier overlap: one     *)
(* command that runs alone repairs whatever overlapping ones left          *)
(* (ThinkCentre.cpp:202-238, 441-466).                                     *)
DriverAgreesWithChip ==
  Quiet => /\ fan.manual = manualMode
           /\ published.manual = manualMode
           /\ manualMode => fan.duty = manualDuty

(* The level a client reads at EmuFanLevel stands for the duty the fan     *)
(* runs at, and reads 0x84 exactly when the controller is in charge, unless*)
(* the duty came by FanPWM, which sets no level (ThinkCentre.cpp:475-480,  *)
(* 515-531, 571-575).                                                      *)
LevelReadBack ==
  Quiet /\ ~levelStale =>
    FanLevelStatus = IF ~fan.manual THEN 132
                     ELSE IF fan.duty = 255 THEN 71 ELSE DutyToLevel(fan.duty)

(* After stop the controller runs its own curve, unless a command ran into *)
(* stop (ThinkCentre.cpp:399-400).                                         *)
StopHandsFanBack ==
  phase = "stopped" /\ NoCommand /\ ~overlap => ~fan.manual

(* While the machine is awake the service never loses its poller: the      *)
(* timeout is set or a poll that will set it again is under way            *)
(* (ThinkCentre.cpp:241-245, 264-265, 389-391, 445-462).                   *)
PollerAlive ==
  phase = "running" /\ Awake /\ pc[PM] = "idle" =>
    /\ poller = "on"
    /\ armed \/ pc[Gate] \in PollSteps

(* Awake and started, the controller monitors, and after a sleep that      *)
(* saved a monitoring HWM_CFG its other bits are the ones saved.  Of a     *)
(* stopped service nothing is said: stop puts nothing back                 *)
(* (ThinkCentre.cpp:196-200, 451-455).                                     *)
MonitoringRestored ==
  phase \in {"running", "stopping"} /\ Awake /\ pc[PM] = "idle" =>
    /\ hwmCfg.mon
    /\ savedHwmCfg.mon => hwmCfg.cfg = savedHwmCfg.cfg

(* THINKCENTRE.md:86 of FanDuty: "refreshes every 2 s".  The published     *)
(* duty does not stay wrong for ever once commands have stopped.           *)
FanDutyRefreshes ==
  ~<>[](phase = "running" /\ Quiet /\ fan.manual /\ published.duty # fan.duty)

=============================================================================
