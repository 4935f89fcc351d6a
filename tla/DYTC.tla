-------------------------------- MODULE DYTC --------------------------------
(***************************************************************************)
(* Thermal modes through the firmware's DYTC method (YogaSMC/YogaVPC.cpp   *)
(* 273-338, 433-669).  The command gate sets modes, sends raw commands and *)
(* refreshes; a thread inside message refreshes when the firmware says so  *)
(* (YogaVPC/ThinkVPC.cpp:806-809).                                         *)
(*                                                                         *)
(* One firmware command is four steps: test DYTCLock, take it, evaluate    *)
(* the method, let it go.  setDYTC and parseDYTC are sequences of commands *)
(* and hold nothing between two of them.                                   *)
(***************************************************************************)
EXTENDS Integers

CONSTANTS
  Messages,   \* threads that may be inside message
  Modes,      \* the settings asked for: [func, perf]
  Raw,        \* the raw commands asked for: [name, func, perf, valid]
  Bitmaps,    \* the capabilities the firmware may report
  MaxFaults   \* bound on the commands that fail

Funcs == {"STD", "CQL", "MMC", "PSC"}
Balance == 15

ASSUME GateIsNoMessage == "gate" \notin Messages
ASSUME Settings == Modes \subseteq [func : {"MMC", "PSC"}, perf : 0..255]
ASSUME RawCommands == Raw \subseteq [name : {"GET", "SET", "RESET"}, func : {"STD", "MMC", "PSC"},
                                     perf : 0..15, valid : BOOLEAN]
ASSUME Capabilities == Bitmaps \subseteq SUBSET Funcs
ASSUME FaultBound == MaxFaults \in Nat

VARIABLES
  fw,         \* the firmware: lap mode, and the mode set besides
  DYTCCap, DYTCLock,
  published,  \* the DYTC property
  faults,     \* commands that have failed
  pc, lock,   \* each thread's next command, and where in DYTCCommand it is
  op,         \* what the thread is doing
  reply,      \* its local DYTC_RESULT
  lapmode,    \* its local of that name
  status,     \* its local DYTCStatus
  alone, failed, wanted, told  \* history variables: see Begin

locals == <<pc, lock, op, reply, lapmode, status>>
history == <<alone, failed, wanted, told>>
vars == <<fw, DYTCCap, DYTCLock, published, faults, locals, history>>

Gate == "gate"
Threads == Messages \cup {Gate}

-----------------------------------------------------------------------------
(* The firmware.  Lap mode goes before the other functions in its reply; a *)
(* reset ends lap mode too.  The standard mode has no settings.            *)

Default == [lap |-> FALSE, func |-> "STD", perf |-> Balance]

Reply(f) == IF f.lap THEN [func |-> "CQL", perf |-> Balance, lap |-> TRUE] ELSE f

Set(f, func, perf, valid) ==
  IF func = "CQL" THEN [f EXCEPT !.lap = valid]
  ELSE IF valid /\ func # "STD" THEN [f EXCEPT !.func = func, !.perf = perf]
  ELSE IF valid \/ f.func = func THEN [Default EXCEPT !.lap = f.lap] ELSE f

Run(f, c) == CASE c.name = "GET" -> f [] c.name = "RESET" -> Default
               [] c.name = "SET" -> Set(f, c.func, c.perf, c.valid)

-----------------------------------------------------------------------------
Get == [name |-> "GET", func |-> "STD", perf |-> 0, valid |-> FALSE]
Reset == [Get EXCEPT !.name = "RESET"]

SetCmd(func, perf, valid) == [name |-> "SET", func |-> func, perf |-> perf % 16, valid |-> valid]

NoOp == [kind |-> "none", cmd |-> Get, perf |-> 0]
UpdateOp == [NoOp EXCEPT !.kind = "update"]
SetOp(m) == [kind |-> "set", cmd |-> SetCmd(m.func, m.perf, TRUE), perf |-> m.perf]
RawOp(c) == [kind |-> "raw", cmd |-> c, perf |-> 0]

(* The command a thread is about to send.                                  *)
CommandAt(t) ==
  CASE pc[t] = "get" -> Get
    [] pc[t] = "reset" -> Reset
    [] pc[t] \in {"set", "raw"} -> op[t].cmd
    [] pc[t] \in {"relap", "lapOn"} -> SetCmd("CQL", Balance, TRUE)
    [] pc[t] = "lapOff" -> SetCmd("CQL", Balance, FALSE)

Commands == {"get", "reset", "set", "raw", "relap", "lapOn", "lapOff"}

Goto(t, step) == pc' = [pc EXCEPT ![t] = step]
Busy(t) == pc[t] # "idle"
Quiet == \A t \in Threads : ~Busy(t)

(* What parseDYTC makes of a reply.                                        *)
Describe(r, lap) == [func |-> IF lap THEN "Lap" ELSE r.func,
                     perf |-> IF r.func = "STD" THEN Balance ELSE r.perf]

NoStatus == [func |-> "none", perf |-> Balance]

Finish(t) ==
  /\ Goto(t, "idle")
  /\ op' = [op EXCEPT ![t] = NoOp]
  /\ reply' = [reply EXCEPT ![t] = Default]
  /\ lapmode' = [lapmode EXCEPT ![t] = FALSE]
  /\ status' = [status EXCEPT ![t] = NoStatus]

(* A failed setting is followed by updateDYTC, any other failure by nothing. *)
Fail(t) ==
  /\ failed' = TRUE
  /\ UNCHANGED <<alone, wanted, told>>
  /\ IF op[t].kind = "set" /\ DYTCCap # {}
     THEN /\ Goto(t, "get")
          /\ op' = [op EXCEPT ![t] = UpdateOp]
          /\ lapmode' = [lapmode EXCEPT ![t] = FALSE]
          /\ UNCHANGED <<reply, status>>
     ELSE Finish(t)

-----------------------------------------------------------------------------
(* DYTCCommand. *)

TestLock(t) ==
  /\ pc[t] \in Commands /\ lock[t] = "test"
  /\ IF DYTCLock THEN Fail(t) /\ UNCHANGED lock
     ELSE lock' = [lock EXCEPT ![t] = "take"]
          /\ UNCHANGED <<pc, op, reply, lapmode, status, history>>
  /\ UNCHANGED <<fw, DYTCCap, DYTCLock, published, faults>>

TakeLock(t) ==
  /\ lock[t] = "take"
  /\ lock' = [lock EXCEPT ![t] = "eval"]
  /\ DYTCLock' = TRUE
  /\ UNCHANGED <<fw, DYTCCap, published, faults, pc, op, reply, lapmode, status, history>>

Succeed(t) ==
  /\ fw' = Run(fw, CommandAt(t))
  /\ reply' = [reply EXCEPT ![t] = Reply(fw')]
  /\ lock' = [lock EXCEPT ![t] = "succeeded"]
  /\ UNCHANGED <<DYTCCap, published, faults>>

(* The method cannot be evaluated or refuses; or it says it is unsupported. *)
Refused(t) ==
  /\ faults < MaxFaults /\ faults' = faults + 1
  /\ lock' = [lock EXCEPT ![t] = "failed"]
  /\ \/ UNCHANGED <<DYTCCap, published>>
     \/ DYTCCap' = {} /\ published' = NoStatus
  /\ UNCHANGED <<fw, reply>>

Evaluate(t) ==
  /\ lock[t] = "eval"
  /\ Succeed(t) \/ Refused(t)
  /\ UNCHANGED <<DYTCLock, pc, op, lapmode, status, history>>

(* The command after one that succeeded, with setDYTC's lapmode.           *)
LapCommand(lap) == IF lap THEN "relap" ELSE "parse"

NextCommand(t, lap) ==
  CASE pc[t] = "get" /\ op[t].kind = "set" -> "reset"
    [] pc[t] = "reset" /\ op[t].perf # Balance -> "set"
    [] pc[t] = "reset" /\ op[t].perf = Balance -> LapCommand(lap)
    [] pc[t] = "set" -> LapCommand(lap)
    [] pc[t] = "lapOff" -> "switch"
    [] pc[t] = "lapOn" -> "publish"
    [] OTHER -> "parse"

Continue(t, lap) ==
  /\ Goto(t, NextCommand(t, lap))
  /\ lapmode' = [lapmode EXCEPT ![t] = lap]
  /\ UNCHANGED <<op, reply, status, history>>

(* setDYTC remembers from its first reply whether lap mode is on.          *)
AfterCommand(t) ==
  IF lock[t] = "failed" THEN Fail(t)
  ELSE Continue(t, IF pc[t] = "get" THEN op[t].kind = "set" /\ reply[t].func = "CQL"
                   ELSE lapmode[t])

DropLockOnSuccess(t) ==  \* mutant: the error path does not let the lock go
  /\ lock[t] \in {"succeeded", "failed"}
  /\ lock' = [lock EXCEPT ![t] = "test"]
  /\ DYTCLock' = (lock[t] = "failed")
  /\ AfterCommand(t)
  /\ UNCHANGED <<fw, DYTCCap, published, faults>>

DropLock(t) ==
  /\ lock[t] \in {"succeeded", "failed"}
  /\ lock' = [lock EXCEPT ![t] = "test"]
  /\ DYTCLock' = FALSE
  /\ AfterCommand(t)
  /\ UNCHANGED <<fw, DYTCCap, published, faults>>

DYTCCommand(t) == TestLock(t) \/ TakeLock(t) \/ Evaluate(t) \/ DropLock(t)

-----------------------------------------------------------------------------
(* parseDYTC: to see the mode under lap mode it turns lap mode off, looks  *)
(* at the reply to that, and turns it on again.                            *)

Publish(t, s) ==
  /\ published' = s
  /\ told' = alone
  /\ UNCHANGED <<alone, failed, wanted>>
  /\ Finish(t)

ParseAtOnce(t) ==  \* mutant: the mode under lap mode is not looked at
  /\ pc[t] = "parse"
  /\ Publish(t, Describe(reply[t], "CQL" \in DYTCCap /\ reply[t].lap))
  /\ UNCHANGED <<fw, DYTCCap, DYTCLock, faults, lock>>

Parse(t) ==
  /\ pc[t] = "parse"
  /\ LET lap == "CQL" \in DYTCCap /\ reply[t].lap
     IN IF lap
        THEN /\ Goto(t, "lapOff")
             /\ lapmode' = [lapmode EXCEPT ![t] = TRUE]
             /\ UNCHANGED <<published, op, reply, status, history>>
        ELSE Publish(t, Describe(reply[t], FALSE))
  /\ UNCHANGED <<fw, DYTCCap, DYTCLock, faults, lock>>

SwitchForgets(t) ==  \* mutant: lap mode is not turned on again
  /\ pc[t] = "switch"
  /\ status' = [status EXCEPT ![t] = Describe(reply[t], TRUE)]
  /\ Goto(t, "publish")
  /\ UNCHANGED <<fw, DYTCCap, DYTCLock, published, faults, lock, op, reply, lapmode, history>>

Switch(t) ==
  /\ pc[t] = "switch"
  /\ status' = [status EXCEPT ![t] = Describe(reply[t], TRUE)]
  /\ Goto(t, "lapOn")
  /\ UNCHANGED <<fw, DYTCCap, DYTCLock, published, faults, lock, op, reply, lapmode, history>>

PublishLap(t) ==
  /\ pc[t] = "publish"
  /\ Publish(t, status[t])
  /\ UNCHANGED <<fw, DYTCCap, DYTCLock, faults, lock>>

-----------------------------------------------------------------------------
(* Requests.  alone: no other request and no change of the lap sensor      *)
(* since this one began.  wanted: what the firmware is to do after it,     *)
(* unless a command failed.  told: the property has been published since,  *)
(* by a request that was alone.                                            *)

Begin(t, o, step, want) ==
  /\ ~Busy(t) /\ DYTCCap # {}
  /\ Goto(t, step)
  /\ op' = [op EXCEPT ![t] = o]
  /\ alone' = \A u \in Threads \ {t} : ~Busy(u)
  /\ failed' = FALSE /\ told' = FALSE
  /\ wanted' = want
  /\ UNCHANGED <<fw, DYTCCap, DYTCLock, published, faults, lock, reply, lapmode, status>>

(* The keys DYTC, with a mode's name, and DYTCPSC, with a number.          *)
SetMode ==
  \E m \in Modes :
    /\ m.func = "PSC" => "PSC" \in DYTCCap
    /\ Begin(Gate, SetOp(m), "get",
             IF m.perf = Balance THEN [Default EXCEPT !.lap = fw.lap]
             ELSE [func |-> m.func, perf |-> m.perf % 16, lap |-> fw.lap])

SendRaw ==
  \E c \in Raw : Begin(Gate, RawOp(c), "raw", Run(fw, c))

UpdateDYTC(t) == Begin(t, UpdateOp, "get", fw)

(* The machine is put on a lap or taken off it.                            *)
LapSensor ==
  /\ fw' = [fw EXCEPT !.lap = ~@]
  /\ alone' = FALSE /\ told' = FALSE
  /\ UNCHANGED <<DYTCCap, DYTCLock, published, faults, locals, failed, wanted>>

-----------------------------------------------------------------------------
(* initDYTC: the capabilities are the firmware's, or those every machine   *)
(* has where they cannot be read.                                          *)
Init ==
  /\ fw \in {Default, [Default EXCEPT !.lap = TRUE]}
  /\ DYTCCap \in {{"STD", "CQL", "MMC"}} \cup Bitmaps
  /\ DYTCLock = FALSE
  /\ published = NoStatus
  /\ faults = 0
  /\ pc = [t \in Threads |-> "idle"]
  /\ lock = [t \in Threads |-> "test"]
  /\ op = [t \in Threads |-> NoOp]
  /\ reply = [t \in Threads |-> Default]
  /\ lapmode = [t \in Threads |-> FALSE]
  /\ status = [t \in Threads |-> NoStatus]
  /\ alone = FALSE /\ failed = FALSE /\ wanted = fw /\ told = FALSE

Body(t) == DYTCCommand(t) \/ Parse(t) \/ Switch(t) \/ PublishLap(t)

Next == (\E t \in Threads : Body(t) \/ UpdateDYTC(t)) \/ SetMode \/ SendRaw \/ LapSensor

Spec == Init /\ [][Next]_vars

-----------------------------------------------------------------------------

(* Commands are not refused for ever: a DYTCLock that is taken has a       *)
(* thread that will let it go, whatever a command returned                 *)
(* (YogaVPC.cpp:437-474).                                                  *)
LockHasOwner ==
  DYTCLock => \E t \in Threads : lock[t] \in {"eval", "succeeded", "failed"}

(* A request that nothing disturbed leaves the firmware as it was asked    *)
(* to, and lap mode as it was, whether it set a mode, sent a command or    *)
(* only looked (YogaVPC.cpp:509-669).                                      *)
SettingTakes == Quiet /\ alone /\ ~failed => fw = wanted

(* The DYTC property describes the firmware after every request that ran   *)
(* alone and published, one that failed half-way and refreshed included    *)
(* (YogaVPC.cpp:278-280, 328-330, 509-644).                                *)
PublishedAgrees ==
  Quiet /\ told =>
    published = IF fw.lap /\ "CQL" \in DYTCCap THEN [func |-> "Lap", perf |-> fw.perf]
                ELSE [func |-> Reply(fw).func, perf |-> Reply(fw).perf]

=============================================================================
