----------------------------- MODULE DYTCProofs -----------------------------
(***************************************************************************)
(* For any number of message threads, any settings, raw commands and       *)
(* capabilities, and any number of failures: the lock of the DYTC method   *)
(* is let go, and a request that nothing disturbed does what it was asked  *)
(* and publishes what the firmware then is.                                *)
(***************************************************************************)
EXTENDS DYTC, TLAPS

Bits == 0..15
Firmware == [lap : BOOLEAN, func : {"STD", "MMC", "PSC"}, perf : Bits]
Replies == [lap : BOOLEAN, func : Funcs, perf : Bits]
Statuses == [func : Funcs \cup {"Lap", "none"}, perf : Bits]
AllCommands == [name : {"GET", "SET", "RESET"}, func : Funcs, perf : Bits, valid : BOOLEAN]
Ops == [kind : {"none", "update", "set", "raw"}, cmd : AllCommands, perf : 0..255]
Places == Commands \cup {"idle", "parse", "switch", "publish"}

TypeOK ==
  /\ fw \in Firmware /\ wanted \in Firmware
  /\ DYTCCap \subseteq Funcs
  /\ DYTCLock \in BOOLEAN
  /\ published \in Statuses
  /\ pc \in [Threads -> Places]
  /\ lock \in [Threads -> {"test", "take", "eval", "succeeded", "failed"}]
  /\ op \in [Threads -> Ops]
  /\ reply \in [Threads -> Replies]
  /\ lapmode \in [Threads -> BOOLEAN]
  /\ status \in [Threads -> Statuses]
  /\ alone \in BOOLEAN /\ failed \in BOOLEAN /\ told \in BOOLEAN

(* The standard mode has no settings. *)
Plain(f) == f.func = "STD" => f.perf = Balance
ModesPlain == Plain(fw) /\ Plain(wanted)

(* Where a thread can be, with the request it has.                         *)
Stage(t) ==
  /\ pc[t] \notin Commands => lock[t] = "test"
  /\ pc[t] = "get" => op[t].kind \in {"update", "set"}
  /\ pc[t] \in {"reset", "set", "relap"} => op[t].kind = "set"
  /\ pc[t] = "raw" => op[t].kind = "raw"
  /\ op[t].kind = "set" =>
       op[t].cmd \in [name : {"SET"}, func : {"MMC", "PSC"}, perf : Bits, valid : {TRUE}]
  /\ pc[t] = "set" => op[t].perf # Balance
Stages == \A t \in Threads : Stage(t)

(* A request is alone as long as no other is under way.                    *)
AloneIsAlone == alone => \A t, u \in Threads : Busy(t) /\ Busy(u) => t = u

Shown(f) == [func |-> "Lap", perf |-> f.perf]

(* What a thread that is alone knows of the firmware, failure or not.      *)
Knows(t) ==
  /\ pc[t] \in {"parse", "switch"} \/ lock[t] = "succeeded" => reply[t] = Reply(fw)
  /\ pc[t] \in {"lapOff", "switch", "lapOn", "publish"} => "CQL" \in DYTCCap
  /\ pc[t] = "lapOff" => (fw.lap <=> lock[t] # "succeeded")
  /\ pc[t] = "switch" => ~fw.lap
  /\ pc[t] = "lapOn" => (fw.lap <=> lock[t] = "succeeded") /\ status[t] = Shown(fw)
  /\ pc[t] = "publish" => fw.lap /\ status[t] = Shown(fw)

(* What the setting of a mode makes of the firmware.                       *)
Target(o, lap) ==
  IF o.perf = Balance THEN [Default EXCEPT !.lap = lap]
  ELSE [func |-> o.cmd.func, perf |-> o.cmd.perf, lap |-> lap]

WithoutLap(f) == [f EXCEPT !.lap = FALSE]

(* How far a thread that is alone and has not failed is on the way to what *)
(* its request is to make of the firmware.                                 *)
OnTheWay(t) ==
  LET done == lock[t] = "succeeded" IN
  /\ op[t].kind = "set" => wanted = Target(op[t], wanted.lap)
  /\ pc[t] = "get" => IF op[t].kind = "set" THEN fw.lap = wanted.lap ELSE fw = wanted
  /\ pc[t] = "raw" => wanted = IF done THEN fw ELSE Run(fw, op[t].cmd)
  /\ pc[t] = "reset" => lapmode[t] = wanted.lap /\ (done => fw = Default)
  /\ pc[t] = "set" => lapmode[t] = wanted.lap /\ fw = IF done THEN WithoutLap(wanted) ELSE Default
  /\ pc[t] \in {"relap", "lapOn"} =>
       wanted.lap /\ fw = IF done THEN wanted ELSE WithoutLap(wanted)
  /\ pc[t] = "lapOff" => wanted.lap /\ fw = IF done THEN WithoutLap(wanted) ELSE wanted
  /\ pc[t] = "switch" => wanted.lap /\ fw = WithoutLap(wanted)
  /\ pc[t] \in {"parse", "publish"} => fw = wanted

Knowledge ==
  alone => \A t \in Threads : Busy(t) /\ lock[t] # "failed" => Knows(t) /\ (~failed => OnTheWay(t))

(* What the DYTC property is to say. *)
Truth == IF fw.lap /\ "CQL" \in DYTCCap THEN Shown(fw)
         ELSE [func |-> Reply(fw).func, perf |-> Reply(fw).perf]

(* A request that is over and was alone.                                   *)
Over ==
  /\ alone /\ ~failed /\ Quiet => fw = wanted
  /\ told => Quiet /\ published = Truth

RequestInv == TypeOK /\ ModesPlain /\ Stages /\ AloneIsAlone /\ Knowledge /\ Over

-----------------------------------------------------------------------------
(* The firmware's operators.                                               *)

LEMMA DefaultMode == Default \in Firmware /\ Plain(Default) /\ Default.lap = FALSE
  BY DEF Default, Firmware, Plain, Balance, Bits

LEMMA SameMode ==
  ASSUME NEW f \in Firmware, NEW g \in Firmware, f.func = g.func, f.perf = g.perf
  PROVE  /\ f.lap = g.lap => f = g
         /\ ~f.lap => f = WithoutLap(g)
  BY DEF Firmware, WithoutLap

LEMMA ReplyTells ==
  ASSUME NEW f \in Firmware, Plain(f)
  PROVE  /\ Reply(f) \in Replies
         /\ Reply(f).func = "CQL" <=> f.lap
         /\ Reply(f).lap <=> f.lap
         /\ ~f.lap => Reply(f) = f /\ Describe(Reply(f), TRUE) = Shown(f)
                      /\ Describe(Reply(f), FALSE) = [func |-> f.func, perf |-> f.perf]
         /\ Describe(Reply(f), FALSE) = [func |-> Reply(f).func, perf |-> Reply(f).perf]
  BY DEF Firmware, Plain, Reply, Replies, Funcs, Balance, Bits, Describe, Shown

LEMMA RunKeepsModes ==
  ASSUME NEW f \in Firmware, Plain(f), NEW c \in AllCommands
  PROVE  Run(f, c) \in Firmware /\ Plain(Run(f, c))
<1>1. CASE c.name = "GET"
  BY <1>1 DEF Run
<1>2. CASE c.name = "RESET"
  BY <1>2, DefaultMode DEF Run
<1>3. CASE c.name = "SET"
  <2>1. Run(f, c) = Set(f, c.func, c.perf, c.valid)
    BY <1>3 DEF Run
  <2>2. CASE c.func = "CQL"
    BY <2>1, <2>2 DEF Set, Firmware, Plain, AllCommands
  <2>3. CASE c.func # "CQL" /\ c.valid /\ c.func # "STD"
    BY <2>1, <2>3 DEF Set, Firmware, Plain, AllCommands, Funcs
  <2>4. CASE c.func # "CQL" /\ ~(c.valid /\ c.func # "STD")
    BY <2>1, <2>4, DefaultMode DEF Set, Firmware, Plain, AllCommands, Default, Balance, Bits
  <2>. QED  BY <2>2, <2>3, <2>4
<1>. QED  BY <1>1, <1>2, <1>3 DEF AllCommands

LEMMA CommandsOfThree ==
  ASSUME NEW f \in Firmware
  PROVE  /\ Run(f, Get) = f
         /\ Run(f, Reset) = Default
         /\ \A b \in BOOLEAN : Run(f, SetCmd("CQL", Balance, b)) = [f EXCEPT !.lap = b]
  BY DEF Run, Get, Reset, SetCmd, Set

LEMMA CommandTyped ==
  ASSUME TypeOK, NEW t \in Threads, pc[t] \in Commands
  PROVE  CommandAt(t) \in AllCommands
<1>1. op[t].cmd \in AllCommands
  BY DEF TypeOK, Ops
<1>0. Get \in AllCommands
  BY DEF Get, AllCommands, Funcs, Bits
<1>2. Get \in AllCommands /\ Reset \in AllCommands
  BY <1>0 DEF Reset, AllCommands
<1>3. \A b \in BOOLEAN : SetCmd("CQL", Balance, b) \in AllCommands
  BY DEF SetCmd, AllCommands, Funcs, Bits, Balance
<1>4. CASE pc[t] = "get"
  BY <1>2, <1>4 DEF CommandAt
<1>7. CASE pc[t] = "reset"
  BY <1>2, <1>7 DEF CommandAt
<1>5. CASE pc[t] \in {"set", "raw"}
  BY <1>1, <1>5 DEF CommandAt
<1>6. CASE pc[t] \in {"relap", "lapOn", "lapOff"}
  BY <1>3, <1>6 DEF CommandAt
<1>. QED  BY <1>4, <1>5, <1>6, <1>7 DEF Commands

LEMMA ModeCommands ==
  ASSUME NEW m \in Modes
  PROVE  /\ SetOp(m) \in Ops
         /\ SetOp(m).kind = "set" /\ SetOp(m).perf = m.perf
         /\ SetOp(m).cmd = [name |-> "SET", func |-> m.func, perf |-> m.perf % 16, valid |-> TRUE]
         /\ SetOp(m).cmd \in [name : {"SET"}, func : {"MMC", "PSC"}, perf : Bits, valid : {TRUE}]
         /\ SetOp(m).cmd.func = m.func /\ SetOp(m).cmd.perf = m.perf % 16
         /\ m.func \in {"MMC", "PSC"} /\ m.perf \in 0..255 /\ m.perf % 16 \in Bits
<1>1. m.func \in {"MMC", "PSC"} /\ m.perf \in 0..255
  BY Settings
<1>2. m.perf % 16 \in Bits
  BY <1>1 DEF Bits
<1>. QED  BY <1>1, <1>2 DEF SetOp, SetCmd, Ops, AllCommands, Funcs

LEMMA RawOps ==
  ASSUME NEW c \in Raw
  PROVE  c \in AllCommands /\ RawOp(c) \in Ops /\ RawOp(c).kind = "raw" /\ RawOp(c).cmd = c
  BY RawCommands DEF RawOp, Ops, AllCommands, Funcs, Bits

LEMMA NoOps ==
  /\ NoOp \in Ops /\ UpdateOp \in Ops /\ NoOp.kind = "none" /\ UpdateOp.kind = "update"
  /\ NoStatus \in Statuses /\ Default \in Replies
<1>1. NoOp \in Ops /\ NoOp.kind = "none"
  BY DEF NoOp, Ops, Get, AllCommands, Funcs, Bits
<1>2. UpdateOp \in Ops /\ UpdateOp.kind = "update"
  BY <1>1 DEF UpdateOp, Ops
<1>3. NoStatus \in Statuses /\ Default \in Replies
  BY DEF NoStatus, Statuses, Default, Replies, Balance, Funcs, Bits
<1>. QED  BY <1>1, <1>2, <1>3

-----------------------------------------------------------------------------
(* What a step of a busy thread has to show: its own new place fits, and   *)
(* where it was alone, what it now knows.                                  *)

Untouched(u) ==
  /\ pc'[u] = pc[u] /\ lock'[u] = lock[u] /\ op'[u] = op[u]

LEMMA StepOf ==
  ASSUME RequestInv, NEW t \in Threads, Busy(t),
         TypeOK', Plain(fw'), Stage(t)',
         \A u \in Threads \ {t} : Untouched(u),
         UNCHANGED <<alone, wanted>>,
         told' => alone /\ pc'[t] = "idle" /\ published' = Truth',
         alone /\ pc'[t] # "idle" /\ lock'[t] # "failed" =>
           Knows(t)' /\ (~failed' => OnTheWay(t)'),
         alone /\ pc'[t] = "idle" /\ ~failed' => fw' = wanted
  PROVE  RequestInv'
<1>. USE DEF RequestInv
<1>1. ModesPlain'
  <2>1. Plain(wanted) /\ wanted' = wanted
    BY DEF ModesPlain
  <2>. QED  BY <2>1 DEF ModesPlain, Plain
<1>2. Stages'
  <2>1. ASSUME NEW u \in Threads \ {t}
        PROVE  Stage(u)'
    <3>1. Stage(u) /\ Untouched(u)
      BY <2>1 DEF Stages
    <3>. QED  BY <3>1 DEF Stage, Untouched
  <2>. QED  BY <2>1 DEF Stages
<1>3. \A u \in Threads : u # t => (Busy(u)' <=> Busy(u))
  BY DEF Busy, Untouched
<1>4. AloneIsAlone'
  BY <1>3 DEF AloneIsAlone
<1>5. alone => \A u \in Threads : Busy(u)' => u = t
  BY <1>3 DEF AloneIsAlone
<1>6. Knowledge'
  BY <1>5 DEF Knowledge, Busy
<1>7. Over'
  <2>1. alone /\ pc'[t] = "idle" => Quiet'
    BY <1>5 DEF Quiet, Busy
  <2>2. Quiet' => pc'[t] = "idle"
    BY DEF Quiet, Busy
  <2>. QED  BY <2>1, <2>2 DEF Over
<1>. QED  BY <1>1, <1>2, <1>4, <1>6, <1>7

(* What there is to know of one that is busy, and nothing is told of it.   *)
LEMMA BusyThread ==
  ASSUME RequestInv, NEW t \in Threads, Busy(t)
  PROVE  /\ told = FALSE /\ Stage(t)
         /\ alone /\ lock[t] # "failed" => Knows(t) /\ (~failed => OnTheWay(t))
  BY DEF RequestInv, Over, Quiet, Knowledge, Stages, TypeOK

(* Failing, from a place where the firmware's state does not matter.       *)
LEMMA FailKeeps ==
  ASSUME RequestInv, NEW t \in Threads, Busy(t), Fail(t),
         lock' \in [Threads -> {"test", "take", "eval", "succeeded", "failed"}],
         lock'[t] = "test", \A u \in Threads \ {t} : lock'[u] = lock[u],
         DYTCLock' \in BOOLEAN,
         UNCHANGED <<fw, DYTCCap, published>>
  PROVE  RequestInv'
<1>1. told = FALSE /\ Stage(t) /\ TypeOK
  BY BusyThread DEF RequestInv
<1>2. failed' = TRUE /\ told' = FALSE /\ UNCHANGED <<alone, wanted>>
  BY <1>1 DEF Fail
<1>3. CASE op[t].kind = "set" /\ DYTCCap # {}
  <2>1. /\ pc' = [pc EXCEPT ![t] = "get"] /\ op' = [op EXCEPT ![t] = UpdateOp]
        /\ lapmode' = [lapmode EXCEPT ![t] = FALSE] /\ UNCHANGED <<reply, status>>
    BY <1>3 DEF Fail, Goto
  <2>2. TypeOK'
    BY <1>1, <1>2, <2>1, NoOps DEF TypeOK, Places, Commands
  <2>3. Stage(t)'
    BY <1>1, <2>1, NoOps DEF TypeOK, Stage, Commands
  <2>4. Knows(t)'
    BY <1>1, <2>1 DEF TypeOK, Knows
  <2>. QED  BY <1>1, <1>2, <2>1, <2>2, <2>3, <2>4, StepOf
              DEF RequestInv, ModesPlain, Plain, Untouched, TypeOK
<1>4. CASE ~(op[t].kind = "set" /\ DYTCCap # {})
  <2>1. /\ pc' = [pc EXCEPT ![t] = "idle"] /\ op' = [op EXCEPT ![t] = NoOp]
        /\ lapmode' = [lapmode EXCEPT ![t] = FALSE] /\ reply' = [reply EXCEPT ![t] = Default]
        /\ status' = [status EXCEPT ![t] = NoStatus]
    BY <1>4 DEF Fail, Finish, Goto
  <2>2. TypeOK'
    BY <1>1, <1>2, <2>1, NoOps DEF TypeOK, Places, Commands
  <2>3. Stage(t)'
    BY <1>1, <2>1, NoOps DEF TypeOK, Stage, Commands
  <2>. QED  BY <1>1, <1>2, <2>1, <2>2, <2>3, StepOf
              DEF RequestInv, ModesPlain, Plain, Untouched, TypeOK
<1>. QED  BY <1>3, <1>4

LEMMA TestLockKeeps ==
  ASSUME RequestInv, NEW t \in Threads, TestLock(t)
  PROVE  RequestInv'
<1>1. Busy(t) /\ pc[t] \in Commands /\ lock[t] = "test"
  BY DEF TestLock, Busy, Commands
<1>2. TypeOK /\ UNCHANGED <<fw, DYTCCap, DYTCLock, published>>
  BY DEF RequestInv, TestLock
<1>3. CASE DYTCLock
  BY <1>1, <1>2, <1>3, FailKeeps DEF TestLock, TypeOK
<1>4. CASE ~DYTCLock
  <2>1. /\ lock' = [lock EXCEPT ![t] = "take"]
        /\ UNCHANGED <<pc, op, reply, lapmode, status, alone, failed, wanted, told>>
    BY <1>4 DEF TestLock, history
  <2>2. TypeOK' /\ lock'[t] = "take"
    BY <1>2, <2>1 DEF TypeOK
  <2>3. Stage(t)' /\ ~told /\ (alone => Knows(t) /\ (~failed => OnTheWay(t)))
    BY <1>1, <2>1, <2>2, BusyThread DEF Stage
  <2>4. Knows(t) => Knows(t)'
    BY <1>1, <1>2, <2>1, <2>2 DEF Knows, Shown, Reply
  <2>5. OnTheWay(t) => OnTheWay(t)'
    BY <1>1, <1>2, <2>1, <2>2 DEF OnTheWay, Target, WithoutLap, Run, Set
  <2>. QED  BY <1>1, <1>2, <2>1, <2>2, <2>3, <2>4, <2>5, StepOf
              DEF RequestInv, ModesPlain, Plain, Untouched, TypeOK, Busy
<1>. QED  BY <1>3, <1>4

LEMMA TakeLockKeeps ==
  ASSUME RequestInv, NEW t \in Threads, TakeLock(t)
  PROVE  RequestInv'
<1>1. TypeOK /\ UNCHANGED <<fw, DYTCCap, published>>
  BY DEF RequestInv, TakeLock
<1>2. /\ lock[t] = "take" /\ lock' = [lock EXCEPT ![t] = "eval"] /\ DYTCLock' = TRUE
      /\ UNCHANGED <<pc, op, reply, lapmode, status, alone, failed, wanted, told>>
  BY DEF TakeLock, history
<1>3. Busy(t)
  BY <1>2 DEF RequestInv, Stages, Stage, Busy, Commands
<1>4. TypeOK' /\ lock'[t] = "eval"
  BY <1>1, <1>2 DEF TypeOK
<1>5. Stage(t)' /\ ~told /\ (alone => Knows(t) /\ (~failed => OnTheWay(t)))
  BY <1>2, <1>3, <1>4, BusyThread DEF Stage
<1>6. Knows(t) => Knows(t)'
  BY <1>1, <1>2, <1>4 DEF Knows, Shown, Reply
<1>7. OnTheWay(t) => OnTheWay(t)'
  BY <1>1, <1>2, <1>4 DEF OnTheWay, Target, WithoutLap, Run, Set
<1>. QED  BY <1>1, <1>2, <1>3, <1>4, <1>5, <1>6, <1>7, StepOf
            DEF RequestInv, ModesPlain, Plain, Untouched, TypeOK, Busy

(* One evaluation is a step of the firmware on the way to what is wanted.  *)
LEMMA SucceedAdvances ==
  ASSUME RequestInv, NEW t \in Threads, Busy(t), lock[t] = "eval",
         fw' = Run(fw, CommandAt(t)), lock'[t] = "succeeded", reply'[t] = Reply(fw'),
         UNCHANGED <<DYTCCap, pc, op, lapmode, status, wanted>>,
         pc[t] \in Commands,
         Knows(t)
  PROVE  Knows(t)' /\ (OnTheWay(t) => OnTheWay(t)')
<1>. USE DEF Untouched
<1>1. TypeOK /\ Plain(fw) /\ Plain(wanted) /\ fw \in Firmware /\ wanted \in Firmware /\ Stage(t)
  BY DEF RequestInv, TypeOK, ModesPlain, Stages
<1>2. CASE pc[t] = "get"
  <2>1. fw' = fw
    BY <1>1, <1>2, CommandsOfThree DEF CommandAt
  <2>. QED  BY <1>2, <2>1 DEF Knows, OnTheWay, Target
<1>3. CASE pc[t] = "raw"
  <2>1. fw' = Run(fw, op[t].cmd)
    BY <1>3 DEF CommandAt
  <2>2. Knows(t)'
    BY <1>3 DEF Knows
  <2>3. op[t].kind = "raw"
    BY <1>1, <1>3 DEF Stage
  <2>4. OnTheWay(t) => wanted' = fw'
    BY <1>3, <2>1 DEF OnTheWay
  <2>. QED  BY <1>3, <2>2, <2>3, <2>4 DEF OnTheWay
<1>4. CASE pc[t] = "reset"
  <2>1. fw' = Default
    BY <1>1, <1>4, CommandsOfThree DEF CommandAt
  <2>. QED  BY <1>4, <2>1 DEF Knows, OnTheWay, Target
<1>5. CASE pc[t] = "set"
  <2>1. op[t].cmd \in [name : {"SET"}, func : {"MMC", "PSC"}, perf : Bits, valid : {TRUE}]
        /\ op[t].kind = "set" /\ op[t].perf # Balance
    BY <1>1, <1>5 DEF Stage
  <2>2. fw' = Run(fw, op[t].cmd)
    BY <1>5 DEF CommandAt
  <2>3. fw = Default => fw' = [func |-> op[t].cmd.func, perf |-> op[t].cmd.perf, lap |-> FALSE]
    <3>1. op[t].cmd.name = "SET" /\ op[t].cmd.func \in {"MMC", "PSC"} /\ op[t].cmd.valid
      BY <2>1
    <3>2. fw' = [fw EXCEPT !.func = op[t].cmd.func, !.perf = op[t].cmd.perf]
      BY <2>2, <3>1 DEF Run, Set
    <3>3. [func |-> op[t].cmd.func, perf |-> op[t].cmd.perf, lap |-> FALSE] \in Firmware
          /\ fw' \in Firmware
      BY <1>1, <2>1, <3>2 DEF Firmware
    <3>4. fw = Default => fw'.func = op[t].cmd.func /\ fw'.perf = op[t].cmd.perf /\ fw'.lap = FALSE
      BY <3>2 DEF Default
    <3>. QED  BY <3>3, <3>4, SameMode
  <2>4. OnTheWay(t) => fw' = WithoutLap(wanted)
    BY <1>5, <2>1, <2>3 DEF OnTheWay, Target, WithoutLap
  <2>. QED  BY <1>5, <2>1, <2>4 DEF Knows, OnTheWay, Target, WithoutLap
<1>6. CASE pc[t] \in {"relap", "lapOn"}
  <2>1. fw' = [fw EXCEPT !.lap = TRUE]
    BY <1>1, <1>6, CommandsOfThree DEF CommandAt
  <2>2. Knows(t)'
    BY <1>1, <1>6, <2>1 DEF Knows, Shown, Firmware
  <2>3. OnTheWay(t) => wanted.lap /\ fw = WithoutLap(wanted)
    BY <1>6 DEF OnTheWay
  <2>4. wanted.lap /\ fw = WithoutLap(wanted) => fw' = wanted
    BY <1>1, <2>1 DEF WithoutLap, Firmware
  <2>. QED  BY <1>6, <2>2, <2>3, <2>4 DEF OnTheWay, Target
<1>7. CASE pc[t] = "lapOff"
  <2>1. fw' = [fw EXCEPT !.lap = FALSE]
    BY <1>1, <1>7, CommandsOfThree DEF CommandAt
  <2>2. Knows(t)'
    BY <1>1, <1>7, <2>1 DEF Knows, Firmware
  <2>. QED  BY <1>7, <2>1, <2>2 DEF OnTheWay, Target, WithoutLap
<1>. QED  BY <1>2, <1>3, <1>4, <1>5, <1>6, <1>7 DEF Commands

LEMMA EvaluateKeeps ==
  ASSUME RequestInv, NEW t \in Threads, Evaluate(t)
  PROVE  RequestInv'
<1>1. TypeOK /\ Plain(fw) /\ fw \in Firmware /\ wanted \in Firmware /\ Stage(t) /\ lock[t] = "eval"
      /\ UNCHANGED <<DYTCLock, pc, op, lapmode, status, alone, failed, wanted, told>>
  BY DEF RequestInv, TypeOK, ModesPlain, Stages, Evaluate, history
<1>2. Busy(t) /\ pc[t] \in Commands
  BY <1>1 DEF Stage, Busy, Commands
<1>3. told = FALSE /\ (alone => Knows(t) /\ (~failed => OnTheWay(t)))
  BY <1>1, <1>2, BusyThread
<1>4. CASE Succeed(t)
  <2>1. /\ fw' = Run(fw, CommandAt(t)) /\ reply' = [reply EXCEPT ![t] = Reply(fw')]
        /\ lock' = [lock EXCEPT ![t] = "succeeded"] /\ UNCHANGED <<DYTCCap, published>>
    BY <1>4 DEF Succeed
  <2>2. fw' \in Firmware /\ Plain(fw') /\ Reply(fw') \in Replies
    BY <1>1, <1>2, <2>1, CommandTyped, RunKeepsModes, ReplyTells
  <2>3. TypeOK' /\ lock'[t] = "succeeded" /\ reply'[t] = Reply(fw')
    BY <1>1, <2>1, <2>2 DEF TypeOK
  <2>4. Stage(t)'
    BY <1>1, <1>2, <2>3 DEF Stage
  <2>5. alone => Knows(t)' /\ (~failed' => OnTheWay(t)')
    BY <1>1, <1>2, <1>3, <2>1, <2>3, SucceedAdvances
  <2>. QED  BY <1>1, <1>2, <1>3, <2>1, <2>2, <2>3, <2>4, <2>5, StepOf DEF Untouched, TypeOK, Busy
<1>5. CASE Refused(t)
  <2>1. /\ lock' = [lock EXCEPT ![t] = "failed"] /\ UNCHANGED <<fw, reply>>
        /\ \/ UNCHANGED <<DYTCCap, published>>
           \/ DYTCCap' = {} /\ published' = NoStatus
    BY <1>5 DEF Refused
  <2>2. TypeOK' /\ lock'[t] = "failed"
    BY <1>1, <2>1, NoOps DEF TypeOK
  <2>3. Stage(t)'
    BY <1>1, <1>2, <2>2 DEF Stage
  <2>. QED  BY <1>1, <1>2, <1>3, <2>1, <2>2, <2>3, StepOf DEF Untouched, TypeOK, Busy
<1>. QED  BY <1>4, <1>5 DEF Evaluate

(* Letting the lock go, and the command that follows one that succeeded.   *)
LEMMA ContinueKnows ==
  ASSUME RequestInv, NEW t \in Threads, lock[t] = "succeeded", lock'[t] = "test",
         NEW lap \in BOOLEAN, lap = IF pc[t] = "get" THEN op[t].kind = "set" /\ reply[t].func = "CQL"
                                    ELSE lapmode[t],
         pc'[t] = NextCommand(t, lap), lapmode'[t] = lap,
         UNCHANGED <<fw, DYTCCap, op, reply, status, wanted>>,
         pc[t] \in Commands, Knows(t)
  PROVE  Knows(t)' /\ (OnTheWay(t) => OnTheWay(t)')
<1>1. TypeOK /\ Plain(fw) /\ Plain(wanted) /\ fw \in Firmware /\ wanted \in Firmware /\ Stage(t)
  BY DEF RequestInv, TypeOK, ModesPlain, Stages
<1>2. reply[t] = Reply(fw) /\ (Reply(fw).func = "CQL" <=> fw.lap)
  BY <1>1, ReplyTells DEF Knows
<1>3. CASE pc[t] = "get"
  <2>1. CASE op[t].kind = "set"
    BY <1>1, <1>2, <1>3, <2>1 DEF NextCommand, Knows, OnTheWay, Target, Firmware
  <2>2. CASE op[t].kind # "set"
    BY <1>1, <1>2, <1>3, <2>2 DEF NextCommand, Knows, OnTheWay
  <2>. QED  BY <2>1, <2>2
<1>4. CASE pc[t] = "raw"
  BY <1>1, <1>2, <1>4 DEF NextCommand, Knows, OnTheWay, Stage
<1>5. CASE pc[t] = "reset"
  <2>1. OnTheWay(t) => fw = Default /\ lap = wanted.lap /\ wanted = Target(op[t], wanted.lap)
    BY <1>1, <1>5 DEF OnTheWay, Stage
  <2>2. CASE op[t].perf # Balance
    BY <1>2, <1>5, <2>1, <2>2 DEF NextCommand, Knows, OnTheWay
  <2>3. CASE op[t].perf = Balance
    <3>1. OnTheWay(t) => IF lap THEN wanted.lap /\ fw = WithoutLap(wanted) ELSE fw = wanted
      <4>1. OnTheWay(t) => fw.func = wanted.func /\ fw.perf = wanted.perf /\ fw.lap = FALSE
        BY <2>1, <2>3 DEF Target, Default
      <4>. QED  BY <1>1, <2>1, <4>1, SameMode DEF Firmware
    <3>2. pc'[t] = LapCommand(lap)
      BY <1>5, <2>3 DEF NextCommand
    <3>. QED  BY <1>2, <2>1, <3>1, <3>2 DEF LapCommand, Knows, OnTheWay
  <2>. QED  BY <2>2, <2>3
<1>6. CASE pc[t] = "set"
  <2>1. OnTheWay(t) => IF lap THEN wanted.lap /\ fw = WithoutLap(wanted) ELSE fw = wanted
    BY <1>1, <1>6 DEF OnTheWay, WithoutLap, Firmware
  <2>2. OnTheWay(t) /\ op[t].kind = "set" => wanted = Target(op[t], wanted.lap)
    BY DEF OnTheWay
  <2>3. pc'[t] = LapCommand(lap)
    BY <1>6 DEF NextCommand
  <2>. QED  BY <1>2, <2>1, <2>2, <2>3 DEF LapCommand, Knows, OnTheWay
<1>7. CASE pc[t] = "relap"
  BY <1>1, <1>2, <1>7 DEF NextCommand, Knows, OnTheWay
<1>8. CASE pc[t] = "lapOff"
  BY <1>1, <1>2, <1>8 DEF NextCommand, Knows, OnTheWay
<1>9. CASE pc[t] = "lapOn"
  BY <1>1, <1>2, <1>9 DEF NextCommand, Knows, OnTheWay
<1>. QED  BY <1>3, <1>4, <1>5, <1>6, <1>7, <1>8, <1>9 DEF Commands

LEMMA DropLockKeeps ==
  ASSUME RequestInv, NEW t \in Threads, DropLock(t)
  PROVE  RequestInv'
<1>1. TypeOK /\ Plain(fw) /\ Stage(t) /\ lock[t] \in {"succeeded", "failed"}
      /\ UNCHANGED <<fw, DYTCCap, published>>
      /\ lock' = [lock EXCEPT ![t] = "test"] /\ DYTCLock' = FALSE
  BY DEF RequestInv, ModesPlain, Stages, DropLock
<1>2. Busy(t) /\ pc[t] \in Commands
  BY <1>1 DEF Stage, Busy, Commands
<1>3. CASE lock[t] = "failed"
  <2>1. Fail(t)
    BY <1>3 DEF DropLock, AfterCommand
  <2>. QED  BY <1>1, <1>2, <2>1, FailKeeps DEF TypeOK
<1>4. CASE lock[t] = "succeeded"
  <2>. DEFINE lap == IF pc[t] = "get" THEN op[t].kind = "set" /\ reply[t].func = "CQL"
                     ELSE lapmode[t]
  <2>1. lap \in BOOLEAN
    BY <1>1 DEF TypeOK
  <2>2. /\ pc' = [pc EXCEPT ![t] = NextCommand(t, lap)] /\ lapmode' = [lapmode EXCEPT ![t] = lap]
        /\ UNCHANGED <<op, reply, status, alone, failed, wanted, told>>
    BY <1>4 DEF DropLock, AfterCommand, Continue, Goto, history
  <2>3. NextCommand(t, lap) \in Places \ {"idle", "get", "raw"}
    BY DEF NextCommand, LapCommand, Places, Commands
  <2>. HIDE DEF lap
  <2>4. TypeOK' /\ pc'[t] = NextCommand(t, lap) /\ lapmode'[t] = lap /\ lock'[t] = "test"
    BY <1>1, <2>1, <2>2, <2>3 DEF TypeOK
  <2>5. pc'[t] \in {"reset", "set", "relap"} => op[t].kind = "set"
    BY <1>1, <1>2, <2>4 DEF NextCommand, LapCommand, Stage, Commands
  <2>6. pc'[t] = "set" => op[t].perf # Balance
    BY <1>2, <2>4 DEF NextCommand, LapCommand, Commands
  <2>7. Stage(t)'
    BY <1>1, <2>2, <2>3, <2>4, <2>5, <2>6 DEF Stage
  <2>8. told = FALSE /\ (alone => Knows(t) /\ (~failed => OnTheWay(t)))
    BY <1>2, <1>4, BusyThread
  <2>9. Knows(t) => Knows(t)' /\ (OnTheWay(t) => OnTheWay(t)')
    BY <1>1, <1>2, <1>4, <2>1, <2>2, <2>4, ContinueKnows DEF lap
  <2>. QED  BY <1>1, <1>2, <2>2, <2>3, <2>4, <2>7, <2>8, <2>9, StepOf DEF Untouched, TypeOK
<1>. QED  BY <1>1, <1>3, <1>4

-----------------------------------------------------------------------------
(* parseDYTC.                                                              *)

LEMMA DescribeTyped ==
  ASSUME NEW r \in Replies, NEW lap \in BOOLEAN
  PROVE  Describe(r, lap) \in Statuses
  BY DEF Describe, Replies, Statuses, Funcs, Bits, Balance

LEMMA PublishKeeps ==
  ASSUME RequestInv, NEW t \in Threads, NEW s \in Statuses, Publish(t, s),
         pc[t] \in {"parse", "publish"},
         UNCHANGED <<fw, DYTCCap, DYTCLock, lock>>,
         alone /\ Knows(t) => s = Truth
  PROVE  RequestInv'
<1>1. /\ published' = s /\ told' = alone /\ UNCHANGED <<alone, failed, wanted>>
      /\ pc' = [pc EXCEPT ![t] = "idle"] /\ op' = [op EXCEPT ![t] = NoOp]
      /\ lapmode' = [lapmode EXCEPT ![t] = FALSE] /\ reply' = [reply EXCEPT ![t] = Default]
      /\ status' = [status EXCEPT ![t] = NoStatus]
  BY DEF Publish, Finish, Goto
<1>2. TypeOK /\ Plain(fw) /\ Stage(t) /\ Busy(t) /\ lock[t] = "test"
  BY DEF RequestInv, ModesPlain, Stages, Stage, Busy, Commands
<1>3. TypeOK'
  BY <1>1, <1>2, NoOps DEF TypeOK, Places, Commands
<1>4. Stage(t)' /\ pc'[t] = "idle"
  BY <1>1, <1>2, NoOps DEF TypeOK, Stage, Commands
<1>5. alone => Knows(t) /\ (~failed => OnTheWay(t))
  BY <1>2, BusyThread
<1>6. OnTheWay(t) => fw = wanted
  BY DEF OnTheWay
<1>7. Truth' = Truth
  BY DEF Truth, Shown, Reply
<1>. QED  BY <1>1, <1>2, <1>3, <1>4, <1>5, <1>6, <1>7, StepOf DEF Untouched, TypeOK

LEMMA ParseKeeps ==
  ASSUME RequestInv, NEW t \in Threads, Parse(t)
  PROVE  RequestInv'
<1>. DEFINE lap == "CQL" \in DYTCCap /\ reply[t].lap
<1>1. TypeOK /\ Plain(fw) /\ fw \in Firmware /\ Stage(t) /\ pc[t] = "parse" /\ Busy(t) /\ lock[t] = "test"
      /\ UNCHANGED <<fw, DYTCCap, DYTCLock, faults, lock>>
  BY DEF RequestInv, TypeOK, ModesPlain, Stages, Stage, Busy, Commands, Parse
<1>2. reply[t] \in Replies
  BY <1>1 DEF TypeOK
<1>3. alone => Knows(t) /\ (~failed => OnTheWay(t))
  BY <1>1, BusyThread
<1>4. Knows(t) => reply[t] = Reply(fw) /\ (lap <=> fw.lap /\ "CQL" \in DYTCCap)
  <2>1. Knows(t) => reply[t] = Reply(fw)
    BY <1>1 DEF Knows
  <2>2. Reply(fw).lap <=> fw.lap
    BY <1>1, ReplyTells
  <2>. QED  BY <2>1, <2>2
<1>5. CASE lap
  <2>1. /\ pc' = [pc EXCEPT ![t] = "lapOff"] /\ lapmode' = [lapmode EXCEPT ![t] = TRUE]
        /\ UNCHANGED <<published, op, reply, status, alone, failed, wanted, told>>
    BY <1>5 DEF Parse, Goto, history
  <2>2. TypeOK' /\ pc'[t] = "lapOff"
    BY <1>1, <2>1 DEF TypeOK, Places, Commands
  <2>3. Stage(t)'
    BY <1>1, <2>1, <2>2 DEF Stage
  <2>4. Knows(t) => Knows(t)'
    <3>1. Knows(t) => fw.lap /\ "CQL" \in DYTCCap
      BY <1>4, <1>5
    <3>2. pc'[t] = "lapOff" /\ lock'[t] = "test" /\ DYTCCap' = DYTCCap /\ fw' = fw
      BY <1>1, <2>2
    <3>. QED  BY <3>1, <3>2 DEF Knows
  <2>5. Knows(t) /\ OnTheWay(t) => OnTheWay(t)'
    <3>1. OnTheWay(t) => fw = wanted
      BY <1>1 DEF OnTheWay
    <3>2. OnTheWay(t) => (op[t].kind = "set" => wanted = Target(op[t], wanted.lap))
      BY DEF OnTheWay
    <3>. QED  BY <1>1, <1>4, <1>5, <2>1, <2>2, <3>1, <3>2 DEF OnTheWay, Target
  <2>. QED  BY <1>1, <1>3, <2>1, <2>2, <2>3, <2>4, <2>5, BusyThread, StepOf DEF Untouched, TypeOK
<1>6. CASE ~lap
  <2>1. Publish(t, Describe(reply[t], FALSE))
    BY <1>6 DEF Parse
  <2>2. Describe(reply[t], FALSE) \in Statuses
    BY <1>2, DescribeTyped
  <2>3. Knows(t) => Describe(reply[t], FALSE) = Truth
    BY <1>1, <1>4, <1>6, ReplyTells DEF Truth
  <2>. QED  BY <1>1, <2>1, <2>2, <2>3, PublishKeeps
<1>. QED  BY <1>5, <1>6

LEMMA SwitchKeeps ==
  ASSUME RequestInv, NEW t \in Threads, Switch(t)
  PROVE  RequestInv'
<1>1. TypeOK /\ Plain(fw) /\ fw \in Firmware /\ Stage(t) /\ pc[t] = "switch" /\ Busy(t) /\ lock[t] = "test"
  BY DEF RequestInv, TypeOK, ModesPlain, Stages, Stage, Busy, Commands, Switch
<1>2. /\ status' = [status EXCEPT ![t] = Describe(reply[t], TRUE)]
      /\ pc' = [pc EXCEPT ![t] = "lapOn"]
      /\ UNCHANGED <<fw, DYTCCap, DYTCLock, published, lock, op, reply, lapmode, alone, failed, wanted, told>>
  BY DEF Switch, Goto, history
<1>3. Describe(reply[t], TRUE) \in Statuses
  BY <1>1, DescribeTyped DEF TypeOK
<1>4. TypeOK' /\ pc'[t] = "lapOn" /\ status'[t] = Describe(reply[t], TRUE)
  BY <1>1, <1>2, <1>3 DEF TypeOK, Places, Commands
<1>5. Stage(t)'
  BY <1>1, <1>2, <1>4 DEF Stage
<1>6. Knows(t) => Knows(t)'
  <2>1. Knows(t) => reply[t] = Reply(fw) /\ ~fw.lap /\ "CQL" \in DYTCCap
    BY <1>1 DEF Knows
  <2>2. Knows(t) => status'[t] = Shown(fw)
    BY <1>1, <1>4, <2>1, ReplyTells
  <2>. QED  BY <1>1, <1>2, <1>4, <2>1, <2>2 DEF Knows, Shown
<1>7. OnTheWay(t) => OnTheWay(t)'
  BY <1>1, <1>2, <1>4 DEF OnTheWay, Target, WithoutLap
<1>. QED  BY <1>1, <1>2, <1>4, <1>5, <1>6, <1>7, BusyThread, StepOf DEF Untouched, TypeOK

LEMMA PublishLapKeeps ==
  ASSUME RequestInv, NEW t \in Threads, PublishLap(t)
  PROVE  RequestInv'
<1>1. TypeOK /\ pc[t] = "publish" /\ Publish(t, status[t]) /\ UNCHANGED <<fw, DYTCCap, DYTCLock, lock>>
  BY DEF RequestInv, PublishLap
<1>2. status[t] \in Statuses
  BY <1>1 DEF TypeOK
<1>3. Knows(t) => status[t] = Truth
  BY <1>1 DEF Knows, Truth
<1>. QED  BY <1>1, <1>2, <1>3, PublishKeeps

-----------------------------------------------------------------------------
(* Requests, and the lap sensor.                                           *)

LEMMA BeginKeeps ==
  ASSUME RequestInv, NEW t \in Threads, NEW o \in Ops, NEW step \in {"get", "raw"},
         NEW want \in Firmware, Plain(want), Begin(t, o, step, want),
         \/ step = "get" /\ o.kind = "update" /\ want = fw
         \/ step = "get" /\ o.kind = "set" /\ want = Target(o, fw.lap)
            /\ o.cmd \in [name : {"SET"}, func : {"MMC", "PSC"}, perf : Bits, valid : {TRUE}]
         \/ step = "raw" /\ o.kind = "raw" /\ want = Run(fw, o.cmd)
  PROVE  RequestInv'
<1>1. /\ pc[t] = "idle" /\ pc' = [pc EXCEPT ![t] = step] /\ op' = [op EXCEPT ![t] = o]
      /\ alone' = (\A u \in Threads \ {t} : ~Busy(u))
      /\ failed' = FALSE /\ told' = FALSE /\ wanted' = want
      /\ UNCHANGED <<fw, DYTCCap, DYTCLock, published, lock, reply, lapmode, status>>
  BY DEF Begin, Busy, Goto
<1>2. TypeOK /\ Plain(fw) /\ fw \in Firmware /\ Stages /\ Stage(t) /\ lock[t] = "test"
  BY <1>1 DEF RequestInv, TypeOK, ModesPlain, Stages, Stage, Commands
<1>3. TypeOK' /\ pc'[t] = step /\ op'[t] = o
  BY <1>1, <1>2 DEF TypeOK, Places, Commands
<1>4. \A u \in Threads \ {t} : Untouched(u) /\ (Busy(u)' <=> Busy(u))
  BY <1>1, <1>2 DEF TypeOK, Untouched, Busy
<1>5. ModesPlain'
  BY <1>1, <1>2 DEF ModesPlain, Plain
<1>6. Stages'
  <2>1. Stage(t)'
    BY <1>1, <1>2, <1>3 DEF Stage, Commands
  <2>2. ASSUME NEW u \in Threads \ {t}
        PROVE  Stage(u)'
    <3>1. Stage(u) /\ Untouched(u)
      BY <1>2, <1>4, <2>2 DEF Stages
    <3>. QED  BY <3>1 DEF Stage, Untouched
  <2>. QED  BY <2>1, <2>2 DEF Stages
<1>7. alone' => \A u \in Threads : Busy(u)' => u = t
  BY <1>1, <1>4
<1>8. AloneIsAlone'
  BY <1>7 DEF AloneIsAlone
<1>9. Knows(t)'
  BY <1>1, <1>2, <1>3 DEF Knows
<1>10. OnTheWay(t)'
  <2>1. CASE o.kind = "set"
    <3>1. want.lap = fw.lap
      BY <1>1, <2>1 DEF Target, Default
    <3>. QED  BY <1>1, <1>2, <1>3, <2>1, <3>1 DEF OnTheWay, Target
  <2>2. CASE o.kind # "set"
    BY <1>1, <1>2, <1>3, <2>2 DEF OnTheWay, Run, Set
  <2>. QED  BY <2>1, <2>2
<1>11. Knowledge'
  BY <1>7, <1>9, <1>10 DEF Knowledge
<1>12. Over'
  <2>1. ~Quiet'
    BY <1>3 DEF Quiet, Busy
  <2>. QED  BY <1>1, <2>1 DEF Over
<1>. QED  BY <1>3, <1>5, <1>6, <1>8, <1>11, <1>12 DEF RequestInv

LEMMA SetModeKeeps ==
  ASSUME RequestInv, SetMode
  PROVE  RequestInv'
<1>1. fw \in Firmware /\ Gate \in Threads
  BY DEF RequestInv, TypeOK, Threads
<1>2. PICK m \in Modes :
        Begin(Gate, SetOp(m), "get",
              IF m.perf = Balance THEN [Default EXCEPT !.lap = fw.lap]
              ELSE [func |-> m.func, perf |-> m.perf % 16, lap |-> fw.lap])
  BY DEF SetMode
<1>. DEFINE want == IF m.perf = Balance THEN [Default EXCEPT !.lap = fw.lap]
                    ELSE [func |-> m.func, perf |-> m.perf % 16, lap |-> fw.lap]
<1>3. want = Target(SetOp(m), fw.lap)
  BY ModeCommands DEF Target
<1>4. want \in Firmware /\ Plain(want)
  BY <1>1, DefaultMode, ModeCommands DEF Firmware, Plain, Default
<1>. HIDE DEF want
<1>5. SetOp(m).cmd \in [name : {"SET"}, func : {"MMC", "PSC"}, perf : Bits, valid : {TRUE}]
  BY ModeCommands
<1>. QED  BY <1>1, <1>2, <1>3, <1>4, <1>5, ModeCommands, BeginKeeps DEF want

LEMMA SendRawKeeps ==
  ASSUME RequestInv, SendRaw
  PROVE  RequestInv'
<1>1. fw \in Firmware /\ Plain(fw) /\ Gate \in Threads
  BY DEF RequestInv, TypeOK, ModesPlain, Threads
<1>2. PICK c \in Raw : Begin(Gate, RawOp(c), "raw", Run(fw, c))
  BY DEF SendRaw
<1>3. Run(fw, c) \in Firmware /\ Plain(Run(fw, c))
  BY <1>1, RawOps, RunKeepsModes
<1>. QED  BY <1>1, <1>2, <1>3, RawOps, BeginKeeps

LEMMA UpdateKeeps ==
  ASSUME RequestInv, NEW t \in Threads, UpdateDYTC(t)
  PROVE  RequestInv'
<1>1. fw \in Firmware /\ Plain(fw)
  BY DEF RequestInv, TypeOK, ModesPlain
<1>. QED  BY <1>1, NoOps, BeginKeeps DEF UpdateDYTC

LEMMA LapSensorKeeps ==
  ASSUME RequestInv, LapSensor
  PROVE  RequestInv'
<1>1. /\ fw' = [fw EXCEPT !.lap = ~@] /\ alone' = FALSE /\ told' = FALSE
      /\ UNCHANGED <<DYTCCap, DYTCLock, published, pc, lock, op, reply, lapmode, status, failed, wanted>>
  BY DEF LapSensor, locals
<1>2. TypeOK'
  BY <1>1 DEF RequestInv, TypeOK, Firmware
<1>3. Plain(fw') /\ Plain(wanted')
  BY <1>1 DEF RequestInv, TypeOK, ModesPlain, Plain, Firmware
<1>4. Stages'
  BY <1>1 DEF RequestInv, Stages, Stage
<1>. QED  BY <1>1, <1>2, <1>3, <1>4 DEF RequestInv, ModesPlain, AloneIsAlone, Knowledge, Over

LEMMA StutterKeeps ==
  ASSUME RequestInv, UNCHANGED vars
  PROVE  RequestInv'
<1>. USE DEF vars, locals, history
<1>1. TypeOK' /\ ModesPlain' /\ AloneIsAlone'
  BY DEF RequestInv, TypeOK, ModesPlain, Plain, AloneIsAlone, Busy
<1>2. Stages'
  BY DEF RequestInv, Stages, Stage
<1>3. \A t \in Threads : (Knows(t)' <=> Knows(t)) /\ (OnTheWay(t)' <=> OnTheWay(t))
  BY DEF Knows, OnTheWay, Shown, Reply, Target, WithoutLap, Run, Set
<1>4. Knowledge'
  BY <1>3 DEF RequestInv, Knowledge, Busy
<1>5. Over'
  BY DEF RequestInv, Over, Quiet, Busy, Truth, Shown, Reply
<1>. QED  BY <1>1, <1>2, <1>4, <1>5 DEF RequestInv

LEMMA InitRequests == Init => RequestInv
<1>. SUFFICES ASSUME Init
              PROVE  RequestInv
  OBVIOUS
<1>1. fw \in Firmware /\ Plain(fw)
  BY DefaultMode DEF Init, Firmware, Plain
<1>2. DYTCCap \subseteq Funcs
  BY Capabilities DEF Init, Funcs
<1>3. TypeOK
  BY <1>1, <1>2, NoOps DEF Init, TypeOK, Places
<1>4. Stages
  BY NoOps DEF Init, Stages, Stage, Commands
<1>. QED  BY <1>1, <1>3, <1>4 DEF Init, RequestInv, ModesPlain, Plain, AloneIsAlone, Knowledge, Over, Quiet, Busy

LEMMA NextRequests == RequestInv /\ [Next]_vars => RequestInv'
<1>. SUFFICES ASSUME RequestInv, [Next]_vars
              PROVE  RequestInv'
  OBVIOUS
<1>1. ASSUME NEW t \in Threads, Body(t)
      PROVE  RequestInv'
  BY <1>1, TestLockKeeps, TakeLockKeeps, EvaluateKeeps, DropLockKeeps, ParseKeeps, SwitchKeeps,
     PublishLapKeeps DEF Body, DYTCCommand
<1>. QED  BY <1>1, UpdateKeeps, SetModeKeeps, SendRawKeeps, LapSensorKeeps, StutterKeeps DEF Next

(* The invariant behind the two claims on requests: at every step of every *)
(* request, what a thread that nothing disturbs has read and remembers     *)
(* fits the firmware, and the firmware is on the way to what was asked     *)
(* (YogaVPC.cpp:433-669).                                                  *)
THEOREM RequestsAdvance == Spec => []RequestInv
  BY InitRequests, NextRequests, PTL DEF Spec

(* A request that nothing disturbed leaves the firmware as it was asked    *)
(* to, and lap mode as it was (YogaVPC.cpp:509-669).                       *)
THEOREM SettingsTake == Spec => []SettingTakes
<1>1. RequestInv => SettingTakes
  BY DEF RequestInv, Over, SettingTakes
<1>. QED  BY <1>1, RequestsAdvance, PTL

(* The DYTC property describes the firmware after every request that ran   *)
(* alone and published (YogaVPC.cpp:278-280, 328-330, 509-644).            *)
THEOREM WhatIsPublishedAgrees == Spec => []PublishedAgrees
<1>1. RequestInv => PublishedAgrees
  BY DEF RequestInv, Over, PublishedAgrees, Truth, Shown
<1>. QED  BY <1>1, RequestsAdvance, PTL

-----------------------------------------------------------------------------
(* The lock.  It is taken only by a thread that tested it, and every way   *)
(* out of a command lets it go.                                            *)

LockInv == lock \in [Threads -> {"test", "take", "eval", "succeeded", "failed"}] /\ LockHasOwner

LEMMA NextLock == LockInv /\ [Next]_vars => LockInv'
<1>. SUFFICES ASSUME LockInv, [Next]_vars
              PROVE  LockInv'
  OBVIOUS
<1>. USE DEF LockInv, LockHasOwner
<1>1. ASSUME NEW t \in Threads, TestLock(t)
      PROVE  LockInv'
  BY <1>1 DEF TestLock
<1>2. ASSUME NEW t \in Threads, TakeLock(t)
      PROVE  LockInv'
  BY <1>2 DEF TakeLock
<1>3. ASSUME NEW t \in Threads, Evaluate(t)
      PROVE  LockInv'
  BY <1>3 DEF Evaluate, Succeed, Refused
<1>4. ASSUME NEW t \in Threads, DropLock(t)
      PROVE  LockInv'
  BY <1>4 DEF DropLock
<1>5. ASSUME UNCHANGED <<DYTCLock, lock>>
      PROVE  LockInv'
  BY <1>5
<1>6. ASSUME NEW t \in Threads, Parse(t) \/ Switch(t) \/ PublishLap(t) \/ UpdateDYTC(t)
      PROVE  LockInv'
  BY <1>5, <1>6 DEF Parse, Switch, PublishLap, UpdateDYTC, Begin
<1>7. ASSUME SetMode \/ SendRaw \/ LapSensor
      PROVE  LockInv'
  BY <1>5, <1>7 DEF SetMode, SendRaw, LapSensor, Begin, locals
<1>. QED  BY <1>1, <1>2, <1>3, <1>4, <1>5, <1>6, <1>7 DEF Next, Body, DYTCCommand, vars, locals

(* A DYTCLock that is taken has a thread that will let it go, whatever a   *)
(* command returned (YogaVPC.cpp:437-474).                                 *)
THEOREM LockIsLetGo == Spec => []LockHasOwner
<1>1. Init => LockInv
  BY DEF Init, LockInv, LockHasOwner
<1>. QED  BY <1>1, NextLock, PTL DEF Spec, LockInv

=============================================================================
