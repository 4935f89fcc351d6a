---------------------------- MODULE IdeaMailbox -----------------------------
(***************************************************************************)
(* An IdeaPad's embedded controller reports its events through a mailbox   *)
(* of two registers (YogaSMC/YogaVPC/IdeaVPC.cpp 97-103, 567-602, 693-942):*)
(* a command is written to VCMD, the controller clears it when it is done, *)
(* and the argument or the answer is in VDAT.                              *)
(*                                                                         *)
(*   gate   the work loop: brightnessAction and setPropertiesGated         *)
(*   acpi   message, when the controller has events                        *)
(*                                                                         *)
(* The mailbox has no lock.  One step of a thread is one evaluation of     *)
(* VPCR, VPCW or HALS, or a store to the fields both threads use.  Of the  *)
(* sixteen events there are the touchpad's key, which reads a register, and*)
(* the backlight's, which reads HALS.  Direct writes (ECLock) are unlocked.*)
(***************************************************************************)
EXTENDS Integers, FiniteSetsExt

CONSTANT brightnessPoller  \* the screen's brightness is polled (-ideabr)

ASSUME PollerIsOptional == brightnessPoller \in BOOLEAN

touchpadBit == 5
keyboardBit == 12

VARIABLES
  events,      \* what the controller has to report
  keyboard,    \* the level of the keyboard's backlight: 0, 1 or 2
  touchpad,    \* the touchpad is on
  VCMD, VDAT,
  backlightLevel, TouchPadEnabledHW,
  pc, op,      \* each thread's next step and request
  cmd,         \* the command it has sent
  todo,        \* its local vpc1, as the set of bits yet to be handled
  got,         \* its local result, or the state HALS has returned
  alone, clean, presses, doubt  \* history variables: see Begin

controller == <<events, keyboard, touchpad>>
mailbox == <<VCMD, VDAT>>
fields == <<backlightLevel, TouchPadEnabledHW>>
locals == <<pc, op, cmd, todo, got>>
history == <<alone, clean, presses, doubt>>
vars == <<controller, mailbox, fields, locals, history>>

Threads == {"gate", "acpi"}
Free == "free"
None == [of |-> Free, bits |-> {}, val |-> 0]

Quiet == \A t \in Threads : pc[t] = "idle"

Goto(t, step) == pc' = [pc EXCEPT ![t] = step]

At(t, step, next) == pc[t] = step /\ Goto(t, next)

Return(t) ==
  /\ Goto(t, "idle")
  /\ op' = [op EXCEPT ![t] = "none"]
  /\ cmd' = [cmd EXCEPT ![t] = Free]
  /\ todo' = [todo EXCEPT ![t] = {}]
  /\ got' = [got EXCEPT ![t] = None]

Send(t, c) == Goto(t, "vpcw") /\ cmd' = [cmd EXCEPT ![t] = c]

(* A request begins.  alone: no other has been under way since.  clean:    *)
(* nor, for a write, had an earlier one left its command.  presses: whether*)
(* each press of the backlight's key has had a reading of its own; the last*)
(* of them may still be unseen.  doubt: the touchpad's last event may have *)
(* been lost or overtaken.                                                 *)
Begin(t, o, step, c) ==
  /\ pc[t] = "idle"
  /\ Goto(t, step)
  /\ op' = [op EXCEPT ![t] = o]
  /\ cmd' = [cmd EXCEPT ![t] = c]
  /\ alone' = Quiet
  /\ clean' = (Quiet /\ VCMD = Free /\ o = "write")
  /\ presses' = IF Quiet THEN presses ELSE "missed"
  /\ doubt' = (doubt \/ ~Quiet)
  /\ UNCHANGED <<controller, mailbox, fields, todo, got>>

-----------------------------------------------------------------------------
(* What a caller does next.  updateAll ("before", "update", "after") reads *)
(* the keyboard before and after updateVPC.                                *)

LeaveVPC(t) ==
  IF op[t] = "update"
  THEN /\ Goto(t, "hals")
       /\ op' = [op EXCEPT ![t] = "after"]
       /\ cmd' = [cmd EXCEPT ![t] = Free]
       /\ todo' = [todo EXCEPT ![t] = {}]
       /\ got' = [got EXCEPT ![t] = None]
  ELSE Return(t)

(* updateVPC's loop over the bits, from the lowest.                        *)
NextOf(t, bits) ==
  IF bits = {} THEN LeaveVPC(t)
  ELSE LET b == Min(bits) IN
       /\ todo' = [todo EXCEPT ![t] = bits \ {b}]
       /\ got' = [got EXCEPT ![t] = None]
       /\ UNCHANGED op
       /\ IF b = touchpadBit THEN Send(t, "R_TOUCHPAD")
          ELSE Goto(t, "hals") /\ cmd' = [cmd EXCEPT ![t] = Free]

ReceivedOver(t, answer) ==  \* mutant: vpc1 = vpc2 << 8
  CASE cmd[t] = "R_VPC1" ->
         todo' = [todo EXCEPT ![t] = answer.bits] /\ Send(t, "R_VPC2") /\ UNCHANGED <<op, got>>
    [] cmd[t] = "R_VPC2" -> NextOf(t, answer.bits)
    [] cmd[t] = "R_TOUCHPAD" ->
         got' = [got EXCEPT ![t] = answer] /\ Goto(t, "store") /\ UNCHANGED <<op, cmd, todo>>

(* read_ec_data has succeeded.                                             *)
Received(t, answer) ==
  CASE cmd[t] = "R_VPC1" ->
         todo' = [todo EXCEPT ![t] = answer.bits] /\ Send(t, "R_VPC2") /\ UNCHANGED <<op, got>>
    [] cmd[t] = "R_VPC2" -> NextOf(t, todo[t] \cup answer.bits)
    [] cmd[t] = "R_TOUCHPAD" ->
         got' = [got EXCEPT ![t] = answer] /\ Goto(t, "store") /\ UNCHANGED <<op, cmd, todo>>

(* It has failed.  Without VPC1 updateVPC ends, without VPC2 it does not;  *)
(* the touchpad's state is taken from what result happens to hold.         *)
GivesUp(t) ==
  \/ cmd[t] = "W" /\ Return(t)
  \/ cmd[t] = "R_VPC1" /\ LeaveVPC(t)
  \/ cmd[t] = "R_VPC2" /\ NextOf(t, todo[t])
  \/ /\ cmd[t] = "R_TOUCHPAD"
     /\ \E v \in {0, 1} : got' = [got EXCEPT ![t] = [None EXCEPT !.val = v]]
     /\ Goto(t, "store") /\ UNCHANGED <<op, cmd, todo>>

-----------------------------------------------------------------------------
(* read_ec_data and write_ec_data. *)

WriteData(t) ==
  /\ At(t, "vdat", "vpcw")
  /\ VDAT' = [None EXCEPT !.of = "W"]
  /\ UNCHANGED <<controller, VCMD, fields, op, cmd, todo, got, history>>

WriteCommand(t) ==
  /\ At(t, "vpcw", "poll")
  /\ VCMD' = cmd[t]
  /\ UNCHANGED <<controller, VDAT, fields, op, cmd, todo, got, history>>

Polled(t) ==
  /\ IF op[t] = "write" THEN Return(t) ELSE Goto(t, "data") /\ UNCHANGED <<op, cmd, todo, got>>
  /\ UNCHANGED <<controller, mailbox, fields, history>>

PollOnce(t) ==  \* mutant: the answer is taken without waiting for it
  pc[t] = "poll" /\ Polled(t)

(* A poll that finds the command still there changes nothing.              *)
Poll(t) ==
  pc[t] = "poll" /\ VCMD = Free /\ Polled(t)

ReadData(t) ==
  /\ pc[t] = "data"
  /\ Received(t, VDAT)
  /\ UNCHANGED <<controller, mailbox, fields, history>>

(* VPCR or VPCW fails.                                                     *)
Fail(t) ==
  /\ pc[t] \in {"vdat", "vpcw", "poll", "data"}
  /\ GivesUp(t)
  /\ doubt' = TRUE
  /\ UNCHANGED <<controller, mailbox, fields, alone, clean, presses>>

(* The deadline passes; the command stays where it is.                     *)
Timeout(t) ==
  /\ pc[t] = "poll" /\ VCMD # Free
  /\ GivesUp(t)
  /\ doubt' = TRUE
  /\ UNCHANGED <<controller, mailbox, fields, alone, clean, presses>>

-----------------------------------------------------------------------------
(* A reading that succeeded, of a request that is alone, leaves no doubt.  *)
Store(t) ==
  /\ pc[t] = "store"
  /\ TouchPadEnabledHW' = (got[t].val # 0)
  /\ doubt' = (doubt /\ ~(alone /\ got[t].of # Free))
  /\ NextOf(t, todo[t])
  /\ UNCHANGED <<controller, mailbox, backlightLevel, alone, clean, presses>>

-----------------------------------------------------------------------------
(* updateKeyboard.  HALS tells whether the keyboard is lit; the level is   *)
(* inferred from the brightness cycle 0 -> 1 -> 2 -> 0.                    *)

Update(t) == op[t] \in {"events", "update"}

AfterKeyboard(t) ==
  CASE op[t] = "before" -> Send(t, "R_VPC1") /\ op' = [op EXCEPT ![t] = "update"]
                           /\ got' = [got EXCEPT ![t] = None] /\ UNCHANGED todo
    [] op[t] = "after" -> Return(t)
    [] OTHER -> NextOf(t, todo[t])

(* A reading that finds the keyboard dark tells the level whatever it was. *)
EvaluateHALS(t) ==
  /\ At(t, "hals", "level")
  /\ got' = [got EXCEPT ![t] = [None EXCEPT !.val = IF keyboard = 0 THEN 0 ELSE 1]]
  /\ presses' = IF alone /\ keyboard = 0 THEN "seen"
                ELSE IF presses = (IF Update(t) THEN "unseen" ELSE "seen") THEN "seen"
                ELSE "missed"
  /\ UNCHANGED <<controller, mailbox, fields, op, cmd, todo, alone, clean, doubt>>

FailHALS(t) ==
  /\ pc[t] = "hals"
  /\ AfterKeyboard(t)
  /\ UNCHANGED <<controller, mailbox, fields, history>>

InferAlike(level, lit, update) ==  \* mutant: levels are not preserved by a refresh
  IF ~lit THEN 0 ELSE IF level = 0 THEN 1 ELSE 2

Infer(level, lit, update) ==
  LET from == IF ~update /\ level # 0 THEN level - 1 ELSE level IN
  IF ~lit THEN 0 ELSE IF from = 0 THEN 1 ELSE 2

SetLevel(t) ==
  /\ pc[t] = "level"
  /\ backlightLevel' = Infer(backlightLevel, got[t].val # 0, Update(t))
  /\ AfterKeyboard(t)
  /\ UNCHANGED <<controller, mailbox, TouchPadEnabledHW, history>>

Step(t) ==
  \/ WriteData(t) \/ WriteCommand(t) \/ Poll(t) \/ ReadData(t) \/ Fail(t) \/ Timeout(t)
  \/ Store(t)
  \/ EvaluateHALS(t) \/ FailHALS(t) \/ SetLevel(t)

-----------------------------------------------------------------------------
(* Requests. *)

Message == Begin("acpi", "events", "vpcw", "R_VPC1")

BrightnessAction == brightnessPoller /\ Begin("gate", "events", "vpcw", "R_VPC1")

UpdateAll == Begin("gate", "before", "hals", Free)

WriteEC == Begin("gate", "write", "vdat", "W")

-----------------------------------------------------------------------------
(* The controller. *)

Reply(bits, val) == [of |-> VCMD, bits |-> bits, val |-> val]

(* VPC1 and VPC2 hold eight bits each and are cleared as they are read; a  *)
(* write clears VDAT.                                                      *)
Answer ==
  /\ VCMD # Free /\ VCMD' = Free
  /\ VDAT' = CASE VCMD = "R_VPC1" -> Reply(events \cap 0..7, 0)
               [] VCMD = "R_VPC2" -> Reply(events \cap 8..15, 0)
               [] VCMD = "R_TOUCHPAD" -> Reply({}, IF touchpad THEN 1 ELSE 0)
               [] VCMD = "W" -> None
  /\ events' = events \ (CASE VCMD = "R_VPC1" -> 0..7 [] VCMD = "R_VPC2" -> 8..15 [] OTHER -> {})
  /\ UNCHANGED <<keyboard, touchpad, fields, locals, history>>

PressBacklight ==
  /\ keyboard' = (keyboard + 1) % 3
  /\ events' = events \cup {keyboardBit}
  /\ presses' = IF presses = "seen" THEN "unseen" ELSE "missed"
  /\ UNCHANGED <<touchpad, mailbox, fields, locals, alone, clean, doubt>>

PressTouchPad ==
  /\ touchpad' = ~touchpad
  /\ events' = events \cup {touchpadBit}
  /\ UNCHANGED <<keyboard, mailbox, fields, locals, history>>

Keys == PressBacklight \/ PressTouchPad

-----------------------------------------------------------------------------
(* initVPC and start's updateAll leave the level 0 or 1.                   *)
Init ==
  /\ events = {}
  /\ keyboard \in 0..2 /\ touchpad \in BOOLEAN
  /\ VCMD = Free /\ VDAT = None
  /\ backlightLevel = (IF keyboard = 0 THEN 0 ELSE 1)
  /\ TouchPadEnabledHW = TRUE
  /\ pc = [t \in Threads |-> "idle"]
  /\ op = [t \in Threads |-> "none"]
  /\ cmd = [t \in Threads |-> Free]
  /\ todo = [t \in Threads |-> {}]
  /\ got = [t \in Threads |-> None]
  /\ alone = FALSE /\ clean = FALSE
  /\ presses = "missed" /\ doubt = TRUE

Requests == Message \/ BrightnessAction \/ UpdateAll \/ WriteEC

Next == (\E t \in Threads : Step(t)) \/ Requests \/ Answer \/ Keys

Spec == Init /\ [][Next]_vars

-----------------------------------------------------------------------------

(* A caller nobody has interrupted reads the answer to its own command,    *)
(* even where an earlier command had been given up and left in VCMD; and   *)
(* what the controller executes for a write is the value that was meant,   *)
(* if VCMD was free when the write began (IdeaVPC.cpp:872-904).            *)
ExchangeIsOwn ==
  /\ \A t \in Threads : pc[t] = "data" /\ alone => VDAT.of = cmd[t]
  /\ VCMD = "W" /\ clean => VDAT.of = "W"

(* Once the key's events have been reported and handled by one thread, the *)
(* driver's idea of the touchpad is the controller's, whatever failed,     *)
(* timed out or overlapped before (IdeaVPC.cpp:798-810).                   *)
TouchPadFollows ==
  Quiet /\ touchpadBit \notin events /\ ~doubt => TouchPadEnabledHW = touchpad

(* The inferred level is the keyboard's: one dark reading repairs it, and  *)
(* from then on every press that is seen before the next one keeps it,     *)
(* and so does a refresh that comes between two (IdeaVPC.cpp:578-584).     *)
LevelFollowsCycle ==
  Quiet /\ presses = "seen" => backlightLevel = keyboard

=============================================================================
