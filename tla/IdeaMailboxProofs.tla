-------------------------- MODULE IdeaMailboxProofs --------------------------
(***************************************************************************)
(* With the brightness polled or not: who owns the mailbox, and what the   *)
(* driver knows of the touchpad and of the keyboard's backlight, whatever  *)
(* overlaps, fails or is given up.                                         *)
(***************************************************************************)
EXTENDS IdeaMailbox, TLAPS

Reads == {"R_VPC1", "R_VPC2", "R_TOUCHPAD"}
Commands == Reads \cup {"W", Free}
Bits == 0 .. 15
Data == [of : Commands, bits : SUBSET Bits, val : {0, 1}]

(* The steps of each request, with the commands it sends.                  *)
ThreadOK(t) ==
  /\ \/ op[t] = "none" /\ pc[t] = "idle" /\ cmd[t] = Free
     \/ op[t] = "write" /\ pc[t] \in {"vdat", "vpcw", "poll"} /\ cmd[t] = "W"
     \/ op[t] \in {"events", "update"} /\ pc[t] \in {"vpcw", "poll", "data"} /\ cmd[t] \in Reads
     \/ op[t] \in {"events", "update"} /\ pc[t] = "store" /\ cmd[t] = "R_TOUCHPAD"
     \/ op[t] \in {"events", "update", "before", "after"} /\ pc[t] \in {"hals", "level"} /\ cmd[t] = Free
  /\ todo[t] \in SUBSET Bits /\ got[t] \in Data
  /\ op[t] \notin {"events", "update"} \/ cmd[t] = "R_VPC1" => todo[t] = {}

TypeOK ==
  /\ events \subseteq Bits /\ keyboard \in 0 .. 2 /\ touchpad \in BOOLEAN
  /\ VCMD \in Commands /\ VDAT \in Data
  /\ backlightLevel \in 0 .. 2 /\ TouchPadEnabledHW \in BOOLEAN
  /\ DOMAIN pc = Threads /\ DOMAIN op = Threads /\ DOMAIN cmd = Threads
  /\ DOMAIN todo = Threads /\ DOMAIN got = Threads
  /\ \A t \in Threads : ThreadOK(t)
  /\ alone \in BOOLEAN /\ clean \in BOOLEAN /\ doubt \in BOOLEAN
  /\ presses \in {"seen", "unseen", "missed"}

(* The history variables speak only of requests that do not overlap.       *)
Alone(t) == \A u \in Threads \ {t} : pc[u] = "idle"
AloneIsAlone ==
  /\ alone => \A t \in Threads : pc[t] # "idle" => Alone(t)
  /\ clean \/ ~doubt \/ presses # "missed" => Quiet \/ alone

(* The mailbox, for a request that is alone: once its command is gone the  *)
(* answer is there, and nobody else has another executed.                  *)
Follows(val) == (val # 0 <=> touchpad) \/ touchpadBit \in events
Exchange(t) ==
  /\ pc[t] = "poll" => VCMD \in {Free, cmd[t]}
  /\ pc[t] = "data" => VCMD = Free
  /\ pc[t] \in {"poll", "data"} /\ VCMD = Free /\ cmd[t] # "W" => VDAT.of = cmd[t]
  /\ pc[t] \in {"poll", "data"} /\ VCMD = Free /\ cmd[t] = "R_TOUCHPAD" => Follows(VDAT.val)
  /\ pc[t] = "store" /\ got[t].of # Free => VCMD = Free /\ Follows(got[t].val)
ExchangeInv == alone => \A t \in Threads : Exchange(t)

CleanWrite(t) ==
  /\ op[t] \in {"none", "write"}
  /\ pc[t] \in {"vdat", "vpcw"} => VCMD = Free
  /\ pc[t] = "vpcw" => VDAT.of = "W"
CleanInv == clean => (VCMD = "W" => VDAT.of = "W") /\ \A t \in Threads : CleanWrite(t)

(* A press of the touchpad's key that the driver has not heard of: a       *)
(* thread is about to.                                                     *)
Carries(t) ==
  \/ touchpadBit \in todo[t]
  \/ cmd[t] = "R_VPC1" /\ pc[t] \in {"poll", "data"} /\ VCMD = Free /\ touchpadBit \in VDAT.bits
  \/ cmd[t] = "R_TOUCHPAD"
TouchPadInv ==
  ~doubt =>
    /\ (\A t \in Threads : pc[t] # "poll") => VCMD = Free
    /\ \A t \in Threads : pc[t] = "store" => got[t].of # Free
    /\ \/ TouchPadEnabledHW = touchpad
       \/ touchpadBit \in events
       \/ \E t \in Threads : Carries(t)

(* The level against the keyboard's cycle: a press behind it, or not; and  *)
(* the same of the level that is about to be stored.                       *)
Behind(level) == CASE presses = "seen" -> keyboard = level
                   [] presses = "unseen" -> keyboard = (level + 1) % 3
                   [] OTHER -> TRUE
LevelInv ==
  /\ (\A t \in Threads : pc[t] # "level") => Behind(backlightLevel)
  /\ \A t \in Threads : pc[t] = "level" => Behind(Infer(backlightLevel, got[t].val # 0, Update(t)))

MailboxInv == /\ TypeOK /\ AloneIsAlone
              /\ ExchangeInv /\ CleanInv /\ TouchPadInv /\ LevelInv

-----------------------------------------------------------------------------
USE DEF Threads

(* What a thread in the course of its request can rely on.                 *)
Heard == \/ TouchPadEnabledHW = touchpad
         \/ touchpadBit \in events

LEMMA InCourse ==
  ASSUME MailboxInv, NEW t \in Threads, pc[t] # "idle"
  PROVE  /\ TypeOK /\ ThreadOK(t)
         /\ alone => Alone(t) /\ Exchange(t)
         /\ clean => alone /\ CleanWrite(t) /\ (VCMD = "W" => VDAT.of = "W")
         /\ ~doubt => /\ alone /\ (Heard \/ Carries(t))
                      /\ pc[t] # "poll" => VCMD = Free
                      /\ pc[t] = "store" => got[t].of # Free
         /\ presses # "missed" =>
              /\ alone
              /\ pc[t] # "level" => Behind(backlightLevel)
              /\ pc[t] = "level" => Behind(Infer(backlightLevel, got[t].val # 0, Update(t)))
<1>1. TypeOK /\ ThreadOK(t)
  BY DEF MailboxInv, TypeOK
<1>2. /\ clean \/ ~doubt \/ presses # "missed" => alone
      /\ alone => Alone(t)
  BY DEF MailboxInv, AloneIsAlone, Quiet
<1>3. \A u \in Threads : pc[u] = "idle" => ~Carries(u)
  BY <1>1 DEF TypeOK, ThreadOK, Carries, Reads, Free
<1>4. /\ alone => Exchange(t)
      /\ clean => CleanWrite(t) /\ (VCMD = "W" => VDAT.of = "W")
  BY DEF MailboxInv, ExchangeInv, CleanInv
<1>5. ~doubt => /\ Heard \/ Carries(t)
                /\ pc[t] # "poll" => VCMD = Free
                /\ pc[t] = "store" => got[t].of # Free
  BY <1>2, <1>3 DEF MailboxInv, TouchPadInv, Alone, Heard
<1>6. presses # "missed" =>
        /\ pc[t] # "level" => Behind(backlightLevel)
        /\ pc[t] = "level" => Behind(Infer(backlightLevel, got[t].val # 0, Update(t)))
  BY <1>2 DEF MailboxInv, LevelInv, Alone
<1>. QED  BY <1>1, <1>2, <1>4, <1>5, <1>6

(* What a step of thread t leaves alone: the other threads.                *)
Elsewhere(t) ==
  /\ \A u \in Threads \ {t} : /\ pc'[u] = pc[u] /\ op'[u] = op[u] /\ cmd'[u] = cmd[u]
                             /\ todo'[u] = todo[u] /\ got'[u] = got[u]
  /\ DOMAIN pc' = Threads /\ DOMAIN op' = Threads /\ DOMAIN cmd' = Threads
  /\ DOMAIN todo' = Threads /\ DOMAIN got' = Threads

(* A step of a thread in the course of its request.                        *)
LEMMA ThreadStep ==
  ASSUME MailboxInv, NEW t \in Threads, pc[t] # "idle", Elsewhere(t), ThreadOK(t)',
         UNCHANGED <<controller, alone, clean>>,
         VCMD' \in Commands, VDAT' \in Data, backlightLevel' \in 0 .. 2,
         TouchPadEnabledHW' \in BOOLEAN, doubt' \in BOOLEAN,
         presses' \in {"seen", "unseen", "missed"},
         ~doubt' => alone, presses' # "missed" => alone,
         alone => Exchange(t)',
         clean => CleanWrite(t)' /\ (VCMD' = "W" => VDAT'.of = "W"),
         ~doubt' => /\ Heard' \/ Carries(t)'
                    /\ pc'[t] # "poll" => VCMD' = Free
                    /\ pc'[t] = "store" => got'[t].of # Free,
         presses' # "missed" =>
           /\ pc'[t] # "level" => Behind(backlightLevel)'
           /\ pc'[t] = "level" => Behind(Infer(backlightLevel, got[t].val # 0, Update(t)))'
  PROVE  MailboxInv'
<1>1. TypeOK'
  <2>1. \A u \in Threads : ThreadOK(u)'
    BY DEF MailboxInv, TypeOK, ThreadOK, Elsewhere
  <2>. QED  BY <2>1 DEF MailboxInv, TypeOK, controller, Elsewhere
<1>2. /\ clean => alone
      /\ alone => Alone(t) /\ Alone(t)'
  BY InCourse DEF Alone, Elsewhere
<1>3. AloneIsAlone'
  BY <1>2 DEF AloneIsAlone, Alone, Quiet
<1>4. alone => \A u \in Threads \ {t} : pc'[u] = "idle" /\ op'[u] = "none" /\ cmd'[u] = Free
  BY <1>1, <1>2 DEF Alone, TypeOK, ThreadOK
<1>5. ExchangeInv'
  <2>. SUFFICES ASSUME alone, NEW u \in Threads \ {t}  PROVE  Exchange(u)'
    BY DEF ExchangeInv
  <2>. QED  BY <1>4 DEF Exchange
<1>6. CleanInv'
  <2>. SUFFICES ASSUME clean, NEW u \in Threads \ {t}  PROVE  CleanWrite(u)'
    BY DEF CleanInv
  <2>. QED  BY <1>2, <1>4 DEF CleanWrite
<1>7. TouchPadInv'
  BY <1>4 DEF TouchPadInv, Heard
<1>8. LevelInv'
  <2>1. CASE presses' = "missed"
    BY <2>1 DEF LevelInv, Behind
  <2>2. CASE presses' # "missed"
    BY <1>4, <2>2 DEF LevelInv
  <2>. QED  BY <2>1, <2>2
<1>. QED  BY <1>1, <1>3, <1>5, <1>6, <1>7, <1>8 DEF MailboxInv

-----------------------------------------------------------------------------
(* What a caller does next.  It goes on to one of three steps, and does    *)
(* not lose sight of the touchpad.                                         *)
Onward(t) ==
  /\ Elsewhere(t) /\ ThreadOK(t)'
  /\ pc'[t] \in {"idle", "vpcw", "hals"} /\ op'[t] # "write"

LEMMA ReturnOnward ==
  ASSUME TypeOK, NEW t \in Threads, Return(t)
  PROVE  Onward(t) /\ pc'[t] = "idle" /\ op'[t] = "none"
  BY DEF TypeOK, Return, Goto, Onward, Elsewhere, ThreadOK, None, Data, Commands, Free

LEMMA LeaveOnward ==
  ASSUME TypeOK, NEW t \in Threads, LeaveVPC(t)
  PROVE  Onward(t)
<1>1. CASE op[t] = "update"
  BY <1>1 DEF TypeOK, LeaveVPC, Goto, Onward, Elsewhere, ThreadOK, None, Data, Commands, Free
<1>2. CASE op[t] # "update"
  BY <1>2, ReturnOnward DEF LeaveVPC
<1>. QED  BY <1>1, <1>2

LEMMA NextOfOnward ==
  ASSUME TypeOK, NEW t \in Threads, op[t] \in {"events", "update"}, NEW bits \in SUBSET Bits,
         NextOf(t, bits)
  PROVE  Onward(t) /\ (touchpadBit \in bits => Carries(t)')
<1>1. CASE bits = {}
  BY <1>1, LeaveOnward DEF NextOf
<1>2. CASE bits # {}
  <2>. DEFINE b == Min(bits)
  <2>1. /\ todo' = [todo EXCEPT ![t] = bits \ {b}]
        /\ got' = [got EXCEPT ![t] = None] /\ op' = op
        /\ IF b = touchpadBit
           THEN pc' = [pc EXCEPT ![t] = "vpcw"] /\ cmd' = [cmd EXCEPT ![t] = "R_TOUCHPAD"]
           ELSE pc' = [pc EXCEPT ![t] = "hals"] /\ cmd' = [cmd EXCEPT ![t] = Free]
    BY <1>2 DEF NextOf, Send, Goto
  <2>. HIDE DEF b
  <2>2. bits \ {b} \in SUBSET Bits
    OBVIOUS
  <2>. QED
    BY <2>1, <2>2 DEF TypeOK, Onward, Elsewhere, ThreadOK, Carries, None, Data, Commands, Reads, Free
<1>. QED  BY <1>1, <1>2

LEMMA AfterKeyboardOnward ==
  ASSUME TypeOK, NEW t \in Threads, ThreadOK(t), pc[t] \in {"hals", "level"}, AfterKeyboard(t)
  PROVE  Onward(t) /\ (Carries(t) => Carries(t)')
<1>1. CASE op[t] = "before"
  <2>1. pc' = [pc EXCEPT ![t] = "vpcw"] /\ cmd' = [cmd EXCEPT ![t] = "R_VPC1"]
        /\ op' = [op EXCEPT ![t] = "update"] /\ got' = [got EXCEPT ![t] = None] /\ todo' = todo
    BY <1>1 DEF AfterKeyboard, Send, Goto
  <2>. QED
    BY <1>1, <2>1 DEF TypeOK, Onward, Elsewhere, ThreadOK, Carries, None, Data, Commands, Reads, Free
<1>2. CASE op[t] = "after"
  BY <1>2, ReturnOnward DEF AfterKeyboard, ThreadOK, Carries, Reads, Free
<1>3. CASE op[t] \in {"events", "update"}
  <2>1. NextOf(t, todo[t])
    BY <1>3 DEF AfterKeyboard
  <2>2. todo[t] \in SUBSET Bits /\ (Carries(t) => touchpadBit \in todo[t])
    BY <1>3 DEF ThreadOK, Carries, Reads, Free
  <2>. QED  BY <1>3, <2>1, <2>2, NextOfOnward
<1>. QED  BY <1>1, <1>2, <1>3 DEF ThreadOK

(* A failed access ends the write, or the reading, or leaves the touchpad  *)
(* with what result happens to hold.                                       *)
LEMMA GivesUpOnward ==
  ASSUME TypeOK, NEW t \in Threads, ThreadOK(t), pc[t] \in {"vdat", "vpcw", "poll", "data"},
         GivesUp(t)
  PROVE  \/ Onward(t) /\ (op[t] = "write" => op'[t] = "none" /\ pc'[t] = "idle")
         \/ /\ Elsewhere(t) /\ ThreadOK(t)' /\ pc'[t] = "store" /\ got'[t].of = Free
            /\ op[t] # "write"
<1>1. CASE cmd[t] = "W" /\ Return(t)
  BY <1>1, ReturnOnward
<1>2. CASE cmd[t] = "R_VPC1" /\ LeaveVPC(t)
  BY <1>2, LeaveOnward DEF ThreadOK, Free, Reads
<1>3. CASE cmd[t] = "R_VPC2" /\ NextOf(t, todo[t])
  <2>1. op[t] \in {"events", "update"} /\ todo[t] \in SUBSET Bits
    BY <1>3 DEF ThreadOK, Free, Reads
  <2>. QED  BY <1>3, <2>1, NextOfOnward
<1>4. CASE /\ cmd[t] = "R_TOUCHPAD"
           /\ \E v \in {0, 1} : got' = [got EXCEPT ![t] = [None EXCEPT !.val = v]]
           /\ Goto(t, "store") /\ UNCHANGED <<op, cmd, todo>>
  <2>1. PICK v \in {0, 1} : got' = [got EXCEPT ![t] = [None EXCEPT !.val = v]]
    BY <1>4
  <2>2. [None EXCEPT !.val = v] \in Data /\ [None EXCEPT !.val = v].of = Free
    BY DEF None, Data, Commands, Free
  <2>3. got'[t] \in Data /\ got'[t].of = Free
    BY <2>1, <2>2 DEF TypeOK
  <2>. QED  BY <1>4, <2>1, <2>3 DEF TypeOK, Goto, Elsewhere, ThreadOK, Free, Reads
<1>. QED  BY <1>1, <1>2, <1>3, <1>4 DEF GivesUp

(* Going on disturbs nothing the mailbox or the history variables say.     *)
LEMMA OnwardKeeps ==
  ASSUME NEW t \in Threads, Onward(t)
  PROVE  Exchange(t)' /\ pc'[t] \notin {"poll", "store", "level"}
  BY DEF Onward, Exchange

LEMMA GotoElsewhere ==
  ASSUME TypeOK, NEW t \in Threads, NEW step, Goto(t, step), UNCHANGED <<op, cmd, todo>>,
         got' = got \/ \E g : got' = [got EXCEPT ![t] = g]
  PROVE  /\ Elsewhere(t)
         /\ pc'[t] = step /\ op'[t] = op[t] /\ cmd'[t] = cmd[t] /\ todo'[t] = todo[t]
  BY DEF TypeOK, Goto, Elsewhere

LEMMA DataRecord ==
  ASSUME NEW d \in Data
  PROVE  d.of \in Commands /\ d.bits \in SUBSET Bits /\ d.val \in {0, 1}
  BY DEF Data

-----------------------------------------------------------------------------
(* The mailbox.                                                            *)

LEMMA WriteDataPreserves ==
  ASSUME MailboxInv, NEW t \in Threads, WriteData(t)
  PROVE  MailboxInv'
<1>1. /\ pc[t] = "vdat" /\ Goto(t, "vpcw") /\ VDAT' = [None EXCEPT !.of = "W"]
      /\ UNCHANGED <<controller, VCMD, backlightLevel, TouchPadEnabledHW, op, cmd, todo, got,
                     alone, clean, presses, doubt>>
  BY DEF WriteData, At, fields, history
<1>2. TypeOK /\ ThreadOK(t)
  BY <1>1, InCourse
<1>3. /\ Elsewhere(t) /\ pc'[t] = "vpcw"
      /\ op'[t] = op[t] /\ cmd'[t] = cmd[t] /\ todo'[t] = todo[t] /\ got'[t] = got[t]
  BY <1>1, <1>2, GotoElsewhere
<1>4. VDAT' \in Data /\ VDAT'.of = "W"
  BY <1>1 DEF None, Data, Commands, Free
<1>5. op[t] = "write" /\ ThreadOK(t)'
  BY <1>1, <1>2, <1>3 DEF ThreadOK
<1>6. ~Carries(t)
  BY <1>1, <1>2 DEF ThreadOK, Carries, Reads
<1>7. alone => Exchange(t)'
  BY <1>3 DEF Exchange
<1>8. clean => CleanWrite(t)' /\ (VCMD' = "W" => VDAT'.of = "W")
  BY <1>1, <1>3, <1>4, InCourse DEF CleanWrite
<1>9. ~doubt' => alone /\ Heard' /\ VCMD' = Free
  BY <1>1, <1>6, InCourse DEF Heard, controller
<1>10. presses' # "missed" => alone /\ Behind(backlightLevel)'
  BY <1>1, InCourse DEF Behind, controller
<1>. QED
  BY <1>1, <1>2, <1>3, <1>4, <1>5, <1>7, <1>8, <1>9, <1>10, ThreadStep DEF TypeOK

LEMMA WriteCommandPreserves ==
  ASSUME MailboxInv, NEW t \in Threads, WriteCommand(t)
  PROVE  MailboxInv'
<1>1. /\ pc[t] = "vpcw" /\ Goto(t, "poll") /\ VCMD' = cmd[t]
      /\ UNCHANGED <<controller, VDAT, backlightLevel, TouchPadEnabledHW, op, cmd, todo, got,
                     alone, clean, presses, doubt>>
  BY DEF WriteCommand, At, fields, history
<1>2. TypeOK /\ ThreadOK(t)
  BY <1>1, InCourse
<1>3. /\ Elsewhere(t) /\ pc'[t] = "poll"
      /\ op'[t] = op[t] /\ cmd'[t] = cmd[t] /\ todo'[t] = todo[t] /\ got'[t] = got[t]
  BY <1>1, <1>2, GotoElsewhere
<1>4. cmd[t] \in Commands /\ cmd[t] # Free /\ ThreadOK(t)'
  BY <1>1, <1>2, <1>3 DEF ThreadOK, Commands, Reads, Free
<1>5. alone => Exchange(t)'
  BY <1>1, <1>3, <1>4 DEF Exchange
<1>6. clean => CleanWrite(t)' /\ (VCMD' = "W" => VDAT'.of = "W")
  BY <1>1, <1>3, InCourse DEF CleanWrite
<1>7. ~doubt' => alone /\ (Heard' \/ Carries(t)')
  BY <1>1, <1>3, InCourse DEF Heard, Carries, controller
<1>8. presses' # "missed" => alone /\ Behind(backlightLevel)'
  BY <1>1, InCourse DEF Behind, controller
<1>. QED
  BY <1>1, <1>2, <1>3, <1>4, <1>5, <1>6, <1>7, <1>8, ThreadStep DEF TypeOK

LEMMA PollPreserves ==
  ASSUME MailboxInv, NEW t \in Threads, Poll(t)
  PROVE  MailboxInv'
<1>1. /\ pc[t] = "poll" /\ VCMD = Free
      /\ UNCHANGED <<controller, VCMD, VDAT, backlightLevel, TouchPadEnabledHW,
                     alone, clean, presses, doubt>>
  BY DEF Poll, Polled, mailbox, fields, history
<1>2. TypeOK /\ ThreadOK(t)
  BY <1>1, InCourse
<1>3. presses' # "missed" => alone /\ Behind(backlightLevel)'
  BY <1>1, InCourse DEF Behind, controller
<1>4. CASE op[t] = "write" /\ Return(t)
  <2>1. Onward(t) /\ pc'[t] = "idle" /\ op'[t] = "none"
    BY <1>2, <1>4, ReturnOnward
  <2>2. ~Carries(t)
    BY <1>1, <1>2, <1>4 DEF ThreadOK, Carries, Reads
  <2>3. ~doubt' => alone /\ Heard'
    BY <1>1, <2>2, InCourse DEF Heard, controller
  <2>4. clean => CleanWrite(t)' /\ (VCMD' = "W" => VDAT'.of = "W")
    BY <1>1, <2>1, InCourse DEF CleanWrite
  <2>. QED
    BY <1>1, <1>2, <1>3, <2>1, <2>3, <2>4, OnwardKeeps, ThreadStep DEF TypeOK, Onward
<1>5. CASE op[t] # "write" /\ Goto(t, "data") /\ UNCHANGED <<op, cmd, todo, got>>
  <2>1. /\ Elsewhere(t) /\ pc'[t] = "data"
        /\ op'[t] = op[t] /\ cmd'[t] = cmd[t] /\ todo'[t] = todo[t] /\ got'[t] = got[t]
    BY <1>2, <1>5, GotoElsewhere
  <2>2. cmd[t] # "W" /\ ThreadOK(t)'
    BY <1>1, <1>2, <1>5, <2>1 DEF ThreadOK, Reads, Free
  <2>3. alone => Exchange(t)'
    BY <1>1, <2>1, <2>2, InCourse DEF Exchange, Follows, controller
  <2>4. ~clean
    BY <1>1, <1>2, <1>5, InCourse DEF CleanWrite, ThreadOK
  <2>5. ~doubt' => alone /\ (Heard' \/ Carries(t)')
    BY <1>1, <2>1, InCourse DEF Heard, Carries, controller
  <2>. QED
    BY <1>1, <1>2, <1>3, <2>1, <2>2, <2>3, <2>4, <2>5, ThreadStep DEF TypeOK
<1>. QED  BY <1>4, <1>5 DEF Poll, Polled

LEMMA ReadDataPreserves ==
  ASSUME MailboxInv, NEW t \in Threads, ReadData(t)
  PROVE  MailboxInv'
<1>1. /\ pc[t] = "data" /\ Received(t, VDAT)
      /\ UNCHANGED <<controller, VCMD, VDAT, backlightLevel, TouchPadEnabledHW,
                     alone, clean, presses, doubt>>
  BY DEF ReadData, mailbox, fields, history
<1>2. TypeOK /\ ThreadOK(t) /\ VDAT \in Data
  BY <1>1, InCourse DEF TypeOK
<1>3. op[t] \in {"events", "update"} /\ cmd[t] \in Reads /\ todo[t] \in SUBSET Bits
  BY <1>1, <1>2 DEF ThreadOK
<1>4. VDAT.bits \in SUBSET Bits
  BY <1>2, DataRecord
<1>5. /\ Elsewhere(t) /\ ThreadOK(t)' /\ pc'[t] \notin {"poll", "data", "level"}
      /\ Carries(t) => Carries(t)'
      /\ pc'[t] = "store" => cmd[t] = "R_TOUCHPAD" /\ got'[t] = VDAT
  <2>1. CASE cmd[t] = "R_VPC1"
    <3>1. /\ todo' = [todo EXCEPT ![t] = VDAT.bits]
          /\ pc' = [pc EXCEPT ![t] = "vpcw"] /\ cmd' = [cmd EXCEPT ![t] = "R_VPC2"]
          /\ op' = op /\ got' = got
      BY <1>1, <2>1 DEF Received, Send, Goto
    <3>2. Carries(t) => touchpadBit \in VDAT.bits
      BY <1>2, <1>3, <2>1 DEF Carries, ThreadOK
    <3>. QED
      BY <1>2, <1>3, <1>4, <3>1, <3>2 DEF TypeOK, Elsewhere, ThreadOK, Carries, Reads
  <2>2. CASE cmd[t] = "R_VPC2"
    <3>1. NextOf(t, todo[t] \cup VDAT.bits)
      BY <1>1, <2>2 DEF Received
    <3>2. Carries(t) => touchpadBit \in todo[t] \cup VDAT.bits
      BY <2>2 DEF Carries
    <3>3. todo[t] \cup VDAT.bits \in SUBSET Bits
      BY <1>3, <1>4
    <3>. QED  BY <1>2, <1>3, <3>1, <3>2, <3>3, NextOfOnward DEF Onward
  <2>3. CASE cmd[t] = "R_TOUCHPAD"
    <3>1. /\ got' = [got EXCEPT ![t] = VDAT] /\ Goto(t, "store") /\ UNCHANGED <<op, cmd, todo>>
      BY <1>1, <2>3 DEF Received
    <3>. QED
      BY <1>2, <1>3, <2>3, <3>1 DEF TypeOK, Goto, Elsewhere, ThreadOK, Carries, Reads
  <2>. QED  BY <1>3, <2>1, <2>2, <2>3 DEF Reads
<1>6. alone => VCMD = Free /\ VDAT.of = cmd[t] /\ (cmd[t] = "R_TOUCHPAD" => Follows(VDAT.val))
  BY <1>1, <1>3, InCourse DEF Exchange, Reads
<1>7. alone => Exchange(t)'
  BY <1>1, <1>5, <1>6 DEF Exchange, Follows, controller
<1>8. ~clean
  BY <1>1, <1>3, InCourse DEF CleanWrite
<1>9. ~doubt' => /\ alone /\ (Heard' \/ Carries(t)') /\ VCMD' = Free
                 /\ pc'[t] = "store" => got'[t].of # Free
  BY <1>1, <1>5, <1>6, InCourse DEF Heard, controller, Free
<1>10. presses' # "missed" => alone /\ Behind(backlightLevel)'
  BY <1>1, InCourse DEF Behind, controller
<1>. QED
  BY <1>1, <1>2, <1>5, <1>7, <1>8, <1>9, <1>10, ThreadStep DEF TypeOK

LEMMA GivesUpPreserves ==
  ASSUME MailboxInv, NEW t \in Threads, Fail(t) \/ Timeout(t)
  PROVE  MailboxInv'
<1>1. /\ pc[t] \in {"vdat", "vpcw", "poll", "data"} /\ GivesUp(t) /\ doubt' = TRUE
      /\ UNCHANGED <<controller, VCMD, VDAT, backlightLevel, TouchPadEnabledHW,
                     alone, clean, presses>>
  BY DEF Fail, Timeout, mailbox, fields
<1>2. TypeOK /\ ThreadOK(t)
  BY <1>1, InCourse
<1>3. /\ Elsewhere(t) /\ ThreadOK(t)' /\ pc'[t] \in {"idle", "vpcw", "hals", "store"}
      /\ pc'[t] = "store" => got'[t].of = Free
      /\ op[t] = "write" => op'[t] = "none" /\ pc'[t] = "idle"
  BY <1>1, <1>2, GivesUpOnward DEF Onward
<1>4. alone => Exchange(t)'
  BY <1>3 DEF Exchange
<1>5. clean => op[t] = "write" /\ (VCMD = "W" => VDAT.of = "W")
  BY <1>1, <1>2, InCourse DEF CleanWrite, ThreadOK
<1>6. clean => CleanWrite(t)' /\ (VCMD' = "W" => VDAT'.of = "W")
  BY <1>1, <1>3, <1>5 DEF CleanWrite
<1>7. presses' # "missed" => alone /\ Behind(backlightLevel)'
  BY <1>1, InCourse DEF Behind, controller
<1>. QED  BY <1>1, <1>2, <1>3, <1>4, <1>6, <1>7, ThreadStep DEF TypeOK

LEMMA StorePreserves ==
  ASSUME MailboxInv, NEW t \in Threads, Store(t)
  PROVE  MailboxInv'
<1>1. /\ pc[t] = "store" /\ TouchPadEnabledHW' = (got[t].val # 0)
      /\ doubt' = (doubt /\ ~(alone /\ got[t].of # Free)) /\ NextOf(t, todo[t])
      /\ UNCHANGED <<controller, VCMD, VDAT, backlightLevel, alone, clean, presses>>
  BY DEF Store, mailbox
<1>2. TypeOK /\ ThreadOK(t)
  BY <1>1, InCourse
<1>3. op[t] \in {"events", "update"} /\ todo[t] \in SUBSET Bits
  BY <1>1, <1>2 DEF ThreadOK
<1>4. Onward(t)
  BY <1>1, <1>2, <1>3, NextOfOnward
<1>5. ~doubt' => alone /\ got[t].of # Free
  BY <1>1, <1>2, InCourse DEF TypeOK
<1>6. ~doubt' => Heard' /\ VCMD' = Free
  BY <1>1, <1>2, <1>5, InCourse DEF Exchange, Follows, Heard, controller, TypeOK
<1>7. ~clean
  BY <1>1, <1>3, InCourse DEF CleanWrite
<1>8. presses' # "missed" => alone /\ Behind(backlightLevel)'
  BY <1>1, InCourse DEF Behind, controller
<1>9. TouchPadEnabledHW' \in BOOLEAN /\ doubt' \in BOOLEAN
  BY <1>1
<1>. QED
  BY <1>1, <1>2, <1>4, <1>5, <1>6, <1>7, <1>8, <1>9, OnwardKeeps, ThreadStep DEF TypeOK, Onward

-----------------------------------------------------------------------------
(* The keyboard's backlight.                                               *)

(* One reading of HALS tells the level: of a keyboard that is dark, after  *)
(* one press of the key, or after none if no press was waited for.         *)
LEMMA Inferred ==
  ASSUME NEW level \in 0 .. 2, NEW kb \in 0 .. 2, NEW update \in BOOLEAN,
         \/ kb = 0
         \/ update /\ kb = (level + 1) % 3
         \/ ~update /\ kb = level
  PROVE  kb = Infer(level, kb # 0, update)
<1>1. level \in {0, 1, 2} /\ kb \in {0, 1, 2}
  OBVIOUS
<1>. QED  BY <1>1 DEF Infer

LEMMA InferTyped ==
  ASSUME NEW level \in 0 .. 2, NEW lit \in BOOLEAN, NEW update \in BOOLEAN
  PROVE  Infer(level, lit, update) \in 0 .. 2
  BY DEF Infer

LEMMA EvaluateHALSPreserves ==
  ASSUME MailboxInv, NEW t \in Threads, EvaluateHALS(t)
  PROVE  MailboxInv'
<1>. DEFINE lit == IF keyboard = 0 THEN 0 ELSE 1
<1>1. /\ pc[t] = "hals" /\ Goto(t, "level")
      /\ got' = [got EXCEPT ![t] = [None EXCEPT !.val = lit]]
      /\ presses' = IF alone /\ keyboard = 0 THEN "seen"
                    ELSE IF presses = (IF Update(t) THEN "unseen" ELSE "seen") THEN "seen"
                    ELSE "missed"
      /\ UNCHANGED <<controller, VCMD, VDAT, backlightLevel, TouchPadEnabledHW, op, cmd, todo,
                     alone, clean, doubt>>
  BY DEF EvaluateHALS, At, mailbox, fields
<1>2. TypeOK /\ ThreadOK(t) /\ keyboard \in 0 .. 2 /\ backlightLevel \in 0 .. 2
  BY <1>1, InCourse DEF TypeOK
<1>3. /\ [None EXCEPT !.val = lit] \in Data
      /\ [None EXCEPT !.val = lit].val # 0 <=> keyboard # 0
  BY DEF None, Data, Commands, Free
<1>. HIDE DEF lit
<1>4. /\ Elsewhere(t) /\ pc'[t] = "level"
      /\ op'[t] = op[t] /\ cmd'[t] = cmd[t] /\ todo'[t] = todo[t]
      /\ got'[t] \in Data /\ (got'[t].val # 0 <=> keyboard # 0)
  <2>1. got'[t] = [None EXCEPT !.val = lit]
    BY <1>1, <1>2 DEF TypeOK
  <2>2. Elsewhere(t) /\ pc'[t] = "level"
        /\ op'[t] = op[t] /\ cmd'[t] = cmd[t] /\ todo'[t] = todo[t]
    BY <1>1, <1>2 DEF TypeOK, Goto, Elsewhere
  <2>. QED  BY <1>3, <2>1, <2>2
<1>5. ThreadOK(t)'
  BY <1>1, <1>2, <1>4 DEF ThreadOK
<1>6. alone => Exchange(t)'
  BY <1>4 DEF Exchange
<1>7. clean => CleanWrite(t)' /\ (VCMD' = "W" => VDAT'.of = "W")
  BY <1>1, <1>4, InCourse DEF CleanWrite
<1>8. ~doubt' => alone /\ (Heard' \/ Carries(t)') /\ VCMD' = Free
  BY <1>1, <1>4, InCourse DEF Heard, Carries, controller
<1>9. presses' # "missed" =>
        alone /\ Behind(Infer(backlightLevel, got[t].val # 0, Update(t)))'
  <2>. SUFFICES ASSUME presses' # "missed"
                PROVE  alone /\ Behind(Infer(backlightLevel, got[t].val # 0, Update(t)))'
    OBVIOUS
  <2>1. presses' = "seen"
    BY <1>1
  <2>2. \/ alone /\ keyboard = 0
        \/ Update(t) /\ presses = "unseen"
        \/ ~Update(t) /\ presses = "seen"
    BY <1>1, <2>1
  <2>3. \/ keyboard = 0
        \/ Update(t) /\ keyboard = (backlightLevel + 1) % 3
        \/ ~Update(t) /\ keyboard = backlightLevel
    BY <1>1, <2>2, InCourse DEF Behind
  <2>4. alone
    BY <1>1, <2>2, InCourse
  <2>5. Update(t) \in BOOLEAN /\ (Update(t)' <=> Update(t))
    BY <1>4 DEF Update
  <2>6. keyboard = Infer(backlightLevel, keyboard # 0, Update(t))
    BY <1>2, <2>3, <2>5, Inferred
  <2>7. keyboard' = Infer(backlightLevel, got[t].val # 0, Update(t))'
    BY <1>1, <1>4, <2>5, <2>6 DEF Infer, controller
  <2>. QED  BY <2>1, <2>4, <2>7 DEF Behind
<1>10. presses' \in {"seen", "unseen", "missed"}
  BY <1>1
<1>. QED
  BY <1>1, <1>2, <1>4, <1>5, <1>6, <1>7, <1>8, <1>9, <1>10, ThreadStep DEF TypeOK

LEMMA FailHALSPreserves ==
  ASSUME MailboxInv, NEW t \in Threads, FailHALS(t)
  PROVE  MailboxInv'
<1>1. /\ pc[t] = "hals" /\ AfterKeyboard(t)
      /\ UNCHANGED <<controller, VCMD, VDAT, backlightLevel, TouchPadEnabledHW,
                     alone, clean, presses, doubt>>
  BY DEF FailHALS, mailbox, fields, history
<1>2. TypeOK /\ ThreadOK(t)
  BY <1>1, InCourse
<1>3. Onward(t) /\ (Carries(t) => Carries(t)')
  BY <1>1, <1>2, AfterKeyboardOnward
<1>4. ~clean
  BY <1>1, <1>2, InCourse DEF CleanWrite, ThreadOK
<1>5. ~doubt' => alone /\ (Heard' \/ Carries(t)') /\ VCMD' = Free
  BY <1>1, <1>3, InCourse DEF Heard, controller
<1>6. presses' # "missed" => alone /\ Behind(backlightLevel)'
  BY <1>1, InCourse DEF Behind, controller
<1>. QED
  BY <1>1, <1>2, <1>3, <1>4, <1>5, <1>6, OnwardKeeps, ThreadStep DEF TypeOK, Onward

LEMMA SetLevelPreserves ==
  ASSUME MailboxInv, NEW t \in Threads, SetLevel(t)
  PROVE  MailboxInv'
<1>1. /\ pc[t] = "level" /\ AfterKeyboard(t)
      /\ backlightLevel' = Infer(backlightLevel, got[t].val # 0, Update(t))
      /\ UNCHANGED <<controller, VCMD, VDAT, TouchPadEnabledHW, alone, clean, presses, doubt>>
  BY DEF SetLevel, mailbox, history
<1>2. TypeOK /\ ThreadOK(t)
  BY <1>1, InCourse
<1>3. Onward(t) /\ (Carries(t) => Carries(t)')
  BY <1>1, <1>2, AfterKeyboardOnward
<1>4. ~clean
  BY <1>1, <1>2, InCourse DEF CleanWrite, ThreadOK
<1>5. ~doubt' => alone /\ (Heard' \/ Carries(t)') /\ VCMD' = Free
  BY <1>1, <1>3, InCourse DEF Heard, controller
<1>6. presses' # "missed" => alone /\ Behind(backlightLevel)'
  BY <1>1, InCourse DEF Behind, controller
<1>7. backlightLevel' \in 0 .. 2
  <2>1. backlightLevel \in 0 .. 2 /\ (got[t].val # 0) \in BOOLEAN /\ Update(t) \in BOOLEAN
    BY <1>2 DEF TypeOK, Update
  <2>. QED  BY <1>1, <2>1, InferTyped
<1>. QED
  BY <1>1, <1>2, <1>3, <1>4, <1>5, <1>6, <1>7, OnwardKeeps, ThreadStep DEF TypeOK, Onward

-----------------------------------------------------------------------------
(* The requests, the controller and its keys.                              *)

LEMMA BeginPreserves ==
  ASSUME MailboxInv, NEW t \in Threads, NEW o, NEW step, NEW c, Begin(t, o, step, c),
         \/ o = "events" /\ step = "vpcw" /\ c = "R_VPC1"
         \/ o = "before" /\ step = "hals" /\ c = Free
         \/ o = "write" /\ step = "vdat" /\ c = "W"
  PROVE  MailboxInv'
<1>1. /\ pc[t] = "idle" /\ pc' = [pc EXCEPT ![t] = step]
      /\ op' = [op EXCEPT ![t] = o] /\ cmd' = [cmd EXCEPT ![t] = c]
      /\ alone' = Quiet /\ clean' = (Quiet /\ VCMD = Free /\ o = "write")
      /\ presses' = (IF Quiet THEN presses ELSE "missed")
      /\ doubt' = (doubt \/ ~Quiet)
      /\ UNCHANGED <<events, keyboard, touchpad, VCMD, VDAT, backlightLevel, TouchPadEnabledHW,
                     todo, got>>
  BY DEF Begin, Goto, controller, mailbox, fields
<1>2. TypeOK /\ ThreadOK(t) /\ todo[t] = {} /\ op[t] = "none" /\ cmd[t] = Free
  BY <1>1 DEF MailboxInv, TypeOK, ThreadOK
<1>3. /\ pc'[t] = step /\ op'[t] = o /\ cmd'[t] = c
      /\ \A u \in Threads \ {t} : pc'[u] = pc[u] /\ op'[u] = op[u] /\ cmd'[u] = cmd[u]
  BY <1>1, <1>2 DEF TypeOK
<1>4. TypeOK'
  <2>1. ThreadOK(t)'
    BY <1>1, <1>2, <1>3 DEF ThreadOK, Reads, Free
  <2>2. \A u \in Threads : ThreadOK(u)'
    BY <1>1, <1>2, <1>3, <2>1 DEF TypeOK, ThreadOK
  <2>3. alone' \in BOOLEAN /\ clean' \in BOOLEAN /\ doubt' \in BOOLEAN
    BY <1>1 DEF Quiet
  <2>. QED  BY <1>1, <1>2, <2>2, <2>3 DEF TypeOK
<1>5. AloneIsAlone'
  BY <1>1, <1>3 DEF MailboxInv, AloneIsAlone, Alone, Quiet
<1>6. ExchangeInv'
  BY <1>1, <1>3 DEF ExchangeInv, Exchange, Quiet
<1>7. CleanInv'
  <2>. SUFFICES ASSUME clean'  PROVE  (VCMD' = "W" => VDAT'.of = "W") /\ \A u \in Threads : CleanWrite(u)'
    BY DEF CleanInv
  <2>1. VCMD = Free /\ o = "write" /\ step = "vdat" /\ \A u \in Threads : pc[u] = "idle"
    BY <1>1 DEF Quiet
  <2>2. \A u \in Threads \ {t} : op'[u] = "none"
    BY <1>2, <1>3, <2>1 DEF TypeOK, ThreadOK
  <2>. QED  BY <1>1, <1>3, <2>1, <2>2 DEF CleanWrite, Free
<1>8. TouchPadInv'
  <2>. SUFFICES ASSUME ~doubt'
                PROVE  VCMD' = Free /\ (\A u \in Threads : pc'[u] # "store") /\ Heard'
    BY DEF TouchPadInv, Heard
  <2>1. ~doubt /\ \A u \in Threads : pc[u] = "idle"
    BY <1>1, <1>2 DEF Quiet, TypeOK
  <2>2. \A u \in Threads : ~Carries(u)
    BY <1>2, <2>1 DEF TypeOK, ThreadOK, Carries, Free
  <2>. QED  BY <1>1, <1>3, <2>1, <2>2 DEF MailboxInv, TouchPadInv, Heard
<1>9. LevelInv'
  BY <1>1, <1>3 DEF MailboxInv, LevelInv, Behind, Update, Infer, Quiet
<1>. QED  BY <1>4, <1>5, <1>6, <1>7, <1>8, <1>9 DEF MailboxInv

LEMMA AnswerPreserves ==
  ASSUME MailboxInv, Answer
  PROVE  MailboxInv'
<1>1. /\ VCMD # Free /\ VCMD' = Free
      /\ UNCHANGED <<keyboard, touchpad, backlightLevel, TouchPadEnabledHW, pc, op, cmd, todo, got,
                     alone, clean, presses, doubt>>
  BY DEF Answer, fields, locals, history
<1>2. VCMD \in Reads \cup {"W"}
  BY <1>1 DEF MailboxInv, TypeOK, Commands
<1>3. /\ VDAT' \in Data /\ VDAT'.of = IF VCMD = "W" THEN Free ELSE VCMD
      /\ VCMD = "R_TOUCHPAD" => (VDAT'.val # 0 <=> touchpad)
      /\ VCMD = "R_VPC1" => VDAT'.bits = events \cap 0 .. 7
      /\ events' \subseteq events
      /\ VCMD # "R_VPC1" /\ touchpadBit \in events => touchpadBit \in events'
  <2>1. events \subseteq Bits
    BY DEF MailboxInv, TypeOK
  <2>2. CASE VCMD = "R_VPC1"
    <3>1. VDAT' = Reply(events \cap 0 .. 7, 0) /\ events' = events \ 0 .. 7
      BY <2>2 DEF Answer
    <3>. QED  BY <2>1, <2>2, <3>1 DEF Reply, Data, Commands, Reads, Bits
  <2>3. CASE VCMD = "R_VPC2"
    <3>1. VDAT' = Reply(events \cap 8 .. 15, 0) /\ events' = events \ 8 .. 15
      BY <2>3 DEF Answer
    <3>. QED  BY <2>1, <2>3, <3>1 DEF Reply, Data, Commands, Reads, Bits, touchpadBit
  <2>4. CASE VCMD = "R_TOUCHPAD"
    <3>1. VDAT' = Reply({}, IF touchpad THEN 1 ELSE 0) /\ events' = events
      BY <2>4 DEF Answer
    <3>. QED  BY <2>1, <2>4, <3>1 DEF Reply, Data, Commands, Reads, Bits
  <2>5. CASE VCMD = "W"
    <3>1. VDAT' = None /\ events' = events
      BY <2>5 DEF Answer
    <3>. QED  BY <2>1, <2>5, <3>1 DEF None, Data, Commands, Reads, Bits
  <2>. QED  BY <1>2, <2>2, <2>3, <2>4, <2>5 DEF Reads
<1>4. TypeOK'
  <2>1. VCMD' \in Commands /\ events' \subseteq Bits
    BY <1>1, <1>3 DEF MailboxInv, TypeOK, Commands
  <2>. QED  BY <1>1, <1>3, <2>1 DEF MailboxInv, TypeOK, ThreadOK
<1>5. AloneIsAlone'
  BY <1>1 DEF MailboxInv, AloneIsAlone, Alone, Quiet
<1>6. ExchangeInv'
  <2>. SUFFICES ASSUME alone, NEW t \in Threads  PROVE  Exchange(t)'
    BY <1>1 DEF ExchangeInv
  <2>1. Exchange(t)
    BY DEF MailboxInv, ExchangeInv
  <2>2. /\ pc[t] # "data" /\ (pc[t] = "store" => got[t].of = Free)
        /\ pc[t] = "poll" => VCMD = cmd[t]
    BY <1>1, <2>1 DEF Exchange
  <2>. QED  BY <1>1, <1>3, <2>2 DEF Exchange, Follows
<1>7. CleanInv'
  BY <1>1 DEF MailboxInv, CleanInv, CleanWrite, Free
<1>8. TouchPadInv'
  <2>. SUFFICES ASSUME ~doubt
                PROVE  Heard' \/ \E t \in Threads : Carries(t)'
    BY <1>1 DEF MailboxInv, TouchPadInv, Heard
  <2>1. PICK t \in Threads : pc[t] = "poll"
    BY <1>1 DEF MailboxInv, TouchPadInv
  <2>2. VCMD = cmd[t] /\ (Heard \/ Carries(t))
    BY <1>1, <2>1, InCourse DEF Exchange
  <2>3. CASE VCMD = "R_VPC1" /\ touchpadBit \in events
    <3>1. touchpadBit \in VDAT'.bits
      BY <1>3, <2>3 DEF touchpadBit
    <3>2. cmd'[t] = "R_VPC1" /\ pc'[t] = "poll" /\ VCMD' = Free
      BY <1>1, <2>1, <2>2, <2>3
    <3>. QED  BY <3>1, <3>2 DEF Carries
  <2>4. CASE Heard /\ ~(VCMD = "R_VPC1" /\ touchpadBit \in events)
    BY <1>1, <1>3, <2>4 DEF Heard
  <2>5. CASE Carries(t)
    BY <1>1, <2>5 DEF Carries
  <2>. QED  BY <2>2, <2>3, <2>4, <2>5
<1>9. LevelInv'
  BY <1>1 DEF MailboxInv, LevelInv, Behind, Update
<1>. QED  BY <1>4, <1>5, <1>6, <1>7, <1>8, <1>9 DEF MailboxInv

LEMMA PressBacklightPreserves ==
  ASSUME MailboxInv, PressBacklight
  PROVE  MailboxInv'
<1>1. /\ keyboard' = (keyboard + 1) % 3 /\ events' = events \cup {keyboardBit}
      /\ presses' = (IF presses = "seen" THEN "unseen" ELSE "missed")
      /\ UNCHANGED <<touchpad, VCMD, VDAT, backlightLevel, TouchPadEnabledHW, pc, op, cmd, todo, got,
                     alone, clean, doubt>>
  BY DEF PressBacklight, mailbox, fields, locals
<1>2. touchpadBit \in events' <=> touchpadBit \in events
  BY <1>1 DEF touchpadBit, keyboardBit
<1>3. TypeOK'
  <2>1. keyboard' \in 0 .. 2 /\ events' \subseteq Bits
    BY <1>1 DEF MailboxInv, TypeOK, Bits, keyboardBit
  <2>. QED  BY <1>1, <2>1 DEF MailboxInv, TypeOK, ThreadOK
<1>4. AloneIsAlone'
  BY <1>1 DEF MailboxInv, AloneIsAlone, Alone, Quiet
<1>5. ExchangeInv' /\ CleanInv' /\ TouchPadInv'
  BY <1>1, <1>2 DEF MailboxInv, ExchangeInv, Exchange, Follows, CleanInv, CleanWrite, TouchPadInv,
                    Carries
<1>6. \A level : Behind(level) => IF presses = "seen" THEN keyboard' = (level + 1) % 3 ELSE TRUE
  BY <1>1 DEF Behind
<1>7. LevelInv'
  BY <1>1, <1>6 DEF MailboxInv, LevelInv, Behind, Update
<1>. QED  BY <1>3, <1>4, <1>5, <1>7 DEF MailboxInv

LEMMA PressTouchPadPreserves ==
  ASSUME MailboxInv, PressTouchPad
  PROVE  MailboxInv'
<1>1. /\ touchpad' = ~touchpad /\ events' = events \cup {touchpadBit}
      /\ UNCHANGED <<keyboard, VCMD, VDAT, backlightLevel, TouchPadEnabledHW, pc, op, cmd, todo, got,
                     alone, clean, presses, doubt>>
  BY DEF PressTouchPad, mailbox, fields, locals, history
<1>2. TypeOK'
  <2>1. events' \subseteq Bits /\ touchpad' \in BOOLEAN
    BY <1>1 DEF MailboxInv, TypeOK, Bits, touchpadBit
  <2>. QED  BY <1>1, <2>1 DEF MailboxInv, TypeOK, ThreadOK
<1>3. AloneIsAlone' /\ LevelInv'
  BY <1>1 DEF MailboxInv, AloneIsAlone, Alone, Quiet, LevelInv, Behind, Update
<1>4. ExchangeInv' /\ CleanInv' /\ TouchPadInv'
  BY <1>1 DEF MailboxInv, ExchangeInv, Exchange, Follows, CleanInv, CleanWrite, TouchPadInv
<1>. QED  BY <1>2, <1>3, <1>4 DEF MailboxInv

-----------------------------------------------------------------------------
LEMMA InitMailbox == Init => MailboxInv
<1>. SUFFICES ASSUME Init  PROVE  MailboxInv
  OBVIOUS
<1>1. \A t \in Threads : ThreadOK(t) /\ pc[t] = "idle"
  BY DEF Init, ThreadOK, None, Data, Commands, Free
<1>2. TypeOK
  <2>1. VCMD \in Commands /\ VDAT \in Data
    BY DEF Init, None, Data, Commands, Free
  <2>2. keyboard \in 0 .. 2 /\ backlightLevel \in 0 .. 2
    BY DEF Init
  <2>. QED  BY <1>1, <2>1, <2>2 DEF Init, TypeOK
<1>3. AloneIsAlone /\ ExchangeInv /\ CleanInv /\ TouchPadInv /\ LevelInv
  BY <1>1 DEF Init, AloneIsAlone, ExchangeInv, CleanInv, TouchPadInv, LevelInv, Behind, Quiet
<1>. QED  BY <1>2, <1>3 DEF MailboxInv

LEMMA NextMailbox == MailboxInv /\ [Next]_vars => MailboxInv'
<1>. SUFFICES ASSUME MailboxInv, [Next]_vars  PROVE  MailboxInv'
  OBVIOUS
<1>1. ASSUME NEW t \in Threads, Step(t)  PROVE  MailboxInv'
  BY <1>1, WriteDataPreserves, WriteCommandPreserves, PollPreserves, ReadDataPreserves,
     GivesUpPreserves, StorePreserves, EvaluateHALSPreserves, FailHALSPreserves, SetLevelPreserves
     DEF Step
<1>2. CASE Requests
  BY <1>2, BeginPreserves DEF Requests, Message, BrightnessAction, UpdateAll, WriteEC
<1>3. CASE Answer \/ Keys
  BY <1>3, AnswerPreserves, PressBacklightPreserves, PressTouchPadPreserves DEF Keys
<1>4. CASE UNCHANGED vars
  <2>1. UNCHANGED <<events, keyboard, touchpad, VCMD, VDAT, backlightLevel, TouchPadEnabledHW, pc, op,
                    cmd, todo, got, alone, clean, presses, doubt>>
    BY <1>4 DEF vars, controller, mailbox, fields, locals, history
  <2>2. TypeOK' /\ AloneIsAlone' /\ LevelInv'
    BY <2>1 DEF MailboxInv, TypeOK, ThreadOK, AloneIsAlone, Alone, Quiet, LevelInv, Behind, Update
  <2>3. ExchangeInv' /\ CleanInv' /\ TouchPadInv'
    BY <2>1 DEF MailboxInv, ExchangeInv, Exchange, Follows, CleanInv, CleanWrite, TouchPadInv, Carries
  <2>. QED  BY <2>2, <2>3 DEF MailboxInv
<1>. QED  BY <1>1, <1>2, <1>3, <1>4 DEF Next

(* Whom the mailbox belongs to and what the driver knows of the keyboard   *)
(* and the touchpad, whatever overlaps, fails or is given up.              *)
THEOREM MailboxIsKnown == Spec => []MailboxInv
<1>. QED  BY InitMailbox, NextMailbox, PTL DEF Spec

(* A caller nobody has interrupted reads the answer to its own command,    *)
(* and a write that found VCMD free is executed with its own value         *)
(* (IdeaVPC.cpp:872-904).                                                  *)
THEOREM AnswersAreOwn == Spec => []ExchangeIsOwn
<1>1. MailboxInv => ExchangeIsOwn
  <2>. SUFFICES ASSUME MailboxInv  PROVE  ExchangeIsOwn
    OBVIOUS
  <2>1. \A t \in Threads : pc[t] = "data" => cmd[t] # "W"
    BY DEF MailboxInv, TypeOK, ThreadOK, Reads
  <2>. QED  BY <2>1 DEF MailboxInv, ExchangeInv, Exchange, CleanInv, ExchangeIsOwn
<1>. QED  BY <1>1, MailboxIsKnown, PTL

(* Once the touchpad's events have been reported and handled undisturbed,  *)
(* the driver's idea of it is the controller's (IdeaVPC.cpp:798-810).      *)
THEOREM TouchPadIsFollowed == Spec => []TouchPadFollows
<1>1. MailboxInv => TouchPadFollows
  <2>. SUFFICES ASSUME MailboxInv  PROVE  TouchPadFollows
    OBVIOUS
  <2>1. Quiet => \A t \in Threads : ~Carries(t)
    BY DEF MailboxInv, TypeOK, ThreadOK, Quiet, Carries, Free
  <2>. QED  BY <2>1 DEF MailboxInv, TouchPadInv, TouchPadFollows, Quiet
<1>. QED  BY <1>1, MailboxIsKnown, PTL

(* The inferred level is the keyboard's, as long as every press of its key *)
(* has had a reading of its own (IdeaVPC.cpp:578-584).                     *)
THEOREM LevelIsFollowed == Spec => []LevelFollowsCycle
<1>1. MailboxInv => LevelFollowsCycle
  BY DEF MailboxInv, LevelInv, Behind, LevelFollowsCycle, Quiet
<1>. QED  BY <1>1, MailboxIsKnown, PTL

=============================================================================
