------------------------------ MODULE EcPorts -------------------------------
(***************************************************************************)
(* The ThinkCentre service's register access (ThinkCentre.cpp:99-120) port *)
(* write by port write.  The controller has one page port, one index port  *)
(* and one data port for all threads; ioLock keeps the four steps of an    *)
(* access together.  Implements EcRegisters.                               *)
(***************************************************************************)
EXTENDS EcRegisters

CONSTANT Free  \* the value of ioLock that is no thread

ASSUME FreeIsNoThread == Free \notin Callers

VARIABLES
  ioLock,
  page, index,   \* the two ports
  cur,           \* the register each thread is accessing
  pc

ports == <<ioLock, page, index, cur, pc>>
portVars == <<registers, ports>>

Page(reg) == reg \div 256
Index(reg) == reg % 256

(* The page port takes a page after 0xFF has been written to it; page is   *)
(* 255 in between.                                                         *)
PageAfter(v) == IF v = 255 \/ page = 255 THEN v ELSE page

Selected == page * 256 + index

Goto(t, step) == pc' = [pc EXCEPT ![t] = step]
From(t, step, next) == pc[t] = step /\ Goto(t, next)

(* A call of ecRead8, ecRead16 or ecWrite8; ecRead16 is two ecRead8, which *)
(* C++ lets the compiler order as it likes.                                *)
Enter(t) ==
  /\ pc[t] = "out"
  /\ Call(t)
  /\ Goto(t, "begin")
  /\ UNCHANGED <<ioLock, page, index, cur>>

LockTaken(t) ==  \* mutant: ioLock is not waited for
  /\ From(t, "begin", "unlockPage")
  /\ ioLock' = t
  /\ \E r \in remaining[t] : cur' = [cur EXCEPT ![t] = r]
  /\ UNCHANGED <<registers, page, index>>

Lock(t) ==
  /\ From(t, "begin", "unlockPage")
  /\ ioLock = Free
  /\ ioLock' = t
  /\ \E r \in remaining[t] : cur' = [cur EXCEPT ![t] = r]
  /\ UNCHANGED <<registers, page, index>>

UnlockPageSkipped(t) ==  \* mutant: 0xFF is not written first
  /\ From(t, "unlockPage", "selectPage")
  /\ UNCHANGED <<registers, ioLock, page, index, cur>>

UnlockPage(t) ==
  /\ From(t, "unlockPage", "selectPage")
  /\ page' = PageAfter(255)
  /\ UNCHANGED <<registers, ioLock, index, cur>>

SelectPage(t) ==
  /\ From(t, "selectPage", "selectIndex")
  /\ page' = PageAfter(Page(cur[t]))
  /\ UNCHANGED <<registers, ioLock, index, cur>>

SelectIndexReleases(t) ==  \* mutant: ioLock is let go before the data port
  /\ From(t, "selectIndex", "data")
  /\ index' = Index(cur[t])
  /\ ioLock' = Free
  /\ UNCHANGED <<registers, page, cur>>

SelectIndex(t) ==
  /\ From(t, "selectIndex", "data")
  /\ index' = Index(cur[t])
  /\ UNCHANGED <<registers, ioLock, page, cur>>

(* The data port stands for the register that page and index select.       *)
ReadData(t) ==
  /\ call[t].op # "write8"
  /\ \E v \in IF Selected \in Regs THEN {mem[Selected]} ELSE Bytes :
       seen' = [seen EXCEPT ![t][cur[t]] = v]
  /\ UNCHANGED <<mem, steady>>

WriteData(t) ==
  /\ call[t].op = "write8"
  /\ IF Selected \in Regs
     THEN mem' = [mem EXCEPT ![Selected] = call[t].value] /\ steady' = Disturbed(Selected)
     ELSE UNCHANGED <<mem, steady>>
  /\ UNCHANGED seen

Data(t) ==
  /\ From(t, "data", "unlock")
  /\ ReadData(t) \/ WriteData(t)
  /\ remaining' = [remaining EXCEPT ![t] = @ \ {cur[t]}]
  /\ UNCHANGED <<call, ioLock, page, index, cur>>

Unlock(t) ==
  /\ From(t, "unlock", IF remaining[t] = {} THEN "return" ELSE "begin")
  /\ ioLock' = Free
  /\ UNCHANGED <<registers, page, index, cur>>

Leave(t) ==
  /\ From(t, "return", "out")
  /\ Return(t)
  /\ UNCHANGED <<ioLock, page, index, cur>>

PortStep(t) == \/ Enter(t) \/ Lock(t) \/ UnlockPage(t) \/ SelectPage(t) \/ SelectIndex(t)
           \/ Data(t) \/ Unlock(t) \/ Leave(t)

Background == ControllerUpdates /\ UNCHANGED ports

PortInit ==
  /\ RegistersInit
  /\ ioLock = Free /\ page \in {0, 255} /\ index = 0
  /\ cur = [t \in Callers |-> 0]
  /\ pc = [t \in Callers |-> "out"]

PortNext == (\E t \in Callers : PortStep(t)) \/ Background

PortSpec == PortInit /\ [][PortNext]_portVars

-----------------------------------------------------------------------------
Locked == {"unlockPage", "selectPage", "selectIndex", "data", "unlock"}

(* Every variable has its type. *)
PortsTypeOK ==
  /\ RegistersTypeOK
  /\ ioLock \in Callers \cup {Free}
  /\ page \in 0..255 /\ index \in 0..255
  /\ cur \in [Callers -> Regs \cup {0}]
  /\ pc \in [Callers -> {"out", "begin", "return"} \cup Locked]

(* A thread at the data port has its own register selected, whatever the   *)
(* other threads do to the ports (ThinkCentre.cpp:99-120).                 *)
DataIsOwn == \A t \in Callers : pc[t] = "data" => Selected = cur[t]

(* What the ports do, seen through the registers and the calls alone, is   *)
(* what EcRegisters promises: each access takes effect at one instant.     *)
AccessesAreAtomic == RegistersSpec

=============================================================================
