---------------------------- MODULE EcRegisters -----------------------------
(***************************************************************************)
(* What ecRead8, ecRead16 and ecWrite8 of the ThinkCentre service promise  *)
(* their callers: every byte access takes effect at one instant between    *)
(* the call and its return.  A 16-bit read is two such accesses, in either *)
(* order, so a register the controller updates may tear.                   *)
(***************************************************************************)
EXTENDS Integers

CONSTANTS
  Callers,   \* the threads that call the driver
  Regs,      \* 16-bit register numbers
  Words,     \* those read by ecRead16, with the one that follows
  Live,      \* those the controller changes on its own
  Bytes      \* the values a register takes

ASSUME LiveRegisters == Live \subseteq Regs
ASSUME RegisterNumbers == \A r \in Regs : r \in Nat /\ r < 255 * 256  \* 0xFF is no page
ASSUME WordRegisters == \A r \in Words : r \in Regs /\ r + 1 \in Regs

VARIABLES
  mem,       \* the controller's registers
  call,      \* each thread's call
  remaining, \* the registers the call has yet to access
  seen,      \* what the call has read, per register
  steady     \* history variable: no register of the call has changed since it began

registers == <<mem, call, remaining, seen, steady>>

NoCall == [op |-> "none", reg |-> 0, value |-> 0]
ByteReads == [op : {"read8"}, reg : Regs, value : {0}]
Writes == [op : {"write8"}, reg : Regs, value : Bytes]
WordReads == [op : {"read16"}, reg : Words, value : {0}]
Calls == ByteReads \cup Writes \cup WordReads

Touched(c) == IF c.op = "read16" THEN {c.reg, c.reg + 1} ELSE {c.reg}

Idle(t) == call[t] = NoCall

(* A change of register r disturbs the 16-bit reads under way of it.       *)
Disturbed(r) == [t \in Callers |-> steady[t] /\ (Idle(t) \/ r \notin Touched(call[t]))]

Call(t) ==
  /\ Idle(t)
  /\ \E c \in Calls : /\ call' = [call EXCEPT ![t] = c]
                      /\ remaining' = [remaining EXCEPT ![t] = Touched(c)]
  /\ seen' = [seen EXCEPT ![t] = [r \in Regs |-> 0]]
  /\ steady' = [steady EXCEPT ![t] = TRUE]
  /\ UNCHANGED mem

Access(t) ==
  /\ \E r \in remaining[t] :
       /\ remaining' = [remaining EXCEPT ![t] = @ \ {r}]
       /\ IF call[t].op = "write8"
          THEN /\ mem' = [mem EXCEPT ![r] = call[t].value]
               /\ steady' = Disturbed(r)
               /\ UNCHANGED seen
          ELSE /\ seen' = [seen EXCEPT ![t][r] = mem[r]]
               /\ UNCHANGED <<mem, steady>>
  /\ UNCHANGED call

Return(t) ==
  /\ ~Idle(t) /\ remaining[t] = {}
  /\ call' = [call EXCEPT ![t] = NoCall]
  /\ UNCHANGED <<mem, remaining, seen, steady>>

(* A fan turns, a temperature changes. *)
ControllerUpdates ==
  /\ \E r \in Live : \E v \in Bytes : mem' = [mem EXCEPT ![r] = v] /\ steady' = Disturbed(r)
  /\ UNCHANGED <<call, remaining, seen>>

RegistersInit ==
  /\ mem \in [Regs -> Bytes]
  /\ call = [t \in Callers |-> NoCall]
  /\ remaining = [t \in Callers |-> {}]
  /\ seen = [t \in Callers |-> [r \in Regs |-> 0]]
  /\ steady = [t \in Callers |-> TRUE]

RegistersNext == (\E t \in Callers : Call(t) \/ Access(t) \/ Return(t)) \/ ControllerUpdates

RegistersSpec == RegistersInit /\ [][RegistersNext]_registers

(* Every variable has its type. *)
RegistersTypeOK ==
  /\ mem \in [Regs -> Bytes]
  /\ call \in [Callers -> Calls \cup {NoCall}]
  /\ remaining \in [Callers -> SUBSET Regs]
  /\ seen \in [Callers -> [Regs -> Bytes \cup {0}]]
  /\ steady \in [Callers -> BOOLEAN]

(* The value of a 16-bit read that is about to return. *)
Word(t) == seen[t][call[t].reg] * 256 + seen[t][call[t].reg + 1]

(* A 16-bit read none of whose registers changed under way returns the     *)
(* word that is there (ThinkCentre.cpp:109-111).                           *)
SteadyWordsAreWhole ==
  \A t \in Callers :
    call[t].op = "read16" /\ remaining[t] = {} /\ steady[t] =>
      Word(t) = mem[call[t].reg] * 256 + mem[call[t].reg + 1]

=============================================================================
