------------------------ MODULE PortsAndModesProofs -------------------------
(***************************************************************************)
(* The ThinkCentre's register ports, and the modes of an IdeaPad.          *)
(***************************************************************************)
EXTENDS EcPorts, IdeaModes, SequenceTheorems, TLAPS

-----------------------------------------------------------------------------
(***************************************************************************)
(* EcPorts.  For any threads and registers it implements EcRegisters, and  *)
(* so keeps what EcRegisters keeps.                                        *)
(***************************************************************************)

(* The page and index of a register number, as ecRead8 splits it, select   *)
(* that register.                                                          *)
LEMMA PageAndIndex ==
  ASSUME NEW r \in Regs
  PROVE  /\ Page(r) \in 0..254 /\ Index(r) \in 0..255
         /\ Page(r) * 256 + Index(r) = r
<1>1. r \in Nat /\ r < 255 * 256
  BY RegisterNumbers
<1>. QED  BY <1>1 DEF Page, Index

LEMMA CallsTouchRegisters ==
  ASSUME NEW c \in Calls
  PROVE  Touched(c) \in SUBSET Regs
BY WordRegisters DEF Calls, ByteReads, Writes, WordReads, Touched

-----------------------------------------------------------------------------
(* What EcRegisters keeps. *)

(* Whatever a steady call has read is still there.                         *)
Remains ==
  \A t \in Callers : ~Idle(t) /\ steady[t] =>
    /\ remaining[t] \subseteq Touched(call[t])
    /\ call[t].op # "write8" =>
         \A r \in Touched(call[t]) \ remaining[t] : seen[t][r] = mem[r]

LEMMA RegistersTypeKept ==
  ASSUME RegistersTypeOK, [RegistersNext]_registers
  PROVE  RegistersTypeOK'
<1>. USE DEF RegistersTypeOK
<1>1. ASSUME NEW t \in Callers, Call(t)
      PROVE  RegistersTypeOK'
  BY <1>1, CallsTouchRegisters DEF Call
<1>2. ASSUME NEW t \in Callers, Access(t)
      PROVE  RegistersTypeOK'
  <2>1. PICK r \in remaining[t] :
          /\ remaining' = [remaining EXCEPT ![t] = @ \ {r}]
          /\ IF call[t].op = "write8"
             THEN /\ mem' = [mem EXCEPT ![r] = call[t].value]
                  /\ steady' = Disturbed(r)
                  /\ UNCHANGED seen
             ELSE /\ seen' = [seen EXCEPT ![t][r] = mem[r]]
                  /\ UNCHANGED <<mem, steady>>
    BY <1>2 DEF Access
  <2>2. r \in Regs /\ call' = call /\ remaining' \in [Callers -> SUBSET Regs]
    BY <1>2, <2>1 DEF Access
  <2>3. CASE call[t].op = "write8"
    <3>1. call[t].value \in Bytes
      BY <2>3 DEF Calls, ByteReads, Writes, WordReads, NoCall
    <3>. QED  BY <2>1, <2>2, <2>3, <3>1 DEF Disturbed, Idle
  <2>4. CASE call[t].op # "write8"
    <3>1. seen' = [seen EXCEPT ![t] = [seen[t] EXCEPT ![r] = mem[r]]]
      BY <2>1, <2>4
    <3>2. [seen[t] EXCEPT ![r] = mem[r]] \in [Regs -> Bytes \cup {0}]
      BY <2>2
    <3>3. seen' \in [Callers -> [Regs -> Bytes \cup {0}]]
      BY <3>1, <3>2
    <3>. QED  BY <2>1, <2>2, <2>4, <3>3
  <2>. QED  BY <2>3, <2>4
<1>3. ASSUME NEW t \in Callers, Return(t)
      PROVE  RegistersTypeOK'
  BY <1>3 DEF Return
<1>4. CASE ControllerUpdates
  <2>1. PICK r \in Live, v \in Bytes : mem' = [mem EXCEPT ![r] = v] /\ steady' = Disturbed(r)
    BY <1>4 DEF ControllerUpdates
  <2>2. steady' \in [Callers -> BOOLEAN]
    BY <2>1 DEF Disturbed
  <2>. QED  BY <1>4, <2>1, <2>2, LiveRegisters DEF ControllerUpdates
<1>5. CASE UNCHANGED registers
  BY <1>5 DEF registers
<1>. QED  BY <1>1, <1>2, <1>3, <1>4, <1>5 DEF RegistersNext

LEMMA RemainsKept ==
  ASSUME RegistersTypeOK, Remains, [RegistersNext]_registers
  PROVE  Remains'
<1>. USE DEF Idle
<1>1. ASSUME NEW t \in Callers, Call(t)
      PROVE  Remains'
  <2>1. PICK c \in Calls : /\ call' = [call EXCEPT ![t] = c]
                           /\ remaining' = [remaining EXCEPT ![t] = Touched(c)]
    BY <1>1 DEF Call
  <2>2. /\ call'[t] = c /\ remaining'[t] = Touched(c) /\ mem' = mem
        /\ \A u \in Callers \ {t} : /\ call'[u] = call[u] /\ remaining'[u] = remaining[u]
                                    /\ seen'[u] = seen[u] /\ steady'[u] = steady[u]
    BY <1>1, <2>1 DEF Call, RegistersTypeOK
  <2>. QED  BY <2>2 DEF Remains
<1>2. ASSUME NEW t \in Callers, Access(t)
      PROVE  Remains'
  <2>1. PICK r \in remaining[t] :
          /\ remaining' = [remaining EXCEPT ![t] = @ \ {r}]
          /\ IF call[t].op = "write8"
             THEN /\ mem' = [mem EXCEPT ![r] = call[t].value]
                  /\ steady' = Disturbed(r)
                  /\ UNCHANGED seen
             ELSE /\ seen' = [seen EXCEPT ![t][r] = mem[r]]
                  /\ UNCHANGED <<mem, steady>>
    BY <1>2 DEF Access
  <2>2. /\ call' = call /\ r \in Regs
        /\ remaining'[t] = remaining[t] \ {r}
        /\ \A u \in Callers \ {t} : remaining'[u] = remaining[u]
    BY <1>2, <2>1 DEF Access, RegistersTypeOK
  <2>3. CASE call[t].op = "write8"
    <3>1. \A u \in Callers : steady'[u] => steady[u] /\ (call[u] = NoCall \/ r \notin Touched(call[u]))
      BY <2>1, <2>3 DEF Disturbed
    <3>2. \A q \in Regs \ {r} : mem'[q] = mem[q]
      BY <2>1, <2>3 DEF RegistersTypeOK
    <3>3. \A u \in Callers : call[u] # NoCall => Touched(call[u]) \subseteq Regs
      BY CallsTouchRegisters DEF RegistersTypeOK
    <3>4. seen' = seen
      BY <2>1, <2>3
    <3>. QED  BY <2>2, <2>3, <3>1, <3>2, <3>3, <3>4 DEF Remains
  <2>4. CASE call[t].op # "write8"
    <3>1. /\ seen'[t] = [seen[t] EXCEPT ![r] = mem[r]]
          /\ \A u \in Callers \ {t} : seen'[u] = seen[u]
          /\ UNCHANGED <<mem, steady>>
      BY <2>1, <2>4 DEF RegistersTypeOK
    <3>2. seen'[t][r] = mem[r] /\ \A q \in Regs \ {r} : seen'[t][q] = seen[t][q]
      BY <2>2, <3>1 DEF RegistersTypeOK
    <3>3. call[t] # NoCall => Touched(call[t]) \subseteq Regs
      BY CallsTouchRegisters DEF RegistersTypeOK
    <3>. DEFINE Ok(u) == ~Idle(u) /\ steady[u] =>
           /\ remaining[u] \subseteq Touched(call[u])
           /\ call[u].op # "write8" =>
                \A q \in Touched(call[u]) \ remaining[u] : seen[u][q] = mem[q]
    <3>4. \A u \in Callers \ {t} : Ok(u)'
      BY <2>2, <3>1 DEF Remains
    <3>5. Ok(t)'
      BY <2>2, <3>1, <3>2, <3>3 DEF Remains
    <3>. QED  BY <3>4, <3>5 DEF Remains
  <2>. QED  BY <2>3, <2>4
<1>3. ASSUME NEW t \in Callers, Return(t)
      PROVE  Remains'
  BY <1>3 DEF Return, Remains, RegistersTypeOK
<1>4. CASE ControllerUpdates
  <2>1. PICK r \in Live, v \in Bytes : mem' = [mem EXCEPT ![r] = v] /\ steady' = Disturbed(r)
    BY <1>4 DEF ControllerUpdates
  <2>2. \A u \in Callers : steady'[u] => steady[u] /\ (call[u] = NoCall \/ r \notin Touched(call[u]))
    BY <2>1 DEF Disturbed
  <2>3. \A q \in Regs \ {r} : mem'[q] = mem[q]
    BY <2>1 DEF RegistersTypeOK
  <2>4. \A u \in Callers : call[u] # NoCall => Touched(call[u]) \subseteq Regs
    BY CallsTouchRegisters DEF RegistersTypeOK
  <2>. QED  BY <1>4, <2>2, <2>3, <2>4 DEF ControllerUpdates, Remains
<1>5. CASE UNCHANGED registers
  BY <1>5 DEF registers, Remains
<1>. QED  BY <1>1, <1>2, <1>3, <1>4, <1>5 DEF RegistersNext

(* Type correctness of the abstract registers. *)
THEOREM RegistersTypeCorrect == RegistersSpec => []RegistersTypeOK
<1>1. RegistersInit => RegistersTypeOK
  BY DEF RegistersInit, RegistersTypeOK
<1>2. RegistersTypeOK /\ [RegistersNext]_registers => RegistersTypeOK'
  BY RegistersTypeKept
<1>. QED  BY <1>1, <1>2, PTL DEF RegistersSpec

(* What atomic byte accesses are worth to a caller: a 16-bit read returns  *)
(* the word that is there unless one of its registers changed under way.   *)
THEOREM WordsAreWhole == RegistersSpec => []SteadyWordsAreWhole
<1>1. RegistersInit => Remains
  BY DEF RegistersInit, Remains, Idle
<1>2. RegistersTypeOK /\ Remains /\ [RegistersNext]_registers => Remains'
  BY RemainsKept
<1>3. Remains => SteadyWordsAreWhole
  BY DEF Remains, SteadyWordsAreWhole, Word, Touched, Idle, NoCall
<1>. QED  BY <1>1, <1>2, <1>3, RegistersTypeCorrect, PTL DEF RegistersSpec

-----------------------------------------------------------------------------
(* The ports implement the registers. *)

(* Only the holder of ioLock is between its first and last port write.     *)
Exclusive == \A t \in Callers : pc[t] \in Locked <=> ioLock = t

(* The holder is accessing a register its call has yet to access.          *)
Current == \A t \in Callers : pc[t] \in Locked \ {"unlock"} => cur[t] \in remaining[t]

(* The ports hold what the holder has written so far.                      *)
Selecting == \A t \in Callers :
  /\ pc[t] = "selectPage" => page = 255
  /\ pc[t] \in {"selectIndex", "data"} => page = Page(cur[t])
  /\ pc[t] = "data" => index = Index(cur[t])

PInv == PortsTypeOK /\ Exclusive /\ Current /\ Selecting

LEMMA InitPorts == PortInit => PInv
<1>. SUFFICES ASSUME PortInit PROVE PInv
  OBVIOUS
<1>1. PortsTypeOK
  BY DEF PortInit, RegistersInit, PortsTypeOK, RegistersTypeOK
<1>2. Exclusive /\ Current /\ Selecting
  BY FreeIsNoThread DEF PortInit, Exclusive, Current, Selecting, Locked
<1>. QED  BY <1>1, <1>2 DEF PInv

(* From the data port the selected register is the one meant.                *)
LEMMA OwnSelected == PInv => DataIsOwn
<1>. SUFFICES ASSUME PInv, NEW t \in Callers, pc[t] = "data" PROVE Selected = cur[t]
  BY DEF DataIsOwn
<1>1. cur[t] \in Regs
  BY DEF PInv, Current, PortsTypeOK, RegistersTypeOK, Locked
<1>2. page = Page(cur[t]) /\ index = Index(cur[t])
  BY DEF PInv, Selecting
<1>. QED  BY <1>1, <1>2, PageAndIndex DEF Selected

(* A step of the ports is a step of the registers, or changes none.        *)
LEMMA StepIsAbstract ==
  ASSUME PInv, [PortNext]_portVars
  PROVE  [RegistersNext]_registers
<1>1. ASSUME NEW t \in Callers, Data(t)
      PROVE  Access(t)
  <2>1. Selected = cur[t] /\ cur[t] \in remaining[t] /\ cur[t] \in Regs
    BY <1>1, OwnSelected DEF Data, From, DataIsOwn, PInv, Current, PortsTypeOK, RegistersTypeOK, Locked
  <2>2. CASE ReadData(t)
    BY <1>1, <2>1, <2>2 DEF Data, ReadData, Access
  <2>3. CASE WriteData(t)
    BY <1>1, <2>1, <2>3 DEF Data, WriteData, Access
  <2>. QED  BY <1>1, <2>2, <2>3 DEF Data
<1>2. ASSUME NEW t \in Callers, PortStep(t)
      PROVE  [RegistersNext]_registers
  BY <1>1, <1>2 DEF PortStep, Enter, Lock, UnlockPage, SelectPage, SelectIndex, Unlock, Leave, RegistersNext
<1>3. CASE Background
  BY <1>3 DEF Background, RegistersNext
<1>4. CASE UNCHANGED portVars
  BY <1>4 DEF portVars
<1>. QED  BY <1>2, <1>3, <1>4 DEF PortNext

LEMMA PortsTyped ==
  ASSUME PInv, [PortNext]_portVars
  PROVE  PortsTypeOK'
<1>1. RegistersTypeOK'
  BY StepIsAbstract, RegistersTypeKept DEF PInv, PortsTypeOK
<1>. USE DEF PInv, PortsTypeOK, From, Goto, Locked
<1>2. ASSUME NEW t \in Callers, PortStep(t)
      PROVE  PortsTypeOK'
  <2>1. CASE Enter(t)
    BY <1>1, <2>1 DEF Enter
  <2>2. CASE Lock(t)
    BY <1>1, <2>2 DEF Lock, RegistersTypeOK
  <2>3. CASE UnlockPage(t)
    BY <1>1, <2>3 DEF UnlockPage, PageAfter
  <2>4. CASE SelectPage(t)
    <3>1. cur[t] \in Regs
      BY <2>4 DEF SelectPage, Current, RegistersTypeOK
    <3>2. Page(cur[t]) \in 0..255
      BY <3>1, PageAndIndex
    <3>. QED  BY <1>1, <2>4, <3>2 DEF SelectPage, PageAfter
  <2>5. CASE SelectIndex(t)
    <3>1. cur[t] \in Regs
      BY <2>5 DEF SelectIndex, Current, RegistersTypeOK
    <3>2. Index(cur[t]) \in 0..255
      BY <3>1, PageAndIndex
    <3>. QED  BY <1>1, <2>5, <3>2 DEF SelectIndex
  <2>6. CASE Data(t)
    BY <1>1, <2>6 DEF Data
  <2>7. CASE Unlock(t)
    BY <1>1, <2>7 DEF Unlock
  <2>8. CASE Leave(t)
    BY <1>1, <2>8 DEF Leave
  <2>. QED  BY <1>2, <2>1, <2>2, <2>3, <2>4, <2>5, <2>6, <2>7, <2>8 DEF PortStep
<1>3. CASE Background
  BY <1>1, <1>3 DEF Background, ports
<1>4. CASE UNCHANGED portVars
  BY <1>1, <1>4 DEF portVars, ports
<1>. QED  BY <1>2, <1>3, <1>4 DEF PortNext

LEMMA PortsKept ==
  ASSUME PInv, [PortNext]_portVars
  PROVE  PInv'
<1>0. PortsTypeOK'
  BY PortsTyped
<1>1. ASSUME NEW t \in Callers, PortStep(t)
      PROVE  Exclusive' /\ Current' /\ Selecting'
  <2>. USE DEF PInv, PortsTypeOK, RegistersTypeOK, Exclusive, Current, Selecting, From, Goto, Locked
  <2>1. CASE Enter(t)
    <3>1. \A u \in Callers \ {t} : remaining'[u] = remaining[u]
      BY <2>1 DEF Enter, Call
    <3>. QED  BY <2>1, <3>1 DEF Enter
  <2>2. CASE Lock(t)
    BY <2>2, FreeIsNoThread DEF Lock, registers
  <2>3. CASE UnlockPage(t)
    BY <2>3 DEF UnlockPage, PageAfter, registers
  <2>4. CASE SelectPage(t)
    BY <2>4 DEF SelectPage, PageAfter, registers
  <2>5. CASE SelectIndex(t)
    BY <2>5 DEF SelectIndex, registers
  <2>6. CASE Data(t)
    BY <2>6 DEF Data
  <2>7. CASE Unlock(t)
    BY <2>7, FreeIsNoThread DEF Unlock, registers
  <2>8. CASE Leave(t)
    BY <2>8 DEF Leave, Return
  <2>. QED  BY <1>1, <2>1, <2>2, <2>3, <2>4, <2>5, <2>6, <2>7, <2>8 DEF PortStep
<1>2. CASE Background
  BY <1>0, <1>2 DEF Background, ControllerUpdates, ports, PInv, Exclusive, Current, Selecting
<1>3. CASE UNCHANGED portVars
  BY <1>0, <1>3 DEF portVars, registers, ports, PInv, Exclusive, Current, Selecting
<1>. QED  BY <1>0, <1>1, <1>2, <1>3 DEF PortNext, PInv

LEMMA AlwaysPInv == PortSpec => []PInv
BY InitPorts, PortsKept, PTL DEF PortSpec

(* Type correctness: the ports hold bytes, a thread's register is one.     *)
THEOREM PortsTypeCorrect == PortSpec => []PortsTypeOK
BY AlwaysPInv, PTL DEF PInv

(* No thread ever reads or writes the register another thread selected     *)
(* (ThinkCentre.cpp:99-107, 113-120).                                      *)
THEOREM DataPortIsOwn == PortSpec => []DataIsOwn
BY AlwaysPInv, OwnSelected, PTL

(* The four port steps under ioLock implement one atomic access.           *)
THEOREM PortsImplementRegisters == PortSpec => AccessesAreAtomic
<1>1. PortInit => RegistersInit
  BY DEF PortInit
<1>2. PInv /\ [PortNext]_portVars => [RegistersNext]_registers
  BY StepIsAbstract
<1>. QED  BY <1>1, <1>2, AlwaysPInv, PTL DEF PortSpec, AccessesAreAtomic, RegistersSpec

(* And so the driver's 16-bit reads are whole when nothing disturbs them.  *)
THEOREM PortWordsAreWhole == PortSpec => []SteadyWordsAreWhole
BY PortsImplementRegisters, WordsAreWhole, PTL DEF AccessesAreAtomic

-----------------------------------------------------------------------------
(***************************************************************************)
(* IdeaModes.  For any scenes and numbers of requests and failures: the    *)
(* modes the driver keeps, the requests that are alone, and the light of a *)
(* keyboard that is folded away and back.                                  *)
(***************************************************************************)

Groups == {"bat", "kbd"}

(* The programs of the threads, by the step they have come to.             *)
Then(s, p) == <<s>> \o p
Refresh == Then(<<"events", "kbd">>, ReadKeyboard)
AfterBattery ==
  {<< <<"compare", f>> >> : f \in {"conservation", "rapid"}}
  \cup {Then(<<"getKeyboard", "kbd">>, Then(<<"setKeyboard", "kbd">>, Refresh))}
AfterKeyboard ==
  {<< >>, << <<"flip", "fn">> >>, << <<"yoga", "kbd">> >>} \cup {<< <<"compare", f>> >> : f \in {"fn", "usb"}}
  \cup {ReadKeyboard, Refresh}
KeepBattery == {Then(<<"setBattery", "bat">>, p) : p \in AfterBattery}
KeepKeyboard ==
  {Then(<<"setKeyboard", "kbd">>, p) : p \in AfterKeyboard} \cup {Then(<<"setKeyboard", "key">>, p) : p \in AfterKeyboard}
Ends ==
  {"compare", "keep"} \X Modes
  \cup {<<"bdvt", "conservation">>, <<"flip", "fn">>, <<"yoga", "kbd">>, <<"light", "on">>, <<"light", "off">>}
Programs ==
  {<< >>} \cup {<<s>> : s \in Ends} \cup {Toggle(f) : f \in Modes}
  \cup KeepBattery \cup {Then(<<"getBattery", "bat">>, p) : p \in KeepBattery}
  \cup KeepKeyboard \cup {Then(<<"getKeyboard", "kbd">>, p) : p \in KeepKeyboard}
  \cup {Refresh}

StepNames ==
  {"getBattery", "setBattery", "getKeyboard", "setKeyboard", "events", "compare", "keep", "send", "bdvt", "flip", "yoga",
   "light"}
Steps == StepNames \X (Modes \cup Groups \cup {"key", "on", "off"})
Uses(s) ==
  IF s[1] \in {"compare", "keep", "send"} THEN GroupOf(s[2])
  ELSE IF s[1] \in {"getBattery", "setBattery", "bdvt"} THEN "bat" ELSE "kbd"

Holds(p, s) == \E i \in DOMAIN p : p[i] = s
At(t, s) == prog[t] # <<>> /\ Head(prog[t]) = s

TypeOK ==
  /\ hw \in [Modes -> BOOLEAN] /\ light \in 0 .. 2 /\ pending \in Nat /\ fold \in Folds
  /\ mode \in [Modes -> BOOLEAN] /\ conservationModeLock \in BOOLEAN
  /\ rapidChargeCap \in BOOLEAN /\ onYogaMode \in BOOLEAN
  /\ backlightLevel \in 0 .. 2 /\ backlightLevelSaved \in 0 .. 2
  /\ prog \in [Threads -> Programs] /\ arg \in [Threads -> BOOLEAN]
  /\ val \in [Threads -> [modes : [Modes -> BOOLEAN], lit : BOOLEAN]]
  /\ group \in [Threads -> SUBSET Groups]
  /\ alone \in [Threads -> BOOLEAN] /\ agreed \subseteq Groups
  /\ asked \in [Modes -> BOOLEAN \cup {None}]
  /\ calm \in BOOLEAN /\ before \in BOOLEAN

(* Threads use the methods they have said they would use; alone is alone.  *)
Active(t, g) == prog[t] # <<>> /\ g \in group[t]
Sole(g) == \A t, u \in Threads : Active(t, g) /\ Active(u, g) => t = u
Apart ==
  /\ \A t \in Threads, s \in Steps : Holds(prog[t], s) => Uses(s) \in group[t]
  /\ \A t, u \in Threads, g \in Groups : alone[t] /\ Active(t, g) /\ Active(u, g) => t = u
  /\ \A g \in agreed : Sole(g)

(* What a thread is about to keep is what the firmware has, and what it    *)
(* does not keep is kept.                                                  *)
Sets(t, g) ==
  \/ g = "bat" /\ On(t, "setBattery")
  \/ g = "kbd" /\ On(t, "setKeyboard")
HasRead == \A t \in Threads, f \in Modes :
  Sets(t, GroupOf(f)) /\ (alone[t] \/ GroupOf(f) \in agreed) => val[t].modes[f] = hw[f]
Told(t, f) == IF f = "fn" THEN arg[t] ELSE ~mode[f]
HasKept == \A f \in Modes : GroupOf(f) \in agreed /\ Kept(f) =>
  /\ \A t \in Threads : At(t, <<"keep", f>>) => (hw[f] <=> Told(t, f))
  /\ (\A t \in Threads : ~At(t, <<"keep", f>>)) => mode[f] = hw[f]

(* A mode that was asked for alone is set, or what is left to do will.     *)
Has(t, step, f) == Holds(prog[t], <<step, f>>)
Owes(t, f) ==
  \/ Has(t, "compare", f) \/ Has(t, "send", f)
  \/ f = "fn" /\ Has(t, "flip", f)
  \/ Has(t, "bdvt", f) /\ ~conservationModeLock
Owed(t, f) ==
  /\ Has(t, "compare", f) \/ (Has(t, "bdvt", f) /\ ~conservationModeLock) => arg[t] = asked[f]
  /\ Has(t, "send", f) => (asked[f] <=> Told(t, f))
  /\ f = "fn" /\ Has(t, "flip", f) => (asked[f] <=> ~hw[f])
Reading(g) == \E t \in Threads :
  /\ alone[t] /\ group[t] = {g}
  /\ On(t, "getBattery") \/ On(t, "getKeyboard") \/ Sets(t, g)
Asking(f) ==
  /\ f = "rapid" => rapidChargeCap
  /\ Sole(GroupOf(f)) /\ (GroupOf(f) \in agreed \/ Reading(GroupOf(f)))
  /\ \A t \in Threads : Owed(t, f)
  /\ (\A t \in Threads : ~Owes(t, f)) => hw[f] = asked[f]
HasAsked ==
  /\ \A t \in Threads : Has(t, "bdvt", "conservation") => t = "smc"
  /\ \A f \in Modes : asked[f] # None => Asking(f)

(* The machine is folded away, and back.                                   *)
FoldRead == ReadKeyboard \o << <<"yoga", "kbd">> >>
FoldSet == << <<"setKeyboard", "kbd">>, <<"yoga", "kbd">> >>
FoldYoga == << <<"yoga", "kbd">> >>
FoldLight(x) == << <<"light", x>> >>
KeySet == << <<"setKeyboard", "key">> >>
Alone ==
  /\ prog["gate"] = <<>> /\ prog["smc"] = <<>>
  /\ prog["acpi"] \in {<< >>, KeySet, ReadKey}
  /\ prog["wmi"] \in {<< >>, FoldLight("on"), FoldLight("off"), FoldRead, FoldSet, FoldYoga}
Dark(t) == On(t, "setKeyboard") => ~val[t].lit
Away ==
  IF prog["wmi"] = <<>> THEN light = 0 /\ (backlightLevelSaved > 0 <=> before) /\ Dark("acpi")
  ELSE /\ light > 0 <=> before
       /\ pending = 0 /\ prog["acpi"] = <<>> /\ ~arg["wmi"]
       /\ On("wmi", "setKeyboard") => (val["wmi"].lit <=> before)
       /\ On("wmi", "yoga") => (backlightLevel > 0 <=> before)
       /\ On("wmi", "light") => Of("wmi") = "off" /\ (backlightLevelSaved > 0 <=> before)
Back ==
  IF prog["wmi"] = <<>> THEN light > 0 <=> before
  ELSE /\ light = 0 /\ (backlightLevelSaved > 0 <=> before) /\ Dark("acpi") /\ arg["wmi"]
       /\ Dark("wmi")
       /\ On("wmi", "yoga") => backlightLevel = 0
       /\ On("wmi", "light") => Of("wmi") = "on" /\ before
Folding == calm /\ onYogaMode => Alone /\ IF fold = "laptop" THEN Back ELSE Away

-----------------------------------------------------------------------------
(* The programs.                                                           *)

(* A sequence's first step and its rest.                                   *)
LEMMA FirstAndRest ==
  ASSUME NEW S, NEW s \in S, NEW p \in Seq(S)
  PROVE  /\ Then(s, p) \in Seq(S) /\ Then(s, p) # <<>>
         /\ Head(Then(s, p)) = s /\ Tail(Then(s, p)) = p
         /\ \A r : Holds(Then(s, p), r) <=> r = s \/ Holds(p, r)
<1>1. /\ Then(s, p) \in Seq(S) /\ Len(Then(s, p)) = Len(p) + 1
      /\ Then(s, p)[1] = s /\ \A i \in 1 .. Len(p) : Then(s, p)[i + 1] = p[i]
  BY DEF Then
<1>2. Then(s, p) # <<>> /\ Head(Then(s, p)) = s
  BY <1>1
<1>3. Tail(Then(s, p)) = p
  <2>1. Tail(Then(s, p)) \in Seq(S) /\ Len(Tail(Then(s, p))) = Len(p)
    BY <1>1, <1>2, HeadTailProperties
  <2>2. \A i \in 1 .. Len(p) : Tail(Then(s, p))[i] = p[i]
    BY <1>1, <1>2, HeadTailProperties
  <2>. QED
    BY <2>1, <2>2, SeqEqual
<1>4. ASSUME NEW r PROVE Holds(Then(s, p), r) <=> r = s \/ Holds(p, r)
  <2>1. DOMAIN Then(s, p) = 1 .. Len(p) + 1 /\ DOMAIN p = 1 .. Len(p) /\ Len(p) \in Nat
    BY <1>1
  <2>2. Holds(Then(s, p), r) => r = s \/ Holds(p, r)
    <3>1. ASSUME NEW i \in 1 .. Len(p) + 1, Then(s, p)[i] = r, r # s PROVE i - 1 \in 1 .. Len(p) /\ p[i - 1] = r
      <4>1. i # 1
        BY <3>1, <1>1
      <4>. QED
        BY <4>1, <3>1, <2>1, <1>1
    <3>. QED
      BY <3>1, <2>1 DEF Holds
  <2>3. r = s => Holds(Then(s, p), r)
    BY <1>1, <2>1 DEF Holds
  <2>4. Holds(p, r) => Holds(Then(s, p), r)
    <3>1. ASSUME NEW i \in 1 .. Len(p), p[i] = r PROVE i + 1 \in 1 .. Len(p) + 1 /\ Then(s, p)[i + 1] = r
      BY <3>1, <2>1, <1>1
    <3>. QED
      BY <3>1, <2>1 DEF Holds
  <2>. QED
    BY <2>2, <2>3, <2>4
<1>. QED
  BY <1>1, <1>2, <1>3, <1>4

LEMMA StepAndRest ==
  /\ \A s \in Steps, p \in Seq(Steps) :
       /\ Then(s, p) \in Seq(Steps) /\ Then(s, p) # <<>>
       /\ Head(Then(s, p)) = s /\ Tail(Then(s, p)) = p
  /\ \A s \in Steps, p \in Seq(Steps) : \A r : Holds(Then(s, p), r) <=> r = s \/ Holds(p, r)
<1>1. ASSUME NEW s \in Steps, NEW p \in Seq(Steps)
      PROVE  /\ Then(s, p) \in Seq(Steps) /\ Then(s, p) # <<>>
             /\ Head(Then(s, p)) = s /\ Tail(Then(s, p)) = p
             /\ \A r : Holds(Then(s, p), r) <=> r = s \/ Holds(p, r)
  BY FirstAndRest
<1>. QED
  BY <1>1

(* The tuples of the model, step before step.                              *)
LEMMA Tuples ==
  /\ <<>> \in Seq(Steps) /\ \A r : ~Holds(<<>>, r)
  /\ \A s \in Steps : <<s>> = Then(s, <<>>)
  /\ \A s, r \in Steps : <<s, r>> = Then(s, Then(r, <<>>))
<1>1. <<>> \in Seq(Steps) /\ \A r : ~Holds(<<>>, r)
  BY DEF Holds
<1>2. ASSUME NEW s \in Steps PROVE <<s>> = Then(s, <<>>)
  <2>1. <<s>> \in Seq(Steps)
    OBVIOUS
  <2>2. <<s>> \o <<>> = <<s>>
    BY <2>1, ConcatEmptySeq
  <2>. QED
    BY <2>2, Zenon DEF Then
<1>3. ASSUME NEW s \in Steps, NEW r \in Steps PROVE <<s, r>> = Then(s, Then(r, <<>>))
  <2>1. <<s, r>> = <<s>> \o <<r>>
    <3>1. <<s>> \in Seq(Steps) /\ <<r>> \in Seq(Steps) /\ <<s, r>> \in Seq(Steps) /\ Len(<<s, r>>) = 2
      OBVIOUS
    <3>2. <<s>> \o <<r>> \in Seq(Steps) /\ Len(<<s>> \o <<r>>) = 2
      OBVIOUS
    <3>3. (<<s>> \o <<r>>)[1] = s /\ (<<s>> \o <<r>>)[2] = r
      OBVIOUS
    <3>4. \A i \in 1 .. 2 : <<s, r>>[i] = (<<s>> \o <<r>>)[i]
      BY <3>3
    <3>. QED
      BY <3>1, <3>2, <3>4, SeqEqual
  <2>. QED
    BY <1>2, <2>1, Zenon DEF Then
<1>. QED
  BY <1>1, <1>2, <1>3

LEMMA KindsOfSteps ==
  /\ Ends \subseteq Steps
  /\ <<"setBattery", "bat">> \in Steps /\ <<"getBattery", "bat">> \in Steps
  /\ <<"setKeyboard", "kbd">> \in Steps /\ <<"getKeyboard", "kbd">> \in Steps /\ <<"setKeyboard", "key">> \in Steps
  /\ <<"events", "kbd">> \in Steps
  /\ \A f \in Modes : <<"compare", f>> \in Steps /\ <<"send", f>> \in Steps /\ <<"keep", f>> \in Steps
  /\ <<"flip", "fn">> \in Steps /\ <<"yoga", "kbd">> \in Steps
  BY DEF Ends, Steps, StepNames, Modes, Groups

(* What is left of a program is one, and what it consists of.              *)
Consists(p, s, q) ==
  /\ p = Then(s, q) /\ s \in Steps /\ q \in Programs /\ q \in Seq(Steps)
  /\ s[1] = "getBattery" => q \in KeepBattery
  /\ s[1] = "setBattery" => q \in AfterBattery
  /\ s[1] = "getKeyboard" => q \in KeepKeyboard
  /\ s[1] = "setKeyboard" => q \in AfterKeyboard
  /\ s[1] = "events" => s = <<"events", "kbd">> /\ q = ReadKeyboard
  /\ s[1] = "send" => s[2] \in Modes /\ q = << <<"keep", s[2]>> >>
  /\ s[1] \notin {"getBattery", "setBattery", "getKeyboard", "setKeyboard", "events", "send"} => s \in Ends /\ q = <<>>

LEMMA Ended ==
  ASSUME NEW s \in Ends
  PROVE  Consists(<<s>>, s, <<>>)
<1>1. s \in Steps /\ <<s>> = Then(s, <<>>) /\ <<>> \in Seq(Steps) /\ <<>> \in Programs
  BY Tuples, KindsOfSteps DEF Programs
<1>2. s[1] \notin {"getBattery", "setBattery", "getKeyboard", "setKeyboard", "events", "send"}
  BY DEF Ends
<1>. QED
  BY <1>1, <1>2 DEF Consists

LEMMA KeyboardPrograms ==
  /\ ReadKeyboard = Then(<<"getKeyboard", "kbd">>, Then(<<"setKeyboard", "kbd">>, <<>>))
  /\ \A p \in AfterKeyboard : p \in Seq(Steps) /\ p \in Programs
  /\ \A p \in KeepKeyboard : p \in Seq(Steps) /\ p \in Programs
  /\ \A p \in AfterKeyboard : Then(<<"setKeyboard", "kbd">>, p) \in KeepKeyboard /\ Then(<<"setKeyboard", "key">>, p) \in KeepKeyboard
  /\ << <<"setKeyboard", "key">> >> = Then(<<"setKeyboard", "key">>, <<>>)
  /\ <<>> \in AfterKeyboard /\ ReadKeyboard \in AfterKeyboard /\ Refresh \in AfterKeyboard
<1>1. ReadKeyboard = Then(<<"getKeyboard", "kbd">>, Then(<<"setKeyboard", "kbd">>, <<>>))
  BY Tuples, KindsOfSteps DEF ReadKeyboard
<1>2. << <<"setKeyboard", "key">> >> = Then(<<"setKeyboard", "key">>, <<>>)
  BY Tuples, KindsOfSteps
<1>3. <<>> \in AfterKeyboard /\ ReadKeyboard \in AfterKeyboard /\ Refresh \in AfterKeyboard
  BY DEF AfterKeyboard
<1>4. ReadKeyboard \in Seq(Steps) /\ ReadKeyboard \in Programs
  <2>1. Then(<<"setKeyboard", "kbd">>, <<>>) \in KeepKeyboard
    BY <1>3 DEF KeepKeyboard
  <2>2. Then(<<"setKeyboard", "kbd">>, <<>>) \in Seq(Steps)
    BY Tuples, StepAndRest, KindsOfSteps
  <2>3. ReadKeyboard \in Seq(Steps)
    BY <1>1, <2>2, StepAndRest, KindsOfSteps
  <2>4. ReadKeyboard \in {Then(<<"getKeyboard", "kbd">>, p) : p \in KeepKeyboard}
    BY <1>1, <2>1, Zenon
  <2>. QED
    BY <2>3, <2>4, Zenon DEF Programs
<1>5. Refresh \in Seq(Steps) /\ Refresh \in Programs
  <2>1. Refresh \in Seq(Steps)
    BY <1>4, StepAndRest, KindsOfSteps DEF Refresh
  <2>. QED
    BY <2>1, Zenon DEF Programs
<1>6. ASSUME NEW p \in AfterKeyboard PROVE p \in Seq(Steps) /\ p \in Programs
  <2>1. CASE p = <<>>
    BY <2>1, Tuples DEF Programs
  <2>2. CASE \E s \in Ends : p = <<s>>
    BY <2>2, Ended, KindsOfSteps DEF Programs
  <2>3. p = <<>> \/ p = ReadKeyboard \/ p = Refresh \/ \E s \in Ends : p = <<s>>
    BY DEF AfterKeyboard, Ends, Modes
  <2>. QED
    BY <1>4, <1>5, <2>1, <2>2, <2>3
<1>7. ASSUME NEW p \in KeepKeyboard PROVE p \in Seq(Steps) /\ p \in Programs
  <2>1. PICK s \in Steps, q \in Seq(Steps) : p = Then(s, q)
    BY <1>6, KindsOfSteps DEF KeepKeyboard
  <2>. QED
    BY <2>1, StepAndRest DEF Programs
<1>8. \A p \in AfterKeyboard : Then(<<"setKeyboard", "kbd">>, p) \in KeepKeyboard /\ Then(<<"setKeyboard", "key">>, p) \in KeepKeyboard
  BY Zenon DEF KeepKeyboard
<1>. QED
  BY <1>1, <1>2, <1>3, <1>6, <1>7, <1>8

LEMMA BatteryPrograms ==
  /\ \A p \in AfterBattery : p \in Seq(Steps) /\ p \in Programs
  /\ \A p \in KeepBattery : p \in Seq(Steps) /\ p \in Programs
<1>1. ASSUME NEW p \in AfterBattery PROVE p \in Seq(Steps) /\ p \in Programs
  <2>1. p = Then(<<"getKeyboard", "kbd">>, Then(<<"setKeyboard", "kbd">>, Refresh)) \/ \E s \in Ends : p = <<s>>
    BY DEF AfterBattery, Ends, Modes
  <2>2. CASE \E s \in Ends : p = <<s>>
    BY <2>2, KindsOfSteps DEF Programs
  <2>3. PICK q : q = Then(<<"setKeyboard", "kbd">>, Refresh) /\ q \in KeepKeyboard /\ q \in Seq(Steps)
    BY KeyboardPrograms
  <2>4. CASE p = Then(<<"getKeyboard", "kbd">>, q)
    <3>1. p \in Seq(Steps)
      BY <2>3, <2>4, StepAndRest, KindsOfSteps
    <3>. QED
      BY <3>1, <2>3, <2>4, Zenon DEF Programs
  <2>. QED
    BY <2>1, <2>2, <2>3, <2>4
<1>2. ASSUME NEW p \in KeepBattery PROVE p \in Seq(Steps) /\ p \in Programs
  BY <1>1, StepAndRest, KindsOfSteps DEF KeepBattery, Programs
<1>. QED
  BY <1>1, <1>2

LEMMA Shapes ==
  ASSUME NEW p \in Programs, p # <<>>
  PROVE  \E s, q : Consists(p, s, q)
<1>1. CASE \E s \in Ends : p = <<s>>
  BY <1>1, Ended
<1>2. ASSUME NEW f \in Modes, p = Toggle(f) PROVE Consists(p, <<"send", f>>, << <<"keep", f>> >>)
  <2>1. p = Then(<<"send", f>>, << <<"keep", f>> >>) /\ << <<"keep", f>> >> \in Seq(Steps)
    <3>1. <<"send", f>> \in Steps /\ <<"keep", f>> \in Steps
      BY KindsOfSteps
    <3>2. p = Then(<<"send", f>>, Then(<<"keep", f>>, <<>>))
      BY <3>1, <1>2, Tuples, Zenon DEF Toggle
    <3>3. << <<"keep", f>> >> = Then(<<"keep", f>>, <<>>)
      BY <3>1, Tuples, Zenon
    <3>. QED
      BY <3>1, <3>2, <3>3
  <2>2. << <<"keep", f>> >> \in Programs
    BY DEF Programs, Ends
  <2>. QED
    BY <2>1, <2>2, KindsOfSteps DEF Consists
<1>3. ASSUME NEW q \in AfterBattery, p = Then(<<"setBattery", "bat">>, q)
      PROVE  Consists(p, <<"setBattery", "bat">>, q)
  BY <1>3, BatteryPrograms, KindsOfSteps DEF Consists
<1>4. ASSUME NEW q \in KeepBattery, p = Then(<<"getBattery", "bat">>, q)
      PROVE  Consists(p, <<"getBattery", "bat">>, q)
  BY <1>4, BatteryPrograms, KindsOfSteps DEF Consists
<1>5. ASSUME NEW q \in AfterKeyboard, NEW k \in {"kbd", "key"}, p = Then(<<"setKeyboard", k>>, q)
      PROVE  Consists(p, <<"setKeyboard", k>>, q)
  BY <1>5, KeyboardPrograms, KindsOfSteps DEF Consists
<1>6. ASSUME p = Refresh
      PROVE  Consists(p, <<"events", "kbd">>, ReadKeyboard)
  BY <1>6, KeyboardPrograms, KindsOfSteps DEF Consists, Refresh
<1>7. ASSUME NEW q \in KeepKeyboard, p = Then(<<"getKeyboard", "kbd">>, q)
      PROVE  Consists(p, <<"getKeyboard", "kbd">>, q)
  BY <1>7, KeyboardPrograms, KindsOfSteps DEF Consists
<1>. QED
  BY <1>1, <1>2, <1>3, <1>4, <1>5, <1>6, <1>7 DEF Programs, KeepBattery, KeepKeyboard

LEMMA Rests ==
  ASSUME NEW p \in Programs, p # <<>>
  PROVE  /\ Consists(p, Head(p), Tail(p))
         /\ \A r : Holds(p, r) <=> r = Head(p) \/ Holds(Tail(p), r)
         /\ SubSeq(p, 2, Len(p)) = Tail(p)
         /\ Tail(p) # <<>> => SubSeq(p, 3, Len(p)) = Tail(Tail(p))
<1>1. PICK s, q : Consists(p, s, q)
  BY Shapes
<1>2. s = Head(p) /\ q = Tail(p) /\ p \in Seq(Steps) /\ \A r : Holds(p, r) <=> r = s \/ Holds(q, r)
  <2>1. p = Then(s, q) /\ s \in Steps /\ q \in Seq(Steps)
    BY <1>1 DEF Consists
  <2>. QED
    BY <2>1, StepAndRest, Zenon
<1>3. SubSeq(p, 2, Len(p)) = Tail(p)
  BY <1>2
<1>4. ASSUME q # <<>> PROVE SubSeq(p, 3, Len(p)) = Tail(q)
  <2>1. q \in Seq(Steps) /\ Len(q) = Len(p) - 1 /\ \A i \in 1 .. Len(q) : q[i] = p[i + 1]
    BY <1>2, HeadTailProperties
  <2>2. Tail(q) \in Seq(Steps) /\ Len(Tail(q)) = Len(q) - 1 /\ \A i \in 1 .. Len(q) - 1 : Tail(q)[i] = q[i + 1]
    BY <1>4, <2>1, HeadTailProperties
  <2>3. SubSeq(p, 3, Len(p)) \in Seq(Steps) /\ Len(SubSeq(p, 3, Len(p))) = Len(q) - 1
    BY <1>2, <2>1, <1>4
  <2>4. \A i \in 1 .. Len(q) - 1 : SubSeq(p, 3, Len(p))[i] = p[i + 2]
    BY <1>2, <2>1, <1>4
  <2>5. \A i \in 1 .. Len(q) - 1 : Tail(q)[i] = p[i + 2]
    BY <2>1, <2>2
  <2>. QED
    BY <2>2, <2>3, <2>4, <2>5, SeqEqual
<1>. QED
  BY <1>1, <1>2, <1>3, <1>4

(* Where the steps of a program can be that owe something.                 *)
LEMMA NotAmongOthers ==
  /\ \A p \in AfterKeyboard : \A f : ~Holds(p, <<"send", f>>) /\ ~Holds(p, <<"bdvt", f>>) /\ ~Holds(p, <<"keep", f>>)
  /\ \A p \in AfterBattery : \A f : ~Holds(p, <<"send", f>>) /\ ~Holds(p, <<"bdvt", f>>) /\ ~Holds(p, <<"keep", f>>)
  /\ \A p \in KeepKeyboard : \A f : ~Holds(p, <<"send", f>>) /\ ~Holds(p, <<"bdvt", f>>) /\ ~Holds(p, <<"keep", f>>)
  /\ \A p \in KeepBattery : \A f : ~Holds(p, <<"send", f>>) /\ ~Holds(p, <<"bdvt", f>>) /\ ~Holds(p, <<"keep", f>>)
<1> DEFINE Plain(p) == \A f : ~Holds(p, <<"send", f>>) /\ ~Holds(p, <<"bdvt", f>>) /\ ~Holds(p, <<"keep", f>>)
           Other(s) == s[1] \notin {"send", "bdvt", "keep"}
<1>1. ASSUME NEW s \in Steps, NEW p \in Seq(Steps), Other(s), Plain(p) PROVE Plain(Then(s, p))
  <2>1. \A f : <<"send", f>> # s /\ <<"bdvt", f>> # s /\ <<"keep", f>> # s
    BY <1>1
  <2>2. \A r : Holds(Then(s, p), r) <=> r = s \/ Holds(p, r)
    BY <1>1, StepAndRest
  <2>. QED
    BY <2>1, <2>2, <1>1
<1>2. Plain(<<>>)
  BY Tuples
<1>3. ASSUME NEW s \in Steps, Other(s) PROVE Plain(<<s>>)
  <2>1. <<s>> = Then(s, <<>>) /\ <<>> \in Seq(Steps)
    BY Tuples
  <2>2. Plain(Then(s, <<>>))
    BY <1>1, <1>2, <1>3, <2>1
  <2>. QED
    BY <2>1, <2>2, Zenon
<1>4. ASSUME NEW p \in AfterKeyboard PROVE Plain(p)
  <2>1. p = <<>> \/ p = ReadKeyboard \/ p = Refresh \/ \E s \in Steps : Other(s) /\ p = <<s>>
    BY KindsOfSteps DEF AfterKeyboard, Modes
  <2>2. PICK a \in Steps, b \in Steps, c \in Steps :
          /\ Other(a) /\ Other(b) /\ Other(c)
          /\ ReadKeyboard = Then(a, Then(b, <<>>)) /\ Refresh = Then(c, ReadKeyboard)
    BY KeyboardPrograms, KindsOfSteps DEF Refresh
  <2>3. <<>> \in Seq(Steps) /\ Then(b, <<>>) \in Seq(Steps) /\ ReadKeyboard \in Seq(Steps)
    BY Tuples, StepAndRest, KeyboardPrograms
  <2>. HIDE DEF Plain, Other
  <2>4. Plain(ReadKeyboard) /\ Plain(Refresh)
    <3>1. Plain(Then(b, <<>>))
      BY <2>2, <2>3, <1>1, <1>2
    <3>2. Plain(ReadKeyboard)
      BY <3>1, <2>2, <2>3, <1>1
    <3>. QED
      BY <3>2, <2>2, <2>3, <1>1
  <2>. QED
    BY <2>1, <2>4, <1>2, <1>3
<1>5. ASSUME NEW p \in KeepKeyboard PROVE Plain(p)
  <2>1. PICK s \in Steps, q \in AfterKeyboard : Other(s) /\ p = Then(s, q)
    BY KindsOfSteps DEF KeepKeyboard
  <2>2. Plain(q) /\ q \in Seq(Steps)
    BY <1>4, KeyboardPrograms
  <2>. HIDE DEF Plain, Other
  <2>. QED
    BY <2>1, <2>2, <1>1
<1>6. ASSUME NEW p \in AfterBattery PROVE Plain(p)
  <2>1. PICK a, q : a \in Steps /\ Other(a) /\ q = Then(<<"setKeyboard", "kbd">>, Refresh) /\ a = <<"getKeyboard", "kbd">>
    BY KindsOfSteps
  <2>2. p = Then(a, q) \/ \E s \in Steps : Other(s) /\ p = <<s>>
    BY <2>1, KindsOfSteps DEF AfterBattery, Modes
  <2>3. q \in Seq(Steps) /\ Plain(q)
    BY <2>1, <1>5, KeyboardPrograms
  <2>. HIDE DEF Plain, Other
  <2>. QED
    BY <2>1, <2>2, <2>3, <1>1, <1>3
<1>7. ASSUME NEW p \in KeepBattery PROVE Plain(p)
  <2>1. PICK q \in AfterBattery : p = Then(<<"setBattery", "bat">>, q)
    BY DEF KeepBattery
  <2>2. Plain(q) /\ q \in Seq(Steps)
    BY <1>6, BatteryPrograms
  <2>3. Other(<<"setBattery", "bat">>) /\ <<"setBattery", "bat">> \in Steps
    BY KindsOfSteps
  <2>. HIDE DEF Plain, Other
  <2>. QED
    BY <2>1, <2>2, <2>3, <1>1
<1>. QED
  BY <1>4, <1>5, <1>6, <1>7

LEMMA OwingSteps ==
  ASSUME NEW p \in Programs, NEW f
  PROVE  /\ Holds(p, <<"send", f>>) => p # <<>> /\ Head(p) = <<"send", f>>
         /\ Holds(p, <<"bdvt", f>>) => p # <<>> /\ Head(p) = <<"bdvt", f>>
         /\ Holds(Tail(p), <<"send", f>>) => p = <<>>
<1>1. CASE p = <<>>
  BY <1>1, Tuples
<1>2. CASE p # <<>>
  <2>1. Consists(p, Head(p), Tail(p)) /\ \A r : Holds(p, r) <=> r = Head(p) \/ Holds(Tail(p), r)
    BY <1>2, Rests
  <2>2. ~Holds(Tail(p), <<"send", f>>) /\ ~Holds(Tail(p), <<"bdvt", f>>)
    <3>1. CASE Head(p)[1] = "send"
      <4>1. PICK k \in Steps : k = <<"keep", Head(p)[2]>> /\ Tail(p) = <<k>>
        BY <3>1, <2>1, KindsOfSteps DEF Consists
      <4>2. Tail(p) = Then(k, <<>>) /\ <<>> \in Seq(Steps) /\ \A r : ~Holds(<<>>, r)
        BY <4>1, Tuples
      <4>3. \A r : Holds(Tail(p), r) <=> r = k
        <5>1. ASSUME NEW q \in Seq(Steps), NEW r PROVE Holds(Then(k, q), r) <=> r = k \/ Holds(q, r)
          BY StepAndRest
        <5>. QED
          BY <4>2, <5>1, Zenon
      <4>. QED
        BY <4>1, <4>3
    <3>2. CASE Head(p)[1] # "send"
      <4>1. \/ Tail(p) \in KeepBattery \/ Tail(p) \in AfterBattery
            \/ Tail(p) \in KeepKeyboard \/ Tail(p) \in AfterKeyboard \/ Tail(p) = <<>>
        BY <3>2, <2>1, KeyboardPrograms DEF Consists
      <4>. QED
        BY <4>1, NotAmongOthers, Tuples
    <3>. QED
      BY <3>1, <3>2
  <2>. QED
    BY <2>1, <2>2, <1>2
<1>. QED
  BY <1>1, <1>2

LEMMA FirstSteps ==
  /\ \A p \in AfterBattery \cup AfterKeyboard :
       p = <<>> \/ Head(p)[1] \in {"compare", "flip", "yoga", "getKeyboard", "events"}
  /\ \A p \in KeepBattery :
       p # <<>> /\ Head(p) = <<"setBattery", "bat">> /\ Tail(p) \in AfterBattery
  /\ \A p \in KeepKeyboard :
       p # <<>> /\ Head(p)[1] = "setKeyboard" /\ Head(p) \in Steps /\ Tail(p) \in AfterKeyboard
<1>1. ASSUME NEW s \in Steps PROVE <<s>> # <<>> /\ Head(<<s>>) = s
  OBVIOUS
<1>2. ASSUME NEW p \in AfterBattery \cup AfterKeyboard
      PROVE  p = <<>> \/ Head(p)[1] \in {"compare", "flip", "yoga", "getKeyboard", "events"}
  <2>1. \/ p = <<>> \/ \E s \in Steps : p = <<s>> /\ s[1] \in {"compare", "flip", "yoga"}
        \/ p \in {Then(<<"getKeyboard", "kbd">>, q) : q \in Seq(Steps)} \/ p \in {Then(<<"events", "kbd">>, q) : q \in Seq(Steps)}
    <3>1. Then(<<"setKeyboard", "kbd">>, <<>>) \in Seq(Steps) /\ Then(<<"setKeyboard", "kbd">>, Refresh) \in Seq(Steps) /\ ReadKeyboard \in Seq(Steps)
      BY KeyboardPrograms
    <3>2. ReadKeyboard \in {Then(<<"getKeyboard", "kbd">>, q) : q \in Seq(Steps)}
      BY <3>1, KeyboardPrograms, Zenon
    <3>3. Then(<<"getKeyboard", "kbd">>, Then(<<"setKeyboard", "kbd">>, Refresh)) \in {Then(<<"getKeyboard", "kbd">>, q) : q \in Seq(Steps)}
      BY <3>1, Zenon
    <3>4. Refresh \in {Then(<<"events", "kbd">>, q) : q \in Seq(Steps)}
      BY <3>1, Zenon DEF Refresh
    <3>. QED
      BY <3>2, <3>3, <3>4, KindsOfSteps DEF AfterBattery, AfterKeyboard, Modes
  <2>2. ASSUME NEW q \in Seq(Steps)
        PROVE  Head(Then(<<"getKeyboard", "kbd">>, q))[1] = "getKeyboard" /\ Head(Then(<<"events", "kbd">>, q))[1] = "events"
    <3>1. PICK a \in Steps, b \in Steps : a = <<"getKeyboard", "kbd">> /\ b = <<"events", "kbd">>
      BY KindsOfSteps
    <3>2. Head(Then(a, q)) = a /\ Head(Then(b, q)) = b
      BY StepAndRest
    <3>. QED
      BY <3>1, <3>2
  <2>. QED
    BY <2>1, <2>2, <1>1
<1>3. ASSUME NEW p \in KeepBattery
      PROVE  p # <<>> /\ Head(p) = <<"setBattery", "bat">> /\ Tail(p) \in AfterBattery
  <2>1. PICK s \in Steps, q \in AfterBattery : s = <<"setBattery", "bat">> /\ p = Then(s, q)
    BY KindsOfSteps DEF KeepBattery
  <2>2. q \in Seq(Steps)
    BY BatteryPrograms
  <2>3. p # <<>> /\ Head(p) = s /\ Tail(p) = q
    BY <2>1, <2>2, StepAndRest, Zenon
  <2>. QED
    BY <2>1, <2>3
<1>4. ASSUME NEW p \in KeepKeyboard
      PROVE  p # <<>> /\ Head(p)[1] = "setKeyboard" /\ Head(p) \in Steps /\ Tail(p) \in AfterKeyboard
  <2>1. PICK s \in Steps, q \in AfterKeyboard : s[1] = "setKeyboard" /\ p = Then(s, q)
    BY KindsOfSteps DEF KeepKeyboard
  <2>. QED
    BY <2>1, KeyboardPrograms, StepAndRest
<1>. QED
  BY <1>2, <1>3, <1>4

(* Programs of one step, and the toggles.                                  *)
LEMMA ShortPrograms ==
  /\ \A s \in Steps : <<s>> # <<>> /\ Head(<<s>>) = s /\ <<s>> \in Seq(Steps) /\ \A r : Holds(<<s>>, r) <=> r = s
  /\ \A s \in Ends : <<s>> \in Programs
  /\ \A f \in Modes : /\ Toggle(f) \in Programs /\ Toggle(f) \in Seq(Steps) /\ Toggle(f) # <<>>
                      /\ Head(Toggle(f)) = <<"send", f>>
                      /\ \A r : Holds(Toggle(f), r) <=> r \in {<<"send", f>>, <<"keep", f>>}
<1>1. ASSUME NEW s \in Steps PROVE <<s>> # <<>> /\ Head(<<s>>) = s /\ <<s>> \in Seq(Steps) /\ \A r : Holds(<<s>>, r) <=> r = s
  <2>1. ASSUME NEW q \in Seq(Steps), NEW r PROVE Holds(Then(s, q), r) <=> r = s \/ Holds(q, r)
    BY StepAndRest
  <2>2. <<s>> = Then(s, <<>>) /\ <<>> \in Seq(Steps) /\ \A r : ~Holds(<<>>, r)
    BY Tuples
  <2>3. \A r : Holds(<<s>>, r) <=> r = s
    BY <2>1, <2>2, Zenon
  <2>. QED
    BY <2>3
<1>2. ASSUME NEW f \in Modes
      PROVE  /\ Toggle(f) \in Programs /\ Toggle(f) \in Seq(Steps) /\ Toggle(f) # <<>>
             /\ Head(Toggle(f)) = <<"send", f>>
             /\ \A r : Holds(Toggle(f), r) <=> r \in {<<"send", f>>, <<"keep", f>>}
  <2>1. PICK s, k : s \in Steps /\ k \in Steps /\ s = <<"send", f>> /\ k = <<"keep", f>>
    BY KindsOfSteps
  <2>2. Toggle(f) = Then(s, <<k>>)
    <3>1. <<s, k>> = Then(s, Then(k, <<>>)) /\ <<k>> = Then(k, <<>>)
      BY <2>1, Tuples
    <3>. QED
      BY <2>1, <3>1 DEF Toggle
  <2>3. /\ Toggle(f) \in Seq(Steps) /\ Toggle(f) # <<>> /\ Head(Toggle(f)) = s
        /\ \A r : Holds(Toggle(f), r) <=> r = s \/ Holds(<<k>>, r)
    <3>1. <<k>> \in Seq(Steps)
      BY <2>1, <1>1
    <3>2. PICK q \in Seq(Steps) : q = <<k>>
      BY <3>1
    <3>3. /\ Then(s, q) \in Seq(Steps) /\ Then(s, q) # <<>> /\ Head(Then(s, q)) = s
          /\ \A r : Holds(Then(s, q), r) <=> r = s \/ Holds(q, r)
      BY <2>1, StepAndRest
    <3>. QED
      BY <2>2, <3>2, <3>3
  <2>4. Toggle(f) \in Programs
    BY DEF Programs
  <2>5. \A r : Holds(Toggle(f), r) <=> r = s \/ r = k
    BY <2>1, <2>3, <1>1, Zenon
  <2>. QED
    BY <2>1, <2>3, <2>4, <2>5
<1>. QED
  BY <1>1, <1>2 DEF Programs

(* Programs of two steps and more.                                         *)
Precede(a, b, q, p) == p = <<a, b>> \o q

LEMMA TwoAndRest ==
  ASSUME NEW a \in Steps, NEW b \in Steps, NEW q \in Seq(Steps), NEW p,
         p = Then(a, Then(b, q)) \/ Precede(a, b, q, p)
  PROVE  /\ p = Then(a, Then(b, q)) /\ p # <<>> /\ Head(p) = a
         /\ \A r : Holds(p, r) <=> r = a \/ r = b \/ Holds(q, r)
<1>1. PICK c \in Seq(Steps) : c = Then(b, q) /\ \A r : Holds(c, r) <=> r = b \/ Holds(q, r)
  BY StepAndRest
<1>2. Then(a, c) # <<>> /\ Head(Then(a, c)) = a /\ \A r : Holds(Then(a, c), r) <=> r = a \/ Holds(c, r)
  BY StepAndRest
<1>3. <<a, b>> \o q = Then(a, c)
  <2>1. <<a, b>> = <<a>> \o <<b>>
    <3>1. <<a, b>> = Then(a, Then(b, <<>>)) /\ <<b>> = Then(b, <<>>)
      BY Tuples
    <3>. QED
      BY <3>1, Zenon DEF Then
  <2>2. <<a>> \in Seq(Steps) /\ <<b>> \in Seq(Steps)
    BY ShortPrograms
  <2>3. (<<a>> \o <<b>>) \o q = <<a>> \o (<<b>> \o q)
    BY <2>2, ConcatAssociative
  <2>. QED
    BY <2>1, <2>3, <1>1, Zenon DEF Then
<1>4. p = Then(a, c)
  BY <1>1, <1>3, Zenon DEF Precede
<1>. QED
  BY <1>1, <1>2, <1>4

-----------------------------------------------------------------------------
(* What a step leaves of its thread's program.                             *)
Moved(t, p) ==
  /\ p \in Programs /\ prog[t] # <<>> /\ prog' = [prog EXCEPT ![t] = p]
  /\ \A s \in Steps : Holds(p, s) => \E r \in Steps : Holds(prog[t], r) /\ Uses(s) = Uses(r)

LEMMA AdvanceMoves ==
  ASSUME TypeOK, NEW t \in Threads, prog[t] # <<>>
  PROVE  /\ prog[t] \in Programs /\ Consists(prog[t], Head(prog[t]), Tail(prog[t]))
         /\ \A r : Holds(prog[t], r) <=> r = Head(prog[t]) \/ Holds(Tail(prog[t]), r)
         /\ Advance(t) => Moved(t, Tail(prog[t]))
         /\ Skip(t, 1) => Moved(t, Tail(prog[t]))
         /\ Skip(t, 2) /\ Tail(prog[t]) # <<>> => Moved(t, Tail(Tail(prog[t])))
<1>1. /\ prog[t] \in Programs /\ Consists(prog[t], Head(prog[t]), Tail(prog[t]))
      /\ \A r : Holds(prog[t], r) <=> r = Head(prog[t]) \/ Holds(Tail(prog[t]), r)
      /\ SubSeq(prog[t], 2, Len(prog[t])) = Tail(prog[t])
      /\ Tail(prog[t]) # <<>> => SubSeq(prog[t], 3, Len(prog[t])) = Tail(Tail(prog[t]))
  BY Rests DEF TypeOK
<1>2. Tail(prog[t]) \in Programs
  BY <1>1 DEF Consists
<1>3. ASSUME Tail(prog[t]) # <<>>
      PROVE  /\ Tail(Tail(prog[t])) \in Programs
             /\ \A r : Holds(Tail(Tail(prog[t])), r) => Holds(Tail(prog[t]), r)
  BY <1>2, <1>3, Rests DEF Consists
<1>4. Advance(t) => Moved(t, Tail(prog[t]))
  BY <1>1, <1>2 DEF Advance, Moved
<1>5. Skip(t, 1) => Moved(t, Tail(prog[t]))
  <2>1. Skip(t, 1) => prog' = [prog EXCEPT ![t] = SubSeq(prog[t], 2, Len(prog[t]))]
    BY 1 + 1 = 2 DEF Skip
  <2>. QED
    BY <2>1, <1>1, <1>2 DEF Moved
<1>6. Skip(t, 2) /\ Tail(prog[t]) # <<>> => Moved(t, Tail(Tail(prog[t])))
  <2>1. Skip(t, 2) => prog' = [prog EXCEPT ![t] = SubSeq(prog[t], 3, Len(prog[t]))]
    BY 2 + 1 = 3 DEF Skip
  <2>. QED
    BY <2>1, <1>1, <1>3 DEF Moved
<1>. QED
  BY <1>1, <1>4, <1>5, <1>6

LEMMA InsertMoves ==
  ASSUME TypeOK, NEW t \in Threads, prog[t] # <<>>, NEW p \in Programs, Insert(t, p),
         Tail(prog[t]) = <<>>, \A s \in Steps : Holds(p, s) => Uses(s) = Uses(Head(prog[t]))
  PROVE  Moved(t, p)
<1>1. p \in Seq(Steps) /\ Head(prog[t]) \in Steps /\ Holds(prog[t], Head(prog[t]))
  <2>1. p = <<>> \/ \E s, q : Consists(p, s, q)
    BY Shapes
  <2>2. p \in Seq(Steps)
    <3>1. ASSUME NEW s, NEW q, Consists(p, s, q) PROVE p \in Seq(Steps)
      <4>1. p = Then(s, q) /\ s \in Steps /\ q \in Seq(Steps)
        BY <3>1 DEF Consists
      <4>. QED
        BY <4>1, StepAndRest, Zenon
    <3>. QED
      BY <2>1, <3>1, Tuples, Zenon
  <2>. QED
    BY <2>2, AdvanceMoves DEF Consists
<1>2. p \o Tail(prog[t]) = p
  BY <1>1, ConcatEmptySeq
<1>. QED
  BY <1>1, <1>2 DEF Insert, Moved

LEMMA ThreadsAct ==
  /\ \A s \in Ends : s[1] \in {"compare", "keep"} => s[2] \in Modes
  /\ \A f \in Modes : Uses(<<"send", f>>) = GroupOf(f) /\ Uses(<<"keep", f>>) = GroupOf(f) /\ Uses(<<"compare", f>>) = GroupOf(f)
  /\ Uses(<<"bdvt", "conservation">>) = "bat" /\ Uses(<<"flip", "fn">>) = "kbd" /\ Uses(<<"yoga", "kbd">>) = "kbd"
  /\ Uses(<<"light", "on">>) = "kbd" /\ Uses(<<"light", "off">>) = "kbd"
  /\ GroupOf("conservation") = "bat" /\ GroupOf("rapid") = "bat" /\ GroupOf("fn") = "kbd" /\ GroupOf("usb") = "kbd"
  BY DEF Ends, Modes, Uses, GroupOf

(* Each step of a thread, by the step it comes to.                         *)
LEMMA GetMoves ==
  ASSUME TypeOK, NEW t \in Threads, Get(t)
  PROVE  /\ prog[t] # <<>> /\ Tail(prog[t]) \in KeepBattery \cup KeepKeyboard
         /\ \/ /\ Advance(t) /\ Moved(t, Tail(prog[t]))
               /\ val' = [val EXCEPT ![t] = [modes |-> hw, lit |-> light > 0]]
               /\ UNCHANGED <<firmware, driver, machine, arg, group, history>>
            \/ /\ Failed(t, 2) /\ Moved(t, Tail(Tail(prog[t])))
               /\ Tail(Tail(prog[t])) \in AfterBattery \cup AfterKeyboard
<1>1. prog[t] # <<>> /\ (On(t, "getBattery") \/ On(t, "getKeyboard"))
  BY DEF Get, On
<1>2. Tail(prog[t]) \in KeepBattery \cup KeepKeyboard
  BY <1>1, AdvanceMoves DEF Consists, On
<1>3. Tail(prog[t]) # <<>> /\ Tail(Tail(prog[t])) \in AfterBattery \cup AfterKeyboard
  BY <1>2, FirstSteps
<1>4. CASE Failed(t, 2)
  <2>1. Moved(t, Tail(Tail(prog[t])))
    BY <1>1, <1>3, <1>4, AdvanceMoves DEF Failed
  <2>. QED
    BY <1>1, <1>2, <1>3, <1>4, <2>1
<1>5. CASE ~Failed(t, 2)
  <2>1. /\ Advance(t)
        /\ val' = [val EXCEPT ![t] = [modes |-> hw, lit |-> light > 0]]
        /\ UNCHANGED <<firmware, driver, machine, arg, group, history>>
    BY <1>5 DEF Get
  <2>. QED
    BY <1>1, <1>2, <2>1, AdvanceMoves
<1>. QED
  BY <1>4, <1>5

(* A program that owes nothing.                                            *)
OwingNothing(p) == \A s \in {"compare", "send", "flip", "bdvt"} : \A h : ~Holds(p, <<s, h>>)
EventRead == Then(<<"getKeyboard", "kbd">>, Then(<<"setKeyboard", "key">>, ReadKeyboard))

LEMMA EventPrograms ==
  /\ \A p \in {ReadKeyboard, EventRead} :
       /\ p \in Programs /\ p # <<>> /\ Head(p)[1] = "getKeyboard" /\ OwingNothing(p)
       /\ \A s \in Steps : Holds(p, s) => Uses(s) = "kbd"
  /\ ReadKey \o ReadKeyboard = EventRead
<1>1. PICK a \in Steps, b \in Steps, c \in Steps, e \in Seq(Steps) :
        /\ a = <<"getKeyboard", "kbd">> /\ b = <<"setKeyboard", "kbd">> /\ c = <<"setKeyboard", "key">>
        /\ e = <<>> /\ \A r : ~Holds(e, r)
  BY KindsOfSteps, Tuples
<1>2. PICK k \in Seq(Steps) : k = ReadKeyboard /\ k \in AfterKeyboard /\ k \in Programs /\ k = Then(a, Then(b, e))
  BY <1>1, KeyboardPrograms
<1>3. k # <<>> /\ Head(k) = a /\ \A r : Holds(k, r) <=> r = a \/ r = b
  <2>1. k # <<>> /\ Head(k) = a /\ \A r : Holds(k, r) <=> r = a \/ r = b \/ Holds(e, r)
    BY <1>2, TwoAndRest
  <2>. QED
    BY <2>1, <1>1
<1>4. PICK p : p = <<a, c>> \o k /\ Precede(a, c, k, p)
  BY DEF Precede
<1>5. p = Then(a, Then(c, k)) /\ p # <<>> /\ Head(p) = a /\ \A r : Holds(p, r) <=> r = a \/ r = c \/ Holds(k, r)
  <2>1. a \in Steps /\ c \in Steps /\ k \in Seq(Steps) /\ Precede(a, c, k, p)
    BY <1>1, <1>2, <1>4
  <2>. QED
    BY <2>1, TwoAndRest
<1>6. p = EventRead /\ p = ReadKey \o ReadKeyboard
  BY <1>1, <1>2, <1>4, <1>5 DEF EventRead, ReadKey
<1>7. p \in Programs
  <2>1. Then(c, k) \in KeepKeyboard
    BY <1>1, <1>2, KeyboardPrograms
  <2>. QED
    BY <2>1, <1>1, <1>5, Zenon DEF Programs
<1>8. Uses(a) = "kbd" /\ Uses(b) = "kbd" /\ Uses(c) = "kbd"
  BY <1>1 DEF Uses
<1>9. \A s \in {"compare", "send", "flip", "bdvt"} : \A h : <<s, h>> # a /\ <<s, h>> # b /\ <<s, h>> # c
  BY <1>1
<1>10. OwingNothing(k) /\ OwingNothing(p)
  BY <1>3, <1>5, <1>9 DEF OwingNothing
<1>11. \A s \in Steps : Holds(k, s) \/ Holds(p, s) => Uses(s) = "kbd"
  BY <1>3, <1>5, <1>8
<1>12. Head(k)[1] = "getKeyboard" /\ Head(p)[1] = "getKeyboard"
  BY <1>1, <1>3, <1>5
<1>. QED
  BY <1>2, <1>3, <1>5, <1>6, <1>7, <1>10, <1>11, <1>12

LEMMA EventsMoves ==
  ASSUME TypeOK, NEW t \in Threads, Events(t)
  PROVE  /\ prog[t] # <<>> /\ Head(prog[t])[1] = "events" /\ OwingNothing(prog[t])
         /\ Moved(t, ReadKeyboard) \/ Moved(t, EventRead)
         /\ \/ /\ UNCHANGED <<hw, light, fold, driver, machine, arg, val, group, requests, history>>
               /\ pending' = pending \/ (pending > 0 /\ pending' = pending - 1)
            \/ Failed(t, 1)
<1>1. prog[t] # <<>> /\ On(t, "events") /\ Head(prog[t])[1] = "events"
  BY DEF Events, On
<1>2. Consists(prog[t], Head(prog[t]), Tail(prog[t])) /\ \A r : Holds(prog[t], r) <=> r = Head(prog[t]) \/ Holds(Tail(prog[t]), r)
  BY <1>1, AdvanceMoves
<1>3. Head(prog[t]) = <<"events", "kbd">> /\ Tail(prog[t]) = ReadKeyboard
  BY <1>1, <1>2 DEF Consists
<1>4. OwingNothing(prog[t])
  <2>1. \A s \in {"compare", "send", "flip", "bdvt"} : \A h : <<s, h>> # Head(prog[t])
    BY <1>1
  <2>2. OwingNothing(ReadKeyboard)
    BY EventPrograms
  <2>. QED
    BY <2>1, <2>2, <1>2, <1>3 DEF OwingNothing
<1>5. ASSUME Advance(t) \/ Skip(t, 1) PROVE Moved(t, ReadKeyboard)
  BY <1>1, <1>3, <1>5, AdvanceMoves
<1>6. ASSUME Insert(t, ReadKey) PROVE Moved(t, EventRead)
  <2>1. prog' = [prog EXCEPT ![t] = EventRead]
    BY <1>3, <1>6, EventPrograms DEF Insert
  <2>2. Head(prog[t]) \in Steps /\ Holds(prog[t], Head(prog[t]))
    BY <1>2 DEF Consists
  <2>3. Uses(Head(prog[t])) = "kbd"
    BY <1>3 DEF Uses
  <2>4. EventRead \in Programs /\ \A s \in Steps : Holds(EventRead, s) => Uses(s) = "kbd"
    BY EventPrograms
  <2>. QED
    BY <2>1, <2>2, <2>3, <2>4, <1>1 DEF Moved
<1>. QED
  BY <1>1, <1>4, <1>5, <1>6 DEF Events, Failed

LEMMA SetMoves ==
  ASSUME TypeOK, NEW t \in Threads, SetBattery(t) \/ SetKeyboard(t)
  PROVE  /\ prog[t] # <<>> /\ Moved(t, Tail(prog[t])) /\ Tail(prog[t]) \in AfterBattery \cup AfterKeyboard
         /\ SetBattery(t) => "bat" = Uses(Head(prog[t]))
         /\ SetKeyboard(t) => "kbd" = Uses(Head(prog[t]))
<1>1. prog[t] # <<>> /\ Advance(t) /\ (On(t, "setBattery") \/ On(t, "setKeyboard"))
  BY DEF SetBattery, SetKeyboard, On
<1>2. Tail(prog[t]) \in AfterBattery \cup AfterKeyboard
  BY <1>1, AdvanceMoves DEF Consists, On
<1>3. /\ SetBattery(t) => "bat" = Uses(Head(prog[t]))
      /\ SetKeyboard(t) => "kbd" = Uses(Head(prog[t]))
  BY DEF SetBattery, SetKeyboard, On, Uses
<1>. QED
  BY <1>1, <1>2, <1>3, AdvanceMoves

Skips(t) == arg[t] = mode[Of(t)] \/ (Of(t) = "rapid" /\ ~rapidChargeCap) \/ (On(t, "bdvt") /\ conservationModeLock)

LEMMA CompareMoves ==
  ASSUME TypeOK, NEW t \in Threads, Compare(t)
  PROVE  /\ Of(t) \in Modes /\ Uses(Head(prog[t])) = GroupOf(Of(t))
         /\ On(t, "compare") => Head(prog[t]) = <<"compare", Of(t)>>
         /\ On(t, "bdvt") => Head(prog[t]) = <<"bdvt", Of(t)>> /\ Of(t) = "conservation"
         /\ Tail(prog[t]) = <<>>
         /\ Moved(t, IF Skips(t) THEN <<>> ELSE Toggle(Of(t)))
<1>1. prog[t] # <<>> /\ (On(t, "compare") \/ On(t, "bdvt"))
  BY DEF Compare, On
<1>2. Consists(prog[t], Head(prog[t]), Tail(prog[t]))
  BY <1>1, AdvanceMoves
<1>3. Head(prog[t]) \in Ends /\ Tail(prog[t]) = <<>>
  BY <1>1, <1>2 DEF Consists, On
<1>4. /\ Of(t) \in Modes /\ Uses(Head(prog[t])) = GroupOf(Of(t))
      /\ On(t, "compare") => Head(prog[t]) = <<"compare", Of(t)>>
      /\ On(t, "bdvt") => Head(prog[t]) = <<"bdvt", Of(t)>> /\ Of(t) = "conservation"
  <2>1. CASE On(t, "compare")
    <3>1. PICK f \in Modes : Head(prog[t]) = <<"compare", f>>
      BY <2>1, <1>3 DEF On, Ends
    <3>2. Of(t) = f
      BY <3>1 DEF Of
    <3>3. Uses(Head(prog[t])) = GroupOf(f)
      BY <3>1, ThreadsAct, Zenon
    <3>4. ~On(t, "bdvt")
      BY <2>1 DEF On
    <3>. QED
      BY <3>1, <3>2, <3>3, <3>4
  <2>2. CASE On(t, "bdvt")
    <3>1. Head(prog[t]) = <<"bdvt", "conservation">>
      BY <2>2, <1>3 DEF On, Ends
    <3>. QED
      BY <3>1, <2>2, ThreadsAct DEF On, Of, Modes
  <2>. QED
    BY <1>1, <2>1, <2>2
<1>5. Insert(t, IF Skips(t) THEN <<>> ELSE Toggle(Of(t)))
  BY DEF Compare, Skips
<1>6. CASE Skips(t)
  <2>1. Insert(t, <<>>) /\ <<>> \in Programs /\ \A s \in Steps : ~Holds(<<>>, s)
    BY <1>5, <1>6, Tuples DEF Programs
  <2>2. Moved(t, <<>>)
    BY <2>1, <1>1, <1>3, InsertMoves
  <2>. QED
    BY <2>2, <1>3, <1>4, <1>6
<1>7. CASE ~Skips(t)
  <2>1. PICK p \in Programs : p = Toggle(Of(t))
    BY <1>4, ShortPrograms
  <2>2. \A s \in Steps : Holds(p, s) => Uses(s) = GroupOf(Of(t))
    BY <2>1, <1>4, ShortPrograms, ThreadsAct
  <2>3. Insert(t, p)
    BY <1>5, <1>7, <2>1
  <2>4. Moved(t, p)
    BY <2>2, <2>3, <1>1, <1>3, <1>4, InsertMoves
  <2>. QED
    BY <2>1, <2>4, <1>3, <1>4, <1>7
<1>. QED
  BY <1>6, <1>7

LEMMA FlipMoves ==
  ASSUME TypeOK, NEW t \in Threads, FlipFn(t)
  PROVE  /\ Head(prog[t]) = <<"flip", "fn">> /\ Tail(prog[t]) = <<>>
         /\ Moved(t, Toggle("fn"))
<1>1. prog[t] # <<>> /\ On(t, "flip")
  BY DEF FlipFn, On
<1>2. Consists(prog[t], Head(prog[t]), Tail(prog[t]))
  BY <1>1, AdvanceMoves
<1>3. Head(prog[t]) = <<"flip", "fn">> /\ Tail(prog[t]) = <<>>
  BY <1>1, <1>2 DEF Consists, On, Ends
<1>4. PICK p \in Programs : p = Toggle("fn")
  BY ShortPrograms DEF Modes
<1>5. \A s \in Steps : Holds(p, s) => Uses(s) = "kbd"
  BY <1>4, ShortPrograms, ThreadsAct DEF Modes
<1>6. Insert(t, p) /\ Uses(Head(prog[t])) = "kbd"
  BY <1>3, <1>4, ThreadsAct DEF FlipFn
<1>7. Moved(t, p)
  BY <1>1, <1>3, <1>5, <1>6, InsertMoves
<1>. QED
  BY <1>3, <1>4, <1>7

LEMMA SendMoves ==
  ASSUME TypeOK, NEW t \in Threads, Send(t)
  PROVE  /\ Of(t) \in Modes /\ Uses(Head(prog[t])) = GroupOf(Of(t)) /\ Head(prog[t]) = <<"send", Of(t)>>
         /\ \/ /\ Advance(t) /\ Moved(t, << <<"keep", Of(t)>> >>)
               /\ hw' = [hw EXCEPT ![Of(t)] = Told(t, Of(t))]
               /\ UNCHANGED <<light, pending, fold, driver, machine, arg, val, group, history>>
            \/ Failed(t, 2) /\ Moved(t, <<>>)
<1>1. prog[t] # <<>> /\ On(t, "send")
  BY DEF Send, On
<1>2. Consists(prog[t], Head(prog[t]), Tail(prog[t]))
  BY <1>1, AdvanceMoves
<1>3. Of(t) \in Modes /\ Tail(prog[t]) = << <<"keep", Of(t)>> >>
  BY <1>1, <1>2 DEF Consists, On, Of
<1>4. Head(prog[t]) = <<"send", Of(t)>>
  BY <1>1, <1>2 DEF Consists, On, Of, Steps
<1>5. Uses(Head(prog[t])) = GroupOf(Of(t))
  BY <1>3, <1>4, ThreadsAct, Zenon
<1>6. CASE Failed(t, 2)
  <2>1. Tail(prog[t]) # <<>> /\ Tail(Tail(prog[t])) = <<>>
    <3>1. PICK s \in Steps : s = <<"keep", Of(t)>> /\ Tail(prog[t]) = <<s>>
      BY <1>3, KindsOfSteps
    <3>2. <<s>> # <<>> /\ <<s>> = Then(s, <<>>) /\ Tail(Then(s, <<>>)) = <<>>
      BY ShortPrograms, Tuples, StepAndRest
    <3>. QED
      BY <3>1, <3>2
  <2>2. Moved(t, Tail(Tail(prog[t])))
    BY <1>1, <2>1, <1>6, AdvanceMoves DEF Failed
  <2>. QED
    BY <1>3, <1>4, <1>5, <1>6, <2>1, <2>2
<1>7. CASE ~Failed(t, 2)
  <2>1. /\ Advance(t)
        /\ hw' = [hw EXCEPT ![Of(t)] = IF Of(t) = "fn" THEN arg[t] ELSE ~mode[Of(t)]]
        /\ UNCHANGED <<light, pending, fold, driver, machine, arg, val, group, history>>
    BY <1>7 DEF Send
  <2>2. hw' = [hw EXCEPT ![Of(t)] = Told(t, Of(t))]
    BY <2>1, Zenon DEF Told
  <2>3. Moved(t, Tail(prog[t]))
    BY <1>1, <2>1, AdvanceMoves
  <2>. QED
    BY <1>3, <1>4, <1>5, <2>1, <2>2, <2>3
<1>. QED
  BY <1>6, <1>7

LEMMA KeepMoves ==
  ASSUME TypeOK, NEW t \in Threads, Keep(t)
  PROVE  /\ Of(t) \in Modes /\ Uses(Head(prog[t])) = GroupOf(Of(t)) /\ Head(prog[t]) = <<"keep", Of(t)>>
         /\ Moved(t, <<>>)
         /\ mode' = [mode EXCEPT ![Of(t)] = Told(t, Of(t))]
<1>1. prog[t] # <<>> /\ On(t, "keep") /\ Advance(t)
  BY DEF Keep, On
<1>2. Consists(prog[t], Head(prog[t]), Tail(prog[t])) /\ Moved(t, Tail(prog[t]))
  BY <1>1, AdvanceMoves
<1>3. Head(prog[t]) \in Ends /\ Tail(prog[t]) = <<>>
  BY <1>1, <1>2 DEF Consists, On
<1>4. PICK f \in Modes : Head(prog[t]) = <<"keep", f>>
  BY <1>1, <1>3 DEF On, Ends
<1>5. Of(t) = f
  BY <1>4 DEF Of
<1>6. Uses(Head(prog[t])) = GroupOf(f)
  BY <1>4, ThreadsAct, Zenon
<1>7. mode' = [mode EXCEPT ![f] = IF f = "fn" THEN arg[t] ELSE ~mode[f]]
  BY <1>5 DEF Keep, TypeOK
<1>8. mode' = [mode EXCEPT ![Of(t)] = Told(t, Of(t))]
  BY <1>5, <1>7, Zenon DEF Told
<1>. QED
  BY <1>2, <1>3, <1>4, <1>5, <1>6, <1>8

Lit(t) == IF (IF arg[t] THEN backlightLevelSaved ELSE 0) > 0 THEN "on" ELSE "off"

LEMMA YogaMoves ==
  ASSUME TypeOK, NEW t \in Threads, Yoga(t)
  PROVE  /\ Head(prog[t]) = <<"yoga", "kbd">> /\ Tail(prog[t]) = <<>>
         /\ Moved(t, IF (IF arg[t] THEN backlightLevelSaved ELSE 0) = backlightLevel THEN <<>> ELSE << <<"light", Lit(t)>> >>)
<1>1. prog[t] # <<>> /\ On(t, "yoga")
  BY DEF Yoga, On
<1>2. Consists(prog[t], Head(prog[t]), Tail(prog[t]))
  BY <1>1, AdvanceMoves
<1>3. Head(prog[t]) = <<"yoga", "kbd">> /\ Tail(prog[t]) = <<>>
  BY <1>1, <1>2 DEF Consists, On, Ends
<1>4. Uses(Head(prog[t])) = "kbd"
  BY <1>3, ThreadsAct
<1> DEFINE wanted == IF arg[t] THEN backlightLevelSaved ELSE 0
<1>5. Insert(t, IF wanted = backlightLevel THEN <<>> ELSE << <<"light", Lit(t)>> >>)
  BY DEF Yoga, Lit
<1>6. PICK s \in Ends : s = <<"light", Lit(t)>> /\ s \in Steps /\ Uses(s) = "kbd"
  BY ThreadsAct, KindsOfSteps DEF Lit, Ends
<1>. HIDE DEF wanted
<1>7. CASE wanted = backlightLevel
  <2>1. Insert(t, <<>>) /\ <<>> \in Programs /\ \A r \in Steps : ~Holds(<<>>, r)
    BY <1>5, <1>7, Tuples DEF Programs
  <2>2. Moved(t, <<>>)
    BY <2>1, <1>1, <1>3, InsertMoves
  <2>. QED
    BY <2>2, <1>3, <1>7 DEF wanted
<1>8. CASE wanted # backlightLevel
  <2>1. PICK p \in Programs : p = <<s>> /\ \A r : Holds(p, r) <=> r = s
    BY <1>6, ShortPrograms
  <2>2. Insert(t, p)
    BY <2>1, <1>5, <1>6, <1>8
  <2>3. Moved(t, p)
    BY <2>1, <2>2, <1>1, <1>3, <1>4, <1>6, InsertMoves
  <2>. QED
    BY <2>1, <2>3, <1>3, <1>6, <1>8 DEF wanted
<1>. QED
  BY <1>7, <1>8

LEMMA LightMoves ==
  ASSUME TypeOK, NEW t \in Threads, SetBacklight(t)
  PROVE  /\ Of(t) \in {"on", "off"} /\ Head(prog[t]) = <<"light", Of(t)>> /\ Tail(prog[t]) = <<>>
         /\ Moved(t, <<>>)
<1>1. prog[t] # <<>> /\ On(t, "light") /\ (Advance(t) \/ Skip(t, 1))
  BY DEF SetBacklight, On, Failed
<1>2. Consists(prog[t], Head(prog[t]), Tail(prog[t])) /\ Moved(t, Tail(prog[t]))
  BY <1>1, AdvanceMoves
<1>3. Head(prog[t]) \in Ends /\ Tail(prog[t]) = <<>>
  BY <1>1, <1>2 DEF Consists, On
<1>4. PICK x \in {"on", "off"} : Head(prog[t]) = <<"light", x>>
  BY <1>1, <1>3 DEF On, Ends
<1>5. Of(t) = x
  BY <1>4 DEF Of
<1>. QED
  BY <1>2, <1>3, <1>4, <1>5

-----------------------------------------------------------------------------
(* What any step of a thread does.                                         *)
Comes(t, p) ==
  /\ Moved(t, p) /\ group' = group /\ alone' = alone
  /\ \A g \in agreed' : g \in agreed \/ (alone[t] /\ g = Uses(Head(prog[t])))
  /\ agreed' \subseteq Groups
  /\ p # <<>> => Head(p)[1] # "bdvt"
  /\ p # <<>> /\ Head(p)[1] \in {"setBattery", "setKeyboard"} => val'[t].modes = hw /\ hw' = hw
  /\ \A f \in Modes : p # <<>> /\ Head(p) = <<"keep", f>> =>
       Head(prog[t]) = <<"send", f>> /\ hw' = [hw EXCEPT ![f] = Told(t, f)] /\ mode' = mode /\ arg' = arg

LEMMA EndsComeLast ==
  /\ \A p \in AfterBattery \cup AfterKeyboard : p # <<>> => Head(p)[1] \notin {"setBattery", "setKeyboard", "keep", "bdvt"}
  /\ \A p \in KeepBattery \cup KeepKeyboard : Head(p)[1] \notin {"keep", "bdvt"}
  /\ \A f \in Modes : Head(Toggle(f))[1] \notin {"setBattery", "setKeyboard", "keep", "bdvt"}
  /\ \A f \in Modes : << <<"keep", f>> >> # <<>> /\ Head(<< <<"keep", f>> >>) = <<"keep", f>>
  /\ \A x \in {"on", "off"} : << <<"light", x>> >> # <<>> /\ Head(<< <<"light", x>> >>) = <<"light", x>>
<1>1. /\ \A p \in AfterBattery \cup AfterKeyboard : p # <<>> => Head(p)[1] \notin {"setBattery", "setKeyboard", "keep", "bdvt"}
      /\ \A p \in KeepBattery \cup KeepKeyboard : Head(p)[1] \notin {"keep", "bdvt"}
  BY FirstSteps
<1>2. ASSUME NEW f \in Modes
      PROVE  /\ Head(Toggle(f))[1] \notin {"setBattery", "setKeyboard", "keep", "bdvt"}
             /\ << <<"keep", f>> >> # <<>> /\ Head(<< <<"keep", f>> >>) = <<"keep", f>>
  <2>1. Head(Toggle(f)) = <<"send", f>>
    BY ShortPrograms
  <2>2. <<"keep", f>> \in Steps
    BY KindsOfSteps
  <2>. QED
    BY <2>1, <2>2, ShortPrograms
<1>3. ASSUME NEW x \in {"on", "off"} PROVE << <<"light", x>> >> # <<>> /\ Head(<< <<"light", x>> >>) = <<"light", x>>
  <2>1. <<"light", x>> \in Steps
    BY KindsOfSteps DEF Ends
  <2>. QED
    BY <2>1, ShortPrograms
<1>. QED
  BY <1>1, <1>2, <1>3

LEMMA StepComes ==
  ASSUME TypeOK, NEW t \in Threads, Step(t)
  PROVE  \E p : Comes(t, p)
<1> DEFINE Same == group' = group /\ alone' = alone /\ agreed' = agreed
           Reaches(p) ==
             /\ p # <<>> => Head(p)[1] # "bdvt"
             /\ p # <<>> /\ Head(p)[1] \in {"setBattery", "setKeyboard"} => val'[t].modes = hw /\ hw' = hw
             /\ \A f \in Modes : p # <<>> /\ Head(p) = <<"keep", f>> =>
                  Head(prog[t]) = <<"send", f>> /\ hw' = [hw EXCEPT ![f] = Told(t, f)] /\ mode' = mode /\ arg' = arg
           Plain(p) == p = <<>> \/ Head(p)[1] \notin {"setBattery", "setKeyboard", "keep", "bdvt"}
<1>1. ASSUME NEW p, Plain(p) PROVE Reaches(p)
  BY <1>1
<1>2. ASSUME NEW p, Moved(t, p), Same, Reaches(p) PROVE Comes(t, p)
  BY <1>2 DEF Comes, TypeOK
<1>3. CASE Get(t)
  <2>1. CASE Moved(t, Tail(prog[t])) /\ val' = [val EXCEPT ![t] = [modes |-> hw, lit |-> light > 0]]
             /\ UNCHANGED <<firmware, driver, machine, arg, group, history>>
    <3>1. Same
      BY <2>1 DEF history
    <3>2. val'[t].modes = hw /\ hw' = hw
      BY <2>1 DEF firmware, TypeOK
    <3>3. Head(Tail(prog[t]))[1] \notin {"keep", "bdvt"}
      BY <1>3, GetMoves, EndsComeLast
    <3>4. Reaches(Tail(prog[t]))
      BY <3>2, <3>3
    <3>. QED
      BY <2>1, <3>1, <3>4, <1>2
  <2>2. CASE Failed(t, 2) /\ Moved(t, Tail(Tail(prog[t]))) /\ Tail(Tail(prog[t])) \in AfterBattery \cup AfterKeyboard
    <3>1. Same
      BY <2>2 DEF Failed
    <3>. QED
      BY <2>2, <3>1, <1>1, <1>2, EndsComeLast
  <2>. QED
    BY <1>3, <2>1, <2>2, GetMoves
<1>4. CASE SetBattery(t) \/ SetKeyboard(t)
  <2>1. Moved(t, Tail(prog[t])) /\ Reaches(Tail(prog[t]))
    BY <1>4, SetMoves, EndsComeLast, <1>1
  <2>2. group' = group /\ alone' = alone
    BY <1>4 DEF SetBattery, SetKeyboard
  <2>3. agreed' \subseteq Groups /\ \A g \in agreed' : g \in agreed \/ (alone[t] /\ g = Uses(Head(prog[t])))
    BY <1>4, SetMoves DEF SetBattery, SetKeyboard, Agree, TypeOK, Groups
  <2>. QED
    BY <2>1, <2>2, <2>3 DEF Comes
<1>5. CASE Compare(t)
  <2>1. PICK p : Moved(t, p) /\ Plain(p)
    BY <1>5, CompareMoves, EndsComeLast
  <2>2. Same
    BY <1>5 DEF Compare, history
  <2>. QED
    BY <2>1, <2>2, <1>1, <1>2
<1>6. CASE FlipFn(t)
  <2>1. PICK p : Moved(t, p) /\ Plain(p)
    BY <1>6, FlipMoves, EndsComeLast DEF Modes
  <2>2. Same
    BY <1>6 DEF FlipFn, history
  <2>. QED
    BY <2>1, <2>2, <1>1, <1>2
<1>7. CASE Send(t)
  <2>1. Same
    BY <1>7 DEF Send, Failed, history
  <2>2. CASE Moved(t, <<>>)
    BY <2>1, <2>2, <1>1, <1>2
  <2>3. CASE /\ Moved(t, << <<"keep", Of(t)>> >>)
             /\ hw' = [hw EXCEPT ![Of(t)] = Told(t, Of(t))]
             /\ UNCHANGED <<light, pending, fold, driver, machine, arg, val, group, history>>
    <3>0. PICK f \in Modes : f = Of(t)
      BY <1>7, SendMoves
    <3>1. PICK p : p = << <<"keep", Of(t)>> >> /\ p # <<>> /\ Head(p) = <<"keep", f>>
      BY <3>0, EndsComeLast
    <3>2. Head(prog[t]) = <<"send", f>> /\ hw' = [hw EXCEPT ![f] = Told(t, f)] /\ mode' = mode /\ arg' = arg
      BY <1>7, <2>3, <3>0, SendMoves DEF driver
    <3>3. Reaches(p)
      <4>1. Head(p)[1] # "bdvt" /\ Head(p)[1] \notin {"setBattery", "setKeyboard"}
        BY <3>1
      <4>2. \A h \in Modes : Head(p) = <<"keep", h>> => h = f
        BY <3>1
      <4>. QED
        BY <3>2, <4>1, <4>2, Zenon
    <3>. QED
      BY <2>1, <2>3, <3>1, <3>3, <1>2
  <2>. QED
    BY <1>7, <2>2, <2>3, SendMoves
<1>8. CASE Keep(t)
  <2>1. Moved(t, <<>>)
    BY <1>8, KeepMoves
  <2>2. Same
    BY <1>8 DEF Keep, history
  <2>. QED
    BY <2>1, <2>2, <1>1, <1>2
<1>9. CASE Yoga(t)
  <2>1. PICK p : Moved(t, p) /\ (p = <<>> \/ p = << <<"light", Lit(t)>> >>)
    BY <1>9, YogaMoves
  <2>2. Plain(p)
    BY <2>1, EndsComeLast DEF Lit
  <2>3. Same
    BY <1>9 DEF Yoga, history
  <2>. QED
    BY <2>1, <2>2, <2>3, <1>1, <1>2
<1>10. CASE SetBacklight(t)
  <2>1. Moved(t, <<>>)
    BY <1>10, LightMoves
  <2>2. Same
    BY <1>10 DEF SetBacklight, Failed, history
  <2>. QED
    BY <2>1, <2>2, <1>1, <1>2
<1>11. CASE Events(t)
  <2>1. PICK p : Moved(t, p) /\ p \in {ReadKeyboard, EventRead}
    BY <1>11, EventsMoves
  <2>2. Plain(p)
    BY <2>1, EventPrograms
  <2>3. Same
    BY <1>11, EventsMoves DEF Failed, history
  <2>. QED
    BY <2>1, <2>2, <2>3, <1>1, <1>2
<1>. QED
  BY <1>3, <1>4, <1>5, <1>6, <1>7, <1>8, <1>9, <1>10, <1>11 DEF Step

-----------------------------------------------------------------------------
(* Threads that are alone.                                                 *)
LEMMA WhatIsUsed ==
  ASSUME TypeOK, Apart, NEW t \in Threads, prog[t] # <<>>
  PROVE  /\ Uses(Head(prog[t])) \in group[t] /\ Uses(Head(prog[t])) \in Groups
         /\ Active(t, Uses(Head(prog[t])))
<1>1. Head(prog[t]) \in Steps /\ Holds(prog[t], Head(prog[t]))
  BY AdvanceMoves DEF Consists
<1>2. Uses(Head(prog[t])) \in group[t]
  BY <1>1, Zenon DEF Apart
<1>. QED
  BY <1>2 DEF Active, TypeOK

LEMMA ApartComes ==
  ASSUME TypeOK, Apart, NEW t \in Threads, NEW p, Comes(t, p)
  PROVE  Apart'
<1>1. /\ prog[t] # <<>> /\ prog' = [prog EXCEPT ![t] = p] /\ group' = group /\ alone' = alone
      /\ \A s \in Steps : Holds(p, s) => \E r \in Steps : Holds(prog[t], r) /\ Uses(s) = Uses(r)
      /\ \A g \in agreed' : g \in agreed \/ (alone[t] /\ g = Uses(Head(prog[t])))
      /\ agreed' \subseteq Groups
  BY DEF Comes, Moved
<1>2. prog'[t] = p /\ \A u \in Threads : u # t => prog'[u] = prog[u]
  BY <1>1 DEF TypeOK
<1>3. \A u \in Threads : \A g : Active(u, g)' => Active(u, g)
  BY <1>1, <1>2 DEF Active
<1>4. ASSUME NEW u \in Threads, NEW s \in Steps, Holds(prog'[u], s) PROVE Uses(s) \in group'[u]
  <2>1. CASE u = t
    <3>1. PICK r \in Steps : Holds(prog[t], r) /\ Uses(s) = Uses(r)
      BY <2>1, <1>1, <1>2, <1>4
    <3>. QED
      BY <3>1, <2>1, <1>1 DEF Apart
  <2>2. CASE u # t
    BY <2>2, <1>1, <1>2, <1>4 DEF Apart
  <2>. QED
    BY <2>1, <2>2
<1>5. \A u, v \in Threads, g \in Groups : alone'[u] /\ Active(u, g)' /\ Active(v, g)' => u = v
  BY <1>1, <1>3 DEF Apart
<1>6. ASSUME NEW g \in agreed' PROVE Sole(g)'
  <2>1. Sole(g)
    <3>1. CASE g \in agreed
      BY <3>1 DEF Apart
    <3>2. CASE alone[t] /\ g = Uses(Head(prog[t]))
      <4>1. Active(t, g) /\ g \in Groups
        BY <3>2, <1>1, WhatIsUsed
      <4>. QED
        BY <4>1, <3>2 DEF Apart, Sole
    <3>. QED
      BY <1>1, <1>6, <3>1, <3>2
  <2>. QED
    BY <2>1, <1>3 DEF Sole
<1>. QED
  BY <1>4, <1>5, <1>6 DEF Apart

-----------------------------------------------------------------------------
(* The programs that begin.                                                *)
(* What a program that begins owes, and whom it concerns.                  *)
Begun(p, gs) ==
  /\ p \in Programs /\ \A s \in Steps : Holds(p, s) => Uses(s) \in gs
  /\ p # <<>> => Head(p)[1] \in {"getBattery", "getKeyboard", "bdvt"}
Owing(p, step, f) == \A s \in {"compare", "send", "flip", "bdvt"} : \A h : Holds(p, <<s, h>>) <=> s = step /\ h = f

Reads(a, b, p, g) ==
  \/ a = <<"getBattery", "bat">> /\ b = <<"setBattery", "bat">> /\ p \in AfterBattery /\ g = "bat"
  \/ a = <<"getKeyboard", "kbd">> /\ b = <<"setKeyboard", "kbd">> /\ p \in AfterKeyboard /\ g = "kbd"

LEMMA ReadsBegin ==
  ASSUME NEW a \in Steps, NEW b \in Steps, NEW q \in Seq(Steps), NEW g, Reads(a, b, q, g),
         NEW p, Precede(a, b, q, p)
  PROVE  /\ p \in Programs /\ p # <<>> /\ Head(p) = a
         /\ \A s \in {"compare", "send", "flip", "bdvt"} : \A h : Holds(p, <<s, h>>) <=> Holds(q, <<s, h>>)
         /\ \A s \in Steps : Holds(p, s) => Uses(s) = g \/ Holds(q, s)
<1>1. /\ p = Then(a, Then(b, q)) /\ p # <<>> /\ Head(p) = a
      /\ \A r : Holds(p, r) <=> r = a \/ r = b \/ Holds(q, r)
  BY TwoAndRest
<1>2. p \in Programs
  <2>1. CASE a = <<"getBattery", "bat">> /\ b = <<"setBattery", "bat">> /\ q \in AfterBattery
    BY <1>1, <2>1, Zenon DEF Programs, KeepBattery
  <2>2. CASE a = <<"getKeyboard", "kbd">> /\ b = <<"setKeyboard", "kbd">> /\ q \in AfterKeyboard
    BY <1>1, <2>2, Zenon DEF Programs, KeepKeyboard
  <2>. QED
    BY <2>1, <2>2 DEF Reads
<1>3. \A s \in {"compare", "send", "flip", "bdvt"} : \A h : <<s, h>> # a /\ <<s, h>> # b
  BY DEF Reads
<1>4. Uses(a) = g /\ Uses(b) = g
  BY DEF Uses, Reads
<1>. QED
  BY <1>1, <1>2, <1>3, <1>4

LEMMA RequestBegins ==
  ASSUME NEW f \in Modes
  PROVE  /\ Begun(Read(f) \o << <<"compare", f>> >>, {GroupOf(f)}) /\ Owing(Read(f) \o << <<"compare", f>> >>, "compare", f)
         /\ Read(f) \o << <<"compare", f>> >> # <<>>
         /\ Head(Read(f) \o << <<"compare", f>> >>) \in {<<"getBattery", "bat">>, <<"getKeyboard", "kbd">>}
<1>1. PICK c \in Steps : c = <<"compare", f>>
  BY KindsOfSteps
<1>2. <<c>> \in Seq(Steps) /\ \A r : Holds(<<c>>, r) <=> r = c
  BY ShortPrograms
<1>3. PICK a \in Steps, b \in Steps, g \in Groups :
        /\ Read(f) = <<a, b>> /\ g = GroupOf(f) /\ Reads(a, b, <<c>>, g)
        /\ a \in {<<"getBattery", "bat">>, <<"getKeyboard", "kbd">>}
  BY <1>1, KindsOfSteps DEF Read, ReadBattery, ReadKeyboard, AfterBattery, AfterKeyboard, GroupOf, Modes, Reads, Groups
<1>4. Uses(c) = g
  BY <1>1, <1>3, ThreadsAct, Zenon
<1>5. PICK p : p = <<a, b>> \o <<c>> /\ Precede(a, b, <<c>>, p)
  BY DEF Precede
<1>6. /\ p \in Programs /\ p # <<>> /\ Head(p) = a
      /\ \A s \in {"compare", "send", "flip", "bdvt"} : \A h : Holds(p, <<s, h>>) <=> Holds(<<c>>, <<s, h>>)
      /\ \A s \in Steps : Holds(p, s) => Uses(s) = g \/ Holds(<<c>>, s)
  <2>1. a \in Steps /\ b \in Steps /\ Reads(a, b, <<c>>, g) /\ <<c>> \in Seq(Steps) /\ Precede(a, b, <<c>>, p)
    BY <1>2, <1>3, <1>5
  <2>. QED
    BY <2>1, ReadsBegin
<1>7. \A s \in Steps : Holds(p, s) => Uses(s) = g
  BY <1>2, <1>4, <1>6
<1>8. Owing(p, "compare", f)
  BY <1>1, <1>2, <1>6 DEF Owing
<1>9. Begun(p, {g})
  BY <1>3, <1>6, <1>7 DEF Begun
<1>. QED
  BY <1>1, <1>3, <1>5, <1>6, <1>8, <1>9

LEMMA UpdateProgram == UpdateAll = ReadBattery \o (ReadKeyboard \o Refresh)
<1>1. ASSUME NEW x \in Seq(Steps), NEW y \in Seq(Steps), NEW z \in Seq(Steps) PROVE (x \o y) \o z = x \o (y \o z)
  BY ConcatAssociative
<1>2. ASSUME NEW x \in Seq(Steps), NEW y \in Seq(Steps), NEW z \in Seq(Steps)
      PROVE  x \o y \o z \o y = x \o (y \o (z \o y))
  <2>1. PICK p \in Seq(Steps) : p = x \o y
    BY ConcatProperties
  <2>2. PICK q \in Seq(Steps) : q = z \o y
    BY ConcatProperties
  <2>3. (p \o z) \o y = p \o q
    BY <2>2, <1>1
  <2>4. p \o q = x \o (y \o q)
    BY <2>1, <1>1
  <2>. QED
    BY <2>1, <2>2, <2>3, <2>4
<1>3. ReadBattery \in Seq(Steps) /\ ReadKeyboard \in Seq(Steps) /\ << <<"events", "kbd">> >> \in Seq(Steps)
  <2>1. <<"getBattery", "bat">> \in Steps /\ <<"setBattery", "bat">> \in Steps /\ <<"events", "kbd">> \in Steps
    BY KindsOfSteps
  <2>. QED
    BY <2>1, KeyboardPrograms DEF ReadBattery
<1>4. PICK e \in Seq(Steps) : e = << <<"events", "kbd">> >>
  BY <1>3
<1>5. ReadBattery \o ReadKeyboard \o e \o ReadKeyboard = ReadBattery \o (ReadKeyboard \o (e \o ReadKeyboard))
  BY <1>2, <1>3
<1>. QED
  BY <1>4, <1>5 DEF UpdateAll, Refresh, Then

LEMMA UpdateBegins ==
  Begun(UpdateAll, {"bat", "kbd"}) /\ OwingNothing(UpdateAll) /\ UpdateAll # <<>>
<1>1. PICK a \in Steps, b \in Steps, c \in Steps, d \in Steps, e \in Steps :
        /\ a = <<"getBattery", "bat">> /\ b = <<"setBattery", "bat">> /\ ReadBattery = <<a, b>>
        /\ c = <<"getKeyboard", "kbd">> /\ d = <<"setKeyboard", "kbd">> /\ ReadKeyboard = <<c, d>>
        /\ e = <<"events", "kbd">>
  BY KindsOfSteps DEF ReadBattery, ReadKeyboard
<1>2. PICK k \in Seq(Steps), l \in Seq(Steps) : k = ReadKeyboard /\ l = Refresh /\ l = Then(e, k)
  BY <1>1, KeyboardPrograms DEF Refresh
<1>3. PICK q \in Seq(Steps) : q = Then(c, Then(d, l)) /\ q \in AfterBattery
  BY <1>1, <1>2, BatteryPrograms DEF AfterBattery
<1>4. /\ \A r : Holds(l, r) <=> r = e \/ Holds(k, r)
      /\ \A r : Holds(q, r) <=> r = c \/ r = d \/ Holds(l, r)
  <2>1. c \in Steps /\ d \in Steps /\ e \in Steps /\ k \in Seq(Steps) /\ l \in Seq(Steps)
    BY <1>1, <1>2
  <2>2. \A r : Holds(l, r) <=> r = e \/ Holds(k, r)
    <3>1. \A r : Holds(Then(e, k), r) <=> r = e \/ Holds(k, r)
      BY <2>1, StepAndRest, Zenon
    <3>. QED
      BY <3>1, <1>2
  <2>. QED
    BY <2>1, <2>2, <1>3, TwoAndRest
<1>5. UpdateAll = <<a, b>> \o q
  <2>1. <<c, d>> \o l = q
    <3>1. PICK p : p = <<c, d>> \o l /\ Precede(c, d, l, p)
      BY DEF Precede
    <3>2. p = Then(c, Then(d, l))
      <4>1. c \in Steps /\ d \in Steps /\ l \in Seq(Steps) /\ Precede(c, d, l, p)
        BY <1>1, <1>2, <3>1
      <4>. QED
        BY <4>1, TwoAndRest
    <3>. QED
      BY <3>1, <3>2, <1>3
  <2>. QED
    BY <2>1, <1>1, <1>2, UpdateProgram
<1>6. PICK p : p = <<a, b>> \o q /\ Precede(a, b, q, p)
  BY DEF Precede
<1>7. /\ p \in Programs /\ p # <<>> /\ Head(p) = a
      /\ \A s \in {"compare", "send", "flip", "bdvt"} : \A h : Holds(p, <<s, h>>) <=> Holds(q, <<s, h>>)
      /\ \A s \in Steps : Holds(p, s) => Uses(s) = "bat" \/ Holds(q, s)
  <2>1. a \in Steps /\ b \in Steps /\ q \in Seq(Steps) /\ Precede(a, b, q, p) /\ Reads(a, b, q, "bat")
    BY <1>1, <1>3, <1>6 DEF Reads
  <2>. QED
    BY <2>1, ReadsBegin
<1>8. OwingNothing(k) /\ \A s \in Steps : Holds(k, s) => Uses(s) = "kbd"
  BY <1>2, EventPrograms
<1>9. Begun(p, {"bat", "kbd"})
  <2>1. Uses(c) = "kbd" /\ Uses(d) = "kbd" /\ Uses(e) = "kbd"
    BY <1>1 DEF Uses
  <2>2. \A s \in Steps : Holds(p, s) => Uses(s) \in {"bat", "kbd"}
    BY <2>1, <1>4, <1>7, <1>8
  <2>. QED
    BY <2>2, <1>1, <1>7 DEF Begun
<1>10. OwingNothing(p)
  <2>1. \A s \in {"compare", "send", "flip", "bdvt"} : \A h : <<s, h>> # c /\ <<s, h>> # d /\ <<s, h>> # e
    BY <1>1
  <2>. QED
    BY <2>1, <1>4, <1>7, <1>8 DEF OwingNothing
<1>. QED
  BY <1>5, <1>6, <1>7, <1>9, <1>10

LEMMA EventsBegin ==
  /\ Begun(<< <<"bdvt", "conservation">> >>, {"bat"}) /\ Owing(<< <<"bdvt", "conservation">> >>, "bdvt", "conservation")
  /\ << <<"bdvt", "conservation">> >> # <<>> /\ Head(<< <<"bdvt", "conservation">> >>) = <<"bdvt", "conservation">>
  /\ Begun(ReadKeyboard \o << <<"flip", "fn">> >>, {"kbd"}) /\ Owing(ReadKeyboard \o << <<"flip", "fn">> >>, "flip", "fn")
  /\ ReadKeyboard \o << <<"flip", "fn">> >> # <<>> /\ Head(ReadKeyboard \o << <<"flip", "fn">> >>) = <<"getKeyboard", "kbd">>
  /\ Begun(ReadKeyboard \o << <<"yoga", "kbd">> >>, {"kbd"}) /\ OwingNothing(ReadKeyboard \o << <<"yoga", "kbd">> >>)
  /\ Begun(<<>>, {"kbd"}) /\ OwingNothing(<<>>)
  /\ Begun(ReadKey, {"kbd"})
  /\ OwingNothing(ReadKey)
  /\ ReadKey # <<>>
<1>1. /\ Begun(<< <<"bdvt", "conservation">> >>, {"bat"}) /\ Owing(<< <<"bdvt", "conservation">> >>, "bdvt", "conservation")
      /\ << <<"bdvt", "conservation">> >> # <<>> /\ Head(<< <<"bdvt", "conservation">> >>) = <<"bdvt", "conservation">>
  <2>1. PICK s \in Steps : s = <<"bdvt", "conservation">> /\ s \in Ends /\ Uses(s) = "bat"
    BY KindsOfSteps, ThreadsAct DEF Ends
  <2>2. PICK p \in Programs : p = <<s>> /\ p # <<>> /\ Head(p) = s /\ \A r : Holds(p, r) <=> r = s
    BY <2>1, ShortPrograms
  <2>3. Begun(p, {"bat"}) /\ Owing(p, "bdvt", "conservation")
    BY <2>1, <2>2 DEF Begun, Owing
  <2>. QED
    BY <2>1, <2>2, <2>3
<1>2. PICK a \in Steps, b \in Steps : a = <<"getKeyboard", "kbd">> /\ b = <<"setKeyboard", "kbd">> /\ ReadKeyboard = <<a, b>>
  BY KindsOfSteps DEF ReadKeyboard
<1>3. /\ Begun(ReadKeyboard \o << <<"flip", "fn">> >>, {"kbd"}) /\ Owing(ReadKeyboard \o << <<"flip", "fn">> >>, "flip", "fn")
      /\ ReadKeyboard \o << <<"flip", "fn">> >> # <<>> /\ Head(ReadKeyboard \o << <<"flip", "fn">> >>) = <<"getKeyboard", "kbd">>
  <2>1. PICK s, q : s \in Steps /\ q \in Seq(Steps) /\ s = <<"flip", "fn">> /\ Uses(s) = "kbd" /\ q = <<s>> /\ q \in AfterKeyboard
                                             /\ \A r : Holds(q, r) <=> r = s
    <3>1. PICK s \in Steps : s = <<"flip", "fn">> /\ Uses(s) = "kbd" /\ <<s>> \in AfterKeyboard
      BY KindsOfSteps, ThreadsAct DEF AfterKeyboard
    <3>2. <<s>> \in Seq(Steps) /\ \A r : Holds(<<s>>, r) <=> r = s
      BY <3>1, ShortPrograms
    <3>. QED
      BY <3>1, <3>2
  <2>2. PICK p : p = <<a, b>> \o q /\ Precede(a, b, q, p)
    BY DEF Precede
  <2>3. /\ p \in Programs /\ p # <<>> /\ Head(p) = a
        /\ \A h \in {"compare", "send", "flip", "bdvt"} : \A f : Holds(p, <<h, f>>) <=> Holds(q, <<h, f>>)
        /\ \A r \in Steps : Holds(p, r) => Uses(r) = "kbd" \/ Holds(q, r)
    <3>1. a \in Steps /\ b \in Steps /\ q \in Seq(Steps) /\ Precede(a, b, q, p) /\ Reads(a, b, q, "kbd")
      BY <1>2, <2>1, <2>2 DEF Reads
    <3>. QED
      BY <3>1, ReadsBegin
  <2>4. Begun(p, {"kbd"}) /\ Owing(p, "flip", "fn")
    BY <1>2, <2>1, <2>3 DEF Begun, Owing
  <2>. QED
    BY <1>2, <2>1, <2>2, <2>3, <2>4
<1>4. Begun(ReadKeyboard \o << <<"yoga", "kbd">> >>, {"kbd"}) /\ OwingNothing(ReadKeyboard \o << <<"yoga", "kbd">> >>)
  <2>1. PICK s, q : s \in Steps /\ q \in Seq(Steps) /\ s = <<"yoga", "kbd">> /\ Uses(s) = "kbd" /\ q = <<s>> /\ q \in AfterKeyboard
                                             /\ \A r : Holds(q, r) <=> r = s
    <3>1. PICK s \in Steps : s = <<"yoga", "kbd">> /\ Uses(s) = "kbd" /\ <<s>> \in AfterKeyboard
      BY KindsOfSteps, ThreadsAct DEF AfterKeyboard
    <3>2. <<s>> \in Seq(Steps) /\ \A r : Holds(<<s>>, r) <=> r = s
      BY <3>1, ShortPrograms
    <3>. QED
      BY <3>1, <3>2
  <2>2. PICK p : p = <<a, b>> \o q /\ Precede(a, b, q, p)
    BY DEF Precede
  <2>3. /\ p \in Programs /\ p # <<>> /\ Head(p) = a
        /\ \A h \in {"compare", "send", "flip", "bdvt"} : \A f : Holds(p, <<h, f>>) <=> Holds(q, <<h, f>>)
        /\ \A r \in Steps : Holds(p, r) => Uses(r) = "kbd" \/ Holds(q, r)
    <3>1. a \in Steps /\ b \in Steps /\ q \in Seq(Steps) /\ Precede(a, b, q, p) /\ Reads(a, b, q, "kbd")
      BY <1>2, <2>1, <2>2 DEF Reads
    <3>. QED
      BY <3>1, ReadsBegin
  <2>4. Begun(p, {"kbd"}) /\ OwingNothing(p)
    BY <1>2, <2>1, <2>3 DEF Begun, OwingNothing
  <2>. QED
    BY <1>2, <2>1, <2>2, <2>4
<1>5. Begun(<<>>, {"kbd"}) /\ OwingNothing(<<>>)
  BY Tuples DEF Begun, OwingNothing, Programs
<1>6. /\ Begun(ReadKey, {"kbd"})
      /\ OwingNothing(ReadKey)
      /\ ReadKey # <<>>
  <2>1. PICK c, p : c \in Steps /\ c = <<"setKeyboard", "key">> /\ p = <<a, c>> /\ p = ReadKey
    BY <1>2, KindsOfSteps DEF ReadKey
  <2>2. PICK e \in Seq(Steps) : p = Then(a, Then(c, e)) /\ <<c>> = Then(c, e) /\ \A r : ~Holds(e, r)
    BY <2>1, Tuples
  <2>3. p # <<>> /\ Head(p) = a /\ \A r : Holds(p, r) <=> r = a \/ r = c
    <3>1. a \in Steps /\ c \in Steps
      BY <1>2, <2>1
    <3>2. p # <<>> /\ Head(p) = a /\ \A r : Holds(p, r) <=> r = a \/ r = c \/ Holds(e, r)
      BY <3>1, <2>2, TwoAndRest
    <3>. QED
      BY <3>2, <2>2
  <2>4. p \in Programs
    <3>1. <<c>> \in KeepKeyboard
      BY <2>1, KeyboardPrograms
    <3>2. p \in {Then(<<"getKeyboard", "kbd">>, q) : q \in KeepKeyboard}
      BY <1>2, <2>2, <3>1
    <3>. QED
      BY <3>2, Zenon DEF Programs
  <2>5. Uses(a) = "kbd" /\ Uses(c) = "kbd"
    BY <1>2, <2>1 DEF Uses
  <2>6. Begun(p, {"kbd"})
    <3>1. Head(p)[1] = "getKeyboard"
      BY <1>2, <2>3
    <3>2. \A s \in Steps : Holds(p, s) => Uses(s) \in {"kbd"}
      BY <2>3, <2>5
    <3>. QED
      BY <2>4, <3>1, <3>2 DEF Begun
  <2>7. \A s \in {"compare", "send", "flip", "bdvt"} : \A h : <<s, h>> # a /\ <<s, h>> # c
    BY <1>2, <2>1
  <2>8. OwingNothing(p)
    BY <2>3, <2>7 DEF OwingNothing
  <2>. QED
    BY <1>2, <2>1, <2>3, <2>6, <2>8
<1>. QED
  BY <1>1, <1>3, <1>4, <1>5, <1>6

Starts(t, gs, p, x) ==
  t \in Threads /\ gs \in SUBSET Groups /\ x \in BOOLEAN /\ Begun(p, gs) /\ Begin(t, gs, p, x)

YogaProgram == IF onYogaMode THEN ReadKeyboard \o << <<"yoga", "kbd">> >> ELSE <<>>

LEMMA YogaStarts ==
  ASSUME NEW f \in Folds, YogaEvent(f)
  PROVE  Starts("wmi", {"kbd"}, YogaProgram, f = "laptop")
<1>1. Begun(YogaProgram, {"kbd"})
  BY EventsBegin DEF YogaProgram
<1>2. Begin("wmi", {"kbd"}, YogaProgram, f = "laptop")
  BY Zenon DEF YogaEvent, YogaProgram
<1>3. (f = "laptop") \in BOOLEAN /\ "wmi" \in Threads /\ {"kbd"} \in SUBSET Groups
  BY DEF Threads, Groups
<1>. QED
  BY <1>1, <1>2, <1>3, Zenon DEF Starts

LEMMA OutsideStarts ==
  ASSUME TypeOK, Outside
  PROVE  (\E t, gs, p, x : Starts(t, gs, p, x)) \/ SetLock \/ KeyPress
<1>1. ASSUME NEW f \in Modes, NEW x \in BOOLEAN, Request(f, x)
      PROVE  Starts("gate", {GroupOf(f)}, Read(f) \o << <<"compare", f>> >>, x)
  BY <1>1, RequestBegins DEF Request, Starts, Threads, Groups, GroupOf
<1>2. ASSUME NEW x \in BOOLEAN, BDVT(x) PROVE Starts("smc", {"bat"}, << <<"bdvt", "conservation">> >>, x)
  BY <1>2, EventsBegin DEF BDVT, Starts, Threads, Groups
<1>3. ASSUME NEW f \in Folds, YogaEvent(f) PROVE \E t, gs, p, x : Starts(t, gs, p, x)
  BY <1>3, YogaStarts
<1>4. CASE Update
  <2>1. Starts("gate", {"bat", "kbd"}, UpdateAll, FALSE)
    BY <1>4, UpdateBegins DEF Update, Starts, Threads, Groups
  <2>. QED
    BY <2>1
<1>5. CASE FnlockEvent
  <2>1. Starts("wmi", {"kbd"}, ReadKeyboard \o << <<"flip", "fn">> >>, FALSE)
    BY <1>5, EventsBegin DEF FnlockEvent, Starts, Threads, Groups
  <2>. QED
    BY <2>1
<1>6. CASE KeyboardEvent
  <2>1. Starts("acpi", {"kbd"}, ReadKey, FALSE)
    BY <1>6, EventsBegin DEF KeyboardEvent, Starts, Threads, Groups
  <2>. QED
    BY <2>1
<1>. QED
  BY <1>1, <1>2, <1>3, <1>4, <1>5, <1>6, Zenon DEF Outside

LEMMA StartsBegin ==
  ASSUME TypeOK, Apart, NEW t, NEW gs, NEW p, NEW x, Starts(t, gs, p, x)
  PROVE  /\ t \in Threads /\ gs \in SUBSET Groups /\ p \in Programs /\ x \in BOOLEAN
         /\ Apart' /\ prog[t] = <<>> /\ prog' = [prog EXCEPT ![t] = p] /\ arg' = [arg EXCEPT ![t] = x]
         /\ group' = [group EXCEPT ![t] = gs] /\ alone' \in [Threads -> BOOLEAN]
         /\ \A u \in Threads \ {t} : alone'[u] <=> alone[u] /\ \A g \in gs : ~Active(u, g)
         /\ agreed' \subseteq agreed /\ \A g \in agreed : g \notin gs => g \in agreed'
         /\ alone'[t] => agreed' = agreed
         /\ (alone'[t] <=> \A u \in Threads \ {t} : \A g \in gs : ~Active(u, g))
         /\ ~alone'[t] => gs \cap agreed' = {}
         /\ UNCHANGED <<hw, light, driver, machine, val, faults>>
<1>0. /\ t \in Threads /\ gs \in SUBSET Groups /\ p \in Programs /\ x \in BOOLEAN
      /\ Begin(t, gs, p, x) /\ \A s \in Steps : Holds(p, s) => Uses(s) \in gs
  BY DEF Starts, Begun
<1>. USE <1>0
<1> DEFINE overlaps == {u \in Threads \ {t} : prog[u] # <<>> /\ group[u] \cap gs # {}}
<1>1. /\ prog[t] = <<>> /\ prog' = [prog EXCEPT ![t] = p] /\ arg' = [arg EXCEPT ![t] = x]
      /\ group' = [group EXCEPT ![t] = gs]
      /\ alone' = [u \in Threads |-> IF u = t THEN overlaps = {} ELSE alone[u] /\ u \notin overlaps]
      /\ agreed' = IF overlaps = {} THEN agreed ELSE agreed \ gs
  BY DEF Begin
<1>2. /\ prog'[t] = p /\ group'[t] = gs
      /\ \A u \in Threads : u # t => prog'[u] = prog[u] /\ group'[u] = group[u]
  BY <1>1 DEF TypeOK
<1>3. \A u \in Threads \ {t} : u \in overlaps <=> \E g \in gs : Active(u, g)
  BY DEF Active
<1>4. overlaps = {} <=> \A u \in Threads \ {t} : \A g \in gs : ~Active(u, g)
  BY <1>3
<1>. HIDE DEF overlaps
<1>5. alone'[t] <=> overlaps = {}
  BY <1>1, Zenon
<1>6. ASSUME NEW u \in Threads \ {t} PROVE alone'[u] <=> alone[u] /\ u \notin overlaps
  <2>1. alone'[u] = (alone[u] /\ u \notin overlaps)
    BY <1>1, Zenon
  <2>. QED
    BY <2>1
<1>7. alone' \in [Threads -> BOOLEAN]
  <2>1. \A u \in Threads : (IF u = t THEN overlaps = {} ELSE alone[u] /\ u \notin overlaps) \in BOOLEAN
    BY Zenon
  <2>. QED
    BY <1>1, <2>1, Zenon
<1>8. \A u \in Threads \ {t} : \A g : Active(u, g)' <=> Active(u, g)
  BY <1>2 DEF Active
<1>9. \A g : Active(t, g)' => g \in gs
  BY <1>2 DEF Active
<1>10. ASSUME NEW u \in Threads, NEW s \in Steps, Holds(prog'[u], s) PROVE Uses(s) \in group'[u]
  <2>1. CASE u = t
    BY <2>1, <1>2, <1>10
  <2>2. CASE u # t
    BY <2>2, <1>2, <1>10 DEF Apart
  <2>. QED
    BY <2>1, <2>2
<1>11. ASSUME NEW u \in Threads, NEW v \in Threads, NEW g \in Groups, alone'[u], Active(u, g)', Active(v, g)' PROVE u = v
  <2>1. CASE u # t /\ v # t
    BY <2>1, <1>6, <1>8, <1>11 DEF Apart
  <2>2. CASE u = t /\ v # t
    <3>1. overlaps = {} /\ g \in gs /\ Active(v, g)
      BY <2>2, <1>5, <1>8, <1>9, <1>11
    <3>. QED
      BY <3>1, <2>2, <1>4
  <2>3. CASE u # t /\ v = t
    <3>1. u \notin overlaps /\ g \in gs /\ Active(u, g)
      BY <2>3, <1>6, <1>8, <1>9, <1>11
    <3>. QED
      BY <3>1, <2>3, <1>3
  <2>. QED
    BY <2>1, <2>2, <2>3
<1>12. ASSUME NEW g \in agreed' PROVE Sole(g)'
  <2>1. Sole(g) /\ (overlaps = {} \/ g \notin gs)
    BY <1>1, <1>12 DEF Apart
  <2>2. ASSUME NEW u \in Threads, NEW v \in Threads, Active(u, g)', Active(v, g)' PROVE u = v
    <3>1. CASE g \in gs
      <4>1. \A w \in Threads \ {t} : ~Active(w, g)
        BY <3>1, <2>1, <1>4
      <4>. QED
        BY <4>1, <2>2, <1>8
    <3>2. CASE g \notin gs
      BY <3>2, <2>1, <2>2, <1>8, <1>9 DEF Sole
    <3>. QED
      BY <3>1, <3>2
  <2>. QED
    BY <2>2 DEF Sole
<1>13. Apart'
  BY <1>10, <1>11, <1>12 DEF Apart
<1>14. \A u \in Threads \ {t} : alone'[u] <=> alone[u] /\ \A g \in gs : ~Active(u, g)
  BY <1>3, <1>6
<1>15. UNCHANGED <<hw, light, driver, machine, val, faults>>
  BY DEF Begin
<1>. QED
  BY <1>1, <1>4, <1>5, <1>7, <1>13, <1>14, <1>15

-----------------------------------------------------------------------------
(* The types.                                                              *)
LEMMA AskedTypes ==
  ASSUME TypeOK
  PROVE  /\ \A t \in Threads, f \in Modes, x \in BOOLEAN : Ask(t, f, x) => asked' \in [Modes -> BOOLEAN \cup {None}]
         /\ \A gs : Nobody(gs) => asked' \in [Modes -> BOOLEAN \cup {None}]
<1>1. ASSUME NEW t \in Threads, NEW f \in Modes, NEW x \in BOOLEAN, Ask(t, f, x) PROVE asked' \in [Modes -> BOOLEAN \cup {None}]
  <2>1. [asked EXCEPT ![f] = x] \in [Modes -> BOOLEAN \cup {None}]
    BY Zenon DEF TypeOK
  <2>2. [g \in Modes |-> IF GroupOf(g) = GroupOf(f) THEN None ELSE asked[g]] \in [Modes -> BOOLEAN \cup {None}]
    BY DEF TypeOK
  <2>. QED
    BY <1>1, <2>1, <2>2 DEF Ask
<1>2. ASSUME NEW gs, Nobody(gs) PROVE asked' \in [Modes -> BOOLEAN \cup {None}]
  BY <1>2 DEF Nobody, TypeOK
<1>. QED
  BY <1>1, <1>2

TypesKept ==
  hw' = hw /\ light' = light /\ mode' = mode /\ conservationModeLock' = conservationModeLock
  /\ rapidChargeCap' = rapidChargeCap /\ onYogaMode' = onYogaMode
  /\ backlightLevel' = backlightLevel /\ backlightLevelSaved' = backlightLevelSaved /\ val' = val

LEMMA TypesStart ==
  ASSUME TypeOK, Apart, NEW t, NEW gs, NEW p, NEW x, Starts(t, gs, p, x),
         pending' \in Nat, fold' \in Folds, asked' \in [Modes -> BOOLEAN \cup {None}], calm' \in BOOLEAN, before' \in BOOLEAN
  PROVE  TypeOK'
<1>1. /\ t \in Threads /\ gs \in SUBSET Groups /\ p \in Programs /\ x \in BOOLEAN
      /\ prog' = [prog EXCEPT ![t] = p] /\ arg' = [arg EXCEPT ![t] = x]
      /\ group' = [group EXCEPT ![t] = gs] /\ alone' \in [Threads -> BOOLEAN] /\ agreed' \subseteq agreed
      /\ TypesKept
  BY StartsBegin DEF driver, machine, TypesKept
<1>2. prog' \in [Threads -> Programs] /\ group' \in [Threads -> SUBSET Groups]
  BY <1>1 DEF TypeOK
<1>3. arg' \in [Threads -> BOOLEAN]
  BY <1>1, Zenon DEF TypeOK
<1>4. agreed' \subseteq Groups
  BY <1>1 DEF TypeOK
<1>. QED
  BY <1>1, <1>2, <1>3, <1>4 DEF TypeOK, TypesKept

LEMMA OutsideTypes ==
  ASSUME TypeOK, Apart, Outside
  PROVE  TypeOK'
<1> DEFINE Same == pending' \in Nat /\ fold' \in Folds /\ calm' \in BOOLEAN /\ before' \in BOOLEAN
           Asked == asked' \in [Modes -> BOOLEAN \cup {None}]
<1>1. CASE SetLock
  BY <1>1 DEF SetLock, TypeOK, firmware, machine
<1>2. CASE KeyPress
  <2>1. light' \in 0 .. 2
    <3>1. light' = (light + 1) % 3 /\ light \in {0, 1, 2}
      BY <1>2 DEF KeyPress, TypeOK
    <3>2. (0 + 1) % 3 = 1 /\ (1 + 1) % 3 = 2 /\ (2 + 1) % 3 = 0
      OBVIOUS
    <3>. QED
      BY <3>1, <3>2
  <2>2. /\ pending' \in Nat /\ calm' = FALSE
        /\ UNCHANGED <<hw, fold, driver, machine, prog, arg, val, group, alone, agreed, asked, before>>
    BY <1>2 DEF KeyPress, TypeOK
  <2>. QED
    BY <2>1, <2>2 DEF TypeOK, driver, machine
<1>3. CASE \E f \in Modes, x \in BOOLEAN : Request(f, x)
  <2>1. PICK f \in Modes, x \in BOOLEAN : Request(f, x)
    BY <1>3
  <2>2. Same
    BY <2>1 DEF Request, TypeOK
  <2>3. Asked
    <3>1. Ask("gate", f, x) \/ UNCHANGED asked \/ Nobody({"bat"})
      BY <2>1 DEF Request
    <3>. QED
      BY <3>1, AskedTypes DEF TypeOK, Threads
  <2>4. Starts("gate", {GroupOf(f)}, Read(f) \o << <<"compare", f>> >>, x)
    BY <2>1, RequestBegins DEF Request, Starts, Threads, Groups, GroupOf
  <2>. HIDE DEF Starts
  <2>. QED
    BY <2>2, <2>3, <2>4, TypesStart
<1>4. CASE \E x \in BOOLEAN : BDVT(x)
  <2>1. PICK x \in BOOLEAN : BDVT(x)
    BY <1>4
  <2>2. Same
    BY <2>1 DEF BDVT, TypeOK
  <2>3. Asked
    <3>1. Ask("smc", "conservation", x) \/ UNCHANGED asked \/ Nobody({"bat"})
      BY <2>1 DEF BDVT
    <3>. QED
      BY <3>1, AskedTypes DEF TypeOK, Threads, Modes
  <2>4. Starts("smc", {"bat"}, << <<"bdvt", "conservation">> >>, x)
    BY <2>1, EventsBegin DEF BDVT, Starts, Threads, Groups
  <2>. QED
    BY <2>2, <2>3, <2>4, TypesStart
<1>5. CASE \E f \in Folds : YogaEvent(f)
  <2>1. PICK f \in Folds : YogaEvent(f)
    BY <1>5
  <2>2. Same
    <3>1. pending' = pending /\ fold' = f
      BY <2>1 DEF YogaEvent
    <3>2. calm' \in BOOLEAN
      <4>1. calm' = (IF fold = "laptop" /\ f # "laptop" THEN Quiet /\ pending = 0 ELSE calm /\ Quiet /\ f = "laptop" /\ fold # "laptop")
        BY <2>1, Zenon DEF YogaEvent
      <4>2. (Quiet /\ pending = 0) \in BOOLEAN /\ (calm /\ Quiet /\ f = "laptop" /\ fold # "laptop") \in BOOLEAN
        BY Zenon
      <4>. QED
        BY <4>1, <4>2, Zenon
    <3>3. before' \in BOOLEAN
      <4>1. before' = IF fold = "laptop" THEN light > 0 ELSE before
        BY <2>1, Zenon DEF YogaEvent
      <4>2. (light > 0) \in BOOLEAN /\ before \in BOOLEAN
        BY DEF TypeOK
      <4>. QED
        BY <4>1, <4>2, Zenon
    <3>. QED
      BY <3>1, <3>2, <3>3 DEF TypeOK
  <2>3. Asked
    <3>1. UNCHANGED asked \/ Nobody({"kbd"})
      BY <2>1 DEF YogaEvent
    <3>. QED
      BY <3>1, AskedTypes DEF TypeOK
  <2>4. Starts("wmi", {"kbd"}, YogaProgram, f = "laptop")
    BY <2>1, YogaStarts
  <2>. QED
    BY <2>2, <2>3, <2>4, TypesStart
<1>6. CASE Update
  <2>1. Same
    BY <1>6 DEF Update, TypeOK
  <2>2. Asked
    <3>1. UNCHANGED asked \/ Nobody({"bat", "kbd"})
      BY <1>6 DEF Update
    <3>. QED
      BY <3>1, AskedTypes DEF TypeOK
  <2>3. Starts("gate", {"bat", "kbd"}, UpdateAll, FALSE)
    BY <1>6, UpdateBegins DEF Update, Starts, Threads, Groups
  <2>. QED
    BY <2>1, <2>2, <2>3, TypesStart
<1>7. CASE FnlockEvent
  <2>1. Same
    BY <1>7 DEF FnlockEvent, TypeOK
  <2>2. Asked
    <3>1. Ask("wmi", "fn", ~hw.fn)
      BY <1>7 DEF FnlockEvent
    <3>2. "wmi" \in Threads /\ "fn" \in Modes /\ (~hw.fn) \in BOOLEAN
      BY DEF Threads, Modes
    <3>. QED
      BY <3>1, <3>2, AskedTypes
  <2>3. Starts("wmi", {"kbd"}, ReadKeyboard \o << <<"flip", "fn">> >>, FALSE)
    BY <1>7, EventsBegin DEF FnlockEvent, Starts, Threads, Groups
  <2>. QED
    BY <2>1, <2>2, <2>3, TypesStart
<1>8. CASE KeyboardEvent
  <2>1. Same
    BY <1>8 DEF KeyboardEvent, TypeOK
  <2>2. Asked
    <3>1. UNCHANGED asked \/ Nobody({"kbd"})
      BY <1>8 DEF KeyboardEvent
    <3>. QED
      BY <3>1, AskedTypes DEF TypeOK
  <2>3. Starts("acpi", {"kbd"}, ReadKey, FALSE)
    BY <1>8, EventsBegin DEF KeyboardEvent, Starts, Threads, Groups
  <2>. QED
    BY <2>1, <2>2, <2>3, TypesStart
<1>. QED
  BY <1>1, <1>2, <1>3, <1>4, <1>5, <1>6, <1>7, <1>8 DEF Outside

LEMMA ToldIsBoolean ==
  ASSUME TypeOK, NEW t \in Threads, NEW f \in Modes
  PROVE  Told(t, f) \in BOOLEAN
  BY Zenon DEF TypeOK, Told

LEMMA FailedTypes ==
  ASSUME TypeOK, NEW t \in Threads, NEW n, Failed(t, n)
  PROVE  /\ TypesKept /\ pending' = pending /\ fold' = fold /\ arg' = arg
         /\ calm' = FALSE /\ asked' \in [Modes -> BOOLEAN \cup {None}] /\ before' = before
<1>1. Nobody(group[t])
  BY DEF Failed
<1>2. asked' \in [Modes -> BOOLEAN \cup {None}]
  BY <1>1, AskedTypes
<1>. QED
  BY <1>2 DEF Failed, firmware, driver, machine, TypesKept

LEMMA StepTypes ==
  ASSUME TypeOK, NEW t \in Threads, Step(t)
  PROVE  TypeOK'
<1> DEFINE Lights == /\ light' \in 0 .. 2 /\ pending' \in Nat /\ fold' = fold
                     /\ backlightLevel' \in 0 .. 2 /\ backlightLevelSaved' \in 0 .. 2
           Values == hw' \in [Modes -> BOOLEAN] /\ mode' \in [Modes -> BOOLEAN] /\ arg' \in [Threads -> BOOLEAN]
                     /\ val' \in [Threads -> [modes : [Modes -> BOOLEAN], lit : BOOLEAN]]
           Others == /\ conservationModeLock' = conservationModeLock /\ rapidChargeCap' = rapidChargeCap
                     /\ onYogaMode' = onYogaMode /\ calm' \in BOOLEAN /\ before' = before
                     /\ asked' \in [Modes -> BOOLEAN \cup {None}]
<1>1. /\ prog' \in [Threads -> Programs] /\ group' = group /\ alone' = alone /\ agreed' \subseteq Groups
  BY StepComes DEF Comes, Moved, TypeOK
<1>2. ASSUME Lights, Values, Others PROVE TypeOK'
  BY <1>1, <1>2 DEF TypeOK
<1>3. ASSUME NEW n, Failed(t, n) PROVE Lights /\ Values /\ Others
  <2>1. /\ TypesKept /\ pending' = pending /\ fold' = fold /\ arg' = arg
        /\ calm' = FALSE /\ asked' \in [Modes -> BOOLEAN \cup {None}] /\ before' = before
    BY <1>3, FailedTypes
  <2>. QED
    BY <2>1 DEF TypesKept, TypeOK
<1>4. CASE Get(t)
  <2>1. CASE Failed(t, 2)
    BY <1>2, <1>3, <2>1
  <2>2. CASE /\ val' = [val EXCEPT ![t] = [modes |-> hw, lit |-> light > 0]]
             /\ UNCHANGED <<firmware, driver, machine, arg, group, history>>
    <3>1. [modes |-> hw, lit |-> light > 0] \in [modes : [Modes -> BOOLEAN], lit : BOOLEAN]
      <4>1. hw \in [Modes -> BOOLEAN] /\ (light > 0) \in BOOLEAN
        BY DEF TypeOK
      <4>. QED
        BY <4>1, Zenon
    <3>2. val' \in [Threads -> [modes : [Modes -> BOOLEAN], lit : BOOLEAN]]
      BY <2>2, <3>1, Zenon DEF TypeOK
    <3>3. Lights /\ Others /\ hw' = hw /\ mode' = mode /\ arg' = arg
      BY <2>2 DEF TypeOK, firmware, driver, machine, history
    <3>4. Values
      BY <3>2, <3>3 DEF TypeOK
    <3>. QED
      BY <1>2, <3>3, <3>4
  <2>. QED
    BY <1>4, <2>1, <2>2, GetMoves
<1>5. CASE SetBattery(t)
  <2>1. mode' \in [Modes -> BOOLEAN]
    <3>1. mode' = [mode EXCEPT !.conservation = val[t].modes.conservation, !.rapid = IF rapidChargeCap THEN val[t].modes.rapid ELSE @]
      BY <1>5 DEF SetBattery
    <3>2. val[t].modes \in [Modes -> BOOLEAN]
      BY DEF TypeOK
    <3>3. val[t].modes.conservation \in BOOLEAN /\ val[t].modes.rapid \in BOOLEAN
      BY <3>2 DEF Modes
    <3>. QED
      BY <3>1, <3>3 DEF TypeOK, Modes
  <2>2. Lights /\ Others /\ hw' = hw /\ arg' = arg /\ val' = val
    BY <1>5 DEF SetBattery, TypeOK, firmware, machine
  <2>. QED
    BY <2>1, <2>2, <1>2 DEF TypeOK
<1>6. CASE SetKeyboard(t)
  <2>1. mode' \in [Modes -> BOOLEAN]
    <3>1. mode' = [mode EXCEPT !.fn = val[t].modes.fn, !.usb = val[t].modes.usb]
      BY <1>6 DEF SetKeyboard
    <3>2. val[t].modes \in [Modes -> BOOLEAN]
      BY DEF TypeOK
    <3>3. val[t].modes.fn \in BOOLEAN /\ val[t].modes.usb \in BOOLEAN
      BY <3>2 DEF Modes
    <3>. QED
      BY <3>1, <3>3 DEF TypeOK, Modes
  <2>2. Lights /\ Others /\ hw' = hw /\ arg' = arg /\ val' = val
    BY <1>6 DEF SetKeyboard, Level, TypeOK, firmware, machine
  <2>. QED
    BY <2>1, <2>2, <1>2 DEF TypeOK
<1>7. CASE Compare(t)
  <2>1. Lights /\ Values /\ Others
    BY <1>7 DEF Compare, TypeOK, firmware, driver, machine, history
  <2>. QED
    BY <2>1, <1>2
<1>8. CASE FlipFn(t)
  <2>1. Lights /\ Others /\ hw' = hw /\ mode' = mode /\ val' = val /\ arg' = [arg EXCEPT ![t] = ~mode.fn]
    BY <1>8 DEF FlipFn, TypeOK, firmware, driver, machine, history
  <2>2. arg' \in [Threads -> BOOLEAN]
    <3>1. (~mode.fn) \in BOOLEAN
      OBVIOUS
    <3>. QED
      BY <3>1, <2>1, Zenon DEF TypeOK
  <2>. QED
    BY <2>1, <2>2, <1>2 DEF TypeOK
<1>9. CASE Send(t)
  <2>1. CASE Failed(t, 2)
    BY <1>2, <1>3, <2>1
  <2>2. CASE /\ hw' = [hw EXCEPT ![Of(t)] = Told(t, Of(t))]
             /\ UNCHANGED <<light, pending, fold, driver, machine, arg, val, group, history>>
    <3>1. Of(t) \in Modes /\ Told(t, Of(t)) \in BOOLEAN
      BY <1>9, SendMoves, ToldIsBoolean
    <3>2. hw' \in [Modes -> BOOLEAN]
      BY <2>2, <3>1, Zenon DEF TypeOK
    <3>3. Lights /\ Others /\ mode' = mode /\ arg' = arg /\ val' = val
      BY <2>2 DEF TypeOK, driver, machine, history
    <3>4. Values
      BY <3>2, <3>3 DEF TypeOK
    <3>. QED
      BY <1>2, <3>3, <3>4
  <2>. QED
    BY <1>9, <2>1, <2>2, SendMoves
<1>10. CASE Keep(t)
  <2>1. Of(t) \in Modes /\ Told(t, Of(t)) \in BOOLEAN /\ mode' = [mode EXCEPT ![Of(t)] = Told(t, Of(t))]
    BY <1>10, KeepMoves, ToldIsBoolean
  <2>2. mode' \in [Modes -> BOOLEAN]
    BY <2>1, Zenon DEF TypeOK
  <2>3. Lights /\ Others /\ hw' = hw /\ arg' = arg /\ val' = val
    BY <1>10 DEF Keep, TypeOK, firmware, machine, history
  <2>. QED
    BY <2>2, <2>3, <1>2 DEF TypeOK
<1>11. CASE Yoga(t)
  <2>1. Lights /\ Values /\ Others
    BY <1>11 DEF Yoga, TypeOK, firmware, machine, history
  <2>. QED
    BY <2>1, <1>2
<1>12. CASE SetBacklight(t)
  <2>1. CASE Failed(t, 1)
    BY <1>2, <1>3, <2>1
  <2>2. CASE ~Failed(t, 1)
    <3>1. Lights
      BY <1>12, <2>2 DEF SetBacklight, TypeOK
    <3>2. Values /\ Others
      BY <1>12, <2>2 DEF SetBacklight, TypeOK, machine, history
    <3>. QED
      BY <3>1, <3>2, <1>2
  <2>. QED
    BY <2>1, <2>2
<1>13. CASE Events(t)
  <2>1. CASE Failed(t, 1)
    BY <1>2, <1>3, <2>1
  <2>2. CASE /\ UNCHANGED <<hw, light, fold, driver, machine, arg, val, group, requests, history>>
             /\ pending' = pending \/ (pending > 0 /\ pending' = pending - 1)
    <3>1. Lights
      BY <2>2 DEF TypeOK, driver
    <3>2. Values /\ Others
      BY <2>2 DEF TypeOK, driver, machine, history
    <3>. QED
      BY <3>1, <3>2, <1>2
  <2>. QED
    BY <1>13, <2>1, <2>2, EventsMoves
<1>. QED
  BY <1>4, <1>5, <1>6, <1>7, <1>8, <1>9, <1>10, <1>11, <1>12, <1>13 DEF Step

-----------------------------------------------------------------------------
(* What a step may change of what the firmware has and the driver keeps.   *)
HwChanges(t, f) ==
  hw'[f] # hw[f] => Head(prog[t]) = <<"send", f>> /\ hw' = [hw EXCEPT ![f] = Told(t, f)]
ModeChanges(t, f) ==
  /\ mode'[f] # mode[f] => Head(prog[t]) = <<"keep", f>> \/ Sets(t, GroupOf(f))
  /\ Head(prog[t]) = <<"keep", f>> => mode'[f] = Told(t, f) /\ hw' = hw /\ prog'[t] = <<>>
  /\ Sets(t, GroupOf(f)) /\ Kept(f) => mode'[f] = val[t].modes[f] /\ hw' = hw
ArgChanges(t) ==
  /\ \A u \in Threads \ {t} : arg'[u] = arg[u]
  /\ Head(prog[t]) # <<"flip", "fn">> => arg' = arg
AgreedChanges(t) ==
  /\ agreed \subseteq agreed'
  /\ \A g \in agreed' : g \in agreed \/ (alone[t] /\ Sets(t, g))
  /\ \A g \in Groups : alone[t] /\ Sets(t, g) => g \in agreed'
MachineKept ==
  /\ rapidChargeCap' = rapidChargeCap /\ onYogaMode' = onYogaMode /\ conservationModeLock' = conservationModeLock

Changes(t) ==
  /\ \A f \in Modes : HwChanges(t, f) /\ ModeChanges(t, f)
  /\ ArgChanges(t) /\ AgreedChanges(t) /\ MachineKept
  /\ \A u \in Threads \ {t} : val'[u] = val[u]

(* The steps that set and keep nothing.                                    *)
LEMMA PlainChanges ==
  ASSUME TypeOK, NEW t \in Threads, prog[t] # <<>>, hw' = hw, mode' = mode, agreed' = agreed, MachineKept, ArgChanges(t),
         \A u \in Threads \ {t} : val'[u] = val[u], Head(prog[t])[1] \notin {"keep", "setBattery", "setKeyboard"}
  PROVE  Changes(t)
<1>1. ASSUME NEW f \in Modes PROVE HwChanges(t, f) /\ ModeChanges(t, f)
  BY DEF HwChanges, ModeChanges, Sets, On
<1>. QED
  BY <1>1 DEF Changes, AgreedChanges, Sets, On

LEMMA FailedChanges ==
  ASSUME TypeOK, NEW t \in Threads, prog[t] # <<>>, NEW n, Failed(t, n), Head(prog[t])[1] \notin {"keep", "setBattery", "setKeyboard"}
  PROVE  Changes(t)
<1>1. hw' = hw /\ mode' = mode /\ agreed' = agreed /\ MachineKept /\ arg' = arg /\ val' = val
  BY DEF Failed, firmware, driver, machine, MachineKept
<1>. QED
  BY <1>1, PlainChanges DEF ArgChanges

LEMMA StepChanges ==
  ASSUME TypeOK, NEW t \in Threads, Step(t)
  PROVE  Changes(t)
<1>1. CASE Get(t)
  <2>1. prog[t] # <<>> /\ Head(prog[t])[1] \notin {"keep", "setBattery", "setKeyboard"}
    BY <1>1 DEF Get, On
  <2>2. CASE Failed(t, 2)
    BY <2>1, <2>2, FailedChanges
  <2>3. CASE ~Failed(t, 2)
    <3>1. /\ hw' = hw /\ mode' = mode /\ agreed' = agreed /\ MachineKept /\ arg' = arg
          /\ val' = [val EXCEPT ![t] = [modes |-> hw, lit |-> light > 0]]
      BY <1>1, <2>3 DEF Get, firmware, driver, machine, history, MachineKept
    <3>2. \A u \in Threads \ {t} : val'[u] = val[u]
      BY <3>1 DEF TypeOK
    <3>. QED
      BY <2>1, <3>1, <3>2, PlainChanges DEF ArgChanges
  <2>. QED
    BY <2>2, <2>3
<1>2. CASE SetBattery(t)
  <2>1. /\ mode' = [mode EXCEPT !.conservation = val[t].modes.conservation, !.rapid = IF rapidChargeCap THEN val[t].modes.rapid ELSE @]
        /\ hw' = hw /\ arg' = arg /\ val' = val /\ MachineKept /\ agreed' = IF alone[t] THEN agreed \cup {"bat"} ELSE agreed
    BY <1>2 DEF SetBattery, firmware, machine, MachineKept, Agree
  <2>2. Head(prog[t])[1] = "setBattery" /\ On(t, "setBattery") /\ Sets(t, "bat") /\ ~Sets(t, "kbd")
    BY <1>2 DEF SetBattery, On, Sets
  <2>3. ASSUME NEW f \in Modes PROVE HwChanges(t, f) /\ ModeChanges(t, f)
    <3>1. GroupOf(f) = "kbd" => mode'[f] = mode[f]
      BY <2>1 DEF TypeOK, GroupOf, Modes
    <3>2. GroupOf(f) \in {"bat", "kbd"}
      BY DEF GroupOf
    <3>3. GroupOf(f) = "bat" /\ Kept(f) => mode'[f] = val[t].modes[f]
      BY <2>1 DEF TypeOK, GroupOf, Modes, Kept
    <3>. QED
      BY <2>1, <2>2, <3>1, <3>2, <3>3 DEF HwChanges, ModeChanges
  <2>. QED
    BY <2>1, <2>2, <2>3 DEF Changes, ArgChanges, AgreedChanges, Groups
<1>3. CASE SetKeyboard(t)
  <2>1. /\ mode' = [mode EXCEPT !.fn = val[t].modes.fn, !.usb = val[t].modes.usb]
        /\ hw' = hw /\ arg' = arg /\ val' = val /\ MachineKept /\ agreed' = IF alone[t] THEN agreed \cup {"kbd"} ELSE agreed
    BY <1>3 DEF SetKeyboard, firmware, machine, MachineKept, Agree
  <2>2. Head(prog[t])[1] = "setKeyboard" /\ On(t, "setKeyboard") /\ Sets(t, "kbd") /\ ~Sets(t, "bat")
    BY <1>3 DEF SetKeyboard, On, Sets
  <2>3. ASSUME NEW f \in Modes PROVE HwChanges(t, f) /\ ModeChanges(t, f)
    <3>1. GroupOf(f) = "bat" => mode'[f] = mode[f]
      BY <2>1 DEF TypeOK, GroupOf, Modes
    <3>2. GroupOf(f) \in {"bat", "kbd"}
      BY DEF GroupOf
    <3>3. GroupOf(f) = "kbd" => mode'[f] = val[t].modes[f]
      BY <2>1 DEF TypeOK, GroupOf, Modes
    <3>. QED
      BY <2>1, <2>2, <3>1, <3>2, <3>3 DEF HwChanges, ModeChanges
  <2>. QED
    BY <2>1, <2>2, <2>3 DEF Changes, ArgChanges, AgreedChanges, Groups
<1>4. CASE Compare(t)
  <2>1. prog[t] # <<>> /\ Head(prog[t])[1] \notin {"keep", "setBattery", "setKeyboard"}
    BY <1>4 DEF Compare, On
  <2>2. hw' = hw /\ mode' = mode /\ agreed' = agreed /\ MachineKept /\ arg' = arg /\ val' = val
    BY <1>4 DEF Compare, firmware, driver, machine, history, MachineKept
  <2>. QED
    BY <2>1, <2>2, PlainChanges DEF ArgChanges
<1>5. CASE FlipFn(t)
  <2>1. prog[t] # <<>> /\ Head(prog[t]) = <<"flip", "fn">>
    BY <1>5, FlipMoves DEF FlipFn, On
  <2>2. hw' = hw /\ mode' = mode /\ agreed' = agreed /\ MachineKept /\ arg' = [arg EXCEPT ![t] = ~mode.fn] /\ val' = val
    BY <1>5 DEF FlipFn, firmware, driver, machine, history, MachineKept
  <2>3. ArgChanges(t)
    BY <2>1, <2>2 DEF ArgChanges, TypeOK
  <2>. QED
    BY <2>1, <2>2, <2>3, PlainChanges
<1>6. CASE Send(t)
  <2>1. prog[t] # <<>> /\ Head(prog[t])[1] \notin {"keep", "setBattery", "setKeyboard"}
    BY <1>6 DEF Send, On
  <2>2. CASE Failed(t, 2)
    BY <2>1, <2>2, FailedChanges
  <2>3. CASE /\ hw' = [hw EXCEPT ![Of(t)] = Told(t, Of(t))]
             /\ UNCHANGED <<light, pending, fold, driver, machine, arg, val, group, history>>
    <3>1. Of(t) \in Modes /\ Head(prog[t]) = <<"send", Of(t)>>
      BY <1>6, SendMoves
    <3>2. mode' = mode /\ agreed' = agreed /\ MachineKept /\ arg' = arg /\ val' = val
      BY <2>3 DEF driver, machine, history, MachineKept
    <3>3. ASSUME NEW f \in Modes PROVE HwChanges(t, f)
      <4>1. CASE f = Of(t)
        BY <2>3, <3>1, <4>1, Zenon DEF HwChanges
      <4>2. CASE f # Of(t)
        BY <2>3, <4>2 DEF HwChanges, TypeOK
      <4>. QED
        BY <4>1, <4>2
    <3>4. ASSUME NEW f \in Modes PROVE ModeChanges(t, f)
      BY <2>1, <3>2 DEF ModeChanges, Sets, On
    <3>. QED
      BY <2>1, <3>2, <3>3, <3>4 DEF Changes, ArgChanges, AgreedChanges, Sets, On
  <2>. QED
    BY <1>6, <2>2, <2>3, SendMoves
<1>7. CASE Keep(t)
  <2>1. Of(t) \in Modes /\ Head(prog[t]) = <<"keep", Of(t)>> /\ Moved(t, <<>>) /\ mode' = [mode EXCEPT ![Of(t)] = Told(t, Of(t))]
    BY <1>7, KeepMoves
  <2>2. hw' = hw /\ agreed' = agreed /\ MachineKept /\ arg' = arg /\ val' = val
    BY <1>7 DEF Keep, firmware, machine, history, MachineKept
  <2>3. ASSUME NEW f \in Modes PROVE ModeChanges(t, f)
    <3>1. Head(prog[t]) = <<"keep", f>> <=> f = Of(t)
      BY <2>1
    <3>2. f # Of(t) => mode'[f] = mode[f]
      BY <2>1 DEF TypeOK
    <3>3. mode'[Of(t)] = Told(t, Of(t))
      BY <2>1, Zenon DEF TypeOK
    <3>4. prog'[t] = <<>>
      BY <2>1 DEF Moved, TypeOK
    <3>5. ~Sets(t, GroupOf(f))
      BY <2>1 DEF Sets, On
    <3>. QED
      BY <2>2, <3>1, <3>2, <3>3, <3>4, <3>5, Zenon DEF ModeChanges
  <2>. QED
    BY <2>1, <2>2, <2>3 DEF Changes, ArgChanges, AgreedChanges, HwChanges, Sets, On
<1>8. CASE Yoga(t)
  <2>1. prog[t] # <<>> /\ Head(prog[t])[1] \notin {"keep", "setBattery", "setKeyboard"}
    BY <1>8 DEF Yoga, On
  <2>2. hw' = hw /\ mode' = mode /\ agreed' = agreed /\ MachineKept /\ arg' = arg /\ val' = val
    BY <1>8 DEF Yoga, firmware, machine, history, MachineKept
  <2>. QED
    BY <2>1, <2>2, PlainChanges DEF ArgChanges
<1>9. CASE SetBacklight(t)
  <2>1. prog[t] # <<>> /\ Head(prog[t])[1] \notin {"keep", "setBattery", "setKeyboard"}
    BY <1>9 DEF SetBacklight, On
  <2>2. CASE Failed(t, 1)
    BY <2>1, <2>2, FailedChanges
  <2>3. CASE ~Failed(t, 1)
    <3>1. hw' = hw /\ mode' = mode /\ agreed' = agreed /\ MachineKept /\ arg' = arg /\ val' = val
      BY <1>9, <2>3 DEF SetBacklight, machine, history, MachineKept
    <3>. QED
      BY <2>1, <3>1, PlainChanges DEF ArgChanges
  <2>. QED
    BY <2>2, <2>3
<1>10. CASE Events(t)
  <2>1. prog[t] # <<>> /\ Head(prog[t])[1] \notin {"keep", "setBattery", "setKeyboard"}
    BY <1>10, EventsMoves
  <2>2. CASE Failed(t, 1)
    BY <2>1, <2>2, FailedChanges
  <2>3. CASE ~Failed(t, 1)
    <3>1. hw' = hw /\ mode' = mode /\ agreed' = agreed /\ MachineKept /\ arg' = arg /\ val' = val
      BY <1>10, <2>3, EventsMoves DEF driver, machine, history, MachineKept
    <3>. QED
      BY <2>1, <3>1, PlainChanges DEF ArgChanges
  <2>. QED
    BY <2>2, <2>3
<1>. QED
  BY <1>1, <1>2, <1>3, <1>4, <1>5, <1>6, <1>7, <1>8, <1>9, <1>10 DEF Step

-----------------------------------------------------------------------------
(* What is read and kept is what the firmware has.                         *)
LEMMA UsesOfSteps ==
  ASSUME TypeOK, Apart, NEW t \in Threads
  PROVE  /\ \A g \in Groups : Sets(t, g) => Active(t, g)
         /\ \A f \in Modes : At(t, <<"keep", f>>) \/ At(t, <<"send", f>>) => Active(t, GroupOf(f))
<1>1. CASE prog[t] = <<>>
  BY <1>1 DEF Sets, On, At
<1>2. CASE prog[t] # <<>>
  <2>1. Active(t, Uses(Head(prog[t])))
    BY <1>2, WhatIsUsed
  <2>2. ASSUME NEW g \in Groups, Sets(t, g) PROVE Uses(Head(prog[t])) = g
    BY <2>2 DEF Sets, On, Uses
  <2>3. ASSUME NEW f \in Modes, At(t, <<"keep", f>>) \/ At(t, <<"send", f>>) PROVE Uses(Head(prog[t])) = GroupOf(f)
    BY <2>3, ThreadsAct, Zenon DEF At
  <2>. QED
    BY <2>1, <2>2, <2>3, Zenon
<1>. QED
  BY <1>1, <1>2

LEMMA StepOfSend ==
  ASSUME NEW t \in Threads, Step(t), NEW f, prog[t] # <<>>, Head(prog[t]) = <<"send", f>>
  PROVE  Send(t) /\ Of(t) = f
<1>1. Head(prog[t])[1] = "send" /\ Of(t) = f
  BY DEF Of
<1>. QED
  BY <1>1 DEF Step, Get, Events, SetBattery, SetKeyboard, Compare, FlipFn, Keep, Yoga, SetBacklight, On

LEMMA Groupings == \A f \in Modes : GroupOf(f) \in Groups
  BY DEF GroupOf, Groups

LEMMA ReadStep ==
  ASSUME TypeOK, Apart, HasRead, NEW t \in Threads, Step(t)
  PROVE  HasRead'
<1>1. PICK p : Comes(t, p)
  BY StepComes
<1>2. Changes(t)
  BY StepChanges
<1>3. /\ prog[t] # <<>> /\ prog'[t] = p /\ (\A u \in Threads : u # t => prog'[u] = prog[u]) /\ alone' = alone
      /\ (p # <<>> /\ Head(p)[1] \in {"setBattery", "setKeyboard"} => val'[t].modes = hw /\ hw' = hw)
  BY <1>1 DEF Comes, Moved, TypeOK
<1>4. ASSUME NEW u \in Threads, NEW f \in Modes, Sets(u, GroupOf(f))', alone'[u] \/ GroupOf(f) \in agreed'
      PROVE  val'[u].modes[f] = hw'[f]
  <2>1. CASE u = t
    BY <1>3, <1>4, <2>1 DEF Sets, On
  <2>2. CASE u # t
    <3>1. Sets(u, GroupOf(f)) /\ val'[u] = val[u] /\ GroupOf(f) \in Groups
      BY <1>2, <1>3, <1>4, <2>2, Groupings DEF Sets, On, Changes
    <3>2. Active(u, GroupOf(f))
      BY <3>1, UsesOfSteps
    <3>3. alone[u] \/ GroupOf(f) \in agreed
      <4>1. ASSUME alone[t], Sets(t, GroupOf(f)) PROVE FALSE
        <5>1. Active(t, GroupOf(f))
          BY <4>1, <3>1, UsesOfSteps
        <5>. QED
          BY <5>1, <4>1, <3>1, <3>2, <2>2 DEF Apart
      <4>. QED
        BY <4>1, <1>2, <1>3, <1>4 DEF Changes, AgreedChanges
    <3>4. val[u].modes[f] = hw[f]
      BY <3>1, <3>3 DEF HasRead
    <3>5. hw'[f] = hw[f]
      <4>1. ASSUME Head(prog[t]) = <<"send", f>> PROVE FALSE
        <5>1. Active(t, GroupOf(f))
          BY <4>1, <1>3, UsesOfSteps DEF At
        <5>. QED
          BY <5>1, <3>1, <3>2, <3>3, <2>2 DEF Apart, Sole
      <4>. QED
        BY <4>1, <1>2 DEF Changes, HwChanges
    <3>. QED
      BY <3>1, <3>4, <3>5
  <2>. QED
    BY <2>1, <2>2
<1>. QED
  BY <1>4 DEF HasRead

LEMMA KeptStep ==
  ASSUME TypeOK, Apart, HasRead, HasKept, NEW t \in Threads, Step(t)
  PROVE  HasKept'
<1>1. PICK p : Comes(t, p)
  BY StepComes
<1>2. Changes(t)
  BY StepChanges
<1>3. /\ prog[t] # <<>> /\ prog'[t] = p /\ (\A u \in Threads : u # t => prog'[u] = prog[u])
      /\ \A f \in Modes : p # <<>> /\ Head(p) = <<"keep", f>> =>
           Head(prog[t]) = <<"send", f>> /\ hw' = [hw EXCEPT ![f] = Told(t, f)] /\ mode' = mode /\ arg' = arg
  BY <1>1 DEF Comes, Moved, TypeOK
<1>4. ASSUME NEW f \in Modes, GroupOf(f) \in agreed', Kept(f)'
      PROVE  /\ \A u \in Threads : At(u, <<"keep", f>>)' => (hw'[f] <=> Told(u, f)')
             /\ (\A u \in Threads : ~At(u, <<"keep", f>>)') => mode'[f] = hw'[f]
  <2>0. Kept(f) /\ GroupOf(f) \in Groups
    BY <1>2, <1>4, Groupings DEF Kept, Changes, MachineKept
  <2>1. CASE Sets(t, GroupOf(f))
    <3>1. alone[t] \/ GroupOf(f) \in agreed
      BY <1>2, <1>4 DEF Changes, AgreedChanges
    <3>2. mode'[f] = hw'[f]
      BY <1>2, <2>0, <2>1, <3>1 DEF Changes, ModeChanges, HasRead
    <3>3. Active(t, GroupOf(f))
      BY <2>0, <2>1, UsesOfSteps
    <3>4. ASSUME NEW u \in Threads, At(u, <<"keep", f>>)' PROVE FALSE
      <4>1. u # t
        <5>1. Head(prog[t])[1] \in {"setBattery", "setKeyboard"}
          BY <2>1 DEF Sets, On
        <5>2. Head(prog[t]) # <<"send", f>>
          BY <5>1
        <5>. QED
          BY <5>2, <1>3, <3>4 DEF At
      <4>2. Active(u, GroupOf(f))
        BY <4>1, <1>3, <3>4, UsesOfSteps DEF At
      <4>. QED
        BY <4>1, <4>2, <3>1, <3>3, <2>0 DEF Apart, Sole
    <3>. QED
      BY <3>2, <3>4
  <2>2. CASE ~Sets(t, GroupOf(f))
    <3>1. GroupOf(f) \in agreed /\ Sole(GroupOf(f))
      <4>1. GroupOf(f) \in agreed
        BY <1>2, <1>4, <2>2 DEF Changes, AgreedChanges
      <4>. QED
        BY <4>1 DEF Apart
    <3>2. /\ \A u \in Threads : At(u, <<"keep", f>>) => (hw[f] <=> Told(u, f))
          /\ (\A u \in Threads : ~At(u, <<"keep", f>>)) => mode[f] = hw[f]
      BY <2>0, <3>1 DEF HasKept
    <3>3. Active(t, GroupOf(f)) => \A u \in Threads : u # t => ~At(u, <<"keep", f>>) /\ ~At(u, <<"keep", f>>)'
      <4>1. ASSUME NEW u \in Threads, u # t, Active(t, GroupOf(f)), At(u, <<"keep", f>>) \/ At(u, <<"keep", f>>)' PROVE FALSE
        <5>1. At(u, <<"keep", f>>)
          BY <4>1, <1>3 DEF At
        <5>2. Active(u, GroupOf(f))
          BY <5>1, UsesOfSteps
        <5>. QED
          BY <5>2, <4>1, <3>1 DEF Sole
      <4>. QED
        BY <4>1
    <3>4. CASE At(t, <<"keep", f>>)
      <4>1. Active(t, GroupOf(f)) /\ Head(prog[t]) = <<"keep", f>>
        BY <3>4, UsesOfSteps DEF At
      <4>2. mode'[f] = Told(t, f) /\ hw' = hw /\ prog'[t] = <<>>
        BY <4>1, <1>2 DEF Changes, ModeChanges
      <4>3. mode'[f] = hw'[f]
        <5>1. hw[f] \in BOOLEAN /\ Told(t, f) \in BOOLEAN /\ (hw[f] <=> Told(t, f))
          BY <3>2, <3>4, ToldIsBoolean DEF TypeOK
        <5>. QED
          BY <5>1, <4>2
      <4>4. \A u \in Threads : ~At(u, <<"keep", f>>)'
        BY <4>1, <4>2, <3>3 DEF At
      <4>. QED
        BY <4>3, <4>4
    <3>5. CASE ~At(t, <<"keep", f>>) /\ At(t, <<"keep", f>>)'
      <4>1. Head(prog[t]) = <<"send", f>> /\ hw' = [hw EXCEPT ![f] = Told(t, f)] /\ mode' = mode /\ arg' = arg
        BY <3>5, <1>3 DEF At
      <4>2. Active(t, GroupOf(f))
        BY <4>1, <1>3, UsesOfSteps DEF At
      <4>3. hw'[f] = Told(t, f) /\ Told(t, f)' = Told(t, f)
        BY <4>1, Zenon DEF Told, TypeOK
      <4>4. \A u \in Threads : At(u, <<"keep", f>>)' => u = t
        BY <4>2, <3>3
      <4>. QED
        BY <4>3, <4>4, <3>5
    <3>6. CASE ~At(t, <<"keep", f>>) /\ ~At(t, <<"keep", f>>)'
      <4>1. \A u \in Threads : At(u, <<"keep", f>>)' <=> At(u, <<"keep", f>>)
        BY <3>6, <1>3 DEF At
      <4>2. mode'[f] = mode[f]
        BY <3>6, <1>2, <1>3, <2>2 DEF Changes, ModeChanges, At
      <4>3. CASE hw'[f] = hw[f]
        <5>1. ASSUME NEW u \in Threads, At(u, <<"keep", f>>) PROVE Told(u, f)' = Told(u, f)
          <6>1. u # t
            BY <3>6, <5>1
          <6>2. arg'[u] = arg[u]
            BY <6>1, <1>2 DEF Changes, ArgChanges
          <6>. QED
            BY <6>2, <4>2, Zenon DEF Told
        <5>. QED
          BY <5>1, <4>1, <4>2, <4>3, <3>2
      <4>4. CASE hw'[f] # hw[f]
        <5>1. Head(prog[t]) = <<"send", f>> /\ hw' = [hw EXCEPT ![f] = Told(t, f)]
          BY <4>4, <1>2 DEF Changes, HwChanges
        <5>2. Send(t) /\ Of(t) = f
          BY <5>1, <1>3, StepOfSend
        <5>3. ~Failed(t, 2)
          BY <4>4 DEF Failed, firmware
        <5>4. Moved(t, << <<"keep", Of(t)>> >>)
          BY <5>2, <5>3, SendMoves
        <5>5. prog'[t] = << <<"keep", f>> >>
          BY <5>2, <5>4 DEF Moved, TypeOK
        <5>. QED
          BY <5>5, <3>6, EndsComeLast DEF At
      <4>. QED
        BY <4>3, <4>4
    <3>. QED
      BY <3>4, <3>5, <3>6
  <2>. QED
    BY <2>1, <2>2
<1>. QED
  BY <1>4 DEF HasKept

LEMMA StartsRead ==
  ASSUME TypeOK, Apart, HasRead, HasKept, NEW t, NEW gs, NEW p, NEW x, Starts(t, gs, p, x)
  PROVE  HasRead' /\ HasKept'
<1>1. /\ t \in Threads /\ prog[t] = <<>> /\ prog' = [prog EXCEPT ![t] = p] /\ arg' = [arg EXCEPT ![t] = x]
      /\ \A u \in Threads \ {t} : alone'[u] => alone[u]
      /\ agreed' \subseteq agreed
      /\ hw' = hw /\ mode' = mode /\ val' = val /\ rapidChargeCap' = rapidChargeCap
  BY StartsBegin DEF driver, machine
<1>2. p # <<>> => Head(p)[1] \in {"getBattery", "getKeyboard", "bdvt"}
  BY DEF Starts, Begun
<1>3. prog'[t] = p /\ \A u \in Threads : u # t => prog'[u] = prog[u] /\ arg'[u] = arg[u]
  BY <1>1 DEF TypeOK
<1>4. ASSUME NEW u \in Threads, NEW f \in Modes, Sets(u, GroupOf(f))', alone'[u] \/ GroupOf(f) \in agreed'
      PROVE  val'[u].modes[f] = hw'[f]
  <2>1. u # t
    BY <1>2, <1>3, <1>4 DEF Sets, On
  <2>2. Sets(u, GroupOf(f)) /\ (alone[u] \/ GroupOf(f) \in agreed)
    BY <2>1, <1>1, <1>3, <1>4 DEF Sets, On
  <2>. QED
    BY <2>2, <1>1 DEF HasRead
<1>5. ASSUME NEW f \in Modes, GroupOf(f) \in agreed', Kept(f)'
      PROVE  /\ \A u \in Threads : At(u, <<"keep", f>>)' => (hw'[f] <=> Told(u, f)')
             /\ (\A u \in Threads : ~At(u, <<"keep", f>>)') => mode'[f] = hw'[f]
  <2>1. ~At(t, <<"keep", f>>) /\ ~At(t, <<"keep", f>>)'
    BY <1>1, <1>2, <1>3 DEF At
  <2>2. \A u \in Threads : At(u, <<"keep", f>>)' <=> At(u, <<"keep", f>>)
    BY <2>1, <1>3 DEF At
  <2>3. /\ \A u \in Threads : At(u, <<"keep", f>>) => (hw[f] <=> Told(u, f))
        /\ (\A u \in Threads : ~At(u, <<"keep", f>>)) => mode[f] = hw[f]
    BY <1>1, <1>5 DEF HasKept, Kept
  <2>4. ASSUME NEW u \in Threads, At(u, <<"keep", f>>) PROVE Told(u, f)' = Told(u, f)
    <3>1. arg'[u] = arg[u]
      BY <2>1, <2>4, <1>3
    <3>. QED
      BY <3>1, <1>1, Zenon DEF Told
  <2>. QED
    BY <2>2, <2>3, <2>4, <1>1
<1>. QED
  BY <1>4, <1>5 DEF HasRead, HasKept

(* Everything that TypeOK, Apart, HasRead and HasKept speak of.            *)
Unmoved ==
  /\ hw' = hw /\ mode' = mode /\ rapidChargeCap' = rapidChargeCap /\ prog' = prog /\ arg' = arg /\ val' = val
  /\ group' = group /\ alone' = alone /\ agreed' = agreed

LEMMA UnmovedKeeps ==
  ASSUME Unmoved, Apart, HasRead, HasKept
  PROVE  Apart' /\ HasRead' /\ HasKept'
<1>1. Apart'
  BY DEF Unmoved, Apart, Sole, Active
<1>2. HasRead'
  BY DEF Unmoved, HasRead, Sets, On
<1>3. HasKept'
  BY DEF Unmoved, HasKept, At, Told, Kept
<1>. QED
  BY <1>1, <1>2, <1>3

KeptInv == TypeOK /\ Apart /\ HasRead /\ HasKept

LEMMA KeptInit == Init => KeptInv
<1> SUFFICES ASSUME Init PROVE KeptInv
  OBVIOUS
<1>1. \A t \in Threads : prog[t] = <<>>
  BY DEF Init
<1>2. TypeOK
  <2>1. mode \in [Modes -> BOOLEAN]
    <3>1. (IF rapidChargeCap THEN hw.rapid ELSE FALSE) \in BOOLEAN
      BY DEF Init, Modes
    <3>. QED
      BY <3>1 DEF Init
  <2>2. prog \in [Threads -> Programs]
    BY DEF Init, Programs
  <2>3. val \in [Threads -> [modes : [Modes -> BOOLEAN], lit : BOOLEAN]]
    <3>1. hw \in [Modes -> BOOLEAN] /\ (light > 0) \in BOOLEAN
      BY DEF Init
    <3>2. [modes |-> hw, lit |-> light > 0] \in [modes : [Modes -> BOOLEAN], lit : BOOLEAN]
      BY <3>1, Zenon
    <3>. QED
      BY <3>2, Zenon DEF Init
  <2>4. backlightLevel \in 0 .. 2 /\ backlightLevelSaved \in 0 .. 2
    BY DEF Init, Level
  <2>5. group \in [Threads -> SUBSET Groups] /\ agreed \subseteq Groups /\ asked \in [Modes -> BOOLEAN \cup {None}]
        /\ fold \in Folds /\ arg \in [Threads -> BOOLEAN] /\ alone \in [Threads -> BOOLEAN]
    BY DEF Init, Groups, Folds
  <2>. QED
    BY <2>1, <2>2, <2>3, <2>4, <2>5 DEF Init, TypeOK
<1>3. Apart
  BY <1>1, Tuples DEF Apart, Sole, Active
<1>4. HasRead
  BY <1>1 DEF HasRead, Sets, On
<1>5. HasKept
  <2>1. ASSUME NEW f \in Modes, Kept(f) PROVE mode[f] = hw[f]
    BY <2>1 DEF Init, Kept, Modes
  <2>. QED
    BY <2>1, <1>1 DEF HasKept, At
<1>. QED
  BY <1>2, <1>3, <1>4, <1>5 DEF KeptInv

LEMMA KeptNext == KeptInv /\ [Next]_vars => KeptInv'
<1> SUFFICES ASSUME KeptInv, [Next]_vars PROVE KeptInv'
  OBVIOUS
<1> USE DEF KeptInv
<1>1. CASE Outside
  <2>1. TypeOK'
    BY <1>1, OutsideTypes
  <2>2. CASE \E t, gs, p, x : Starts(t, gs, p, x)
    <3>1. PICK t, gs, p, x : Starts(t, gs, p, x)
      BY <2>2
    <3>2. Apart'
      BY <3>1, StartsBegin
    <3>3. HasRead' /\ HasKept'
      BY <3>1, StartsRead
    <3>. QED
      BY <2>1, <3>2, <3>3
  <2>3. CASE SetLock \/ KeyPress
    <3>1. Unmoved
      BY <2>3 DEF SetLock, KeyPress, Unmoved, firmware, driver, machine
    <3>. QED
      BY <2>1, <3>1, UnmovedKeeps
  <2>. QED
    BY <1>1, <2>2, <2>3, OutsideStarts
<1>2. CASE \E t \in Threads : Step(t)
  <2>1. PICK t \in Threads : Step(t)
    BY <1>2
  <2>2. PICK p : Comes(t, p)
    BY <2>1, StepComes
  <2>3. TypeOK' /\ Apart'
    BY <2>1, <2>2, StepTypes, ApartComes
  <2>. QED
    BY <2>1, <2>3, ReadStep, KeptStep
<1>3. CASE UNCHANGED vars
  <2>1. Unmoved /\ TypeOK'
    BY <1>3 DEF vars, firmware, driver, machine, history, Unmoved, TypeOK
  <2>. QED
    BY <2>1, UnmovedKeeps
<1>. QED
  BY <1>1, <1>2, <1>3 DEF Next, Rest

(* What a thread has read is what it will keep, and what it has kept is    *)
(* the firmware's, of a method that no two have used at once since one     *)
(* has read it alone.                                                      *)
THEOREM ModesAreKept == Spec => []KeptInv
<1>1. Spec => []KeptInv
  BY KeptInit, KeptNext, PTL DEF Spec
<1>. QED
  BY <1>1

(* ModesAgree: what the driver keeps is what the firmware has.             *)
THEOREM ModesDoAgree == Spec => []ModesAgree
<1>1. KeptInv => ModesAgree
  BY DEF KeptInv, HasKept, ModesAgree, Quiet, At
<1>. QED
  BY <1>1, ModesAreKept, PTL

-----------------------------------------------------------------------------
(* What was asked for alone is set, or what is left to do will set it.     *)
Acts(t, f) ==
  /\ Has(t, "bdvt", f) => f = "conservation"
  /\ \A s \in {"compare", "send", "flip", "bdvt"} : Has(t, s, f) /\ (s = "flip" => f = "fn") => Active(t, GroupOf(f))
AllAct == \A t \in Threads, f \in Modes : Acts(t, f)

LEMMA OwingActs == TypeOK /\ Apart => AllAct
<1> SUFFICES ASSUME TypeOK, Apart, NEW t \in Threads, NEW f \in Modes PROVE Acts(t, f)
  BY DEF AllAct
<1>1. Has(t, "bdvt", f) => f = "conservation"
  <2>1. ASSUME Has(t, "bdvt", f) PROVE f = "conservation"
    <3>1. prog[t] \in Programs
      BY DEF TypeOK
    <3>2. prog[t] # <<>> /\ Head(prog[t]) = <<"bdvt", f>>
      BY <2>1, <3>1, OwingSteps DEF Has
    <3>3. Head(prog[t]) \in Ends
      BY <3>2, AdvanceMoves DEF Consists
    <3>. QED
      BY <3>2, <3>3 DEF Ends
  <2>. QED
    BY <2>1
<1>2. ASSUME NEW s \in {"compare", "send", "flip", "bdvt"}, Has(t, s, f), s = "flip" => f = "fn"
      PROVE  Active(t, GroupOf(f))
  <2>1. s = "bdvt" => f = "conservation"
    BY <1>1, <1>2
  <2>2. <<s, f>> \in Steps
    BY DEF Steps, StepNames, Modes
  <2>3. Uses(<<s, f>>) = GroupOf(f)
    BY <1>2, <2>1 DEF Uses, GroupOf
  <2>4. GroupOf(f) \in group[t]
    BY <1>2, <2>2, <2>3, Zenon DEF Apart, Has
  <2>5. prog[t] # <<>>
    BY <1>2, Tuples DEF Has
  <2>. QED
    BY <2>4, <2>5 DEF Active
<1>. QED
  BY <1>1, <1>2 DEF Acts

(* What a thread owes and owed is the same after as before.                *)
Same(u, f) ==
  /\ \A s \in {"compare", "send"} : Has(u, s, f)' <=> Has(u, s, f)
  /\ f = "fn" => (Has(u, "flip", f)' <=> Has(u, "flip", f))
  /\ (Has(u, "bdvt", f) /\ ~conservationModeLock)' <=> Has(u, "bdvt", f) /\ ~conservationModeLock
  /\ Owes(u, f) => arg'[u] = arg[u]
  /\ Has(u, "send", f) => (Told(u, f)' <=> Told(u, f))
Certain(g) == g \in agreed \/ Reading(g)

LEMMA StillAsking ==
  ASSUME NEW f \in Modes, Asking(f), asked'[f] = asked[f], rapidChargeCap' = rapidChargeCap, hw'[f] = hw[f],
         Sole(GroupOf(f))', Certain(GroupOf(f))', \A u \in Threads : Same(u, f)
  PROVE  Asking(f)'
<1>1. ASSUME NEW u \in Threads PROVE Owed(u, f)' /\ (Owes(u, f)' <=> Owes(u, f))
  <2>1. Owed(u, f) /\ Same(u, f)
    BY DEF Asking
  <2>. QED
    BY <2>1 DEF Same, Owed, Owes
<1>. QED
  BY <1>1 DEF Asking, Certain

(* The thread that owes uses the method.                                   *)
OweNothing == \A u \in Threads, f \in Modes : ~Active(u, GroupOf(f)) => ~Owes(u, f) /\ Owed(u, f)

LEMMA OthersOweNothing == TypeOK /\ Apart => OweNothing
<1> SUFFICES ASSUME TypeOK, Apart, NEW u \in Threads, NEW f \in Modes, ~Active(u, GroupOf(f))
             PROVE  ~Owes(u, f) /\ Owed(u, f)
  BY DEF OweNothing
<1>1. /\ ~Has(u, "compare", f) /\ ~Has(u, "send", f) /\ ~(f = "fn" /\ Has(u, "flip", f)) /\ ~Has(u, "bdvt", f)
  BY OwingActs DEF AllAct, Acts
<1>. QED
  BY <1>1 DEF Owes, Owed

LEMMA AloneAsking ==
  ASSUME TypeOK', Apart', NEW t \in Threads, NEW f \in Modes, f = "rapid" => rapidChargeCap',
         \A u \in Threads \ {t} : ~Active(u, GroupOf(f))', Certain(GroupOf(f))',
         Owed(t, f)', ~Owes(t, f)' => hw'[f] = asked'[f]
  PROVE  Asking(f)'
<1>1. ASSUME NEW u \in Threads \ {t} PROVE ~Owes(u, f)' /\ Owed(u, f)'
  <2>1. OweNothing'
    BY OthersOweNothing, PTL
  <2>. QED
    BY <2>1 DEF OweNothing
<1>2. Sole(GroupOf(f))'
  BY DEF Sole
<1>. QED
  BY <1>1, <1>2 DEF Asking, Certain

(* A step of a thread, to the rest p of its program.                       *)
LEMMA StepTurns ==
  ASSUME TypeOK, Apart, NEW t \in Threads, NEW p, Comes(t, p)
  PROVE  /\ p \in Programs /\ prog[t] # <<>> /\ prog'[t] = p /\ \A u \in Threads \ {t} : prog'[u] = prog[u]
         /\ group' = group /\ alone' = alone
         /\ \A u \in Threads : \A g : Active(u, g)' => Active(u, g)
<1>1. /\ p \in Programs /\ prog[t] # <<>> /\ prog' = [prog EXCEPT ![t] = p] /\ group' = group /\ alone' = alone
  BY DEF Comes, Moved
<1>2. prog'[t] = p /\ \A u \in Threads \ {t} : prog'[u] = prog[u]
  BY <1>1 DEF TypeOK
<1>. QED
  BY <1>1, <1>2 DEF Active

(* A step on the one method leaves what was asked for of the other.        *)
LEMMA AskedElsewhere ==
  ASSUME TypeOK, Apart, TypeOK', Apart', NEW t \in Threads, NEW p, Comes(t, p), Changes(t),
         NEW f \in Modes, Asking(f), GroupOf(f) \notin group[t], asked'[f] = asked[f]
  PROVE  Asking(f)'
<1> DEFINE g == GroupOf(f)
<1>1. /\ prog[t] # <<>> /\ prog'[t] = p /\ \A u \in Threads \ {t} : prog'[u] = prog[u]
      /\ group' = group /\ alone' = alone /\ \A u \in Threads : Active(u, g)' => Active(u, g)
  BY StepTurns
<1>2. ~Active(t, g) /\ ~Active(t, g)' /\ g \in Groups
  BY <1>1, Groupings DEF Active
<1>3. Acts(t, f) /\ Acts(t, f)'
  <2>1. AllAct /\ AllAct'
    BY OwingActs, PTL
  <2>. QED
    BY <2>1 DEF AllAct
<1>4. ~At(t, <<"keep", f>>) /\ ~At(t, <<"send", f>>) /\ ~Sets(t, g)
  BY <1>2, UsesOfSteps
<1>5. hw'[f] = hw[f] /\ mode'[f] = mode[f]
  BY <1>1, <1>4 DEF Changes, HwChanges, ModeChanges, At
<1>6. MachineKept /\ agreed \subseteq agreed' /\ \A u \in Threads \ {t} : arg'[u] = arg[u]
  BY DEF Changes, AgreedChanges, ArgChanges
<1>7. Same(t, f)
  <2>1. /\ \A s \in {"compare", "send", "bdvt"} : ~Has(t, s, f) /\ ~Has(t, s, f)'
        /\ f = "fn" => ~Has(t, "flip", f) /\ ~Has(t, "flip", f)'
    BY <1>2, <1>3 DEF Acts
  <2>. QED
    BY <2>1 DEF Same, Owes
<1>8. ASSUME NEW u \in Threads \ {t} PROVE Same(u, f)
  <2>1. prog'[u] = prog[u] /\ arg'[u] = arg[u] /\ conservationModeLock' = conservationModeLock
    BY <1>1, <1>6 DEF MachineKept
  <2>2. \A s : Has(u, s, f)' <=> Has(u, s, f)
    BY <2>1 DEF Has
  <2>3. Told(u, f)' = Told(u, f)
    BY <2>1, <1>5, Zenon DEF Told
  <2>. QED
    BY <2>1, <2>2, <2>3 DEF Same
<1>9. Certain(g)'
  <2>1. ASSUME NEW v \in Threads, alone[v], group[v] = {g}, On(v, "getBattery") \/ On(v, "getKeyboard") \/ Sets(v, g)
        PROVE  Reading(g)'
    <3>1. v # t
      BY <2>1
    <3>2. prog'[v] = prog[v] /\ alone'[v] /\ group'[v] = {g}
      BY <3>1, <2>1, <1>1
    <3>3. (On(v, "getBattery") \/ On(v, "getKeyboard") \/ Sets(v, g))'
      BY <3>2, <2>1 DEF On, Sets
    <3>. QED
      BY <3>2, <3>3 DEF Reading
  <2>2. g \in agreed \/ Reading(g)
    BY DEF Asking
  <2>. QED
    BY <2>1, <2>2, <1>6 DEF Certain, Reading
<1>10. Sole(g)'
  BY <1>1 DEF Sole, Asking
<1>. QED
  BY <1>5, <1>6, <1>7, <1>8, <1>9, <1>10, StillAsking DEF MachineKept

(* A step that neither asks nor tells leaves it too.                       *)
LEMMA AskedMeanwhile ==
  ASSUME TypeOK, Apart, TypeOK', Apart', NEW t \in Threads, NEW p, Comes(t, p), Changes(t),
         NEW f \in Modes, Asking(f), GroupOf(f) \in group[t], asked'[f] = asked[f],
         Head(prog[t])[1] \notin {"send", "flip"}, Certain(GroupOf(f))',
         \A s \in {"compare", "send", "flip", "bdvt"} : Has(t, s, f)' <=> Has(t, s, f)
  PROVE  Asking(f)'
<1> DEFINE g == GroupOf(f)
<1>1. /\ prog[t] # <<>> /\ prog'[t] = p /\ \A u \in Threads \ {t} : prog'[u] = prog[u]
      /\ group' = group /\ alone' = alone /\ \A u \in Threads : Active(u, g)' => Active(u, g)
  BY StepTurns
<1>2. Active(t, g) /\ g \in Groups /\ \A u \in Threads \ {t} : ~Active(u, g) /\ ~Active(u, g)'
  BY <1>1, Groupings DEF Active, Asking, Sole
<1>3. AllAct /\ AllAct'
  BY OwingActs, PTL
<1>4. hw'[f] = hw[f] /\ MachineKept /\ arg' = arg
  <2>1. Head(prog[t]) # <<"send", f>> /\ Head(prog[t]) # <<"flip", "fn">>
    OBVIOUS
  <2>. QED
    BY <2>1 DEF Changes, HwChanges, ArgChanges
<1>5. Same(t, f)
  <2>1. ~Has(t, "send", f)
    <3>1. prog[t] \in Programs
      BY DEF TypeOK
    <3>2. Holds(prog[t], <<"send", f>>) => Head(prog[t]) = <<"send", f>>
      BY <3>1, OwingSteps
    <3>. QED
      BY <3>2 DEF Has
  <2>. QED
    BY <2>1, <1>4 DEF Same, Owes, MachineKept
<1>6. ASSUME NEW u \in Threads \ {t} PROVE Same(u, f)
  <2>1. /\ \A s \in {"compare", "send", "bdvt"} : ~Has(u, s, f) /\ ~Has(u, s, f)'
        /\ f = "fn" => ~Has(u, "flip", f) /\ ~Has(u, "flip", f)'
    BY <1>2, <1>3 DEF AllAct, Acts
  <2>. QED
    BY <2>1 DEF Same, Owes
<1>7. Sole(g)'
  BY <1>1 DEF Sole, Asking
<1>. QED
  BY <1>4, <1>5, <1>6, <1>7, StillAsking DEF MachineKept

(* What is agreed on stays so; what is being read alone will be.           *)
LEMMA CertainStep ==
  ASSUME TypeOK, Apart, NEW t \in Threads, prog[t] # <<>>, Changes(t), NEW f \in Modes, Asking(f), GroupOf(f) \in group[t]
  PROVE  /\ GroupOf(f) \in agreed' \/ (alone[t] /\ group[t] = {GroupOf(f)} /\ (On(t, "getBattery") \/ On(t, "getKeyboard")))
         /\ Head(prog[t])[1] \notin {"getBattery", "getKeyboard", "setBattery", "setKeyboard"} => GroupOf(f) \in agreed
<1> DEFINE g == GroupOf(f)
<1>1. Active(t, g) /\ g \in Groups /\ \A u \in Threads : Active(u, g) => u = t
  BY Groupings DEF Active, Asking, Sole
<1>2. agreed \subseteq agreed' /\ (alone[t] /\ Sets(t, g) => g \in agreed')
  BY <1>1 DEF Changes, AgreedChanges
<1>3. ASSUME g \notin agreed
      PROVE  alone[t] /\ group[t] = {g} /\ (On(t, "getBattery") \/ On(t, "getKeyboard") \/ Sets(t, g))
  <2>1. PICK v \in Threads : alone[v] /\ group[v] = {g} /\ (On(v, "getBattery") \/ On(v, "getKeyboard") \/ Sets(v, g))
    BY <1>3 DEF Asking, Reading
  <2>2. Active(v, g)
    BY <2>1 DEF Active, On, Sets
  <2>. QED
    BY <2>1, <2>2, <1>1
<1>. QED
  BY <1>2, <1>3 DEF On, Sets

LEMMA PassesOn ==
  ASSUME TypeOK, NEW t \in Threads, prog[t] # <<>>, Head(prog[t])[1] \notin {"compare", "send", "flip", "bdvt"},
         prog'[t] = Tail(prog[t]), NEW f
  PROVE  \A s \in {"compare", "send", "flip", "bdvt"} : Has(t, s, f)' <=> Has(t, s, f)
<1>1. \A r : Holds(prog[t], r) <=> r = Head(prog[t]) \/ Holds(Tail(prog[t]), r)
  BY AdvanceMoves
<1>2. ASSUME NEW s \in {"compare", "send", "flip", "bdvt"} PROVE Has(t, s, f)' <=> Has(t, s, f)
  <2>1. <<s, f>> # Head(prog[t])
    OBVIOUS
  <2>2. Holds(prog[t], <<s, f>>) <=> Holds(Tail(prog[t]), <<s, f>>)
    BY <2>1, <1>1, Zenon
  <2>. QED
    BY <2>2 DEF Has
<1>. QED
  BY <1>2

(* What is asked for of the methods that t uses.                           *)
Asks(t, f) == f \in Modes /\ asked[f] # None /\ Asking(f) /\ GroupOf(f) \in group[t] /\ asked'[f] = asked[f]
Goes(t, p) == t \in Threads /\ TypeOK /\ Apart /\ TypeOK' /\ Apart' /\ Comes(t, p) /\ Changes(t)

LEMMA AskedGet ==
  ASSUME NEW t, NEW p, Goes(t, p), Get(t), Advance(t), NEW f, Asks(t, f)
  PROVE  Asking(f)'
<1>. USE DEF Goes, Asks
<1> DEFINE g == GroupOf(f)
<1>1. /\ prog[t] # <<>> /\ prog'[t] = p /\ group' = group /\ alone' = alone
  BY StepTurns
<1>2. On(t, "getBattery") \/ On(t, "getKeyboard")
  BY DEF Get
<1>3. p = Tail(prog[t])
  BY <1>1 DEF Advance, TypeOK
<1>4. Consists(prog[t], Head(prog[t]), Tail(prog[t]))
  BY <1>1, AdvanceMoves
<1>5. Certain(g)'
  <2>1. CASE g \in agreed'
    BY <2>1 DEF Certain
  <2>2. CASE alone[t] /\ group[t] = {g}
    <3>1. Uses(Head(prog[t])) = g
      BY <2>2, <1>1, WhatIsUsed
    <3>2. CASE On(t, "getBattery")
      <4>1. g = "bat" /\ p \in KeepBattery
        BY <3>1, <3>2, <1>3, <1>4 DEF On, Uses, Consists
      <4>2. p # <<>> /\ Head(p)[1] = "setBattery"
        BY <4>1, FirstSteps
      <4>. QED
        BY <4>1, <4>2, <2>2, <1>1 DEF Certain, Reading, Sets, On
    <3>3. CASE On(t, "getKeyboard")
      <4>1. g = "kbd" /\ p \in KeepKeyboard
        BY <3>1, <3>3, <1>3, <1>4 DEF On, Uses, Consists
      <4>2. p # <<>> /\ Head(p)[1] = "setKeyboard"
        BY <4>1, FirstSteps
      <4>. QED
        BY <4>1, <4>2, <2>2, <1>1 DEF Certain, Reading, Sets, On
    <3>. QED
      BY <3>2, <3>3, <1>2
  <2>. QED
    BY <2>1, <2>2, <1>1, CertainStep
<1>6. Head(prog[t])[1] \notin {"compare", "send", "flip", "bdvt"}
  BY <1>2 DEF On
<1>7. \A s \in {"compare", "send", "flip", "bdvt"} : Has(t, s, f)' <=> Has(t, s, f)
  BY <1>1, <1>3, <1>6, PassesOn
<1>. QED
  BY <1>5, <1>6, <1>7, AskedMeanwhile

LEMMA AskedPass ==
  ASSUME NEW t, NEW p, Goes(t, p), prog[t] # <<>>,
         Head(prog[t])[1] \in {"setBattery", "setKeyboard", "keep", "yoga", "light"},
         p = Tail(prog[t]) \/ (Head(prog[t])[1] = "yoga" /\ \E x \in {"on", "off"} : p = << <<"light", x>> >>), NEW f, Asks(t, f)
  PROVE  Asking(f)'
<1>. USE DEF Goes, Asks
<1>1. /\ prog[t] # <<>> /\ prog'[t] = p
  BY StepTurns
<1>2. Certain(GroupOf(f))'
  <2>1. GroupOf(f) \in agreed'
    BY <1>1, CertainStep DEF On
  <2>. QED
    BY <2>1 DEF Certain
<1>3. CASE p = Tail(prog[t])
  <2>1. \A s \in {"compare", "send", "flip", "bdvt"} : Has(t, s, f)' <=> Has(t, s, f)
    BY <1>1, <1>3, PassesOn
  <2>. QED
    BY <2>1, <1>2, AskedMeanwhile
<1>4. CASE Head(prog[t])[1] = "yoga" /\ \E x \in {"on", "off"} : p = << <<"light", x>> >>
  <2>1. PICK x \in {"on", "off"} : p = << <<"light", x>> >>
    BY <1>4
  <2>2. PICK k : k = <<"light", x>> /\ k \in Steps /\ p = <<k>>
    BY <2>1, KindsOfSteps DEF Ends
  <2>3. \A r : Holds(p, r) <=> r = k
    BY <2>2, ShortPrograms
  <2>4. \A r : Holds(prog[t], r) <=> r = Head(prog[t])
    <3>1. Tail(prog[t]) = <<>>
      BY <1>1, <1>4, AdvanceMoves DEF Consists
    <3>. QED
      BY <3>1, <1>1, AdvanceMoves, Tuples
  <2>5. ASSUME NEW s \in {"compare", "send", "flip", "bdvt"} PROVE Has(t, s, f)' <=> Has(t, s, f)
    <3>1. <<s, f>> # k /\ <<s, f>> # Head(prog[t])
      BY <2>2, <1>4
    <3>2. ~Holds(p, <<s, f>>) /\ ~Holds(prog[t], <<s, f>>)
      BY <3>1, <2>3, <2>4, Zenon
    <3>. QED
      BY <3>2, <1>1 DEF Has
  <2>. QED
    BY <2>5, <1>2, <1>4, AskedMeanwhile
<1>. QED
  BY <1>3, <1>4

LEMMA AskedEvents ==
  ASSUME NEW t, NEW p, Goes(t, p), Events(t), NEW f, Asks(t, f)
  PROVE  Asking(f)'
<1>. USE DEF Goes, Asks
<1>1. prog[t] # <<>> /\ prog'[t] = p /\ Head(prog[t])[1] = "events" /\ OwingNothing(prog[t])
  BY StepTurns, EventsMoves
<1>2. p \in {ReadKeyboard, EventRead}
  BY <1>1, EventsMoves DEF Moved, TypeOK
<1>3. Certain(GroupOf(f))'
  <2>1. GroupOf(f) \in agreed'
    BY <1>1, CertainStep DEF On
  <2>. QED
    BY <2>1 DEF Certain
<1>4. \A s \in {"compare", "send", "flip", "bdvt"} : Has(t, s, f)' <=> Has(t, s, f)
  BY <1>1, <1>2, EventPrograms DEF OwingNothing, Has
<1>. QED
  BY <1>1, <1>3, <1>4, AskedMeanwhile

LEMMA KeptNow ==
  ASSUME TypeOK, Apart, HasKept, NEW t \in Threads, prog[t] # <<>>, Head(prog[t])[1] # "keep",
         NEW f \in Modes, Asking(f), GroupOf(f) \in group[t], GroupOf(f) \in agreed
  PROVE  mode[f] = hw[f]
<1>1. Kept(f) /\ \A u \in Threads : Active(u, GroupOf(f)) => u = t
  BY DEF Asking, Kept, Sole, Active
<1>2. ASSUME NEW u \in Threads, At(u, <<"keep", f>>) PROVE FALSE
  <2>1. u = t
    BY <1>1, <1>2, UsesOfSteps
  <2>. QED
    BY <2>1, <1>2 DEF At
<1>. QED
  BY <1>1, <1>2 DEF HasKept

(* What the others owe, when t goes alone.                                 *)
LEMMA OnlyThread ==
  ASSUME NEW t, NEW p, Goes(t, p), NEW f, Asks(t, f)
  PROVE  /\ prog[t] # <<>> /\ prog'[t] = p /\ \A u \in Threads \ {t} : ~Active(u, GroupOf(f))'
         /\ f = "rapid" => rapidChargeCap'
         /\ conservationModeLock' = conservationModeLock
<1>. USE DEF Goes, Asks
<1>1. prog[t] # <<>> /\ prog'[t] = p /\ \A u \in Threads : Active(u, GroupOf(f))' => Active(u, GroupOf(f))
  BY StepTurns
<1>2. \A u \in Threads \ {t} : ~Active(u, GroupOf(f))
  BY <1>1 DEF Asking, Sole, Active
<1>. QED
  BY <1>1, <1>2 DEF Asking, Changes, MachineKept

(* A program of one step, and one that has ended.                          *)
LEMMA OneStep ==
  ASSUME TypeOK, NEW t \in Threads, prog[t] # <<>>, Tail(prog[t]) = <<>>
  PROVE  /\ \A s, f : Has(t, s, f) <=> Head(prog[t]) = <<s, f>>
         /\ prog'[t] = <<>> => \A s, f : ~Has(t, s, f)'
         /\ \A h \in Modes : prog'[t] = Toggle(h) => \A s, f : Has(t, s, f)' <=> f = h /\ s \in {"send", "keep"}
         /\ \A h \in Modes : prog'[t] = << <<"keep", h>> >> => \A s, f : Has(t, s, f)' <=> f = h /\ s = "keep"
<1>1. \A r : Holds(prog[t], r) <=> r = Head(prog[t])
  BY AdvanceMoves, Tuples
<1>2. \A s, f : Has(t, s, f) <=> Head(prog[t]) = <<s, f>>
  BY <1>1 DEF Has
<1>3. prog'[t] = <<>> => \A s, f : ~Has(t, s, f)'
  BY Tuples DEF Has
<1>4. ASSUME NEW h \in Modes, prog'[t] = Toggle(h), NEW s, NEW f PROVE Has(t, s, f)' <=> f = h /\ s \in {"send", "keep"}
  <2>1. Holds(Toggle(h), <<s, f>>) <=> <<s, f>> \in {<<"send", h>>, <<"keep", h>>}
    BY ShortPrograms
  <2>. QED
    BY <2>1, <1>4 DEF Has
<1>5. ASSUME NEW h \in Modes, prog'[t] = << <<"keep", h>> >>, NEW s, NEW f PROVE Has(t, s, f)' <=> f = h /\ s = "keep"
  <2>1. PICK k \in Steps : k = <<"keep", h>>
    BY KindsOfSteps
  <2>2. Holds(<<k>>, <<s, f>>) <=> <<s, f>> = k
    BY ShortPrograms
  <2>. QED
    BY <2>1, <2>2, <1>5 DEF Has
<1>. QED
  BY <1>2, <1>3, <1>4, <1>5

LEMMA AskedCompare ==
  ASSUME NEW t, NEW p, Goes(t, p), HasKept, Compare(t), NEW f, Asks(t, f)
  PROVE  Asking(f)'
<1>. USE DEF Goes, Asks
<1> DEFINE g == GroupOf(f)
           h == Of(t)
<1>1. /\ h \in Modes /\ (On(t, "compare") \/ On(t, "bdvt")) /\ Tail(prog[t]) = <<>>
      /\ On(t, "compare") => Head(prog[t]) = <<"compare", h>>
      /\ On(t, "bdvt") => Head(prog[t]) = <<"bdvt", h>>
  BY CompareMoves DEF Compare
<1>2. /\ prog[t] # <<>> /\ prog'[t] = p /\ \A u \in Threads \ {t} : ~Active(u, g)'
      /\ f = "rapid" => rapidChargeCap'
      /\ conservationModeLock' = conservationModeLock
  BY OnlyThread
<1>3. prog'[t] = (IF Skips(t) THEN <<>> ELSE Toggle(h))
  BY CompareMoves DEF Moved, TypeOK
<1>4. hw' = hw /\ mode' = mode /\ arg' = arg
  BY DEF Compare, firmware, driver
<1>5. Head(prog[t])[1] \in {"compare", "bdvt"}
  BY <1>1 DEF On
<1>6. g \in agreed /\ Certain(g)'
  <2>1. g \in agreed
    BY <1>2, <1>5, CertainStep
  <2>. QED
    BY <2>1 DEF Certain, Changes, AgreedChanges
<1>7. /\ \A s, k : Has(t, s, k) <=> Head(prog[t]) = <<s, k>>
      /\ Skips(t) => \A s, k : ~Has(t, s, k)'
      /\ ~Skips(t) => \A s, k : Has(t, s, k)' <=> k = h /\ s \in {"send", "keep"}
  BY <1>1, <1>2, <1>3, OneStep
<1>. HIDE DEF g, h
<1>8. CASE f # h
  <2>1. ASSUME NEW s \in {"compare", "send", "flip", "bdvt"} PROVE Has(t, s, f)' <=> Has(t, s, f)
    <3>1. Head(prog[t]) # <<s, f>>
      BY <1>1, <1>8
    <3>. QED
      BY <3>1, <1>7, <1>8
  <2>. QED
    BY <2>1, <1>5, <1>6, AskedMeanwhile DEF g
<1>9. CASE f = h
  <2>1. mode[f] = hw[f]
    BY <1>2, <1>5, <1>6, KeptNow DEF g
  <2>2. /\ hw[f] \in BOOLEAN /\ arg[t] \in BOOLEAN
    BY DEF TypeOK
  <2>3. ~(On(t, "bdvt") /\ conservationModeLock) => arg[t] = asked[f] /\ (Skips(t) <=> arg[t] = mode[f])
    <3>1. ASSUME ~(On(t, "bdvt") /\ conservationModeLock) PROVE arg[t] = asked[f]
      <4>1. Has(t, "compare", f) \/ (Has(t, "bdvt", f) /\ ~conservationModeLock)
        BY <3>1, <1>1, <1>7, <1>9
      <4>. QED
        BY <4>1 DEF Asking, Owed
    <3>2. ~(f = "rapid" /\ ~rapidChargeCap)
      BY DEF Asking
    <3>. QED
      BY <3>1, <3>2, <1>9 DEF Skips, h
  <2>4. On(t, "bdvt") /\ conservationModeLock => Skips(t) /\ hw[f] = asked[f]
    <3>1. ASSUME On(t, "bdvt"), conservationModeLock PROVE hw[f] = asked[f]
      <4>1. ASSUME NEW u \in Threads PROVE ~Owes(u, f)
        <5>1. CASE u = t
          <6>1. Head(prog[t]) = <<"bdvt", h>>
            BY <3>1, <1>1
          <6>2. ~Has(t, "compare", f) /\ ~Has(t, "send", f) /\ ~Has(t, "flip", f)
            BY <6>1, <1>7
          <6>. QED
            BY <6>2, <5>1, <3>1 DEF Owes
        <5>2. CASE u # t
          <6>1. ~Active(u, g)
            BY <5>2, <1>2 DEF Asking, Sole, Active, g
          <6>. QED
            BY <6>1, OthersOweNothing DEF OweNothing, g
        <5>. QED
          BY <5>1, <5>2
      <4>. QED
        BY <4>1 DEF Asking
    <3>. QED
      BY <3>1 DEF Skips
  <2>5. CASE Skips(t)
    <3>1. hw'[f] = asked'[f]
      BY <2>1, <2>3, <2>4, <2>5, <1>4
    <3>2. Owed(t, f)'
      BY <1>7, <2>5 DEF Owed
    <3>. QED
      BY <3>1, <3>2, <1>2, <1>6, AloneAsking DEF g
  <2>6. CASE ~Skips(t)
    <3>1. arg[t] = asked[f] /\ arg[t] # mode[f]
      BY <2>3, <2>4, <2>6
    <3>2. asked'[f] <=> Told(t, f)'
      <4>1. f = "fn" => Told(t, f)' = asked'[f]
        BY <3>1, <1>4 DEF Told
      <4>2. f # "fn" => Told(t, f)' = ~mode[f]
        BY <1>4 DEF Told
      <4>3. mode[f] \in BOOLEAN
        BY DEF TypeOK
      <4>. QED
        BY <4>1, <4>2, <4>3, <3>1, <2>2
    <3>3. Owed(t, f)' /\ Owes(t, f)'
      <4>1. Has(t, "send", f)' /\ ~Has(t, "compare", f)' /\ ~Has(t, "bdvt", f)' /\ ~Has(t, "flip", f)'
        BY <1>7, <1>9, <2>6
      <4>. QED
        BY <4>1, <3>2 DEF Owed, Owes
    <3>. QED
      BY <3>3, <1>2, <1>6, AloneAsking DEF g
  <2>. QED
    BY <2>5, <2>6
<1>. QED
  BY <1>8, <1>9

LEMMA AskedFlip ==
  ASSUME NEW t, NEW p, Goes(t, p), HasKept, FlipFn(t), NEW f, Asks(t, f)
  PROVE  Asking(f)'
<1>. USE DEF Goes, Asks
<1>1. Head(prog[t]) = <<"flip", "fn">> /\ Tail(prog[t]) = <<>> /\ prog'[t] = Toggle("fn")
  BY FlipMoves DEF Moved, TypeOK
<1>2. /\ prog[t] # <<>> /\ prog'[t] = p /\ \A u \in Threads \ {t} : ~Active(u, GroupOf(f))'
      /\ f = "rapid" => rapidChargeCap'
  BY OnlyThread
<1>3. hw' = hw /\ mode' = mode /\ arg' = [arg EXCEPT ![t] = ~mode.fn]
  BY DEF FlipFn, firmware, driver
<1>4. GroupOf(f) \in agreed /\ Certain(GroupOf(f))'
  <2>1. GroupOf(f) \in agreed
    BY <1>1, <1>2, CertainStep
  <2>. QED
    BY <2>1 DEF Certain, Changes, AgreedChanges
<1>5. /\ \A s, k : Has(t, s, k) <=> Head(prog[t]) = <<s, k>>
      /\ \A s, k : Has(t, s, k)' <=> k = "fn" /\ s \in {"send", "keep"}
  BY <1>1, <1>2, OneStep DEF Modes
<1>6. CASE f # "fn"
  <2>1. \A s \in {"compare", "send", "flip", "bdvt"} : ~Has(t, s, f)'
    BY <1>5, <1>6
  <2>2. Owed(t, f)' /\ ~Owes(t, f)'
    BY <2>1 DEF Owed, Owes
  <2>3. \A s \in {"compare", "send", "flip", "bdvt"} : ~Has(t, s, f)
    BY <1>1, <1>5, <1>6
  <2>4. ASSUME NEW u \in Threads PROVE ~Owes(u, f)
    <3>1. CASE u = t
      BY <3>1, <2>3 DEF Owes
    <3>2. CASE u # t
      <4>1. ~Active(u, GroupOf(f))
        BY <3>2, <1>2 DEF Asking, Sole, Active
      <4>. QED
        BY <4>1, OthersOweNothing DEF OweNothing
    <3>. QED
      BY <3>1, <3>2
  <2>5. hw'[f] = asked'[f]
    BY <2>4, <1>3 DEF Asking
  <2>. QED
    BY <2>2, <2>5, <1>2, <1>4, AloneAsking
<1>7. CASE f = "fn"
  <2>1. mode[f] = hw[f] /\ (asked[f] <=> ~hw[f])
    <3>1. mode[f] = hw[f]
      BY <1>1, <1>2, <1>4, KeptNow
    <3>2. Has(t, "flip", f)
      BY <1>1, <1>5, <1>7
    <3>. QED
      BY <3>1, <3>2, <1>7 DEF Asking, Owed
  <2>2. asked'[f] <=> Told(t, f)'
    <3>1. arg'[t] = ~mode[f]
      BY <1>3, <1>7 DEF TypeOK
    <3>2. Told(t, f)' = arg'[t]
      BY <1>7 DEF Told
    <3>. QED
      BY <3>1, <3>2, <2>1
  <2>3. Owed(t, f)' /\ Owes(t, f)'
    <3>1. Has(t, "send", f)' /\ ~Has(t, "compare", f)' /\ ~Has(t, "bdvt", f)' /\ ~Has(t, "flip", f)'
      BY <1>5, <1>7
    <3>. QED
      BY <3>1, <2>2 DEF Owed, Owes
  <2>. QED
    BY <2>3, <1>2, <1>4, AloneAsking
<1>. QED
  BY <1>6, <1>7

LEMMA AskedSend ==
  ASSUME NEW t, NEW p, Goes(t, p), Send(t), ~Failed(t, 2), NEW f, Asks(t, f)
  PROVE  Asking(f)'
<1>. USE DEF Goes, Asks
<1> DEFINE h == Of(t)
<1>1. /\ h \in Modes /\ Head(prog[t]) = <<"send", h>> /\ Moved(t, << <<"keep", h>> >>)
      /\ hw' = [hw EXCEPT ![h] = Told(t, h)]
  BY SendMoves
<1>2. /\ prog[t] # <<>> /\ prog'[t] = p /\ \A u \in Threads \ {t} : ~Active(u, GroupOf(f))'
      /\ f = "rapid" => rapidChargeCap'
  BY OnlyThread
<1>. HIDE DEF h
<1>3. \A s, k : Has(t, s, k)' <=> k = h /\ s = "keep"
  <2>1. PICK k \in Steps : k = <<"keep", h>>
    BY <1>1, KindsOfSteps
  <2>2. prog'[t] = <<k>>
    BY <1>1, <2>1 DEF Moved, TypeOK
  <2>3. \A r : Holds(<<k>>, r) <=> r = k
    BY ShortPrograms
  <2>. QED
    BY <2>1, <2>2, <2>3 DEF Has
<1>4. Owed(t, f)' /\ ~Owes(t, f)'
  <2>1. \A s \in {"compare", "send", "flip", "bdvt"} : ~Has(t, s, f)'
    BY <1>3
  <2>. QED
    BY <2>1 DEF Owed, Owes
<1>5. Certain(GroupOf(f))'
  <2>1. GroupOf(f) \in agreed
    BY <1>1, <1>2, CertainStep
  <2>. QED
    BY <2>1 DEF Certain, Changes, AgreedChanges
<1>6. \A r : Holds(prog[t], r) <=> r = Head(prog[t]) \/ Holds(Tail(prog[t]), r)
  BY <1>2, AdvanceMoves
<1>7. CASE f = h
  <2>1. Has(t, "send", f)
    BY <1>1, <1>6, <1>7 DEF Has
  <2>2. asked[f] <=> Told(t, f)
    BY <2>1 DEF Asking, Owed
  <2>3. hw'[f] = Told(t, f)
    BY <1>1, <1>7, Zenon DEF TypeOK
  <2>4. asked[f] \in BOOLEAN /\ Told(t, f) \in BOOLEAN
    BY ToldIsBoolean DEF TypeOK
  <2>5. hw'[f] = asked'[f]
    BY <2>2, <2>3, <2>4
  <2>. QED
    BY <2>5, <1>2, <1>4, <1>5, AloneAsking
<1>8. CASE f # h
  <2>1. \A s \in {"compare", "send", "flip", "bdvt"} : ~Has(t, s, f)
    <3>1. Tail(prog[t]) = << <<"keep", h>> >>
      BY <1>1, <1>2, AdvanceMoves DEF Consists
    <3>2. PICK k \in Steps : k = <<"keep", h>>
      BY <1>1, KindsOfSteps
    <3>3. \A r : Holds(prog[t], r) <=> r = Head(prog[t]) \/ r = k
      <4>1. \A r : Holds(<<k>>, r) <=> r = k
        BY ShortPrograms
      <4>2. Tail(prog[t]) = <<k>>
        BY <3>1, <3>2
      <4>. QED
        BY <4>1, <4>2, <1>6, Zenon
    <3>4. ASSUME NEW s \in {"compare", "send", "flip", "bdvt"} PROVE <<s, f>> # Head(prog[t]) /\ <<s, f>> # k
      BY <1>1, <1>8, <3>2
    <3>. QED
      BY <3>3, <3>4 DEF Has
  <2>2. ASSUME NEW u \in Threads PROVE ~Owes(u, f)
    <3>1. CASE u = t
      BY <3>1, <2>1 DEF Owes
    <3>2. CASE u # t
      <4>1. ~Active(u, GroupOf(f))
        BY <3>2, <1>2 DEF Asking, Sole, Active
      <4>. QED
        BY <4>1, OthersOweNothing DEF OweNothing
    <3>. QED
      BY <3>1, <3>2
  <2>3. hw'[f] = asked'[f]
    BY <2>2, <1>1, <1>8 DEF Asking, TypeOK
  <2>. QED
    BY <2>3, <1>2, <1>4, <1>5, AloneAsking
<1>. QED
  BY <1>7, <1>8

(* What fails was not asked for.                                           *)
LEMMA AskedFailed ==
  ASSUME TypeOK, NEW t \in Threads, NEW n, Failed(t, n), NEW f \in Modes
  PROVE  asked'[f] = IF GroupOf(f) \in group[t] THEN None ELSE asked[f]
  BY DEF Failed, Nobody

LEMMA AskedStep ==
  ASSUME TypeOK, Apart, HasKept, TypeOK', Apart', HasAsked, NEW t \in Threads, Step(t)
  PROVE  HasAsked'
<1>1. PICK p : Comes(t, p)
  BY StepComes
<1>2. Changes(t)
  BY StepChanges
<1>3. /\ p \in Programs /\ prog[t] # <<>> /\ prog'[t] = p /\ \A u \in Threads \ {t} : prog'[u] = prog[u]
  BY <1>1, StepTurns
<1>4. ASSUME NEW u \in Threads, Has(u, "bdvt", "conservation")' PROVE u = "smc"
  <2>1. CASE u = t
    <3>1. Holds(p, <<"bdvt", "conservation">>)
      BY <2>1, <1>3, <1>4 DEF Has
    <3>2. p # <<>> /\ Head(p) = <<"bdvt", "conservation">>
      BY <3>1, <1>3, OwingSteps
    <3>. QED
      BY <3>2, <1>1 DEF Comes
  <2>2. CASE u # t
    BY <2>2, <1>3, <1>4 DEF Has, HasAsked
  <2>. QED
    BY <2>1, <2>2
<1>5. ASSUME NEW f \in Modes, asked'[f] # None PROVE Asking(f)'
  <2>1. ASSUME NEW n, Failed(t, n) PROVE Asking(f)'
    <3>1. GroupOf(f) \notin group[t] /\ asked'[f] = asked[f]
      BY <1>5, <2>1, AskedFailed
    <3>. QED
      BY <3>1, <1>1, <1>2, <1>5, AskedElsewhere DEF HasAsked
  <2>2. CASE asked' = asked
    <3>1. asked'[f] = asked[f] /\ Asking(f)
      BY <2>2, <1>5 DEF HasAsked
    <3>2. CASE GroupOf(f) \notin group[t]
      BY <3>1, <3>2, <1>1, <1>2, AskedElsewhere
    <3>3. CASE GroupOf(f) \in group[t] /\ \A n : ~Failed(t, n)
      <4>1. Goes(t, p) /\ Asks(t, f)
        BY <3>1, <3>3, <1>1, <1>2, <1>5 DEF Goes, Asks
      <4>2. CASE Get(t)
        <5>1. Advance(t)
          BY <4>2, <3>3 DEF Get
        <5>. QED
          BY <5>1, <4>1, <4>2, AskedGet
      <4>3. CASE SetBattery(t) \/ SetKeyboard(t) \/ Keep(t) \/ SetBacklight(t)
        <5>1. Advance(t) /\ Head(prog[t])[1] \in {"setBattery", "setKeyboard", "keep", "light"}
          BY <4>3, <3>3 DEF SetBattery, SetKeyboard, Keep, SetBacklight, On
        <5>2. p = Tail(prog[t])
          BY <5>1, <1>3 DEF Advance, TypeOK
        <5>. QED
          BY <5>1, <5>2, <4>1, <1>3, AskedPass
      <4>4. CASE Yoga(t)
        <5>1. Head(prog[t])[1] = "yoga"
          BY <4>4 DEF Yoga, On
        <5>2. Tail(prog[t]) = <<>> /\ (prog'[t] = <<>> \/ prog'[t] = << <<"light", Lit(t)>> >>)
          BY <4>4, YogaMoves DEF Moved, TypeOK
        <5>3. Lit(t) \in {"on", "off"}
          BY DEF Lit
        <5>. QED
          BY <5>1, <5>2, <5>3, <4>1, <1>3, AskedPass
      <4>5. CASE Compare(t)
        BY <4>1, <4>5, AskedCompare
      <4>6. CASE FlipFn(t)
        BY <4>1, <4>6, AskedFlip
      <4>7. CASE Send(t)
        BY <4>1, <4>7, <3>3, AskedSend
      <4>8. CASE Events(t)
        BY <4>1, <4>8, AskedEvents
      <4>. QED
        BY <4>2, <4>3, <4>4, <4>5, <4>6, <4>7, <4>8 DEF Step
    <3>. QED
      BY <3>2, <3>3, <2>1
  <2>3. asked' = asked \/ \E n : Failed(t, n)
    BY DEF Step, Get, Events, SetBattery, SetKeyboard, Compare, FlipFn, Send, Keep, Yoga, SetBacklight, history
  <2>. QED
    BY <2>1, <2>2, <2>3
<1>. QED
  BY <1>4, <1>5 DEF HasAsked

(* A program that begins.                                                  *)
NotOwing(p, f) ==
  /\ ~Holds(p, <<"compare", f>>) /\ ~Holds(p, <<"send", f>>) /\ ~(f = "fn" /\ Holds(p, <<"flip", f>>))
  /\ ~(Holds(p, <<"bdvt", f>>) /\ ~conservationModeLock)
Leaves(t, gs, p, f) ==
  /\ asked'[f] = asked[f]
  /\ GroupOf(f) \in gs => alone'[t] /\ NotOwing(p, f)
Takes(t, gs, p, x) == TypeOK /\ Apart /\ TypeOK' /\ Starts(t, gs, p, x)

LEMMA StartTurns ==
  ASSUME NEW t, NEW gs, NEW p, NEW x, Takes(t, gs, p, x)
  PROVE  /\ t \in Threads /\ gs \in SUBSET Groups /\ Apart' /\ prog[t] = <<>> /\ prog'[t] = p /\ arg'[t] = x /\ group'[t] = gs
         /\ \A u \in Threads \ {t} : prog'[u] = prog[u] /\ arg'[u] = arg[u] /\ group'[u] = group[u]
         /\ \A u \in Threads \ {t} : alone'[u] <=> alone[u] /\ \A g \in gs : ~Active(u, g)
         /\ \A u \in Threads \ {t} : \A g : Active(u, g)' <=> Active(u, g)
         /\ hw' = hw /\ mode' = mode /\ rapidChargeCap' = rapidChargeCap /\ conservationModeLock' = conservationModeLock
<1>. USE DEF Takes
<1>1. /\ t \in Threads /\ gs \in SUBSET Groups /\ Apart' /\ prog[t] = <<>> /\ prog' = [prog EXCEPT ![t] = p] /\ arg' = [arg EXCEPT ![t] = x]
      /\ group' = [group EXCEPT ![t] = gs]
      /\ \A u \in Threads \ {t} : alone'[u] <=> alone[u] /\ \A g \in gs : ~Active(u, g)
      /\ UNCHANGED <<hw, light, driver, machine, val, faults>>
  BY StartsBegin
<1>2. prog'[t] = p /\ arg'[t] = x /\ group'[t] = gs
  BY <1>1 DEF TypeOK
<1>3. \A u \in Threads \ {t} : prog'[u] = prog[u] /\ arg'[u] = arg[u] /\ group'[u] = group[u]
  BY <1>1 DEF TypeOK
<1>4. \A u \in Threads \ {t} : \A g : Active(u, g)' <=> Active(u, g)
  BY <1>3 DEF Active
<1>. QED
  BY <1>1, <1>2, <1>3, <1>4 DEF driver, machine

LEMMA StartLeaves ==
  ASSUME NEW t, NEW gs, NEW p, NEW x, Takes(t, gs, p, x), NEW f \in Modes, Leaves(t, gs, p, f), Asking(f)
  PROVE  Asking(f)'
<1> DEFINE g == GroupOf(f)
<1>1. /\ t \in Threads /\ gs \in SUBSET Groups /\ Apart' /\ prog[t] = <<>> /\ prog'[t] = p /\ arg'[t] = x /\ group'[t] = gs
      /\ \A u \in Threads \ {t} : prog'[u] = prog[u] /\ arg'[u] = arg[u] /\ group'[u] = group[u]
      /\ \A u \in Threads \ {t} : alone'[u] <=> alone[u] /\ \A h \in gs : ~Active(u, h)
      /\ \A u \in Threads \ {t} : \A h : Active(u, h)' <=> Active(u, h)
      /\ hw' = hw /\ mode' = mode /\ rapidChargeCap' = rapidChargeCap /\ conservationModeLock' = conservationModeLock
  BY StartTurns
<1>2. /\ TypeOK /\ Apart /\ TypeOK' /\ g \in Groups
      /\ agreed' \subseteq agreed /\ \A h \in agreed : h \notin gs => h \in agreed'
      /\ alone'[t] => agreed' = agreed
      /\ (alone'[t] <=> \A u \in Threads \ {t} : \A h \in gs : ~Active(u, h))
  BY StartsBegin, Groupings DEF Takes
<1>3. AllAct /\ AllAct'
  BY <1>1, <1>2, OwingActs, PTL
<1>4. ~Active(t, g) /\ \A s : ~Has(t, s, f)
  BY <1>1, Tuples DEF Active, Has
<1>5. CASE g \notin gs
  <2>1. ~Active(t, g)'
    BY <1>1, <1>5 DEF Active
  <2>2. Same(t, f)
    <3>1. /\ ~Has(t, "compare", f)' /\ ~Has(t, "send", f)' /\ ~Has(t, "bdvt", f)'
          /\ f = "fn" => ~Has(t, "flip", f)'
      BY <2>1, <1>1, <1>3 DEF AllAct, Acts
    <3>. QED
      BY <3>1, <1>4 DEF Same, Owes
  <2>3. ASSUME NEW u \in Threads \ {t} PROVE Same(u, f)
    <3>1. \A s : Has(u, s, f)' <=> Has(u, s, f)
      BY <1>1 DEF Has
    <3>2. Told(u, f)' = Told(u, f)
      BY <1>1, Zenon DEF Told
    <3>. QED
      BY <3>1, <3>2, <1>1 DEF Same
  <2>4. Sole(g)'
    BY <2>1, <1>1 DEF Sole, Asking
  <2>5. Certain(g)'
    <3>1. CASE g \in agreed
      BY <3>1, <1>2, <1>5 DEF Certain
    <3>2. ASSUME NEW v \in Threads, alone[v], group[v] = {g}, On(v, "getBattery") \/ On(v, "getKeyboard") \/ Sets(v, g)
          PROVE  Reading(g)'
      <4>1. v # t
        BY <3>2, <1>1 DEF On, Sets
      <4>2. \A h \in gs : ~Active(v, h)
        BY <3>2, <1>5 DEF Active
      <4>3. alone'[v] /\ group'[v] = {g} /\ prog'[v] = prog[v]
        BY <4>1, <4>2, <3>2, <1>1
      <4>4. (On(v, "getBattery") \/ On(v, "getKeyboard") \/ Sets(v, g))'
        BY <4>3, <3>2 DEF On, Sets
      <4>. QED
        BY <4>3, <4>4 DEF Reading
    <3>. QED
      BY <3>1, <3>2 DEF Asking, Reading, Certain
  <2>. QED
    BY <2>2, <2>3, <2>4, <2>5, <1>1, StillAsking DEF Leaves
<1>6. CASE g \in gs
  <2>1. alone'[t] /\ NotOwing(p, f) /\ asked'[f] = asked[f]
    BY <1>6 DEF Leaves
  <2>2. \A u \in Threads : ~Active(u, g)
    BY <2>1, <1>2, <1>4, <1>6
  <2>3. \A u \in Threads \ {t} : ~Active(u, g)'
    BY <2>2, <1>1
  <2>4. \A u \in Threads : ~Owes(u, f)
    BY <2>2, <1>2, OthersOweNothing DEF OweNothing
  <2>5. hw'[f] = asked'[f]
    BY <2>1, <2>4, <1>1 DEF Asking
  <2>6. Certain(g)'
    <3>1. ~Reading(g)
      <4>1. ASSUME NEW v \in Threads, group[v] = {g}, On(v, "getBattery") \/ On(v, "getKeyboard") \/ Sets(v, g) PROVE FALSE
        <5>1. Active(v, g)
          BY <4>1 DEF Active, On, Sets
        <5>. QED
          BY <5>1, <2>2
      <4>. QED
        BY <4>1 DEF Reading
    <3>. QED
      BY <3>1, <2>1, <1>2 DEF Asking, Certain
  <2>7. Owed(t, f)'
    BY <2>1, <1>1 DEF Owed, NotOwing, Has
  <2>. QED
    BY <2>3, <2>5, <2>6, <2>7, <1>1, <1>2, AloneAsking DEF Asking
<1>. QED
  BY <1>5, <1>6

(* A program that asks, alone.                                             *)
LEMMA StartAsks ==
  ASSUME NEW t, NEW gs, NEW p, NEW x, Takes(t, gs, p, x), NEW f \in Modes, GroupOf(f) \in gs, alone'[t],
         f = "rapid" => rapidChargeCap, GroupOf(f) \in agreed' \/ (gs = {GroupOf(f)} /\ p # <<>> /\ Head(p)[1] \in {"getBattery", "getKeyboard"}),
         \/ Owing(p, "compare", f) /\ asked'[f] = x
         \/ Owing(p, "bdvt", f) /\ asked'[f] = x /\ ~conservationModeLock
         \/ Owing(p, "flip", f) /\ f = "fn" /\ asked'[f] = ~hw[f]
  PROVE  Asking(f)'
<1> DEFINE g == GroupOf(f)
<1>1. /\ t \in Threads /\ gs \in SUBSET Groups /\ Apart' /\ prog[t] = <<>> /\ prog'[t] = p /\ arg'[t] = x /\ group'[t] = gs
      /\ \A u \in Threads \ {t} : \A h : Active(u, h)' <=> Active(u, h)
      /\ hw' = hw /\ mode' = mode /\ rapidChargeCap' = rapidChargeCap /\ conservationModeLock' = conservationModeLock
  BY StartTurns
<1>2. /\ TypeOK /\ Apart /\ TypeOK' /\ g \in Groups
      /\ (alone'[t] <=> \A u \in Threads \ {t} : \A h \in gs : ~Active(u, h))
  BY StartsBegin, Groupings DEF Takes
<1>3. \A u \in Threads \ {t} : ~Active(u, g)'
  BY <1>1, <1>2
<1>4. Certain(g)'
  BY <1>1 DEF Certain, Reading, On
<1>5. Owed(t, f)' /\ Owes(t, f)'
  <2>1. hw[f] \in BOOLEAN
    BY <1>2 DEF TypeOK
  <2>2. \A s \in {"compare", "send", "flip", "bdvt"} : Has(t, s, f)' <=> Holds(p, <<s, f>>)
    BY <1>1 DEF Has
  <2>3. CASE Owing(p, "compare", f) /\ asked'[f] = x
    <3>1. Has(t, "compare", f)' /\ ~Has(t, "send", f)' /\ ~Has(t, "flip", f)' /\ ~Has(t, "bdvt", f)'
      BY <2>2, <2>3 DEF Owing
    <3>. QED
      BY <3>1, <2>3, <1>1 DEF Owed, Owes
  <2>4. CASE Owing(p, "bdvt", f) /\ asked'[f] = x /\ ~conservationModeLock
    <3>1. ~Has(t, "compare", f)' /\ ~Has(t, "send", f)' /\ ~Has(t, "flip", f)' /\ Has(t, "bdvt", f)'
      BY <2>2, <2>4 DEF Owing
    <3>. QED
      BY <3>1, <2>4, <1>1 DEF Owed, Owes
  <2>5. CASE Owing(p, "flip", f) /\ f = "fn" /\ asked'[f] = ~hw[f]
    <3>1. ~Has(t, "compare", f)' /\ ~Has(t, "send", f)' /\ Has(t, "flip", f)' /\ ~Has(t, "bdvt", f)'
      BY <2>2, <2>5 DEF Owing
    <3>. QED
      BY <3>1, <2>5, <1>1 DEF Owed, Owes
  <2>. QED
    BY <2>3, <2>4, <2>5
<1>. QED
  BY <1>1, <1>2, <1>3, <1>4, <1>5, AloneAsking

LEMMA StartHasAsked ==
  ASSUME NEW t, NEW gs, NEW p, NEW x, Takes(t, gs, p, x), HasAsked, Holds(p, <<"bdvt", "conservation">>) => t = "smc",
         \A f \in Modes : asked'[f] # None => Leaves(t, gs, p, f) \/ Asking(f)'
  PROVE  HasAsked'
<1>1. /\ prog'[t] = p /\ \A u \in Threads \ {t} : prog'[u] = prog[u]
  BY StartTurns
<1>2. ASSUME NEW u \in Threads, Has(u, "bdvt", "conservation")' PROVE u = "smc"
  BY <1>1, <1>2 DEF Has, HasAsked
<1>3. ASSUME NEW f \in Modes, asked'[f] # None PROVE Asking(f)'
  <2>1. CASE Leaves(t, gs, p, f)
    <3>1. Asking(f)
      BY <2>1, <1>3 DEF Leaves, HasAsked
    <3>. QED
      BY <3>1, <2>1, StartLeaves
  <2>. QED
    BY <2>1, <1>3
<1>. QED
  BY <1>2, <1>3 DEF HasAsked

Asked == TypeOK /\ Apart /\ TypeOK' /\ HasAsked

(* What Ask and Nobody leave of what was asked for.                        *)
LEMMA AsksAndNobody ==
  ASSUME TypeOK, NEW f \in Modes
  PROVE  /\ \A t \in Threads, h \in Modes : \A x : Ask(t, h, x) =>
              asked'[f] = IF alone'[t] THEN IF f = h THEN x ELSE asked[f] ELSE IF GroupOf(f) = GroupOf(h) THEN None ELSE asked[f]
         /\ \A gs : Nobody(gs) => asked'[f] = IF GroupOf(f) \in gs THEN None ELSE asked[f]
  BY DEF Ask, Nobody, TypeOK

LEMMA AskedByRequest ==
  ASSUME Asked, NEW h \in Modes, NEW x \in BOOLEAN, Request(h, x)
  PROVE  HasAsked'
<1>. USE DEF Asked
<1>1. PICK p : /\ Begin("gate", {GroupOf(h)}, p, x) /\ Begun(p, {GroupOf(h)}) /\ Owing(p, "compare", h)
               /\ p # <<>> /\ Head(p) \in {<<"getBattery", "bat">>, <<"getKeyboard", "kbd">>}
  BY RequestBegins DEF Request
<1>2. Takes("gate", {GroupOf(h)}, p, x)
  BY <1>1, Groupings DEF Takes, Starts, Threads
<1>3. IF h # "rapid" \/ rapidChargeCap THEN Ask("gate", h, x) ELSE IF alone'["gate"] THEN UNCHANGED asked ELSE Nobody({"bat"})
  BY DEF Request
<1>4. ASSUME NEW f \in Modes, asked'[f] # None PROVE Leaves("gate", {GroupOf(h)}, p, f) \/ Asking(f)'
  <2>1. f # h => NotOwing(p, f)
    BY <1>1 DEF NotOwing, Owing
  <2>2. CASE h # "rapid" \/ rapidChargeCap
    <3>1. asked'[f] = IF alone'["gate"] THEN IF f = h THEN x ELSE asked[f] ELSE IF GroupOf(f) = GroupOf(h) THEN None ELSE asked[f]
      BY <2>2, <1>3, AsksAndNobody DEF Threads
    <3>2. CASE f = h
      <4>1. alone'["gate"] /\ asked'[f] = x
        BY <3>1, <3>2, <1>4
      <4>2. Head(p)[1] \in {"getBattery", "getKeyboard"}
        BY <1>1
      <4>. QED
        BY <4>1, <4>2, <3>2, <2>2, <1>1, <1>2, StartAsks
    <3>3. CASE f # h
      BY <3>1, <3>3, <2>1, <1>4 DEF Leaves
    <3>. QED
      BY <3>2, <3>3
  <2>3. CASE h = "rapid" /\ ~rapidChargeCap
    <3>1. asked'[f] = asked[f] /\ (GroupOf(f) = GroupOf(h) => alone'["gate"])
      <4>1. CASE alone'["gate"]
        BY <4>1, <2>3, <1>3
      <4>2. CASE ~alone'["gate"]
        <5>1. asked'[f] = IF GroupOf(f) \in {"bat"} THEN None ELSE asked[f]
          BY <4>2, <2>3, <1>3, AsksAndNobody
        <5>. QED
          BY <5>1, <2>3, <1>4 DEF GroupOf
      <4>. QED
        BY <4>1, <4>2
    <3>2. f # h
      BY <3>1, <2>3, <1>4 DEF HasAsked, Asking
    <3>. QED
      BY <3>1, <3>2, <2>1 DEF Leaves
  <2>. QED
    BY <2>2, <2>3
<1>5. ~Holds(p, <<"bdvt", "conservation">>)
  BY <1>1 DEF Owing
<1>. QED
  BY <1>2, <1>4, <1>5, StartHasAsked

LEMMA AskedByUpdate ==
  ASSUME Asked, Update
  PROVE  HasAsked'
<1>. USE DEF Asked
<1>1. PICK p : /\ Begin("gate", {"bat", "kbd"}, p, FALSE) /\ Begun(p, {"bat", "kbd"}) /\ OwingNothing(p)
  BY UpdateBegins DEF Update
<1>2. Takes("gate", {"bat", "kbd"}, p, FALSE)
  BY <1>1 DEF Takes, Starts, Threads, Groups
<1>3. IF alone'["gate"] THEN UNCHANGED asked ELSE Nobody({"bat", "kbd"})
  BY DEF Update
<1>4. ASSUME NEW f \in Modes, asked'[f] # None PROVE Leaves("gate", {"bat", "kbd"}, p, f)
  <2>1. NotOwing(p, f)
    BY <1>1 DEF NotOwing, OwingNothing
  <2>2. alone'["gate"] /\ asked'[f] = asked[f]
    <3>1. ~alone'["gate"] => asked'[f] = IF GroupOf(f) \in {"bat", "kbd"} THEN None ELSE asked[f]
      BY <1>3, AsksAndNobody
    <3>. QED
      BY <3>1, <1>3, <1>4 DEF GroupOf
  <2>. QED
    BY <2>1, <2>2 DEF Leaves
<1>5. ~Holds(p, <<"bdvt", "conservation">>)
  BY <1>1 DEF OwingNothing
<1>. QED
  BY <1>2, <1>4, <1>5, StartHasAsked

LEMMA AskedByBDVT ==
  ASSUME Asked, NEW x \in BOOLEAN, BDVT(x)
  PROVE  HasAsked'
<1>. USE DEF Asked
<1>1. PICK p : /\ Begin("smc", {"bat"}, p, x) /\ Begun(p, {"bat"}) /\ Owing(p, "bdvt", "conservation")
  BY EventsBegin DEF BDVT
<1>2. Takes("smc", {"bat"}, p, x)
  BY <1>1 DEF Takes, Starts, Threads, Groups
<1>3. IF conservationModeLock THEN IF alone'["smc"] THEN UNCHANGED asked ELSE Nobody({"bat"})
      ELSE IF "bat" \in agreed' THEN Ask("smc", "conservation", x) ELSE Nobody({"bat"})
  BY DEF BDVT
<1>4. ~alone'["smc"] => "bat" \notin agreed'
  BY <1>2, StartsBegin DEF Takes
<1>5. ASSUME NEW f \in Modes, asked'[f] # None PROVE Leaves("smc", {"bat"}, p, f) \/ Asking(f)'
  <2>1. f # "conservation" \/ conservationModeLock => NotOwing(p, f)
    BY <1>1 DEF NotOwing, Owing
  <2>2. Nobody({"bat"}) => asked'[f] = IF GroupOf(f) \in {"bat"} THEN None ELSE asked[f]
    BY AsksAndNobody
  <2>3. CASE conservationModeLock
    BY <2>1, <2>2, <2>3, <1>3, <1>5 DEF Leaves
  <2>4. CASE ~conservationModeLock /\ "bat" \in agreed'
    <3>1. alone'["smc"]
      BY <2>4, <1>4
    <3>2. asked'[f] = IF f = "conservation" THEN x ELSE asked[f]
      BY <3>1, <2>4, <1>3, AsksAndNobody DEF Threads, Modes
    <3>3. CASE f = "conservation"
      <4>1. GroupOf(f) = "bat"
        BY <3>3 DEF GroupOf
      <4>. QED
        BY <4>1, <3>1, <3>2, <3>3, <2>4, <1>1, <1>2, StartAsks
    <3>4. CASE f # "conservation"
      BY <3>1, <3>2, <3>4, <2>1 DEF Leaves
    <3>. QED
      BY <3>3, <3>4
  <2>5. CASE ~conservationModeLock /\ "bat" \notin agreed'
    BY <2>2, <2>5, <1>3, <1>5 DEF Leaves
  <2>. QED
    BY <2>3, <2>4, <2>5
<1>. QED
  BY <1>2, <1>5, StartHasAsked

LEMMA AskedByFnlock ==
  ASSUME Asked, FnlockEvent
  PROVE  HasAsked'
<1>. USE DEF Asked
<1>1. PICK p : /\ Begin("wmi", {"kbd"}, p, FALSE) /\ Begun(p, {"kbd"}) /\ Owing(p, "flip", "fn")
               /\ p # <<>> /\ Head(p) = <<"getKeyboard", "kbd">>
  BY EventsBegin DEF FnlockEvent
<1>2. Takes("wmi", {"kbd"}, p, FALSE)
  BY <1>1 DEF Takes, Starts, Threads, Groups
<1>3. Ask("wmi", "fn", ~hw.fn)
  BY DEF FnlockEvent
<1>4. ASSUME NEW f \in Modes, asked'[f] # None PROVE Leaves("wmi", {"kbd"}, p, f) \/ Asking(f)'
  <2>1. f # "fn" => NotOwing(p, f)
    BY <1>1 DEF NotOwing, Owing
  <2>2. asked'[f] = IF alone'["wmi"] THEN IF f = "fn" THEN ~hw.fn ELSE asked[f]
                    ELSE IF GroupOf(f) = "kbd" THEN None ELSE asked[f]
    <3>1. GroupOf("fn") = "kbd" /\ "fn" \in Modes /\ "wmi" \in Threads
      BY DEF GroupOf, Modes, Threads
    <3>. QED
      BY <3>1, <1>3, AsksAndNobody
  <2>3. CASE f = "fn"
    <3>1. GroupOf(f) = "kbd"
      BY <2>3 DEF GroupOf
    <3>2. alone'["wmi"] /\ asked'[f] = ~hw[f]
      BY <3>1, <2>2, <2>3, <1>4
    <3>3. Head(p)[1] \in {"getBattery", "getKeyboard"}
      BY <1>1
    <3>. QED
      BY <3>1, <3>2, <3>3, <2>3, <1>1, <1>2, StartAsks
  <2>4. CASE f # "fn"
    BY <2>1, <2>2, <2>4, <1>4 DEF Leaves
  <2>. QED
    BY <2>3, <2>4
<1>5. ~Holds(p, <<"bdvt", "conservation">>)
  BY <1>1 DEF Owing
<1>. QED
  BY <1>2, <1>4, <1>5, StartHasAsked

LEMMA AskedByYoga ==
  ASSUME Asked, NEW h \in Folds, YogaEvent(h)
  PROVE  HasAsked'
<1>. USE DEF Asked
<1>1. PICK p, x : p = YogaProgram /\ Starts("wmi", {"kbd"}, p, x)
  BY YogaStarts
<1>2. Takes("wmi", {"kbd"}, p, x)
  BY <1>1 DEF Takes
<1>3. IF Quiet THEN UNCHANGED asked ELSE Nobody({"kbd"})
  BY DEF YogaEvent
<1>4. OwingNothing(p)
  BY <1>1, EventsBegin DEF YogaProgram
<1>5. Quiet => alone'["wmi"]
  BY <1>2, StartsBegin DEF Takes, Quiet, Active
<1>6. ASSUME NEW f \in Modes, asked'[f] # None PROVE Leaves("wmi", {"kbd"}, p, f)
  <2>1. NotOwing(p, f)
    BY <1>4 DEF NotOwing, OwingNothing
  <2>2. ~Quiet => asked'[f] = IF GroupOf(f) \in {"kbd"} THEN None ELSE asked[f]
    BY <1>3, AsksAndNobody
  <2>. QED
    BY <2>1, <2>2, <1>3, <1>5, <1>6 DEF Leaves
<1>7. ~Holds(p, <<"bdvt", "conservation">>)
  BY <1>4 DEF OwingNothing
<1>. QED
  BY <1>2, <1>6, <1>7, StartHasAsked

LEMMA AskedByKeyboard ==
  ASSUME Asked, KeyboardEvent
  PROVE  HasAsked'
<1>. USE DEF Asked
<1>1. PICK p : Begin("acpi", {"kbd"}, p, FALSE) /\ Begun(p, {"kbd"}) /\ OwingNothing(p)
  BY EventsBegin DEF KeyboardEvent
<1>2. Takes("acpi", {"kbd"}, p, FALSE)
  BY <1>1 DEF Takes, Starts, Threads, Groups
<1>3. IF alone'["acpi"] THEN UNCHANGED asked ELSE Nobody({"kbd"})
  BY DEF KeyboardEvent
<1>4. ASSUME NEW f \in Modes, asked'[f] # None PROVE Leaves("acpi", {"kbd"}, p, f)
  <2>1. NotOwing(p, f)
    BY <1>1 DEF NotOwing, OwingNothing
  <2>2. ~alone'["acpi"] => asked'[f] = IF GroupOf(f) \in {"kbd"} THEN None ELSE asked[f]
    BY <1>3, AsksAndNobody
  <2>. QED
    BY <2>1, <2>2, <1>3, <1>4 DEF Leaves
<1>5. ~Holds(p, <<"bdvt", "conservation">>)
  BY <1>1 DEF OwingNothing
<1>. QED
  BY <1>2, <1>4, <1>5, StartHasAsked

(* The lock may turn while nobody has asked for the key.                   *)
LEMMA AskedByLock ==
  ASSUME Asked, SetLock
  PROVE  HasAsked'
<1>. USE DEF Asked
<1>1. /\ hw' = hw /\ mode' = mode /\ rapidChargeCap' = rapidChargeCap /\ prog' = prog /\ arg' = arg
      /\ group' = group /\ alone' = alone /\ agreed' = agreed
      /\ asked' = IF prog["smc"] = <<>> THEN asked ELSE [asked EXCEPT !.conservation = None]
  BY DEF SetLock, firmware, machine
<1>2. \A u \in Threads : \A s, f : Has(u, s, f)' <=> Has(u, s, f)
  BY <1>1 DEF Has
<1>3. \A u \in Threads : Has(u, "bdvt", "conservation")' => u = "smc"
  BY <1>2 DEF HasAsked
<1>4. ASSUME NEW f \in Modes, asked'[f] # None PROVE Asking(f)'
  <2>1. asked'[f] = asked[f] /\ (f = "conservation" => prog["smc"] = <<>>)
    BY <1>1, <1>4 DEF TypeOK
  <2>2. Asking(f)
    BY <2>1, <1>4 DEF HasAsked
  <2>3. ASSUME NEW u \in Threads PROVE ~Has(u, "bdvt", f)
    <3>1. Acts(u, f)
      BY OwingActs DEF AllAct
    <3>2. CASE f = "conservation"
      <4>1. u # "smc" \/ prog[u] = <<>>
        BY <3>2, <2>1
      <4>. QED
        BY <4>1, <3>2, Tuples DEF HasAsked, Has
    <3>. QED
      BY <3>1, <3>2 DEF Acts
  <2>4. ASSUME NEW u \in Threads PROVE Same(u, f)
    <3>1. Told(u, f)' = Told(u, f)
      BY <1>1, Zenon DEF Told
    <3>. QED
      BY <3>1, <2>3, <1>1, <1>2 DEF Same
  <2>5. Sole(GroupOf(f))' /\ Certain(GroupOf(f))'
    BY <2>2, <1>1 DEF Sole, Certain, Asking, Reading, Active, Sets, On
  <2>. QED
    BY <2>1, <2>2, <2>4, <2>5, <1>1, StillAsking
<1>. QED
  BY <1>3, <1>4 DEF HasAsked

(* All that HasAsked speaks of.                                            *)
LEMMA AskedStays ==
  ASSUME HasAsked, Unmoved, asked' = asked, conservationModeLock' = conservationModeLock
  PROVE  HasAsked'
<1>1. ASSUME NEW f \in Modes, Asking(f) PROVE Asking(f)'
  <2>1. \A u \in Threads : \A s : Has(u, s, f)' <=> Has(u, s, f)
    BY DEF Unmoved, Has
  <2>2. ASSUME NEW u \in Threads PROVE Same(u, f)
    <3>1. Told(u, f)' = Told(u, f)
      BY Zenon DEF Told, Unmoved
    <3>. QED
      BY <3>1, <2>1 DEF Same, Unmoved
  <2>3. Sole(GroupOf(f))' /\ Certain(GroupOf(f))'
    BY <1>1 DEF Sole, Certain, Asking, Reading, Active, Sets, On, Unmoved
  <2>. QED
    BY <2>2, <2>3, <1>1, StillAsking DEF Unmoved
<1>. QED
  BY <1>1 DEF HasAsked, Has, Unmoved

AskedInv == KeptInv /\ HasAsked

LEMMA AskedInit == Init => AskedInv
<1>1. Init => HasAsked
  BY Tuples DEF Init, HasAsked, Has, Modes
<1>. QED
  BY <1>1, KeptInit DEF AskedInv

LEMMA AskedNext == AskedInv /\ [Next]_vars => AskedInv'
<1> SUFFICES ASSUME AskedInv, [Next]_vars PROVE AskedInv'
  OBVIOUS
<1>1. KeptInv'
  BY KeptNext DEF AskedInv
<1>2. /\ TypeOK /\ Apart /\ HasKept /\ TypeOK' /\ Apart' /\ HasAsked /\ Asked
  BY <1>1 DEF AskedInv, KeptInv, Asked
<1>3. ASSUME Outside PROVE HasAsked'
  <2>1. ASSUME KeyPress PROVE HasAsked'
    <3>1. Unmoved /\ asked' = asked /\ conservationModeLock' = conservationModeLock
      BY <2>1 DEF KeyPress, Unmoved, driver, machine
    <3>. QED
      BY <3>1, <1>2, AskedStays
  <2>2. ASSUME NEW f \in Modes, NEW x \in BOOLEAN, Request(f, x) PROVE HasAsked'
    BY <2>2, <1>2, AskedByRequest
  <2>3. ASSUME NEW x \in BOOLEAN, BDVT(x) PROVE HasAsked'
    BY <2>3, <1>2, AskedByBDVT
  <2>4. ASSUME NEW f \in Folds, YogaEvent(f) PROVE HasAsked'
    BY <2>4, <1>2, AskedByYoga
  <2>5. Update \/ SetLock \/ FnlockEvent \/ KeyboardEvent => HasAsked'
    BY <1>2, AskedByUpdate, AskedByFnlock, AskedByKeyboard, AskedByLock
  <2>. QED
    BY <2>1, <2>2, <2>3, <2>4, <2>5, <1>3, Zenon DEF Outside
<1>4. ASSUME NEW t \in Threads, Step(t) PROVE HasAsked'
  BY <1>2, <1>4, AskedStep
<1>5. ASSUME UNCHANGED vars PROVE HasAsked'
  <2>1. Unmoved /\ asked' = asked /\ conservationModeLock' = conservationModeLock
    BY <1>5 DEF vars, firmware, driver, machine, history, Unmoved
  <2>. QED
    BY <2>1, <1>2, AskedStays
<1>6. HasAsked'
  BY <1>3, <1>4, <1>5, Zenon DEF Next, Rest
<1>. QED
  BY <1>1, <1>6 DEF AskedInv

(* AskedIsSet: what was last asked for alone is set.                       *)
THEOREM AskedWillBeSet == Spec => []AskedIsSet
<1>1. AskedInv => AskedIsSet
  <2> SUFFICES ASSUME AskedInv, Quiet, NEW f \in Modes, asked[f] # None PROVE hw[f] = asked[f]
    BY DEF AskedIsSet
  <2>1. Asking(f)
    BY DEF AskedInv, HasAsked
  <2>2. \A u \in Threads : \A s, k : ~Has(u, s, k)
    BY Tuples DEF Quiet, Has
  <2>. QED
    BY <2>1, <2>2 DEF Asking, Owes
<1>. QED
  BY <1>1, AskedInit, AskedNext, PTL DEF Spec

-----------------------------------------------------------------------------
(* The light of a machine that is folded away, and back.                   *)
Turns(p, s, q) == p # <<>> /\ Head(p) = s /\ Tail(p) = q

LEMMA FoldPrograms ==
  /\ Turns(FoldRead, <<"getKeyboard", "kbd">>, FoldSet) /\ Turns(FoldSet, <<"setKeyboard", "kbd">>, FoldYoga)
  /\ Turns(FoldYoga, <<"yoga", "kbd">>, <<>>)
  /\ Turns(ReadKey, <<"getKeyboard", "kbd">>, KeySet) /\ Turns(KeySet, <<"setKeyboard", "key">>, <<>>)
  /\ \A x \in {"on", "off"} : Turns(FoldLight(x), <<"light", x>>, <<>>)
<1>1. ASSUME NEW s \in Steps, NEW q \in Seq(Steps) PROVE Turns(Then(s, q), s, q) /\ Then(s, q) \in Seq(Steps)
  BY StepAndRest DEF Turns
<1>2. ASSUME NEW s \in Steps PROVE Turns(<<s>>, s, <<>>) /\ <<s>> = Then(s, <<>>) /\ <<s>> \in Seq(Steps)
  <2>1. <<s>> = Then(s, <<>>) /\ <<>> \in Seq(Steps)
    BY Tuples
  <2>2. Turns(Then(s, <<>>), s, <<>>) /\ Then(s, <<>>) \in Seq(Steps)
    BY <2>1, <1>1
  <2>. QED
    BY <2>1, <2>2, Zenon
<1>3. ASSUME NEW s \in Steps, NEW r \in Steps PROVE Turns(<<s, r>>, s, <<r>>) /\ <<s, r>> = Then(s, <<r>>)
  <2>1. <<s, r>> = Then(s, Then(r, <<>>)) /\ <<r>> = Then(r, <<>>)
    BY Tuples
  <2>2. <<s, r>> = Then(s, <<r>>)
    BY <2>1, Zenon
  <2>3. Turns(Then(s, <<r>>), s, <<r>>)
    BY <1>1, <1>2
  <2>. QED
    BY <2>2, <2>3, Zenon
<1>4. Turns(FoldYoga, <<"yoga", "kbd">>, <<>>) /\ Turns(KeySet, <<"setKeyboard", "key">>, <<>>)
  BY <1>2, KindsOfSteps DEF FoldYoga, KeySet
<1>5. Turns(FoldSet, <<"setKeyboard", "kbd">>, FoldYoga) /\ Turns(ReadKey, <<"getKeyboard", "kbd">>, KeySet)
  BY <1>3, KindsOfSteps DEF FoldSet, FoldYoga, ReadKey, KeySet
<1>6. \A x \in {"on", "off"} : Turns(FoldLight(x), <<"light", x>>, <<>>)
  BY <1>2, KindsOfSteps DEF FoldLight, Ends
<1>7. Turns(FoldRead, <<"getKeyboard", "kbd">>, FoldSet)
  <2>1. PICK a \in Steps, b \in Steps, c \in Steps : a = <<"getKeyboard", "kbd">> /\ b = <<"setKeyboard", "kbd">> /\ c = <<"yoga", "kbd">>
    BY KindsOfSteps
  <2>2. FoldSet = Then(b, <<c>>) /\ <<c>> \in Seq(Steps) /\ FoldSet \in Seq(Steps)
    BY <2>1, <1>1, <1>2, <1>3 DEF FoldSet
  <2>3. PICK q \in Seq(Steps) : q = <<c>>
    BY <2>2
  <2>4. PICK p : p = <<a, b>> \o q /\ Precede(a, b, q, p)
    BY DEF Precede
  <2>5. p = Then(a, Then(b, q))
    <3>1. a \in Steps /\ b \in Steps /\ q \in Seq(Steps) /\ Precede(a, b, q, p)
      BY <2>1, <2>3, <2>4
    <3>. QED
      BY <3>1, TwoAndRest
  <2>6. p = FoldRead
    BY <2>1, <2>3, <2>4 DEF FoldRead, ReadKeyboard
  <2>7. p = Then(a, FoldSet)
    BY <2>2, <2>3, <2>5, Zenon
  <2>. QED
    BY <2>1, <2>2, <2>6, <2>7, <1>1
<1>. QED
  BY <1>4, <1>5, <1>6, <1>7

LEMMA NamesOfSteps ==
  ASSUME NEW t \in Threads, Step(t)
  PROVE  /\ prog[t] # <<>>
         /\ Head(prog[t])[1] = "getKeyboard" => Get(t)
         /\ Head(prog[t])[1] = "setKeyboard" => SetKeyboard(t)
         /\ Head(prog[t])[1] = "yoga" => Yoga(t)
         /\ Head(prog[t])[1] = "light" => SetBacklight(t)
  BY DEF Step, Get, Events, SetBattery, SetKeyboard, Compare, FlipFn, Send, Keep, Yoga, SetBacklight, On

(* While the machine is folded away or back.                               *)
Calm(t) == TypeOK /\ Apart /\ t \in Threads /\ Step(t) /\ onYogaMode /\ calm' /\ calm /\ Alone /\ IF fold = "laptop" THEN Back ELSE Away
Restores == Alone /\ IF fold = "laptop" THEN Back ELSE Away

(* What a step leaves to do, of the threads that have something left.      *)
LEMMA CalmStep ==
  ASSUME NEW t, Calm(t)
  PROVE  /\ t \in {"acpi", "wmi"} /\ prog[t] # <<>> /\ \A n : ~Failed(t, n)
         /\ \A u \in Threads \ {t} : prog'[u] = prog[u] /\ val'[u] = val[u] /\ arg'[u] = arg[u]
         /\ fold' = fold /\ before' = before
         /\ t = "acpi" => prog[t] \in {KeySet, ReadKey}
         /\ t = "wmi" => prog[t] \in {FoldLight("on"), FoldLight("off"), FoldRead, FoldSet, FoldYoga}
<1>. USE DEF Calm
<1>1. prog[t] # <<>>
  BY NamesOfSteps
<1>2. \A n : ~Failed(t, n)
  BY DEF Failed
<1>3. PICK p : Comes(t, p)
  BY StepComes
<1>4. \A u \in Threads \ {t} : prog'[u] = prog[u]
  BY <1>3, StepTurns
<1>5. Changes(t)
  BY StepChanges
<1>6. arg' = arg \/ FlipFn(t)
  BY DEF Step, Get, Events, SetBattery, SetKeyboard, Compare, Send, Keep, Yoga, SetBacklight, Failed
<1>7. fold' = fold /\ before' = before
  BY <1>2 DEF Step, Get, Events, SetBattery, SetKeyboard, Compare, FlipFn, Send, Keep, Yoga, SetBacklight, firmware, history
<1>8. t \in {"acpi", "wmi"}
  BY <1>1 DEF Alone, Threads
<1>. QED
  BY <1>1, <1>2, <1>4, <1>5, <1>7, <1>8 DEF Changes, ArgChanges, Alone

LEMMA CalmGet ==
  ASSUME NEW t, Calm(t), Get(t)
  PROVE  Restores'
<1>. USE DEF Calm
<1>1. /\ t \in {"acpi", "wmi"} /\ prog[t] # <<>> /\ ~Failed(t, 2)
      /\ \A u \in Threads \ {t} : prog'[u] = prog[u] /\ val'[u] = val[u] /\ arg'[u] = arg[u]
      /\ fold' = fold /\ before' = before
      /\ t = "acpi" => prog[t] \in {KeySet, ReadKey}
      /\ t = "wmi" => prog[t] \in {FoldLight("on"), FoldLight("off"), FoldRead, FoldSet, FoldYoga}
  BY CalmStep
<1>2. /\ Advance(t) /\ val' = [val EXCEPT ![t] = [modes |-> hw, lit |-> light > 0]]
      /\ light' = light /\ pending' = pending /\ arg' = arg
      /\ backlightLevel' = backlightLevel /\ backlightLevelSaved' = backlightLevelSaved
  BY <1>1 DEF Get, firmware, driver
<1>3. prog'[t] = Tail(prog[t]) /\ val'[t] = [modes |-> hw, lit |-> light > 0]
  BY <1>2 DEF Advance, TypeOK
<1>4. val'[t].lit <=> light > 0
  <2>1. PICK b \in BOOLEAN : b = (light > 0)
    <3>1. (light > 0) \in BOOLEAN
      BY SMT
    <3>. QED
      BY <3>1, Zenon
  <2>2. val'[t] = [modes |-> hw, lit |-> b]
    BY <2>1, <1>3, Zenon
  <2>3. val'[t].lit = b
    BY <2>2
  <2>. QED
    BY <2>1, <2>3
<1>5. Head(prog[t])[1] = "getKeyboard"
  <2>1. On(t, "getBattery") \/ On(t, "getKeyboard")
    BY DEF Get
  <2>. QED
    BY <1>1, <2>1, FoldPrograms DEF Turns, On
<1>6. CASE t = "acpi"
  <2>1. prog[t] = ReadKey /\ prog'[t] = KeySet /\ prog'["wmi"] = prog["wmi"] /\ val'["wmi"] = val["wmi"]
    <3>1. Head(KeySet)[1] = "setKeyboard" /\ Tail(ReadKey) = KeySet
      BY FoldPrograms DEF Turns
    <3>2. prog[t] = ReadKey
      BY <3>1, <1>1, <1>5, <1>6
    <3>. QED
      BY <3>1, <3>2, <1>1, <1>3, <1>6 DEF Threads
  <2>2. ReadKey # <<>> /\ On("acpi", "setKeyboard")'
    BY <2>1, <1>6, FoldPrograms DEF Turns, On
  <2>3. Alone'
    BY <2>1, <1>1, <1>6 DEF Alone, Threads
  <2>4. CASE fold = "laptop"
    <3>1. light = 0 => Dark("acpi")'
      BY <1>4, <1>6 DEF Dark
    <3>2. Back'
      BY <3>1, <2>1, <2>4, <1>1, <1>2 DEF Back, Dark, On, Of
    <3>. QED
      BY <2>3, <2>4, <3>2, <1>1 DEF Restores
  <2>5. CASE fold # "laptop"
    <3>1. prog["wmi"] = <<>> /\ light = 0
      BY <2>1, <2>2, <2>5, <1>6 DEF Away
    <3>2. Dark("acpi")'
      BY <3>1, <1>4, <1>6 DEF Dark
    <3>3. Away'
      BY <3>1, <3>2, <2>1, <2>5, <1>1, <1>2 DEF Away
    <3>. QED
      BY <2>3, <2>5, <3>3, <1>1 DEF Restores
  <2>. QED
    BY <2>4, <2>5
<1>7. CASE t = "wmi"
  <2>1. prog[t] = FoldRead /\ prog'[t] = FoldSet /\ prog'["acpi"] = prog["acpi"] /\ val'["acpi"] = val["acpi"]
    BY <1>1, <1>3, <1>5, <1>7, FoldPrograms DEF Turns, Threads
  <2>2. /\ prog["wmi"] # <<>> /\ prog'["wmi"] # <<>> /\ Head(prog'["wmi"])[1] = "setKeyboard"
    BY <2>1, <1>1, <1>7, FoldPrograms DEF Turns
  <2>3. Alone'
    BY <2>1, <1>1, <1>7 DEF Alone, Threads
  <2>4. On("wmi", "setKeyboard")' /\ ~On("wmi", "yoga")' /\ ~On("wmi", "light")'
    BY <2>2 DEF On
  <2>5. CASE fold = "laptop"
    <3>1. light = 0 /\ (backlightLevelSaved > 0 <=> before) /\ Dark("acpi") /\ arg["wmi"]
      BY <2>2, <2>5 DEF Back
    <3>2. Dark("acpi")' /\ Dark("wmi")'
      BY <3>1, <2>1, <1>4, <1>7 DEF Dark, On
    <3>3. Back'
      BY <3>1, <3>2, <2>2, <2>4, <1>1, <1>2 DEF Back
    <3>. QED
      BY <2>3, <2>5, <3>3, <1>1 DEF Restores
  <2>6. CASE fold # "laptop"
    <3>1. (light > 0 <=> before) /\ pending = 0 /\ prog["acpi"] = <<>> /\ ~arg["wmi"]
      BY <2>2, <2>6 DEF Away
    <3>2. Away'
      BY <3>1, <2>1, <2>2, <2>4, <1>1, <1>2, <1>4, <1>7 DEF Away
    <3>. QED
      BY <2>3, <2>6, <3>2, <1>1 DEF Restores
  <2>. QED
    BY <2>5, <2>6
<1>. QED
  BY <1>1, <1>6, <1>7

LEMMA CalmSet ==
  ASSUME NEW t, Calm(t), SetKeyboard(t)
  PROVE  Restores'
<1>. USE DEF Calm
<1>1. /\ t \in {"acpi", "wmi"} /\ prog[t] # <<>>
      /\ \A u \in Threads \ {t} : prog'[u] = prog[u] /\ val'[u] = val[u] /\ arg'[u] = arg[u]
      /\ fold' = fold /\ before' = before
      /\ t = "acpi" => prog[t] \in {KeySet, ReadKey}
      /\ t = "wmi" => prog[t] \in {FoldLight("on"), FoldLight("off"), FoldRead, FoldSet, FoldYoga}
  BY CalmStep
<1>2. /\ Advance(t) /\ val' = val /\ light' = light /\ pending' = pending /\ arg' = arg /\ backlightLevelSaved' = backlightLevelSaved
      /\ backlightLevel' = Level(val[t].lit, IF Of(t) # "key" /\ backlightLevel > 0 THEN backlightLevel - 1 ELSE backlightLevel)
  BY DEF SetKeyboard, firmware
<1>3. prog'[t] = Tail(prog[t])
  BY <1>2 DEF Advance, TypeOK
<1>4. backlightLevel' > 0 <=> val[t].lit
  BY <1>2 DEF Level, TypeOK
<1>5. Head(prog[t])[1] = "setKeyboard" /\ On(t, "setKeyboard")
  BY DEF SetKeyboard, On
<1>6. CASE t = "acpi"
  <2>1. prog[t] = KeySet /\ prog'[t] = <<>> /\ prog'["wmi"] = prog["wmi"]
    <3>1. Head(ReadKey)[1] = "getKeyboard" /\ Tail(KeySet) = <<>>
      BY FoldPrograms DEF Turns
    <3>2. prog[t] = KeySet
      BY <3>1, <1>1, <1>5, <1>6
    <3>. QED
      BY <3>1, <3>2, <1>1, <1>3, <1>6 DEF Threads
  <2>2. Alone'
    BY <2>1, <1>1, <1>6 DEF Alone, Threads
  <2>3. Dark("acpi")'
    BY <2>1, <1>6 DEF Dark, On
  <2>4. CASE fold = "laptop"
    <3>1. prog["wmi"] # <<>> => backlightLevel' = 0
      <4>1. prog["wmi"] # <<>> => Dark("acpi")
        BY <2>4 DEF Back
      <4>2. Dark("acpi") => ~val[t].lit
        BY <1>5, <1>6 DEF Dark
      <4>3. ~val[t].lit => backlightLevel' = 0
        BY <1>2 DEF Level
      <4>. QED
        BY <4>1, <4>2, <4>3
    <3>2. Back'
      BY <3>1, <2>1, <2>3, <2>4, <1>1, <1>2 DEF Back, Dark, On, Of
    <3>. QED
      BY <2>2, <2>4, <3>2, <1>1 DEF Restores
  <2>5. CASE fold # "laptop"
    <3>1. prog["wmi"] = <<>> /\ light = 0
      BY <2>5, <1>1, <1>6 DEF Away
    <3>2. Away'
      BY <3>1, <2>1, <2>3, <2>5, <1>1, <1>2 DEF Away
    <3>. QED
      BY <2>2, <2>5, <3>2, <1>1 DEF Restores
  <2>. QED
    BY <2>4, <2>5
<1>7. CASE t = "wmi"
  <2>1. prog[t] = FoldSet /\ prog'[t] = FoldYoga /\ prog'["acpi"] = prog["acpi"]
    <3>1. /\ Head(FoldLight("on"))[1] = "light" /\ Head(FoldLight("off"))[1] = "light"
          /\ Head(FoldRead)[1] = "getKeyboard" /\ Head(FoldYoga)[1] = "yoga"
      BY FoldPrograms DEF Turns
    <3>2. prog[t] = FoldSet
      BY <3>1, <1>1, <1>5, <1>7
    <3>. QED
      BY <3>2, <1>1, <1>3, <1>7, FoldPrograms DEF Turns, Threads
  <2>2. /\ prog["wmi"] # <<>> /\ prog'["wmi"] # <<>> /\ Head(prog'["wmi"])[1] = "yoga"
    BY <2>1, <1>1, <1>7, FoldPrograms DEF Turns
  <2>3. Alone'
    BY <2>1, <1>1, <1>7 DEF Alone, Threads
  <2>4. ~On("wmi", "setKeyboard")' /\ On("wmi", "yoga")' /\ ~On("wmi", "light")'
    BY <2>2 DEF On
  <2>5. CASE fold = "laptop"
    <3>1. light = 0 /\ (backlightLevelSaved > 0 <=> before) /\ Dark("acpi") /\ arg["wmi"] /\ Dark("wmi")
      BY <2>2, <2>5 DEF Back
    <3>2. Dark("acpi")' /\ Dark("wmi")'
      BY <3>1, <2>1, <2>4, <1>2 DEF Dark, On
    <3>3. backlightLevel' = 0
      <4>1. ~val[t].lit
        BY <3>1, <1>5, <1>7 DEF Dark
      <4>. QED
        BY <4>1, <1>2 DEF Level
    <3>4. Back'
      BY <3>1, <3>2, <3>3, <2>2, <2>4, <1>1, <1>2 DEF Back
    <3>. QED
      BY <2>3, <2>5, <3>4, <1>1 DEF Restores
  <2>6. CASE fold # "laptop"
    <3>1. /\ (light > 0 <=> before) /\ pending = 0 /\ prog["acpi"] = <<>> /\ ~arg["wmi"]
          /\ val["wmi"].lit <=> before
      BY <2>2, <2>6, <1>5, <1>7 DEF Away
    <3>2. backlightLevel' > 0 <=> before
      BY <3>1, <1>4, <1>7
    <3>3. Away'
      BY <3>1, <3>2, <2>1, <2>2, <2>4, <1>1, <1>2 DEF Away
    <3>. QED
      BY <2>3, <2>6, <3>3, <1>1 DEF Restores
  <2>. QED
    BY <2>5, <2>6
<1>. QED
  BY <1>1, <1>6, <1>7

LEMMA CalmYoga ==
  ASSUME NEW t, Calm(t), Yoga(t)
  PROVE  Restores'
<1>. USE DEF Calm
<1>1. /\ t \in {"acpi", "wmi"} /\ prog[t] # <<>>
      /\ \A u \in Threads \ {t} : prog'[u] = prog[u] /\ val'[u] = val[u] /\ arg'[u] = arg[u]
      /\ fold' = fold /\ before' = before
      /\ t = "acpi" => prog[t] \in {KeySet, ReadKey}
  BY CalmStep
<1>2. On(t, "yoga") /\ Head(prog[t])[1] = "yoga"
  BY DEF Yoga, On
<1>3. t = "wmi"
  BY <1>1, <1>2, FoldPrograms DEF Turns
<1> DEFINE wanted == IF arg[t] THEN backlightLevelSaved ELSE 0
<1>4. /\ backlightLevelSaved' = (IF arg[t] THEN backlightLevelSaved ELSE backlightLevel)
      /\ light' = light /\ pending' = pending /\ arg' = arg /\ val' = val /\ backlightLevel' = backlightLevel
  BY DEF Yoga, firmware
<1>5. prog'["wmi"] = IF wanted = backlightLevel THEN <<>> ELSE FoldLight(IF wanted > 0 THEN "on" ELSE "off")
  BY <1>3, YogaMoves DEF Moved, TypeOK, FoldLight, Lit
<1>6. prog'["acpi"] = prog["acpi"]
  BY <1>1, <1>3 DEF Threads
<1>7. Alone'
  BY <1>1, <1>3, <1>5 DEF Alone, Threads
<1>. HIDE DEF wanted
<1>8. \A x \in {"on", "off"} : prog'["wmi"] = FoldLight(x) =>
        /\ prog'["wmi"] # <<>> /\ On("wmi", "light")' /\ Of("wmi")' = x
        /\ ~On("wmi", "setKeyboard")' /\ ~On("wmi", "yoga")'
  BY FoldPrograms DEF Turns, On, Of
<1>9. CASE fold = "laptop"
  <2>1. /\ light = 0 /\ (backlightLevelSaved > 0 <=> before) /\ Dark("acpi") /\ arg["wmi"] /\ backlightLevel = 0
    BY <1>1, <1>2, <1>3, <1>9 DEF Back
  <2>2. wanted = backlightLevelSaved /\ backlightLevelSaved' = backlightLevelSaved
    BY <2>1, <1>3, <1>4 DEF wanted
  <2>3. Dark("acpi")'
    BY <2>1, <1>4, <1>6 DEF Dark, On
  <2>4. CASE backlightLevelSaved = 0
    <3>1. prog'["wmi"] = <<>>
      BY <2>1, <2>2, <2>4, <1>5
    <3>2. Back'
      BY <3>1, <2>1, <2>4, <1>1, <1>4 DEF Back
    <3>. QED
      BY <3>2, <1>1, <1>7, <1>9 DEF Restores
  <2>5. CASE backlightLevelSaved # 0
    <3>1. backlightLevelSaved > 0
      BY <2>5 DEF TypeOK
    <3>2. prog'["wmi"] = FoldLight("on")
      BY <3>1, <2>1, <2>2, <1>5
    <3>3. Dark("wmi")'
      BY <3>2, <1>8 DEF Dark
    <3>4. Back'
      BY <3>1, <3>2, <3>3, <2>1, <2>2, <2>3, <1>1, <1>4, <1>8 DEF Back
    <3>. QED
      BY <3>4, <1>1, <1>7, <1>9 DEF Restores
  <2>. QED
    BY <2>4, <2>5
<1>10. CASE fold # "laptop"
  <2>1. /\ (light > 0 <=> before) /\ pending = 0 /\ prog["acpi"] = <<>> /\ ~arg["wmi"]
        /\ backlightLevel > 0 <=> before
    BY <1>1, <1>2, <1>3, <1>10 DEF Away
  <2>2. wanted = 0 /\ backlightLevelSaved' = backlightLevel
    BY <2>1, <1>3, <1>4 DEF wanted
  <2>3. Dark("acpi")'
    BY <2>1, <1>6 DEF Dark, On
  <2>4. CASE backlightLevel = 0
    <3>1. prog'["wmi"] = <<>>
      BY <2>2, <2>4, <1>5
    <3>2. light' = 0 /\ ~before
      BY <2>1, <2>4, <1>4 DEF TypeOK
    <3>3. Away'
      BY <3>1, <3>2, <2>2, <2>3, <2>4, <1>1 DEF Away
    <3>. QED
      BY <3>3, <1>1, <1>7, <1>10 DEF Restores
  <2>5. CASE backlightLevel # 0
    <3>1. prog'["wmi"] = FoldLight("off")
      BY <2>2, <2>5, <1>5
    <3>2. Away'
      BY <3>1, <2>1, <2>2, <1>1, <1>4, <1>6, <1>8 DEF Away
    <3>. QED
      BY <3>2, <1>1, <1>7, <1>10 DEF Restores
  <2>. QED
    BY <2>4, <2>5
<1>. QED
  BY <1>9, <1>10

LEMMA CalmLight ==
  ASSUME NEW t, Calm(t), SetBacklight(t)
  PROVE  Restores'
<1>. USE DEF Calm
<1>1. /\ t \in {"acpi", "wmi"} /\ prog[t] # <<>> /\ ~Failed(t, 1)
      /\ \A u \in Threads \ {t} : prog'[u] = prog[u] /\ val'[u] = val[u] /\ arg'[u] = arg[u]
      /\ fold' = fold /\ before' = before
      /\ t = "acpi" => prog[t] \in {KeySet, ReadKey}
  BY CalmStep
<1>2. On(t, "light") /\ Head(prog[t])[1] = "light"
  BY DEF SetBacklight, On
<1>3. t = "wmi"
  BY <1>1, <1>2, FoldPrograms DEF Turns
<1>4. /\ light' \in (IF Of(t) = "off" THEN {0} ELSE IF light > 0 THEN {light} ELSE {1, 2})
      /\ backlightLevelSaved' = backlightLevelSaved /\ val' = val
  BY <1>1 DEF SetBacklight
<1>5. prog'["wmi"] = <<>> /\ prog'["acpi"] = prog["acpi"]
  BY <1>1, <1>3, LightMoves DEF Moved, TypeOK, Threads
<1>6. Alone'
  BY <1>1, <1>3, <1>5 DEF Alone, Threads
<1>7. CASE fold = "laptop"
  <2>1. light = 0 /\ Of("wmi") = "on" /\ before
    BY <1>1, <1>2, <1>3, <1>7 DEF Back
  <2>2. light' > 0
    BY <2>1, <1>3, <1>4
  <2>3. Back'
    BY <2>1, <2>2, <1>1, <1>5 DEF Back
  <2>. QED
    BY <2>3, <1>1, <1>6, <1>7 DEF Restores
<1>8. CASE fold # "laptop"
  <2>1. prog["acpi"] = <<>> /\ Of("wmi") = "off" /\ (backlightLevelSaved > 0 <=> before)
    BY <1>1, <1>2, <1>3, <1>8 DEF Away
  <2>2. light' = 0
    BY <2>1, <1>3, <1>4
  <2>3. Dark("acpi")'
    BY <2>1, <1>5 DEF Dark, On
  <2>4. Away'
    BY <2>1, <2>2, <2>3, <1>1, <1>4, <1>5 DEF Away
  <2>. QED
    BY <2>4, <1>1, <1>6, <1>8 DEF Restores
<1>. QED
  BY <1>7, <1>8

LEMMA FoldingSteps ==
  ASSUME TypeOK, Apart, Folding, NEW t \in Threads, Step(t)
  PROVE  Folding'
<1> SUFFICES ASSUME calm', onYogaMode' PROVE Restores'
  BY DEF Folding, Restores
<1>1. \A n : ~Failed(t, n)
  BY DEF Failed
<1>2. calm
  BY <1>1 DEF Step, Get, Events, SetBattery, SetKeyboard, Compare, FlipFn, Send, Keep, Yoga, SetBacklight, history
<1>3. onYogaMode
  BY StepChanges DEF Changes, MachineKept
<1>4. Calm(t)
  BY <1>2, <1>3 DEF Calm, Folding
<1>5. /\ t \in {"acpi", "wmi"} /\ prog[t] # <<>>
      /\ t = "acpi" => prog[t] \in {KeySet, ReadKey}
      /\ t = "wmi" => prog[t] \in {FoldLight("on"), FoldLight("off"), FoldRead, FoldSet, FoldYoga}
  BY <1>4, CalmStep
<1>6. Head(prog[t])[1] \in {"getKeyboard", "setKeyboard", "yoga", "light"}
  <2>1. /\ Head(FoldLight("on"))[1] = "light" /\ Head(FoldLight("off"))[1] = "light"
        /\ Head(FoldRead)[1] = "getKeyboard" /\ Head(FoldSet)[1] = "setKeyboard" /\ Head(FoldYoga)[1] = "yoga"
        /\ Head(KeySet)[1] = "setKeyboard" /\ Head(ReadKey)[1] = "getKeyboard"
    BY FoldPrograms DEF Turns
  <2>. QED
    BY <2>1, <1>5
<1>7. Get(t) \/ SetKeyboard(t) \/ Yoga(t) \/ SetBacklight(t)
  BY <1>6, NamesOfSteps
<1>. QED
  BY <1>4, <1>7, CalmGet, CalmSet, CalmYoga, CalmLight

LEMMA FoldingBegins ==
  ASSUME TypeOK, Folding, NEW f \in Folds, YogaEvent(f)
  PROVE  Folding'
<1> SUFFICES ASSUME calm', onYogaMode' PROVE Restores'
  BY DEF Folding, Restores
<1>1. /\ fold' = f /\ pending' = pending
      /\ Begin("wmi", {"kbd"}, YogaProgram, f = "laptop")
      /\ calm' = (IF fold = "laptop" /\ f # "laptop" THEN Quiet /\ pending = 0 ELSE calm /\ Quiet /\ f = "laptop" /\ fold # "laptop")
      /\ before' = IF fold = "laptop" THEN light > 0 ELSE before
  BY Zenon DEF YogaEvent, YogaProgram
<1>2. /\ prog' = [prog EXCEPT !["wmi"] = YogaProgram] /\ arg' = [arg EXCEPT !["wmi"] = (f = "laptop")]
      /\ light' = light /\ backlightLevelSaved' = backlightLevelSaved /\ onYogaMode' = onYogaMode
  BY <1>1, Zenon DEF Begin, driver, machine
<1>3. YogaProgram = FoldRead
  BY <1>2 DEF YogaProgram, FoldRead
<1>4. /\ prog'["wmi"] = FoldRead /\ prog'["wmi"] # <<>> /\ Head(prog'["wmi"])[1] = "getKeyboard"
      /\ \A u \in Threads \ {"wmi"} : prog'[u] = prog[u]
  BY <1>2, <1>3, FoldPrograms DEF Turns, TypeOK, Threads
<1>5. Quiet /\ \A u \in Threads \ {"wmi"} : prog'[u] = <<>>
  <2>1. Quiet
    BY <1>1
  <2>. QED
    BY <2>1, <1>4 DEF Quiet
<1>6. Alone'
  BY <1>4, <1>5 DEF Alone, Threads
<1>7. ~On("wmi", "setKeyboard")' /\ ~On("wmi", "yoga")' /\ ~On("wmi", "light")' /\ Dark("acpi")' /\ Dark("wmi")'
  BY <1>4, <1>5 DEF On, Dark, Threads
<1>8. arg'["wmi"] <=> f = "laptop"
  <2>1. arg'["wmi"] = (f = "laptop")
    BY <1>2, Zenon DEF TypeOK, Threads
  <2>. QED
    BY <2>1
<1>9. CASE fold = "laptop" /\ f # "laptop"
  <2>1. pending = 0 /\ (before' <=> light > 0)
    <3>1. before' = (light > 0)
      BY <1>1, <1>9, Zenon
    <3>. QED
      BY <3>1, <1>1, <1>9
  <2>2. Away'
    BY <2>1, <1>1, <1>2, <1>4, <1>5, <1>7, <1>8, <1>9 DEF Away, Threads
  <2>. QED
    BY <2>2, <1>1, <1>6, <1>9 DEF Restores
<1>10. CASE ~(fold = "laptop" /\ f # "laptop")
  <2>1. calm /\ Quiet /\ f = "laptop" /\ fold # "laptop" /\ before' = before
    BY <1>1, <1>10
  <2>2. light = 0 /\ (backlightLevelSaved > 0 <=> before)
    BY <2>1, <1>2 DEF Folding, Away, Quiet, Threads
  <2>3. Back'
    BY <2>1, <2>2, <1>2, <1>4, <1>7, <1>8 DEF Back
  <2>. QED
    BY <2>1, <2>3, <1>1, <1>6 DEF Restores
<1>. QED
  BY <1>9, <1>10

LEMMA FoldingMeanwhile ==
  ASSUME TypeOK, Folding, KeyboardEvent
  PROVE  Folding'
<1> SUFFICES ASSUME calm', onYogaMode' PROVE Restores'
  BY DEF Folding, Restores
<1>1. /\ pending > 0 /\ Begin("acpi", {"kbd"}, ReadKey, FALSE)
      /\ fold' = fold /\ calm' = calm /\ before' = before
  BY DEF KeyboardEvent, ReadKey
<1>2. /\ prog["acpi"] = <<>> /\ prog' = [prog EXCEPT !["acpi"] = ReadKey] /\ arg' = [arg EXCEPT !["acpi"] = FALSE]
      /\ light' = light /\ backlightLevelSaved' = backlightLevelSaved /\ backlightLevel' = backlightLevel
      /\ onYogaMode' = onYogaMode /\ val' = val
  BY <1>1 DEF Begin, driver, machine
<1>3. /\ prog'["acpi"] = ReadKey /\ prog'["acpi"] # <<>> /\ Head(prog'["acpi"])[1] = "getKeyboard"
      /\ \A u \in Threads \ {"acpi"} : prog'[u] = prog[u] /\ arg'[u] = arg[u]
  BY <1>2, FoldPrograms DEF Turns, TypeOK, Threads
<1>4. Dark("acpi")'
  BY <1>3 DEF On, Dark
<1>5. Alone /\ (IF fold = "laptop" THEN Back ELSE Away)
  BY <1>1, <1>2 DEF Folding
<1>6. Alone'
  BY <1>3, <1>5 DEF Alone, Threads
<1>7. prog'["wmi"] = prog["wmi"] /\ arg'["wmi"] = arg["wmi"]
  BY <1>3 DEF Threads
<1>8. CASE fold = "laptop"
  <2>1. Back'
    BY <1>1, <1>2, <1>4, <1>5, <1>7, <1>8 DEF Back, Dark, On, Of
  <2>. QED
    BY <2>1, <1>1, <1>6, <1>8 DEF Restores
<1>9. CASE fold # "laptop"
  <2>1. prog["wmi"] = <<>> /\ light = 0 /\ (backlightLevelSaved > 0 <=> before)
    BY <1>1, <1>5, <1>9 DEF Away
  <2>2. Away'
    BY <2>1, <1>1, <1>2, <1>4, <1>7 DEF Away
  <2>. QED
    BY <2>2, <1>1, <1>6, <1>9 DEF Restores
<1>. QED
  BY <1>8, <1>9

LEMMA FoldingStays ==
  ASSUME Folding, UNCHANGED <<firmware, onYogaMode, backlightLevel, backlightLevelSaved, prog, arg, val, calm, before>>
  PROVE  Folding'
  BY DEF firmware, Folding, Alone, Away, Back, Dark, On, Of

FoldingInv == KeptInv /\ Folding

LEMMA FoldingNext == FoldingInv /\ [Next]_vars => FoldingInv'
<1> SUFFICES ASSUME FoldingInv, [Next]_vars PROVE FoldingInv'
  OBVIOUS
<1>1. KeptInv'
  BY KeptNext DEF FoldingInv
<1>2. TypeOK /\ Apart /\ Folding
  BY DEF FoldingInv, KeptInv
<1>3. ASSUME Outside PROVE Folding'
  <2>1. (\E f \in Modes, x \in BOOLEAN : Request(f, x)) \/ (\E x \in BOOLEAN : BDVT(x)) \/ Update \/ FnlockEvent \/ KeyPress => calm' = FALSE
    BY DEF Request, BDVT, Update, FnlockEvent, KeyPress
  <2>2. calm' = FALSE => Folding'
    BY DEF Folding
  <2>3. ASSUME NEW f \in Folds, YogaEvent(f) PROVE Folding'
    BY <2>3, <1>2, FoldingBegins
  <2>4. KeyboardEvent => Folding'
    BY <1>2, FoldingMeanwhile
  <2>5. ASSUME SetLock PROVE Folding'
    <3>1. UNCHANGED <<firmware, onYogaMode, backlightLevel, backlightLevelSaved, prog, arg, val, calm, before>>
      BY <2>5 DEF SetLock, machine
    <3>. QED
      BY <3>1, <1>2, FoldingStays
  <2>. QED
    BY <2>1, <2>2, <2>3, <2>4, <2>5, <1>3, Zenon DEF Outside
<1>4. ASSUME NEW t \in Threads, Step(t) PROVE Folding'
  BY <1>2, <1>4, FoldingSteps
<1>5. ASSUME UNCHANGED vars PROVE Folding'
  <2>1. UNCHANGED <<firmware, onYogaMode, backlightLevel, backlightLevelSaved, prog, arg, val, calm, before>>
    BY <1>5 DEF vars, driver, machine, history
  <2>. QED
    BY <2>1, <1>2, FoldingStays
<1>6. Folding'
  BY <1>3, <1>4, <1>5, Zenon DEF Next, Rest
<1>. QED
  BY <1>1, <1>6 DEF FoldingInv

(* YogaRestores: the keyboard of a laptop that has been folded is dark,    *)
(* and after the fold back it is lit if it was before; for a fold and the  *)
(* one back between which nothing else is asked and nothing fails.  What a *)
(* second fold before the laptop position leaves is not claimed.           *)
THEOREM LightIsRestored == Spec => []YogaRestores
<1>1. Init => FoldingInv
  BY KeptInit DEF FoldingInv, Init, Folding
<1>2. FoldingInv => YogaRestores
  <2> SUFFICES ASSUME FoldingInv, Quiet, calm, onYogaMode PROVE (light > 0) = (fold = "laptop" /\ before)
    BY DEF YogaRestores
  <2>1. prog["wmi"] = <<>> /\ TypeOK /\ IF fold = "laptop" THEN Back ELSE Away
    BY DEF FoldingInv, KeptInv, Folding, Quiet, Threads
  <2>2. (light > 0) <=> (fold = "laptop" /\ before)
    BY <2>1 DEF Back, Away
  <2>3. (light > 0) \in BOOLEAN /\ (fold = "laptop" /\ before) \in BOOLEAN
    BY <2>1 DEF TypeOK
  <2>. QED
    BY <2>2, <2>3
<1>. QED
  BY <1>1, <1>2, FoldingNext, PTL DEF Spec

=============================================================================
