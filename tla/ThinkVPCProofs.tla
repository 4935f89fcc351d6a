--------------------------- MODULE ThinkVPCProofs ---------------------------
(***************************************************************************)
(* For any scenes, lights, and number of requests, events and failures:    *)
(* each event of the firmware is handled and answered once, and the Fn     *)
(* lock, the lights of a sleeping machine and the keyboard and touchpad of *)
(* a folded one are what they should be.                                   *)
(***************************************************************************)
EXTENDS ThinkVPC, FiniteSetTheorems, SequenceTheorems, TLAPS

Steps ==
  {"take", "answer", "notify", "clamshell", "getKbd", "setKbd", "readFold", "topKbd", "topTpd",
   "readClam", "setClam", "readFn", "keepFn", "setFn", "keepSetFn", "setMic", "keepMic", "readMute",
   "setMute", "sst", "saveMute", "saveMic", "restoreMute", "restoreMic", "asleep", "awake"}

(* Steps that come in pairs: what the first has found or set, the second   *)
(* keeps or passes on, so that one step may skip both.                     *)
Firsts == {"readFn", "setFn", "setMic", "readFold", "topKbd"}
Seconds == {"keepFn", "keepSetFn", "keepMic", "topKbd", "topTpd"}
Adjacent(a, b) ==
  /\ a = "readFn" <=> b = "keepFn"
  /\ a = "setFn" <=> b = "keepSetFn"
  /\ a = "setMic" <=> b = "keepMic"
  /\ a = "readFold" <=> b = "topKbd"
  /\ a = "topKbd" <=> b = "topTpd"
  /\ a \in {"answer", "clamshell"} => b = "notify"

(* What a program does not do again once it has come to a step.            *)
Over(a) ==
  CASE a = "take" -> {"take", "answer", "notify", "clamshell", "getKbd", "setKbd", "setClam"}
    [] a = "answer" -> {"answer"}
    [] a = "notify" -> {"answer", "notify"}
    [] a = "topTpd" -> {"take", "getKbd", "setKbd", "setClam"}
    [] OTHER -> {}

Holds(p, s) == \E i \in DOMAIN p : p[i] = s
Has(t, s) == Holds(prog[t], s)

Program(p) ==
  /\ p \in Seq(Steps)
  /\ \A i \in 1 .. Len(p) - 1 : Adjacent(p[i], p[i + 1])
  /\ p # <<>> => p[Len(p)] \notin Firsts \cup {"answer", "clamshell"}
  /\ \A i, j \in 1 .. Len(p) : i < j => p[j] \notin Over(p[i])

DataOK ==
  /\ events \in Seq(Events) /\ pending \in Nat /\ fold \in Folds
  /\ fnHw \in BOOLEAN /\ clamHw \in BOOLEAN /\ muteHw \in BOOLEAN /\ micHw \in BOOLEAN
  /\ kbd \in BOOLEAN /\ tpd \in BOOLEAN
  /\ FnlockMode \in BOOLEAN /\ clamshellMode \in BOOLEAN /\ tabletLike \in BOOLEAN
  /\ muteLEDstate \in BOOLEAN /\ muteLEDstateSaved \in BOOLEAN
  /\ micMuteLEDstate \in BOOLEAN /\ micMuteLEDstateSaved \in BOOLEAN
  /\ subscribed \in BOOLEAN
  /\ event \in [Threads -> Events] /\ arg \in [Threads -> BOOLEAN] /\ val \in [Threads -> BOOLEAN]
  /\ faults \in Nat
  /\ answers \in [Threads -> Nat] /\ steady \in [Threads -> BOOLEAN]
  /\ calm \in BOOLEAN /\ settled \in {"no", "alone", "reading"}
  /\ before \in [mic : BOOLEAN, mute : BOOLEAN, known : BOOLEAN]

ProgramsOK == DOMAIN prog = Threads /\ \A t \in Threads : Program(prog[t])

TypeOK == DataOK /\ ProgramsOK

(* How often a key has been answered at each step of its handler.          *)
Answered(t) ==
  /\ Has(t, "clamshell") => event[t] = "tablet"
  /\ steady[t] /\ event[t] \in {"mic", "sleep"} =>
       answers[t] = IF Has(t, "answer") \/ (Has(t, "notify") /\ subscribed) THEN 0 ELSE 1
AnswerInv == \A t \in Threads : Answered(t)

(* The Fn lock: a thread that keeps what it has found or set is the only   *)
(* one, and what it keeps is true, or somebody will still read it.         *)
KeepsFn(t) == On(t, "keepFn") \/ On(t, "keepSetFn")
FnComes == (\E i \in DOMAIN events : events[i] = "fnEsc") \/ \E t \in Threads : Has(t, "readFn")
FnKnown ==
  /\ \A t \in Threads : KeepsFn(t) => (val[t] <=> fnHw)
  /\ (\A t \in Threads : ~KeepsFn(t)) => (FnlockMode <=> fnHw)
FnInv == faults = 0 /\ "fn" \notin raced =>
  /\ \A t, u \in Threads : KeepsFn(t) /\ KeepsFn(u) => t = u
  /\ FnComes \/ FnKnown

(* The same of the microphone's light, which the driver only sets.         *)
KeepsMic(t) == On(t, "keepMic")
MicInv == "mic" \notin raced =>
  /\ \A t, u \in Threads : KeepsMic(t) /\ KeepsMic(u) => t = u
  /\ \A t \in Threads : KeepsMic(t) => (arg[t] <=> micHw)
  /\ (\A t \in Threads : ~KeepsMic(t)) => (micMuteLEDstate <=> micHw)

(* The lights in the course of a sleep and of the wake after it.           *)
Shows(light) == "sst" \in auto => sstHw = light
KnownMute == "mute" \in auto /\ before.known
MuteSaved == KnownMute => (muteLEDstateSaved <=> before.mute)
MicSaved == "mic" \in auto => (micMuteLEDstateSaved <=> before.mic)
MuteOff == MuteSaved /\ (KnownMute => ~muteHw)
MicOff == MicSaved /\ ("mic" \in auto => ~micHw)
MuteBack == KnownMute => (muteHw <=> before.mute)
MicBack == "mic" \in auto => (micHw <=> before.mic)

Falling(p) ==
  \/ p = <<"sst", "saveMute", "saveMic", "asleep">> /\ MuteBack /\ MicBack
  \/ /\ Shows("falling")
     /\ \/ p = <<"saveMute", "saveMic", "asleep">> /\ MuteBack /\ MicBack
        \/ p = <<"setMute", "saveMic", "asleep">> /\ ~arg["pm"] /\ MuteSaved /\ MicBack
        \/ p = <<"saveMic", "asleep">> /\ MuteOff /\ MicBack
        \/ p = <<"setMic", "keepMic", "asleep">> /\ ~arg["pm"] /\ MuteOff /\ MicSaved
        \/ p = <<"keepMic", "asleep">> /\ MuteOff /\ MicOff
        \/ p = <<"asleep">> /\ MuteOff /\ MicOff

Rising(p) ==
  \/ p = <<"sst", "restoreMute", "restoreMic", "awake">> /\ MuteOff /\ MicOff
  \/ /\ Shows("rising")
     /\ \/ p = <<"restoreMute", "restoreMic", "awake">> /\ MuteOff /\ MicOff
        \/ p = <<"setMute", "restoreMic", "awake">> /\ arg["pm"] /\ (KnownMute => before.mute) /\ MicOff
        \/ p = <<"restoreMic", "awake">> /\ MuteBack /\ MicOff
        \/ p = <<"setMic", "keepMic", "awake">> /\ arg["pm"] /\ MuteBack /\ ("mic" \in auto => before.mic)
        \/ p = <<"keepMic", "awake">> /\ MuteBack /\ MicBack
        \/ p = <<"awake">> /\ MuteBack /\ MicBack

LightInv == calm =>
  /\ Idle("acpi") /\ Idle("gate") /\ "mic" \notin raced
  /\ KnownMute => (muteLEDstate <=> before.mute)
  /\ \/ power = "falling" /\ Falling(prog["pm"])
     \/ power = "off" /\ Idle("pm") /\ Shows("falling") /\ MuteOff /\ MicOff
     \/ power = "rising" /\ Rising(prog["pm"])
     \/ power = "on" /\ Idle("pm") /\ Shows("rising") /\ MuteBack /\ MicBack

(* A request or event that is alone: what it has found of the fold, and    *)
(* what it does no more once it has told keyboard and touchpad.            *)
React == fold # "tablet" \/ clamshellMode
Folding(t) ==
  /\ On(t, "topKbd") => (val[t] <=> fold = "tablet")
  /\ On(t, "topTpd") => (arg[t] <=> React) /\ (kbd <=> React)
FoldInv == settled # "no" =>
  /\ \A t, u \in Threads : ~Idle(t) /\ ~Idle(u) => t = u
  /\ \A t \in Threads : Folding(t)
  /\ settled = "reading" =>
       /\ clamshellMode <=> clamHw
       /\ (kbd <=> React) /\ (tpd <=> React)
       /\ \A t \in Threads : \A s \in Over("topTpd") : ~Has(t, s)

VPCInv == /\ TypeOK /\ EventsAreAnnounced /\ AnswerInv
          /\ FnInv /\ MicInv /\ LightInv /\ FoldInv

-----------------------------------------------------------------------------
(* Programs. *)

USE DEF Threads

LEMMA OverOnce == \A a \in Steps : Over(a) \subseteq Over("take")
  BY DEF Steps, Over

(* What is left after a step is a program.                                 *)
LEMMA RestOfProgram ==
  ASSUME NEW p, Program(p), p # <<>>
  PROVE  /\ Program(Tail(p)) /\ Head(p) \in Steps
         /\ \A s : Holds(p, s) <=> s = Head(p) \/ Holds(Tail(p), s)
         /\ \A s \in Over(Head(p)) : ~Holds(Tail(p), s)
         /\ Tail(p) # <<>> => Adjacent(Head(p), Head(Tail(p)))
         /\ Head(p) \in Firsts \cup {"answer", "clamshell"} => Tail(p) # <<>>
<1>. DEFINE q == Tail(p)
<1>1. /\ p \in Seq(Steps) /\ q \in Seq(Steps) /\ Len(p) \in Nat \ {0} /\ Len(q) = Len(p) - 1
      /\ DOMAIN p = 1 .. Len(p) /\ DOMAIN q = 1 .. Len(q)
      /\ Head(p) = p[1] /\ \A i \in 1 .. Len(q) : q[i] = p[i + 1]
  BY DEF Program
<1>2. /\ \A i \in 1 .. Len(p) - 1 : Adjacent(p[i], p[i + 1])
      /\ p[Len(p)] \notin Firsts \cup {"answer", "clamshell"}
      /\ \A i, j \in 1 .. Len(p) : i < j => p[j] \notin Over(p[i])
  BY DEF Program
<1>. HIDE DEF q
<1>3. Program(q)
  <2>1. \A i \in 1 .. Len(q) - 1 : Adjacent(q[i], q[i + 1])
    <3>. SUFFICES ASSUME NEW i \in 1 .. Len(q) - 1  PROVE  Adjacent(q[i], q[i + 1])
      OBVIOUS
    <3>1. i + 1 \in 1 .. Len(p) - 1 /\ q[i] = p[i + 1] /\ q[i + 1] = p[(i + 1) + 1]
      BY <1>1
    <3>. QED  BY <1>2, <3>1
  <2>2. q # <<>> => q[Len(q)] \notin Firsts \cup {"answer", "clamshell"}
    <3>1. q # <<>> => Len(q) \in 1 .. Len(q) /\ Len(q) + 1 = Len(p)
      BY <1>1
    <3>. QED  BY <1>1, <1>2, <3>1
  <2>3. \A i, j \in 1 .. Len(q) : i < j => q[j] \notin Over(q[i])
    <3>. SUFFICES ASSUME NEW i \in 1 .. Len(q), NEW j \in 1 .. Len(q), i < j
                  PROVE  q[j] \notin Over(q[i])
      OBVIOUS
    <3>1. i + 1 \in 1 .. Len(p) /\ j + 1 \in 1 .. Len(p) /\ i + 1 < j + 1
      BY <1>1
    <3>. QED  BY <1>1, <1>2, <3>1
  <2>. QED  BY <1>1, <2>1, <2>2, <2>3 DEF Program
<1>4. ASSUME NEW s  PROVE Holds(p, s) <=> s = Head(p) \/ Holds(q, s)
  <2>1. ASSUME NEW i \in DOMAIN p, p[i] = s, i # 1  PROVE Holds(q, s)
    <3>1. i - 1 \in DOMAIN q /\ q[i - 1] = s
      BY <1>1, <2>1
    <3>. QED  BY <3>1 DEF Holds
  <2>2. ASSUME NEW i \in DOMAIN q, q[i] = s  PROVE Holds(p, s)
    <3>1. i + 1 \in DOMAIN p /\ p[i + 1] = s
      BY <1>1, <2>2
    <3>. QED  BY <3>1 DEF Holds
  <2>3. 1 \in DOMAIN p
    BY <1>1
  <2>. QED  BY <1>1, <2>1, <2>2, <2>3 DEF Holds
<1>5. ASSUME NEW s \in Over(Head(p))  PROVE ~Holds(q, s)
  <2>1. ASSUME NEW i \in DOMAIN q  PROVE q[i] # s
    <3>1. i + 1 \in 1 .. Len(p) /\ 1 \in 1 .. Len(p) /\ 1 < i + 1 /\ q[i] = p[i + 1]
      BY <1>1
    <3>. QED  BY <1>1, <1>2, <3>1
  <2>. QED  BY <2>1 DEF Holds
<1>6. q # <<>> => Adjacent(Head(p), Head(q))
  <2>. SUFFICES ASSUME q # <<>>  PROVE Adjacent(Head(p), Head(q))
    OBVIOUS
  <2>1. 1 \in 1 .. Len(p) - 1 /\ Head(q) = p[1 + 1]
    BY <1>1
  <2>. QED  BY <1>1, <1>2, <2>1
<1>7. Head(p) \in Firsts \cup {"answer", "clamshell"} => q # <<>>
  <2>1. q = <<>> => Len(p) = 1
    BY <1>1
  <2>. QED  BY <1>1, <1>2, <2>1
<1>. QED  BY <1>1, <1>3, <1>4, <1>5, <1>6, <1>7 DEF q

(* One program before another.                                             *)
LEMMA JoinedPrograms ==
  ASSUME NEW a, NEW q, Program(a), Program(q), a # <<>>,
         q # <<>> => Head(q) \notin Seconds, a[Len(a)] \notin {"answer", "clamshell"},
         \A s \in Over("take") : Holds(q, s) => \A r \in Steps : Holds(a, r) => s \notin Over(r)
  PROVE  /\ Program(a \o q) /\ a \o q # <<>> /\ Head(a \o q) = Head(a)
         /\ \A s : Holds(a \o q, s) <=> Holds(a, s) \/ Holds(q, s)
<1>. DEFINE p == a \o q
            m == Len(a)
            n == Len(q)
<1>1. /\ a \in Seq(Steps) /\ q \in Seq(Steps) /\ p \in Seq(Steps)
      /\ m \in Nat \ {0} /\ n \in Nat /\ Len(p) = m + n
      /\ DOMAIN a = 1 .. m /\ DOMAIN q = 1 .. n /\ DOMAIN p = 1 .. (m + n)
      /\ \A i \in 1 .. (m + n) : p[i] = IF i <= m THEN a[i] ELSE q[i - m]
  BY DEF Program
<1>2. /\ \A i \in 1 .. m : p[i] = a[i]
      /\ \A i \in 1 .. n : p[i + m] = q[i]
      /\ \A i \in 1 .. (m + n) : i \in 1 .. m \/ (i - m \in 1 .. n /\ p[i] = q[i - m])
  BY <1>1
<1>3. \A i \in 1 .. m : a[i] \in Steps
  BY <1>1
<1>. HIDE DEF p, m, n
<1>4. p # <<>> /\ Head(p) = Head(a)
  <2>1. Head(p) = p[1] /\ Head(a) = a[1] /\ 1 \in 1 .. m
    BY <1>1 DEF p, m
  <2>. QED  BY <1>1, <1>2, <2>1
<1>5. ASSUME NEW s  PROVE Holds(p, s) <=> Holds(a, s) \/ Holds(q, s)
  <2>1. ASSUME NEW i \in 1 .. m, a[i] = s  PROVE Holds(p, s)
    <3>1. i \in 1 .. (m + n) /\ p[i] = s
      BY <1>1, <1>2, <2>1
    <3>. QED  BY <1>1, <3>1 DEF Holds
  <2>2. ASSUME NEW i \in 1 .. n, q[i] = s  PROVE Holds(p, s)
    <3>1. i + m \in 1 .. (m + n) /\ p[i + m] = s
      BY <1>1, <1>2, <2>2
    <3>. QED  BY <1>1, <3>1 DEF Holds
  <2>3. ASSUME NEW i \in 1 .. (m + n), p[i] = s  PROVE Holds(a, s) \/ Holds(q, s)
    <3>1. CASE i \in 1 .. m
      BY <1>1, <1>2, <2>3, <3>1 DEF Holds
    <3>2. CASE i \notin 1 .. m
      <4>1. i - m \in 1 .. n /\ q[i - m] = s
        BY <1>2, <2>3, <3>2
      <4>. QED  BY <1>1, <4>1 DEF Holds
    <3>. QED  BY <3>1, <3>2
  <2>. QED  BY <1>1, <2>1, <2>2, <2>3 DEF Holds
<1>6. \A i \in 1 .. Len(p) - 1 : Adjacent(p[i], p[i + 1])
  <2>. SUFFICES ASSUME NEW i \in 1 .. m + n - 1  PROVE Adjacent(p[i], p[i + 1])
    BY <1>1
  <2>1. CASE i < m
    <3>1. i \in 1 .. Len(a) - 1 /\ i \in 1 .. m /\ i + 1 \in 1 .. m
      BY <1>1, <2>1 DEF m
    <3>. QED  BY <1>2, <3>1 DEF Program
  <2>2. CASE i = m
    <3>1. i \in 1 .. m /\ i = Len(a) /\ 1 \in 1 .. n /\ i + 1 = 1 + m
      BY <1>1, <2>2 DEF m
    <3>2. q # <<>> /\ Head(q) = q[1]
      BY <1>1, <3>1 DEF n
    <3>3. a[i] \notin Firsts \cup {"answer", "clamshell"}
      BY <3>1 DEF Program
    <3>4. p[i] = a[i] /\ p[i + 1] = Head(q) /\ Head(q) \notin Seconds
      BY <1>2, <3>1, <3>2
    <3>. QED  BY <3>3, <3>4 DEF Adjacent, Firsts, Seconds
  <2>3. CASE i > m
    <3>1. i - m \in 1 .. Len(q) - 1 /\ i - m \in 1 .. n /\ (i - m) + 1 \in 1 .. n
      BY <1>1, <2>3 DEF n
    <3>2. (i - m) + m = i /\ ((i - m) + 1) + m = i + 1
      BY <1>1
    <3>. QED  BY <1>2, <3>1, <3>2 DEF Program
  <2>. QED  BY <1>1, <2>1, <2>2, <2>3
<1>7. p[Len(p)] \notin Firsts \cup {"answer", "clamshell"}
  <2>1. CASE q = <<>>
    <3>1. n = 0 /\ m \in 1 .. m /\ m + n = m
      BY <1>1, <2>1 DEF n
    <3>. QED  BY <1>1, <1>2, <3>1 DEF Program, m
  <2>2. CASE q # <<>>
    <3>1. n \in 1 .. n
      BY <1>1, <2>2 DEF n
    <3>2. p[n + m] = q[Len(q)] /\ n + m = m + n
      BY <1>1, <1>2, <3>1 DEF n
    <3>. QED  BY <1>1, <2>2, <3>2 DEF Program
  <2>. QED  BY <2>1, <2>2
<1>8. \A i, j \in 1 .. Len(p) : i < j => p[j] \notin Over(p[i])
  <2>. SUFFICES ASSUME NEW i \in 1 .. (m + n), NEW j \in 1 .. (m + n), i < j
                PROVE  p[j] \notin Over(p[i])
    BY <1>1
  <2>1. CASE j <= m
    <3>1. i \in 1 .. Len(a) /\ j \in 1 .. Len(a) /\ i \in 1 .. m /\ j \in 1 .. m
      BY <1>1, <2>1 DEF m
    <3>. QED  BY <1>2, <3>1 DEF Program
  <2>2. CASE i <= m /\ j > m
    <3>1. i \in 1 .. m /\ j - m \in 1 .. n
      BY <1>1, <2>2
    <3>2. p[i] = a[i] /\ a[i] \in Steps /\ Holds(a, a[i]) /\ p[j] = q[j - m] /\ Holds(q, q[j - m])
      <4>1. p[j] = q[j - m]
        BY <1>1, <1>2, <2>2
      <4>. QED  BY <1>1, <1>2, <1>3, <3>1, <4>1 DEF Holds
    <3>. QED  BY <3>2, OverOnce
  <2>3. CASE i > m
    <3>1. /\ i - m \in 1 .. Len(q) /\ j - m \in 1 .. Len(q) /\ i - m < j - m
          /\ p[i] = q[i - m] /\ p[j] = q[j - m]
      BY <1>1, <1>2, <2>3 DEF n
    <3>. QED  BY <3>1 DEF Program
  <2>. QED  BY <1>1, <2>1, <2>2, <2>3
<1>. QED  BY <1>1, <1>4, <1>5, <1>6, <1>7, <1>8 DEF Program, p

(* The programs that are put together: what each request, event or light   *)
(* begins with.                                                            *)
Openings ==
  {<<"take">>, <<"setMute">>, <<"setMic", "keepMic">>, <<"readFn", "keepFn", "setFn", "keepSetFn">>,
   <<"readClam", "setClam">>, updateAll, <<"sst", "saveMute", "saveMic", "asleep">>,
   <<"sst", "restoreMute", "restoreMic", "awake">>}

LEMMA OpeningPrograms ==
  ASSUME NEW p \in Openings
  PROVE  /\ Program(p) /\ p # <<>> /\ Head(p) \notin Seconds
         /\ \A s \in {"answer", "notify", "clamshell"} : ~Holds(p, s)
<1>1. CASE p = <<"take">>
  BY <1>1 DEF Program, Adjacent, Over, Firsts, Seconds, Steps, Holds
<1>2. CASE p = <<"setMute">>
  BY <1>2 DEF Program, Adjacent, Over, Firsts, Seconds, Steps, Holds
<1>3. CASE p = <<"setMic", "keepMic">>
  BY <1>3 DEF Program, Adjacent, Over, Firsts, Seconds, Steps, Holds
<1>4. CASE p = <<"readFn", "keepFn", "setFn", "keepSetFn">>
  BY <1>4 DEF Program, Adjacent, Over, Firsts, Seconds, Steps, Holds
<1>5. CASE p = <<"readClam", "setClam">>
  BY <1>5 DEF Program, Adjacent, Over, Firsts, Seconds, Steps, Holds
<1>6. CASE p = updateAll
  BY <1>6 DEF Program, Adjacent, Over, Firsts, Seconds, Steps, Holds, updateAll
<1>7. CASE p = <<"sst", "saveMute", "saveMic", "asleep">>
  BY <1>7 DEF Program, Adjacent, Over, Firsts, Seconds, Steps, Holds
<1>8. CASE p = <<"sst", "restoreMute", "restoreMic", "awake">>
  BY <1>8 DEF Program, Adjacent, Over, Firsts, Seconds, Steps, Holds
<1>. QED  BY <1>1, <1>2, <1>3, <1>4, <1>5, <1>6, <1>7, <1>8 DEF Openings

Handled(h) ==
  /\ Program(h) /\ h # <<>> /\ h[Len(h)] = "notify" /\ Head(h) \notin Seconds
  /\ ~Holds(h, "take") /\ Holds(h, "notify")

LEMMA HandlerPrograms ==
  ASSUME NEW e \in Events
  PROVE  /\ Handled(Handler(e))
         /\ Holds(Handler(e), "answer") <=> e \in {"mic", "sleep"}
         /\ Holds(Handler(e), "clamshell") <=> e = "tablet"
         /\ e = "fnEsc" => Holds(Handler(e), "readFn")
<1>1. CASE e \in {"mic", "sleep"}
  <2>1. Handler(e) = <<"answer", "notify">>
    BY <1>1 DEF Handler
  <2>2. Handled(<<"answer", "notify">>)
    BY DEF Handled, Program, Adjacent, Over, Firsts, Seconds, Steps, Holds
  <2>3. LET h == <<"answer", "notify">> IN
        Holds(h, "answer") /\ ~Holds(h, "clamshell") /\ ~Holds(h, "readFn")
    BY DEF Holds
  <2>. QED  BY <1>1, <2>1, <2>2, <2>3
<1>2. CASE e = "keyboard"
  <2>1. Handler(e) = <<"getKbd", "setKbd", "notify">>
    BY <1>2 DEF Handler
  <2>2. Handled(<<"getKbd", "setKbd", "notify">>)
    BY DEF Handled, Program, Adjacent, Over, Firsts, Seconds, Steps, Holds
  <2>3. LET h == <<"getKbd", "setKbd", "notify">> IN
        ~Holds(h, "answer") /\ ~Holds(h, "clamshell") /\ ~Holds(h, "readFn")
    BY DEF Holds
  <2>. QED  BY <1>2, <2>1, <2>2, <2>3
<1>3. CASE e = "fnEsc"
  <2>1. Handler(e) = <<"readFn", "keepFn", "notify">>
    BY <1>3 DEF Handler
  <2>2. Handled(<<"readFn", "keepFn", "notify">>)
    BY DEF Handled, Program, Adjacent, Over, Firsts, Seconds, Steps, Holds
  <2>3. LET h == <<"readFn", "keepFn", "notify">> IN
        ~Holds(h, "answer") /\ ~Holds(h, "clamshell") /\ Holds(h, "readFn")
    BY DEF Holds
  <2>. QED  BY <1>3, <2>1, <2>2, <2>3
<1>4. CASE e = "tablet"
  <2>1. Handler(e) = <<"readFold", "topKbd", "topTpd", "clamshell", "notify">>
    BY <1>4 DEF Handler
  <2>2. Handled(<<"readFold", "topKbd", "topTpd", "clamshell", "notify">>)
    BY DEF Handled, Program, Adjacent, Over, Firsts, Seconds, Steps, Holds
  <2>3. LET h == <<"readFold", "topKbd", "topTpd", "clamshell", "notify">> IN
        ~Holds(h, "answer") /\ Holds(h, "clamshell") /\ ~Holds(h, "readFn")
    BY DEF Holds
  <2>. QED  BY <1>4, <2>1, <2>2, <2>3
<1>5. CASE e = "other"
  <2>1. Handler(e) = <<"notify">>
    BY <1>5 DEF Handler
  <2>2. Handled(<<"notify">>)
    BY DEF Handled, Program, Adjacent, Over, Firsts, Seconds, Steps, Holds
  <2>3. LET h == <<"notify">> IN
        ~Holds(h, "answer") /\ ~Holds(h, "clamshell") /\ ~Holds(h, "readFn")
    BY DEF Holds
  <2>. QED  BY <1>5, <2>1, <2>2, <2>3
<1>. QED  BY <1>1, <1>2, <1>3, <1>4, <1>5 DEF Events

-----------------------------------------------------------------------------
(* What a step does to its thread's program: it goes on with less of it,   *)
(* or with something put in front of what is left.                         *)
Goes(t) == /\ DOMAIN prog' = Threads /\ Program(prog'[t])
           /\ \A u \in Threads \ {t} : prog'[u] = prog[u]

Starts(t) == \A s \in Seconds : ~On(t, s)'

Drops(t, h) ==
  /\ Goes(t)
  /\ \A s \in Over("take") : Has(t, s)' => Has(t, s)
  /\ \A s : Has(t, s) /\ s \notin Seconds \cup {h} /\ ~(h = "clamshell" /\ s = "notify") => Has(t, s)'
  /\ \A s \in Over(h) : ~Has(t, s)'

LEMMA OnHas ==
  ASSUME ProgramsOK, NEW t \in Threads, NEW h, On(t, h)
  PROVE  Has(t, h) /\ ~Idle(t) /\ h \in Steps
<1>1. Program(prog[t]) /\ prog[t] # <<>> /\ Head(prog[t]) = h
  BY DEF ProgramsOK, On
<1>. QED  BY <1>1, RestOfProgram DEF Has, Idle

LEMMA AdvanceDrops ==
  ASSUME ProgramsOK, NEW t \in Threads, NEW h, On(t, h), Advance(t)
  PROVE  /\ Drops(t, h) /\ (h \notin Firsts => Starts(t))
         /\ prog'[t] = Tail(prog[t])
         /\ h \in Firsts \cup {"answer", "clamshell"} => prog'[t] # <<>> /\ Adjacent(h, Head(prog'[t]))
<1>. DEFINE p == prog[t]
<1>1. Program(p) /\ p # <<>> /\ Head(p) = h
  BY DEF ProgramsOK, On
<1>2. prog'[t] = Tail(p) /\ DOMAIN prog' = Threads /\ \A u \in Threads \ {t} : prog'[u] = prog[u]
  BY DEF Advance, ProgramsOK
<1>. HIDE DEF p
<1>3. Goes(t)
  BY <1>1, <1>2, RestOfProgram DEF Goes
<1>4. Drops(t, h)
  BY <1>1, <1>2, <1>3, RestOfProgram DEF Drops, Has, p
<1>5. prog'[t] # <<>> => Adjacent(h, Head(prog'[t]))
  BY <1>1, <1>2, RestOfProgram
<1>6. h \in Firsts \cup {"answer", "clamshell"} => prog'[t] # <<>>
  BY <1>1, <1>2, RestOfProgram
<1>7. h \notin Firsts => Starts(t)
  BY <1>5 DEF Starts, On, Adjacent, Firsts, Seconds
<1>. QED  BY <1>2, <1>4, <1>5, <1>6, <1>7 DEF p

LEMMA TailOfTails ==
  ASSUME NEW S, NEW p \in Seq(S), Len(p) >= 3
  PROVE  Tail(Tail(Tail(p))) = SubSeq(p, 4, Len(p))
<1>1. Tail(Tail(p)) = SubSeq(p, 3, Len(p))
  OBVIOUS
<1>2. Tail(SubSeq(p, 3, Len(p))) = SubSeq(p, 4, Len(p))
  OBVIOUS
<1>. QED  BY <1>1, <1>2

LEMMA SkipDrops ==
  ASSUME ProgramsOK, NEW t \in Threads, NEW h, NEW n,
         On(t, h), Skip(t, n),
         \/ h \in {"readFn", "setFn", "setMic", "clamshell"} /\ n = 2
         \/ h = "readFold" /\ n = 3
  PROVE  Drops(t, h) /\ Starts(t)
<1>. DEFINE p == prog[t]
            q == Tail(p)
            r == Tail(q)
<1>1. Program(p) /\ p # <<>> /\ Head(p) = h
  BY DEF ProgramsOK, On
<1>2. prog'[t] = SubSeq(p, n + 1, Len(p)) /\ DOMAIN prog' = Threads
      /\ \A u \in Threads \ {t} : prog'[u] = prog[u]
  BY DEF Skip, ProgramsOK
<1>3. h \in Firsts \cup {"clamshell"}
  BY DEF Firsts
<1>. HIDE DEF p, q, r
<1>4. /\ Program(q) /\ q # <<>> /\ Adjacent(h, Head(q))
      /\ \A s : Holds(p, s) <=> s = h \/ Holds(q, s)
      /\ \A s \in Over(h) : ~Holds(q, s)
  BY <1>1, <1>3, RestOfProgram DEF q
<1>5. /\ Program(r) /\ (r # <<>> => Adjacent(Head(q), Head(r)))
      /\ \A s : Holds(q, s) <=> s = Head(q) \/ Holds(r, s)
      /\ Head(q) \in Firsts => r # <<>>
  BY <1>4, RestOfProgram DEF r
<1>6. IF h = "clamshell" THEN Head(q) = "notify" ELSE Head(q) \in Seconds
  BY <1>4 DEF Adjacent, Seconds
<1>7. CASE n = 2
  <2>1. prog'[t] = r
    <3>1. Len(p) >= 2
      BY <1>1, <1>4 DEF Program, q
    <3>. QED  BY <1>1, <1>2, <1>7, <3>1 DEF Program, q, r
  <2>2. Head(q) \notin Firsts
    BY <1>4, <1>7 DEF Adjacent, Firsts
  <2>3. Goes(t)
    BY <1>2, <1>5, <2>1 DEF Goes
  <2>4. Drops(t, h)
    BY <1>4, <1>5, <1>6, <2>1, <2>3 DEF Drops, Has, p
  <2>5. Starts(t)
    BY <1>5, <2>1, <2>2 DEF Starts, On, Adjacent, Firsts, Seconds
  <2>. QED  BY <2>4, <2>5
<1>8. CASE n = 3
  <2>. DEFINE x == Tail(r)
  <2>1. h = "readFold" /\ Head(q) = "topKbd" /\ r # <<>> /\ Head(r) = "topTpd"
    BY <1>4, <1>5, <1>8 DEF Adjacent, Firsts
  <2>. HIDE DEF x
  <2>2. /\ Program(x) /\ (x # <<>> => Adjacent("topTpd", Head(x)))
        /\ \A s : Holds(r, s) <=> s = "topTpd" \/ Holds(x, s)
    BY <1>5, <2>1, RestOfProgram DEF x
  <2>3. prog'[t] = x
    <3>1. Len(p) >= 3
      BY <1>1, <1>4, <1>5, <2>1 DEF Program, q, r
    <3>2. q \in Seq(Steps) /\ Len(q) >= 2 /\ p \in Seq(Steps)
      BY <1>1, <3>1 DEF Program, q
    <3>3. prog'[t] = SubSeq(p, 4, Len(p))
      BY <1>2, <1>8
    <3>. QED  BY <3>1, <3>2, <3>3, TailOfTails DEF q, r, x
  <2>4. Goes(t)
    BY <1>2, <2>2, <2>3 DEF Goes
  <2>5. Drops(t, h)
    BY <1>4, <1>5, <1>6, <2>1, <2>2, <2>3, <2>4 DEF Drops, Has, p, Seconds
  <2>6. Starts(t)
    BY <2>2, <2>3 DEF Starts, On, Adjacent, Firsts, Seconds
  <2>. QED  BY <2>5, <2>6
<1>. QED  BY <1>7, <1>8

LEMMA InsertNothing ==
  ASSUME ProgramsOK, NEW t \in Threads, NEW h, On(t, h), Insert(t, <<>>)
  PROVE  Advance(t)
<1>1. prog[t] # <<>> /\ prog[t] \in Seq(Steps)
  BY DEF ProgramsOK, Program, On
<1>2. <<>> \o Tail(prog[t]) = Tail(prog[t])
  BY <1>1
<1>. QED  BY <1>2 DEF Insert, Advance

LEMMA InsertStarts ==
  ASSUME ProgramsOK, NEW t \in Threads, NEW h, On(t, h), h \notin Firsts,
         NEW a, Insert(t, a), Program(a), a # <<>>, Head(a) \notin Seconds,
         a[Len(a)] \notin {"answer", "clamshell"},
         \A s \in Over("take") : Holds(Tail(prog[t]), s) => \A r \in Steps : Holds(a, r) => s \notin Over(r)
  PROVE  /\ Goes(t) /\ Starts(t) /\ prog'[t] = a \o Tail(prog[t])
         /\ \A s : Has(t, s)' <=> Holds(a, s) \/ Holds(Tail(prog[t]), s)
<1>. DEFINE p == prog[t]
            q == Tail(p)
<1>1. Program(p) /\ p # <<>> /\ Head(p) = h
  BY DEF ProgramsOK, On
<1>2. prog'[t] = a \o q /\ DOMAIN prog' = Threads /\ \A u \in Threads \ {t} : prog'[u] = prog[u]
  BY DEF Insert, ProgramsOK
<1>. HIDE DEF p
<1>3. Program(q) /\ (q # <<>> => Head(q) \notin Seconds)
  BY <1>1, RestOfProgram DEF Adjacent, Firsts, Seconds
<1>4. \A s \in Over("take") : Holds(q, s) => \A r \in Steps : Holds(a, r) => s \notin Over(r)
  BY DEF p
<1>. HIDE DEF q
<1>5. /\ Program(a \o q) /\ a \o q # <<>> /\ Head(a \o q) = Head(a)
      /\ \A s : Holds(a \o q, s) <=> Holds(a, s) \/ Holds(q, s)
  BY <1>3, <1>4, JoinedPrograms
<1>6. Goes(t) /\ Starts(t)
  BY <1>2, <1>5 DEF Goes, Starts, On
<1>. QED  BY <1>2, <1>5, <1>6 DEF Has, p, q

LEMMA InsertDrops ==
  ASSUME ProgramsOK, NEW t \in Threads, NEW h, On(t, h), h \notin Firsts,
         NEW a \in {<<"setMute">>, <<"setMic", "keepMic">>}, Insert(t, a)
  PROVE  Drops(t, h) /\ Starts(t) /\ prog'[t] = a \o Tail(prog[t])
<1>1. /\ Program(a) /\ a # <<>> /\ Head(a) \notin Seconds
      /\ \A s \in {"answer", "notify", "clamshell"} : ~Holds(a, s)
  BY OpeningPrograms DEF Openings
<1>2. /\ a[Len(a)] \notin {"answer", "clamshell"}
      /\ \A s \in Steps : Holds(a, s) => s \in {"setMute", "setMic", "keepMic"}
  BY DEF Holds
<1>3. /\ \A r \in {"setMute", "setMic", "keepMic"} : Over(r) = {} /\ r \notin Over("take")
      /\ Over("take") \subseteq Steps
  BY DEF Over, Steps
<1>4. /\ Goes(t) /\ Starts(t) /\ prog'[t] = a \o Tail(prog[t])
      /\ \A s : Has(t, s)' <=> Holds(a, s) \/ Holds(Tail(prog[t]), s)
  BY <1>1, <1>2, <1>3, InsertStarts
<1>5. /\ \A s : Has(t, s) <=> s = h \/ Holds(Tail(prog[t]), s)
      /\ \A s \in Over(h) : ~Holds(Tail(prog[t]), s)
      /\ h \in Steps
  BY RestOfProgram DEF ProgramsOK, On, Has
<1>6. Drops(t, h)
  BY <1>2, <1>3, <1>4, <1>5, OverOnce DEF Drops
<1>. QED  BY <1>4, <1>6

-----------------------------------------------------------------------------
(* A step of a thread that leaves the queue of events alone and, of what   *)
(* the invariant says, disturbs only what the step is about.               *)
Elsewhere(t) ==
  \A u \in Threads \ {t} : /\ event'[u] = event[u] /\ arg'[u] = arg[u] /\ val'[u] = val[u]
                           /\ answers'[u] = answers[u] /\ steady'[u] = steady[u]

Lighting == {"sst", "saveMute", "setMute", "saveMic", "setMic", "keepMic", "restoreMute",
             "restoreMic", "asleep", "awake"}

FnPlain(t, h) ==
  /\ h \notin {"readFn", "keepFn", "keepSetFn"} /\ ~KeepsFn(t)'
  /\ UNCHANGED <<fnHw, FnlockMode>> /\ ("fn" \in raced' <=> "fn" \in raced)
MicPlain(t, h) ==
  /\ h # "keepMic" /\ ~KeepsMic(t)'
  /\ UNCHANGED <<micHw, micMuteLEDstate>> /\ ("mic" \in raced' <=> "mic" \in raced)
FoldPlain(t) ==
  /\ UNCHANGED <<clamHw, clamshellMode, kbd, tpd, settled>>
  /\ ~On(t, "topKbd")' /\ ~On(t, "topTpd")'

LEMMA FiniteThreads == IsFiniteSet(Threads)
<1>1. IsFiniteSet({"acpi"} \cup {"gate"})
  BY FS_Singleton, FS_AddElement
<1>2. IsFiniteSet(({"acpi"} \cup {"gate"}) \cup {"pm"})
  BY <1>1, FS_AddElement
<1>3. Threads = ({"acpi"} \cup {"gate"}) \cup {"pm"}
  OBVIOUS
<1>. QED  BY <1>2, <1>3

(* The threads that are still to take an event.                            *)
Takers == {u \in Threads : \E i \in DOMAIN prog[u] : prog[u][i] = "take"}

LEMMA TakersAreFew ==
  /\ IsFiniteSet(Takers) /\ Cardinality(Takers) \in Nat
  /\ \A t : IsFiniteSet(Takers \ {t})
<1>1. Takers \subseteq Threads /\ \A t : Takers \ {t} \subseteq Threads
  BY DEF Takers
<1>2. IsFiniteSet(Takers) /\ \A t : IsFiniteSet(Takers \ {t})
  BY <1>1, FiniteThreads, FS_Subset
<1>. QED  BY <1>2, FS_CardinalityType

LEMMA AnnouncedStill ==
  ASSUME TypeOK, EventsAreAnnounced, UNCHANGED <<events, pending>>,
         faults' \in Nat, faults <= faults',
         \A u \in Threads : Has(u, "take") => Has(u, "take")'
  PROVE  EventsAreAnnounced'
<1>1. Takers \subseteq Takers' /\ IsFiniteSet(Takers')
  <2>1. Takers' \subseteq Threads
    BY DEF Takers
  <2>. QED  BY <2>1, FiniteThreads, FS_Subset DEF Takers, Has, Holds
<1>2. Cardinality(Takers) <= Cardinality(Takers') /\ Cardinality(Takers') \in Nat
      /\ Cardinality(Takers) \in Nat
  BY <1>1, FS_Subset, FS_CardinalityType
<1>3. faults' = 0 => Len(events) <= pending + Cardinality(Takers)
  BY DEF EventsAreAnnounced, TypeOK, DataOK, Takers
<1>4. Len(events) \in Nat /\ pending \in Nat
  BY DEF TypeOK, DataOK
<1>5. faults' = 0 => Len(events') <= pending' + Cardinality(Takers')
  BY <1>2, <1>3, <1>4
<1>. QED  BY <1>5 DEF EventsAreAnnounced, Takers

LEMMA ThreadStep ==
  ASSUME VPCInv, NEW t \in Threads, NEW h, On(t, h), Drops(t, h), DataOK', Elsewhere(t),
         faults <= faults', calm' => calm,
         UNCHANGED <<events, pending, fold, subscribed>>,
         EventsAreAnnounced' \/ h # "take",
         Answered(t)' \/ (h \notin {"answer", "notify", "clamshell"} /\ UNCHANGED <<event, answers, steady>>),
         FnInv' \/ FnPlain(t, h),
         MicInv' \/ MicPlain(t, h),
         FoldInv' \/ FoldPlain(t),
         LightInv' \/ t # "pm" \/ h \notin Lighting
  PROVE  VPCInv'
<1>1. TypeOK'
  BY DEF VPCInv, TypeOK, ProgramsOK, Drops, Goes
<1>2. \A u \in Threads \ {t} : /\ prog'[u] = prog[u]
                               /\ \A s : (On(u, s)' <=> On(u, s)) /\ (Has(u, s)' <=> Has(u, s))
                               /\ Idle(u)' <=> Idle(u)
  BY DEF Drops, Goes, On, Has, Idle
<1>3. EventsAreAnnounced'
  <2>. SUFFICES ASSUME h # "take"  PROVE EventsAreAnnounced'
    OBVIOUS
  <2>1. "take" \notin Seconds \cup {h}
    BY DEF Seconds
  <2>2. \A u \in Threads : Has(u, "take") => Has(u, "take")'
    BY <1>2, <2>1 DEF Drops
  <2>. QED  BY <2>2, AnnouncedStill DEF VPCInv, DataOK
<1>4. AnswerInv'
  <2>1. Answered(t)'
    <3>. SUFFICES ASSUME h \notin {"answer", "notify", "clamshell"}, UNCHANGED <<event, answers, steady>>
                  PROVE  Answered(t)'
      OBVIOUS
    <3>1. \A s \in {"answer", "notify", "clamshell"} : Has(t, s)' <=> Has(t, s)
      BY DEF Drops, Seconds, Over
    <3>. QED  BY <3>1 DEF VPCInv, AnswerInv, Answered
  <2>2. \A u \in Threads \ {t} : Answered(u)'
    BY <1>2 DEF VPCInv, AnswerInv, Answered, Elsewhere
  <2>. QED  BY <2>1, <2>2 DEF AnswerInv
<1>5. FnInv'
  <2>. SUFFICES ASSUME FnPlain(t, h), faults' = 0, "fn" \notin raced'
                PROVE  FnInv'
    BY DEF FnInv
  <2>1. faults = 0 /\ "fn" \notin raced
    BY DEF FnPlain, VPCInv, TypeOK, DataOK
  <2>2. /\ ~KeepsFn(t) /\ ~KeepsFn(t)' /\ \A u \in Threads \ {t} : KeepsFn(u)' <=> KeepsFn(u)
    BY <1>2 DEF FnPlain, KeepsFn, On
  <2>3. FnComes => FnComes'
    <3>1. "readFn" \notin Seconds \cup {h}
      BY DEF FnPlain, Seconds
    <3>2. \A u \in Threads : Has(u, "readFn") => Has(u, "readFn")'
      BY <1>2, <3>1 DEF Drops
    <3>. QED  BY <3>2 DEF FnComes
  <2>4. FnKnown => FnKnown'
    BY <2>2 DEF FnKnown, FnPlain, Elsewhere
  <2>. QED  BY <2>1, <2>2, <2>3, <2>4 DEF VPCInv, FnInv
<1>6. MicInv'
  <2>. SUFFICES ASSUME MicPlain(t, h), "mic" \notin raced'
                PROVE  MicInv'
    BY DEF MicInv
  <2>1. /\ ~KeepsMic(t) /\ ~KeepsMic(t)' /\ \A u \in Threads \ {t} : KeepsMic(u)' <=> KeepsMic(u)
    BY <1>2 DEF MicPlain, KeepsMic, On
  <2>. QED  BY <2>1 DEF VPCInv, MicInv, MicPlain, Elsewhere
<1>7. FoldInv'
  <2>. SUFFICES ASSUME FoldPlain(t)
                PROVE  FoldInv'
    OBVIOUS
  <2>1. \A u \in Threads \ {t} : Folding(u)' <=> Folding(u)
    BY <1>2 DEF Folding, FoldPlain, Elsewhere, React
  <2>2. Folding(t)'
    BY DEF Folding, FoldPlain
  <2>3. \A u \in Threads : \A s \in Over("topTpd") : Has(u, s)' => Has(u, s)
    <3>1. Over("topTpd") \subseteq Over("take")
      BY DEF Over
    <3>. QED  BY <1>2, <3>1 DEF Drops
  <2>4. ~Idle(t)
    BY DEF On, Idle
  <2>. QED  BY <1>2, <2>1, <2>2, <2>3, <2>4 DEF VPCInv, FoldInv, FoldPlain, React
<1>8. LightInv'
  <2>1. calm => t = "pm" /\ h \in Lighting
    BY DEF VPCInv, LightInv, On, Idle, Falling, Rising, Lighting
  <2>. QED  BY <2>1 DEF LightInv
<1>. QED  BY <1>1, <1>3, <1>4, <1>5, <1>6, <1>7, <1>8 DEF VPCInv

LEMMA StartsAfresh ==
  ASSUME NEW t \in Threads, Starts(t)
  PROVE  ~KeepsFn(t)' /\ ~KeepsMic(t)' /\ ~On(t, "topKbd")' /\ ~On(t, "topTpd")'
  BY DEF Starts, Seconds, KeepsFn, KeepsMic

LEMMA AnswerPreserves ==
  ASSUME VPCInv, NEW t \in Threads, Answer(t)
  PROVE  VPCInv'
<1>1. On(t, "answer") /\ ProgramsOK /\ DataOK /\ Answered(t)
  BY DEF Answer, VPCInv, TypeOK, AnswerInv
<1>2. UNCHANGED <<events, pending, fold, fnHw, clamHw, muteHw, micHw, sstHw, kbd, tpd, FnlockMode,
                  clamshellMode, tabletLike, auto, subscribed, power, muteLEDstate, muteLEDstateSaved,
                  micMuteLEDstate, micMuteLEDstateSaved, event, val, faults, steady, raced, calm,
                  before, settled>>
  BY DEF Answer, firmware, modes, leds
<1>3. /\ \A u \in Threads \ {t} : arg'[u] = arg[u] /\ answers'[u] = answers[u]
      /\ arg' \in [Threads -> BOOLEAN] /\ answers' \in [Threads -> Nat]
      /\ answers'[t] = IF subscribed THEN answers[t] ELSE answers[t] + 1
  <2>1. CASE subscribed
    BY <1>1, <2>1 DEF Answer, DataOK
  <2>2. CASE ~subscribed
    <3>1. PICK b \in BOOLEAN : arg' = [arg EXCEPT ![t] = b]
      BY <2>2 DEF Answer
    <3>2. answers' = [answers EXCEPT ![t] = @ + 1]
      BY <2>2 DEF Answer
    <3>. QED  BY <1>1, <2>2, <3>1, <3>2 DEF DataOK
  <2>. QED  BY <2>1, <2>2
<1>4. Drops(t, "answer") /\ Starts(t) /\ (subscribed => Has(t, "notify")')
  <2>1. CASE subscribed
    <3>1. Advance(t)
      BY <2>1 DEF Answer
    <3>2. prog'[t] # <<>> /\ Adjacent("answer", Head(prog'[t]))
      BY <1>1, <3>1, AdvanceDrops
    <3>3. Drops(t, "answer") /\ Starts(t)
      BY <1>1, <3>1, AdvanceDrops DEF Firsts
    <3>4. On(t, "notify")'
      BY <3>2 DEF Adjacent, On
    <3>5. ProgramsOK'
      BY <1>1, <3>3 DEF Drops, Goes, ProgramsOK
    <3>6. Has(t, "notify")'
      BY <3>4, <3>5, RestOfProgram DEF On, ProgramsOK, Has
    <3>. QED  BY <3>3, <3>6
  <2>2. CASE ~subscribed /\ event[t] = "mic"
    BY <1>1, <2>2, InsertDrops DEF Answer, Firsts
  <2>3. CASE ~subscribed /\ event[t] # "mic"
    <3>1. Advance(t)
      BY <1>1, <2>3, InsertNothing DEF Answer
    <3>. QED  BY <1>1, <2>3, <3>1, AdvanceDrops DEF Firsts
  <2>. QED  BY <2>1, <2>2, <2>3
<1>5. Answered(t)'
  <2>1. Has(t, "answer") /\ ~Has(t, "answer")' /\ (Has(t, "clamshell")' => Has(t, "clamshell"))
    BY <1>1, <1>4, OnHas DEF Drops, Over
  <2>. QED  BY <1>1, <1>2, <1>3, <1>4, <2>1 DEF Answered
<1>6. DataOK' /\ Elsewhere(t)
  BY <1>1, <1>2, <1>3 DEF DataOK, Elsewhere
<1>7. FnPlain(t, "answer") /\ MicPlain(t, "answer") /\ FoldPlain(t) /\ faults <= faults'
  BY <1>1, <1>2, <1>4, <1>5, <1>6, StartsAfresh DEF FnPlain, MicPlain, FoldPlain, DataOK
<1>. QED  BY <1>1, <1>2, <1>4, <1>5, <1>6, <1>7, ThreadStep DEF Lighting

LEMMA NotifyPreserves ==
  ASSUME VPCInv, NEW t \in Threads, Notify(t)
  PROVE  VPCInv'
<1>1. On(t, "notify") /\ ProgramsOK /\ DataOK /\ Answered(t)
  BY DEF Notify, VPCInv, TypeOK, AnswerInv
<1>2. UNCHANGED <<events, pending, fold, fnHw, clamHw, muteHw, micHw, sstHw, kbd, tpd, FnlockMode,
                  clamshellMode, tabletLike, auto, subscribed, power, muteLEDstate, muteLEDstateSaved,
                  micMuteLEDstate, micMuteLEDstateSaved, event, arg, val, faults, steady, raced, calm,
                  before, settled>>
  BY DEF Notify, firmware, modes, leds, locals
<1>3. /\ \A u \in Threads \ {t} : answers'[u] = answers[u]
      /\ answers' \in [Threads -> Nat]
      /\ answers'[t] = IF subscribed THEN answers[t] + 1 ELSE answers[t]
  BY <1>1 DEF Notify, DataOK
<1>4. Drops(t, "notify") /\ Starts(t)
  BY <1>1, AdvanceDrops DEF Notify, Firsts
<1>5. Answered(t)'
  <2>1. Has(t, "notify") /\ ~Has(t, "answer")' /\ ~Has(t, "notify")'
        /\ (Has(t, "clamshell")' => Has(t, "clamshell")) /\ ~Has(t, "answer")
    BY <1>1, <1>4, OnHas DEF Drops, Over, Seconds
  <2>. QED  BY <1>1, <1>2, <1>3, <2>1 DEF Answered, DataOK
<1>6. DataOK' /\ Elsewhere(t)
  BY <1>1, <1>2, <1>3 DEF DataOK, Elsewhere
<1>7. FnPlain(t, "notify") /\ MicPlain(t, "notify") /\ FoldPlain(t) /\ faults <= faults'
  BY <1>1, <1>2, <1>4, <1>5, <1>6, StartsAfresh DEF FnPlain, MicPlain, FoldPlain, DataOK
<1>. QED  BY <1>1, <1>2, <1>4, <1>5, <1>6, <1>7, ThreadStep DEF Lighting

LEMMA ClamshellPreserves ==
  ASSUME VPCInv, NEW t \in Threads, Clamshell(t)
  PROVE  VPCInv'
<1>1. On(t, "clamshell") /\ ProgramsOK /\ DataOK /\ Answered(t)
  BY DEF Clamshell, VPCInv, TypeOK, AnswerInv
<1>2. UNCHANGED <<events, pending, fold, fnHw, clamHw, muteHw, micHw, sstHw, kbd, tpd, FnlockMode,
                  clamshellMode, tabletLike, auto, subscribed, power, muteLEDstate, muteLEDstateSaved,
                  micMuteLEDstate, micMuteLEDstateSaved, event, arg, val, faults, answers, steady,
                  raced, calm, before, settled>>
  BY DEF Clamshell, firmware, modes, leds, locals, history
<1>3. Drops(t, "clamshell") /\ Starts(t)
  <2>1. CASE clamshellMode
    BY <1>1, <2>1, SkipDrops DEF Clamshell
  <2>2. CASE ~clamshellMode
    <3>1. Skip(t, 1)
      BY <2>2 DEF Clamshell
    <3>2. SubSeq(prog[t], 1 + 1, Len(prog[t])) = Tail(prog[t])
      BY <1>1 DEF On, ProgramsOK, Program
    <3>3. Advance(t)
      BY <3>1, <3>2 DEF Skip, Advance
    <3>. QED  BY <1>1, <3>3, AdvanceDrops DEF Firsts
  <2>. QED  BY <2>1, <2>2
<1>4. Answered(t)'
  <2>1. event[t] = "tablet"
    BY <1>1, OnHas DEF Answered
  <2>. QED  BY <1>2, <2>1 DEF Answered
<1>5. DataOK' /\ Elsewhere(t)
  BY <1>1, <1>2 DEF DataOK, Elsewhere
<1>6. FnPlain(t, "clamshell") /\ MicPlain(t, "clamshell") /\ FoldPlain(t) /\ faults <= faults'
  BY <1>1, <1>2, <1>3, <1>4, <1>5, StartsAfresh DEF FnPlain, MicPlain, FoldPlain, DataOK
<1>. QED  BY <1>1, <1>2, <1>3, <1>4, <1>5, <1>6, ThreadStep DEF Lighting

LEMMA GetKeyboardPreserves ==
  ASSUME VPCInv, NEW t \in Threads, GetKeyboard(t)
  PROVE  VPCInv'
<1>1. On(t, "getKbd") /\ ProgramsOK /\ DataOK
  BY DEF GetKeyboard, VPCInv, TypeOK
<1>2. UNCHANGED <<events, pending, fold, fnHw, clamHw, muteHw, micHw, sstHw, kbd, tpd, FnlockMode,
                  clamshellMode, tabletLike, auto, subscribed, power, muteLEDstate, muteLEDstateSaved,
                  micMuteLEDstate, micMuteLEDstateSaved, event, arg, faults, answers, steady,
                  raced, calm, before, settled>>
  BY DEF GetKeyboard, firmware, modes, leds, history
<1>3. val' \in [Threads -> BOOLEAN] /\ \A u \in Threads \ {t} : val'[u] = val[u]
  <2>1. PICK b \in BOOLEAN : val' = [val EXCEPT ![t] = b]
    BY DEF GetKeyboard
  <2>. QED  BY <1>1, <2>1 DEF DataOK
<1>4. Drops(t, "getKbd") /\ Starts(t)
  BY <1>1, AdvanceDrops DEF GetKeyboard, Firsts
<1>5. DataOK' /\ Elsewhere(t)
  BY <1>1, <1>2, <1>3 DEF DataOK, Elsewhere
<1>6. FnPlain(t, "getKbd") /\ MicPlain(t, "getKbd") /\ FoldPlain(t) /\ faults <= faults'
  BY <1>1, <1>2, <1>4, <1>5, StartsAfresh DEF FnPlain, MicPlain, FoldPlain, DataOK
<1>. QED  BY <1>1, <1>2, <1>4, <1>5, <1>6, ThreadStep DEF Lighting

LEMMA SetKeyboardPreserves ==
  ASSUME VPCInv, NEW t \in Threads, SetKeyboard(t)
  PROVE  VPCInv'
<1>1. On(t, "setKbd") /\ ProgramsOK /\ DataOK
  BY DEF SetKeyboard, VPCInv, TypeOK
<1>2. UNCHANGED <<events, pending, fold, fnHw, clamHw, muteHw, micHw, sstHw, tpd, FnlockMode,
                  clamshellMode, tabletLike, auto, subscribed, power, muteLEDstate, muteLEDstateSaved,
                  micMuteLEDstate, micMuteLEDstateSaved, event, arg, faults, answers, steady,
                  raced, calm, before, settled>>
  BY DEF SetKeyboard, firmware, modes, leds, history
<1>3. /\ kbd' \in BOOLEAN
      /\ val' \in [Threads -> BOOLEAN] /\ \A u \in Threads \ {t} : val'[u] = val[u]
  BY <1>1 DEF SetKeyboard, DataOK, Forget
<1>4. Drops(t, "setKbd") /\ Starts(t)
  BY <1>1, AdvanceDrops DEF SetKeyboard, Firsts
<1>5. DataOK' /\ Elsewhere(t)
  BY <1>1, <1>2, <1>3 DEF DataOK, Elsewhere
<1>6. FoldInv'
  <2>. SUFFICES ASSUME settled # "no"  PROVE FoldInv'
    BY <1>2 DEF FoldInv
  <2>1. Has(t, "setKbd") /\ ~Idle(t) /\ "setKbd" \in Over("topTpd")
    BY <1>1, OnHas DEF Over
  <2>2. settled # "reading" /\ \A u \in Threads \ {t} : Idle(u)
    BY <2>1 DEF VPCInv, FoldInv
  <2>3. \A u \in Threads \ {t} : Idle(u)'
    BY <1>4, <2>2 DEF Drops, Goes, Idle
  <2>4. \A u \in Threads : Folding(u)'
    BY <1>4, <2>3, StartsAfresh DEF Folding, Idle, On
  <2>. QED  BY <1>2, <2>2, <2>3, <2>4 DEF FoldInv
<1>7. FnPlain(t, "setKbd") /\ MicPlain(t, "setKbd") /\ faults <= faults'
  BY <1>1, <1>2, <1>4, <1>5, <1>6, StartsAfresh DEF FnPlain, MicPlain, DataOK
<1>. QED  BY <1>1, <1>2, <1>4, <1>5, <1>6, <1>7, ThreadStep DEF Lighting

LEMMA ReadFoldPreserves ==
  ASSUME VPCInv, NEW t \in Threads, ReadFold(t)
  PROVE  VPCInv'
<1>1. On(t, "readFold") /\ ProgramsOK /\ DataOK
  BY DEF ReadFold, VPCInv, TypeOK
<1>2. UNCHANGED <<events, pending, fold, fnHw, clamHw, muteHw, micHw, sstHw, kbd, tpd, FnlockMode,
                  clamshellMode, tabletLike, auto, subscribed, power, muteLEDstate, muteLEDstateSaved,
                  micMuteLEDstate, micMuteLEDstateSaved, event, arg, answers, steady,
                  raced, calm, before, settled>>
  BY DEF ReadFold, firmware, modes, leds, history
<1>3. /\ faults' \in Nat /\ faults <= faults'
      /\ val' \in [Threads -> BOOLEAN] /\ \A u \in Threads \ {t} : val'[u] = val[u]
      /\ Drops(t, "readFold")
      /\ Starts(t) \/ (On(t, "topKbd")' /\ (val'[t] <=> fold = "tablet"))
  <2>1. CASE Skip(t, 3) /\ UNCHANGED val /\ (Fails \/ Works)
    <3>1. Drops(t, "readFold") /\ Starts(t)
      BY <1>1, <2>1, SkipDrops
    <3>. QED  BY <1>1, <2>1, <3>1 DEF DataOK, Fails, Works
  <2>2. CASE Works /\ val' = [val EXCEPT ![t] = fold = "tablet"] /\ Advance(t)
    <3>1. PICK b \in BOOLEAN : (b <=> fold = "tablet") /\ val' = [val EXCEPT ![t] = b]
      BY <2>2
    <3>2. Drops(t, "readFold") /\ prog'[t] # <<>> /\ Adjacent("readFold", Head(prog'[t]))
      BY <1>1, <2>2, AdvanceDrops DEF Firsts
    <3>. QED  BY <1>1, <2>2, <3>1, <3>2 DEF DataOK, Works, Adjacent, On
  <2>. QED  BY <2>1, <2>2 DEF ReadFold
<1>4. DataOK' /\ Elsewhere(t)
  BY <1>1, <1>2, <1>3 DEF DataOK, Elsewhere
<1>5. ~KeepsFn(t)' /\ ~KeepsMic(t)' /\ ~On(t, "topTpd")'
  BY <1>3, StartsAfresh DEF On, KeepsFn, KeepsMic
<1>6. FoldInv'
  <2>. SUFFICES ASSUME settled # "no"  PROVE FoldInv'
    BY <1>2 DEF FoldInv
  <2>1. ~Idle(t) /\ Over("topTpd") \subseteq Over("take")
    BY <1>1, OnHas DEF Over
  <2>2. \A u \in Threads \ {t} : Idle(u)
    BY <2>1 DEF VPCInv, FoldInv
  <2>3. \A u \in Threads \ {t} : Idle(u)' /\ \A s : Has(u, s)' <=> Has(u, s)
    BY <1>3, <2>2 DEF Drops, Goes, Idle, Has
  <2>4. \A u \in Threads : Folding(u)'
    BY <1>2, <1>3, <1>5, <2>3, StartsAfresh DEF Folding, Idle, On
  <2>. QED  BY <1>2, <1>3, <2>1, <2>3, <2>4 DEF VPCInv, FoldInv, Drops, React
<1>7. FnPlain(t, "readFold") /\ MicPlain(t, "readFold") /\ faults <= faults'
  BY <1>1, <1>2, <1>3, <1>4, <1>5, <1>6 DEF FnPlain, MicPlain, DataOK
<1>. QED  BY <1>1, <1>2, <1>3, <1>4, <1>5, <1>6, <1>7, ThreadStep DEF Lighting

LEMMA TopKeyboardPreserves ==
  ASSUME VPCInv, NEW t \in Threads, TopKeyboard(t)
  PROVE  VPCInv'
<1>1. On(t, "topKbd") /\ ProgramsOK /\ DataOK
  BY DEF TopKeyboard, VPCInv, TypeOK
<1>2. UNCHANGED <<events, pending, fold, fnHw, clamHw, muteHw, micHw, sstHw, tpd, FnlockMode,
                  clamshellMode, tabletLike, auto, subscribed, power, muteLEDstate, muteLEDstateSaved,
                  micMuteLEDstate, micMuteLEDstateSaved, event, val, faults, answers, steady,
                  raced, calm, before, settled>>
  BY DEF TopKeyboard, firmware, modes, leds, history
<1>3. /\ kbd' \in BOOLEAN /\ (kbd' <=> ~val[t] \/ clamshellMode) /\ arg'[t] = kbd'
      /\ arg' \in [Threads -> BOOLEAN] /\ \A u \in Threads \ {t} : arg'[u] = arg[u]
  <2>1. kbd' \in BOOLEAN /\ (kbd' <=> ~val[t] \/ clamshellMode) /\ arg' = [arg EXCEPT ![t] = kbd']
    BY DEF TopKeyboard
  <2>. QED  BY <1>1, <2>1 DEF DataOK
<1>4. /\ Drops(t, "topKbd") /\ prog'[t] # <<>> /\ Adjacent("topKbd", Head(prog'[t]))
  BY <1>1, AdvanceDrops DEF TopKeyboard, Firsts
<1>5. ~KeepsFn(t)' /\ ~KeepsMic(t)' /\ ~On(t, "topKbd")'
  BY <1>4 DEF On, KeepsFn, KeepsMic, Adjacent
<1>6. DataOK' /\ Elsewhere(t)
  BY <1>1, <1>2, <1>3 DEF DataOK, Elsewhere
<1>7. FoldInv'
  <2>. SUFFICES ASSUME settled # "no"  PROVE FoldInv'
    BY <1>2 DEF FoldInv
  <2>1. ~Idle(t) /\ Over("topTpd") \subseteq Over("take")
    BY <1>1, OnHas DEF Over
  <2>2. (\A u \in Threads \ {t} : Idle(u)) /\ (val[t] <=> fold = "tablet")
    BY <1>1, <2>1 DEF VPCInv, FoldInv, Folding
  <2>3. \A u \in Threads \ {t} : Idle(u)' /\ \A s : Has(u, s)' <=> Has(u, s)
    BY <1>4, <2>2 DEF Drops, Goes, Idle, Has
  <2>4. (kbd' <=> React') /\ (arg'[t] <=> React') /\ (React' <=> React)
    BY <1>2, <1>3, <2>2 DEF React
  <2>5. \A u \in Threads : Folding(u)'
    BY <1>5, <2>3, <2>4 DEF Folding, Idle, On
  <2>. QED  BY <1>2, <1>4, <2>1, <2>3, <2>4, <2>5 DEF VPCInv, FoldInv, Drops
<1>8. FnPlain(t, "topKbd") /\ MicPlain(t, "topKbd") /\ faults <= faults'
  BY <1>1, <1>2, <1>4, <1>5, <1>6, <1>7 DEF FnPlain, MicPlain, DataOK
<1>. QED  BY <1>1, <1>2, <1>4, <1>5, <1>6, <1>7, <1>8, ThreadStep DEF Lighting

LEMMA TopTouchPadPreserves ==
  ASSUME VPCInv, NEW t \in Threads, TopTouchPad(t)
  PROVE  VPCInv'
<1>1. On(t, "topTpd") /\ ProgramsOK /\ DataOK
  BY DEF TopTouchPad, VPCInv, TypeOK
<1>2. UNCHANGED <<events, pending, fold, fnHw, clamHw, muteHw, micHw, sstHw, kbd, FnlockMode,
                  clamshellMode, tabletLike, auto, subscribed, power, muteLEDstate, muteLEDstateSaved,
                  micMuteLEDstate, micMuteLEDstateSaved, event, faults, answers, steady,
                  raced, calm, before>>
  BY DEF TopTouchPad, modes, leds
<1>3. /\ tpd' \in BOOLEAN /\ (tpd' <=> arg[t])
      /\ settled' = IF settled = "alone" /\ clamshellMode = clamHw THEN "reading" ELSE settled
      /\ arg' \in [Threads -> BOOLEAN] /\ \A u \in Threads \ {t} : arg'[u] = arg[u]
      /\ val' \in [Threads -> BOOLEAN] /\ \A u \in Threads \ {t} : val'[u] = val[u]
  BY <1>1 DEF TopTouchPad, DataOK, Forget
<1>4. Drops(t, "topTpd") /\ Starts(t)
  BY <1>1, AdvanceDrops DEF TopTouchPad, Firsts
<1>5. DataOK' /\ Elsewhere(t)
  BY <1>1, <1>2, <1>3 DEF DataOK, Elsewhere
<1>6. FoldInv'
  <2>. SUFFICES ASSUME settled' # "no"  PROVE FoldInv'
    BY DEF FoldInv
  <2>1. ~Idle(t) /\ settled # "no"
    BY <1>1, <1>3, OnHas
  <2>2. /\ \A u \in Threads \ {t} : Idle(u)
        /\ (arg[t] <=> React) /\ (kbd <=> React)
        /\ settled' = "reading" => (clamshellMode <=> clamHw)
    BY <1>1, <1>3, <2>1 DEF VPCInv, FoldInv, Folding
  <2>3. \A u \in Threads \ {t} : Idle(u)' /\ \A s : ~Has(u, s)'
    BY <1>4, <2>2 DEF Drops, Goes, Idle, Has, Holds
  <2>4. \A u \in Threads : Folding(u)'
    BY <1>4, <2>3, StartsAfresh DEF Folding, Idle, On
  <2>5. (kbd' <=> React') /\ (tpd' <=> React')
    BY <1>2, <1>3, <2>2 DEF React
  <2>. QED  BY <1>2, <1>4, <2>2, <2>3, <2>4, <2>5 DEF FoldInv, Drops
<1>7. FnPlain(t, "topTpd") /\ MicPlain(t, "topTpd") /\ faults <= faults'
  BY <1>1, <1>2, <1>3, <1>4, <1>5, <1>6, StartsAfresh DEF FnPlain, MicPlain, DataOK
<1>. QED  BY <1>1, <1>2, <1>3, <1>4, <1>5, <1>6, <1>7, ThreadStep DEF Lighting

LEMMA ReadClamshellPreserves ==
  ASSUME VPCInv, NEW t \in Threads, ReadClamshell(t)
  PROVE  VPCInv'
<1>1. On(t, "readClam") /\ ProgramsOK /\ DataOK
  BY DEF ReadClamshell, VPCInv, TypeOK
<1>2. UNCHANGED <<events, pending, fold, fnHw, clamHw, muteHw, micHw, sstHw, kbd, tpd, FnlockMode,
                  tabletLike, auto, subscribed, power, muteLEDstate, muteLEDstateSaved,
                  micMuteLEDstate, micMuteLEDstateSaved, event, arg, val, answers, steady,
                  raced, calm, before, settled>>
  BY DEF ReadClamshell, firmware, leds, locals, history
<1>3. /\ faults' \in Nat /\ faults <= faults'
      /\ clamshellMode' = clamshellMode \/ clamshellMode' = clamHw
  BY <1>1 DEF ReadClamshell, DataOK, Works, Fails
<1>4. Drops(t, "readClam") /\ Starts(t)
  BY <1>1, AdvanceDrops DEF ReadClamshell, Firsts
<1>5. DataOK' /\ Elsewhere(t)
  BY <1>1, <1>2, <1>3 DEF DataOK, Elsewhere
<1>6. FoldInv'
  <2>. SUFFICES ASSUME settled # "no"  PROVE FoldInv'
    BY <1>2 DEF FoldInv
  <2>1. ~Idle(t) /\ Over("topTpd") \subseteq Over("take")
    BY <1>1, OnHas DEF Over
  <2>2. \A u \in Threads \ {t} : Idle(u)
    BY <2>1 DEF VPCInv, FoldInv
  <2>3. \A u \in Threads \ {t} : Idle(u)' /\ \A s : Has(u, s)' <=> Has(u, s)
    BY <1>4, <2>2 DEF Drops, Goes, Idle, Has
  <2>4. \A u \in Threads : Folding(u)'
    BY <1>4, <2>3, StartsAfresh DEF Folding, Idle, On
  <2>5. settled = "reading" => clamshellMode' = clamshellMode /\ (clamshellMode <=> clamHw)
    BY <1>1, <1>3 DEF VPCInv, FoldInv, DataOK
  <2>. QED  BY <1>2, <1>4, <2>1, <2>3, <2>4, <2>5 DEF VPCInv, FoldInv, Drops, React
<1>7. FnPlain(t, "readClam") /\ MicPlain(t, "readClam") /\ faults <= faults'
  BY <1>1, <1>2, <1>3, <1>4, <1>5, <1>6, StartsAfresh DEF FnPlain, MicPlain, DataOK
<1>. QED  BY <1>1, <1>2, <1>3, <1>4, <1>5, <1>6, <1>7, ThreadStep DEF Lighting

LEMMA SetClamshellPreserves ==
  ASSUME VPCInv, NEW t \in Threads, SetClamshell(t)
  PROVE  VPCInv'
<1>1. On(t, "setClam") /\ ProgramsOK /\ DataOK
  BY DEF SetClamshell, VPCInv, TypeOK
<1>2. UNCHANGED <<events, pending, fold, fnHw, muteHw, micHw, sstHw, kbd, tpd, FnlockMode,
                  tabletLike, auto, subscribed, power, muteLEDstate, muteLEDstateSaved,
                  micMuteLEDstate, micMuteLEDstateSaved, event, val, answers, steady,
                  raced, calm, before, settled>>
  BY DEF SetClamshell, leds, history
<1>3. /\ faults' \in Nat /\ faults <= faults'
      /\ clamHw' \in BOOLEAN /\ clamshellMode' \in BOOLEAN
      /\ arg' \in [Threads -> BOOLEAN] /\ \A u \in Threads \ {t} : arg'[u] = arg[u]
  BY <1>1 DEF SetClamshell, DataOK, Works, Fails, Forget
<1>4. Drops(t, "setClam") /\ Starts(t)
  BY <1>1, AdvanceDrops DEF SetClamshell, Firsts
<1>5. DataOK' /\ Elsewhere(t)
  BY <1>1, <1>2, <1>3 DEF DataOK, Elsewhere
<1>6. FoldInv'
  <2>. SUFFICES ASSUME settled # "no"  PROVE FoldInv'
    BY <1>2 DEF FoldInv
  <2>1. Has(t, "setClam") /\ ~Idle(t) /\ "setClam" \in Over("topTpd")
    BY <1>1, OnHas DEF Over
  <2>2. settled # "reading" /\ \A u \in Threads \ {t} : Idle(u)
    BY <2>1 DEF VPCInv, FoldInv
  <2>3. \A u \in Threads \ {t} : Idle(u)'
    BY <1>4, <2>2 DEF Drops, Goes, Idle
  <2>4. \A u \in Threads : Folding(u)'
    BY <1>4, <2>3, StartsAfresh DEF Folding, Idle, On
  <2>. QED  BY <1>2, <2>2, <2>3, <2>4 DEF FoldInv
<1>7. FnPlain(t, "setClam") /\ MicPlain(t, "setClam") /\ faults <= faults'
  BY <1>1, <1>2, <1>3, <1>4, <1>5, <1>6, StartsAfresh DEF FnPlain, MicPlain, DataOK
<1>. QED  BY <1>1, <1>2, <1>3, <1>4, <1>5, <1>6, <1>7, ThreadStep DEF Lighting

LEMMA ReadMutePreserves ==
  ASSUME VPCInv, NEW t \in Threads, ReadMute(t)
  PROVE  VPCInv'
<1>1. On(t, "readMute") /\ ProgramsOK /\ DataOK
  BY DEF ReadMute, VPCInv, TypeOK
<1>2. UNCHANGED <<events, pending, fold, fnHw, clamHw, muteHw, micHw, sstHw, kbd, tpd, FnlockMode,
                  clamshellMode, tabletLike, auto, subscribed, power, muteLEDstateSaved,
                  micMuteLEDstate, micMuteLEDstateSaved, event, arg, val, answers, steady,
                  raced, calm, before, settled>>
  BY DEF ReadMute, firmware, modes, locals, history
<1>3. faults' \in Nat /\ faults <= faults' /\ muteLEDstate' \in BOOLEAN
  BY <1>1 DEF ReadMute, DataOK, Works, Fails
<1>4. Drops(t, "readMute") /\ Starts(t)
  BY <1>1, AdvanceDrops DEF ReadMute, Firsts
<1>5. DataOK' /\ Elsewhere(t)
  BY <1>1, <1>2, <1>3 DEF DataOK, Elsewhere
<1>6. FnPlain(t, "readMute") /\ MicPlain(t, "readMute") /\ FoldPlain(t) /\ faults <= faults'
  BY <1>1, <1>2, <1>3, <1>4, <1>5, StartsAfresh DEF FnPlain, MicPlain, FoldPlain, DataOK
<1>. QED  BY <1>1, <1>2, <1>3, <1>4, <1>5, <1>6, ThreadStep DEF Lighting

(* The Fn lock. *)
LEMMA ReadFnPreserves ==
  ASSUME VPCInv, NEW t \in Threads, ReadFn(t)
  PROVE  VPCInv'
<1>1. On(t, "readFn") /\ ProgramsOK /\ DataOK
  BY DEF ReadFn, VPCInv, TypeOK
<1>2. UNCHANGED <<events, pending, fold, fnHw, clamHw, muteHw, micHw, sstHw, kbd, tpd, FnlockMode,
                  clamshellMode, tabletLike, auto, subscribed, power, muteLEDstate, muteLEDstateSaved,
                  micMuteLEDstate, micMuteLEDstateSaved, event, arg, answers, steady,
                  calm, before, settled>>
  BY DEF ReadFn, firmware, modes, leds
<1>3. /\ faults' \in Nat /\ faults <= faults'
      /\ val' \in [Threads -> BOOLEAN] /\ \A u \in Threads \ {t} : val'[u] = val[u]
      /\ "mic" \in raced' <=> "mic" \in raced
      /\ Drops(t, "readFn") /\ ~KeepsMic(t)' /\ ~On(t, "topKbd")' /\ ~On(t, "topTpd")'
      /\ faults' = 0 /\ "fn" \notin raced' =>
           (val'[t] <=> fnHw) /\ KeepsFn(t)' /\ \A u \in Threads \ {t} : ~KeepsFn(u)
  <2>1. CASE Works /\ Advance(t) /\ Race(t, "fn", {"keepFn", "keepSetFn"})
             /\ val' = [val EXCEPT ![t] = fnHw]
    <3>1. Drops(t, "readFn") /\ prog'[t] # <<>> /\ Adjacent("readFn", Head(prog'[t]))
      BY <1>1, <2>1, AdvanceDrops DEF Firsts
    <3>2. Head(prog'[t]) = "keepFn" /\ KeepsFn(t)'
      BY <3>1 DEF Adjacent, KeepsFn, On
    <3>3. "fn" \notin raced' => \A u \in Threads \ {t} : ~KeepsFn(u)
      BY <2>1 DEF Race, Others, KeepsFn
    <3>4. "mic" \in raced' <=> "mic" \in raced
      BY <2>1 DEF Race
    <3>. QED  BY <1>1, <2>1, <3>1, <3>2, <3>3, <3>4 DEF DataOK, Works, On, KeepsMic
  <2>2. CASE Fails /\ Skip(t, 2) /\ UNCHANGED <<raced, val>>
    BY <1>1, <2>2, SkipDrops, StartsAfresh DEF DataOK, Fails
  <2>. QED  BY <2>1, <2>2 DEF ReadFn
<1>4. DataOK' /\ Elsewhere(t)
  BY <1>1, <1>2, <1>3 DEF DataOK, Elsewhere
<1>5. FnInv'
  <2>. SUFFICES ASSUME faults' = 0, "fn" \notin raced'  PROVE FnInv'
    BY DEF FnInv
  <2>1. \A u \in Threads : KeepsFn(u)' <=> u = t
    BY <1>3 DEF KeepsFn, On, Drops, Goes
  <2>2. FnKnown'
    BY <1>2, <1>3, <2>1 DEF FnKnown
  <2>. QED  BY <2>1, <2>2 DEF FnInv
<1>6. MicPlain(t, "readFn") /\ FoldPlain(t) /\ faults <= faults'
  BY <1>1, <1>2, <1>3, <1>4, <1>5 DEF MicPlain, FoldPlain, DataOK
<1>. QED  BY <1>1, <1>2, <1>3, <1>4, <1>5, <1>6, ThreadStep DEF Lighting

LEMMA KeepFnPreserves ==
  ASSUME VPCInv, NEW t \in Threads, KeepFn(t)
  PROVE  VPCInv'
<1>1. PICK h \in {"keepFn", "keepSetFn"} : On(t, h)
  BY DEF KeepFn
<1>2. ProgramsOK /\ DataOK
  BY DEF VPCInv, TypeOK
<1>3. UNCHANGED <<events, pending, fold, fnHw, clamHw, muteHw, micHw, sstHw, kbd, tpd,
                  clamshellMode, tabletLike, auto, subscribed, power, muteLEDstate, muteLEDstateSaved,
                  micMuteLEDstate, micMuteLEDstateSaved, event, arg, faults, answers, steady,
                  raced, calm, before, settled>>
  BY DEF KeepFn, firmware, leds, history
<1>4. /\ FnlockMode' = val[t] /\ FnlockMode' \in BOOLEAN
      /\ val' \in [Threads -> BOOLEAN] /\ \A u \in Threads \ {t} : val'[u] = val[u]
  BY <1>2 DEF KeepFn, DataOK, Forget
<1>5. Drops(t, h) /\ Starts(t)
  BY <1>1, <1>2, AdvanceDrops DEF KeepFn, Firsts
<1>6. DataOK' /\ Elsewhere(t)
  BY <1>2, <1>3, <1>4 DEF DataOK, Elsewhere
<1>7. FnInv'
  <2>. SUFFICES ASSUME faults' = 0, "fn" \notin raced'  PROVE FnInv'
    BY DEF FnInv
  <2>1. KeepsFn(t) /\ \A u \in Threads \ {t} : ~KeepsFn(u)
    BY <1>1, <1>3 DEF KeepsFn, VPCInv, FnInv
  <2>2. \A u \in Threads : ~KeepsFn(u)'
    BY <1>5, <2>1, StartsAfresh DEF Drops, Goes, KeepsFn, On
  <2>3. FnComes => FnComes'
    <3>1. "readFn" \notin Seconds \cup {h}
      BY DEF Seconds
    <3>2. \A u \in Threads : Has(u, "readFn") => Has(u, "readFn")'
      BY <1>5, <3>1 DEF Drops, Goes, Has
    <3>. QED  BY <1>3, <3>2 DEF FnComes
  <2>4. FnKnown => FnKnown'
    BY <1>3, <1>4, <2>1, <2>2 DEF FnKnown
  <2>. QED  BY <1>3, <2>2, <2>3, <2>4 DEF VPCInv, FnInv
<1>8. MicPlain(t, h) /\ FoldPlain(t) /\ faults <= faults'
  BY <1>1, <1>2, <1>3, <1>4, <1>5, <1>6, <1>7, StartsAfresh DEF MicPlain, FoldPlain, DataOK
<1>. QED  BY <1>1, <1>2, <1>3, <1>4, <1>5, <1>6, <1>7, <1>8, ThreadStep DEF Lighting

LEMMA SetFnPreserves ==
  ASSUME VPCInv, NEW t \in Threads, SetFn(t)
  PROVE  VPCInv'
<1>1. On(t, "setFn") /\ ProgramsOK /\ DataOK
  BY DEF SetFn, VPCInv, TypeOK
<1>2. UNCHANGED <<events, pending, fold, clamHw, muteHw, micHw, sstHw, kbd, tpd, FnlockMode,
                  clamshellMode, tabletLike, auto, subscribed, power, muteLEDstate, muteLEDstateSaved,
                  micMuteLEDstate, micMuteLEDstateSaved, event, answers, steady,
                  calm, before, settled>>
  BY DEF SetFn, modes, leds
<1>3. arg' \in [Threads -> BOOLEAN] /\ \A u \in Threads \ {t} : arg'[u] = arg[u]
  BY <1>1 DEF SetFn, DataOK, Forget
<1>4. /\ faults' \in Nat /\ faults <= faults' /\ fnHw' \in BOOLEAN
      /\ val' \in [Threads -> BOOLEAN] /\ \A u \in Threads \ {t} : val'[u] = val[u]
      /\ "mic" \in raced' <=> "mic" \in raced
      /\ Drops(t, "setFn") /\ ~KeepsMic(t)' /\ ~On(t, "topKbd")' /\ ~On(t, "topTpd")'
      /\ \/ faults' = 0 /\ "fn" \notin raced' =>
              (val'[t] <=> fnHw') /\ KeepsFn(t)' /\ \A u \in Threads \ {t} : ~KeepsFn(u)
         \/ UNCHANGED <<fnHw, raced>> /\ ~KeepsFn(t)'
  <2>1. CASE Works /\ Advance(t) /\ Race(t, "fn", {"keepFn", "keepSetFn"})
             /\ fnHw' = ~FnlockMode /\ val' = [val EXCEPT ![t] = fnHw']
    <3>1. Drops(t, "setFn") /\ prog'[t] # <<>> /\ Adjacent("setFn", Head(prog'[t]))
      BY <1>1, <2>1, AdvanceDrops DEF Firsts
    <3>2. Head(prog'[t]) = "keepSetFn" /\ KeepsFn(t)'
      BY <3>1 DEF Adjacent, KeepsFn, On
    <3>3. "fn" \notin raced' => \A u \in Threads \ {t} : ~KeepsFn(u)
      BY <2>1 DEF Race, Others, KeepsFn
    <3>4. "mic" \in raced' <=> "mic" \in raced
      BY <2>1 DEF Race
    <3>5. fnHw' \in BOOLEAN
      BY <2>1
    <3>6. val' \in [Threads -> BOOLEAN] /\ val'[t] = fnHw' /\ \A u \in Threads \ {t} : val'[u] = val[u]
      BY <1>1, <2>1, <3>5 DEF DataOK
    <3>. QED  BY <1>1, <2>1, <3>1, <3>2, <3>3, <3>4, <3>5, <3>6 DEF DataOK, Works, On, KeepsMic
  <2>2. CASE (Works \/ Fails) /\ Skip(t, 2) /\ UNCHANGED <<fnHw, val, raced>>
    <3>1. Drops(t, "setFn") /\ Starts(t)
      BY <1>1, <2>2, SkipDrops
    <3>. QED  BY <1>1, <2>2, <3>1, StartsAfresh DEF DataOK, Fails, Works
  <2>. QED  BY <2>1, <2>2 DEF SetFn
<1>5. DataOK' /\ Elsewhere(t)
  BY <1>1, <1>2, <1>3, <1>4 DEF DataOK, Elsewhere
<1>6. FnInv' \/ FnPlain(t, "setFn")
  <2>. SUFFICES ASSUME faults' = 0, "fn" \notin raced', ~FnPlain(t, "setFn")  PROVE FnInv'
    BY DEF FnInv
  <2>1. (val'[t] <=> fnHw') /\ KeepsFn(t)' /\ \A u \in Threads \ {t} : ~KeepsFn(u)
    BY <1>2, <1>4 DEF FnPlain
  <2>2. \A u \in Threads : KeepsFn(u)' <=> u = t
    BY <1>4, <2>1 DEF KeepsFn, On, Drops, Goes
  <2>3. FnKnown'
    BY <2>1, <2>2 DEF FnKnown
  <2>. QED  BY <2>2, <2>3 DEF FnInv
<1>7. MicPlain(t, "setFn") /\ FoldPlain(t) /\ faults <= faults'
  BY <1>1, <1>2, <1>3, <1>4, <1>5, <1>6 DEF MicPlain, FoldPlain, DataOK
<1>. QED  BY <1>1, <1>2, <1>3, <1>4, <1>5, <1>6, <1>7, ThreadStep DEF Lighting

-----------------------------------------------------------------------------
(* The lights of sleep and wake. *)
LEMMA JoinedSteps ==
  ASSUME NEW S, NEW a \in S, NEW b \in S, NEW c \in S
  PROVE  <<a>> \o <<b, c>> = <<a, b, c>> /\ <<a, b>> \o <<c>> = <<a, b, c>>
<1>. DEFINE p == <<a>> \o <<b, c>>
            q == <<a, b>> \o <<c>>
            r == <<a, b, c>>
<1>1. /\ <<a>> \in Seq(S) /\ <<b, c>> \in Seq(S) /\ <<a, b>> \in Seq(S) /\ <<c>> \in Seq(S)
      /\ Len(<<a>>) = 1 /\ Len(<<b, c>>) = 2 /\ Len(<<a, b>>) = 2 /\ Len(<<c>>) = 1
  OBVIOUS
<1>2. p \in Seq(S) /\ q \in Seq(S) /\ r \in Seq(S)
  BY <1>1
<1>3. Len(p) = 3 /\ Len(q) = 3 /\ Len(r) = 3
  BY <1>1
<1>4. p[1] = a /\ p[2] = b /\ p[3] = c
  BY <1>1
<1>5. q[1] = a /\ q[2] = b /\ q[3] = c
  BY <1>1
<1>6. r[1] = a /\ r[2] = b /\ r[3] = c
  OBVIOUS
<1>. HIDE DEF p, q, r
<1>7. \A i \in 1 .. 3 : p[i] = r[i] /\ q[i] = r[i]
  BY <1>4, <1>5, <1>6
<1>8. p = r /\ q = r
  BY <1>2, <1>3, <1>7, SeqEqual
<1>. QED  BY <1>8 DEF p, q, r

LEMMA LightPrograms ==
  /\ <<"setMute">> \o <<"saveMic", "asleep">> = <<"setMute", "saveMic", "asleep">>
  /\ <<"setMic", "keepMic">> \o <<"asleep">> = <<"setMic", "keepMic", "asleep">>
  /\ <<"setMute">> \o <<"restoreMic", "awake">> = <<"setMute", "restoreMic", "awake">>
  /\ <<"setMic", "keepMic">> \o <<"awake">> = <<"setMic", "keepMic", "awake">>
<1>1. \A a, b, c \in Steps : <<a>> \o <<b, c>> = <<a, b, c>> /\ <<a, b>> \o <<c>> = <<a, b, c>>
  BY JoinedSteps
<1>2. /\ "setMute" \in Steps /\ "setMic" \in Steps /\ "keepMic" \in Steps /\ "saveMic" \in Steps
      /\ "restoreMic" \in Steps /\ "asleep" \in Steps /\ "awake" \in Steps
  BY DEF Steps
<1>. QED  BY <1>1, <1>2

(* Where a calm sleep or wake stands, by the step that comes next.         *)
SleepAt(h, q) ==
  \/ h = "sst" /\ q = <<"saveMute", "saveMic", "asleep">> /\ MuteBack /\ MicBack
  \/ /\ Shows("falling")
     /\ \/ h = "saveMute" /\ q = <<"saveMic", "asleep">> /\ MuteBack /\ MicBack
        \/ h = "setMute" /\ q = <<"saveMic", "asleep">> /\ ~arg["pm"] /\ MuteSaved /\ MicBack
        \/ h = "saveMic" /\ q = <<"asleep">> /\ MuteOff /\ MicBack
        \/ h = "setMic" /\ q = <<"keepMic", "asleep">> /\ ~arg["pm"] /\ MuteOff /\ MicSaved
        \/ h = "keepMic" /\ q = <<"asleep">> /\ MuteOff /\ MicOff
        \/ h = "asleep" /\ q = <<>> /\ MuteOff /\ MicOff

WakeAt(h, q) ==
  \/ h = "sst" /\ q = <<"restoreMute", "restoreMic", "awake">> /\ MuteOff /\ MicOff
  \/ /\ Shows("rising")
     /\ \/ h = "restoreMute" /\ q = <<"restoreMic", "awake">> /\ MuteOff /\ MicOff
        \/ h = "setMute" /\ q = <<"restoreMic", "awake">> /\ arg["pm"] /\ (KnownMute => before.mute) /\ MicOff
        \/ h = "restoreMic" /\ q = <<"awake">> /\ MuteBack /\ MicOff
        \/ h = "setMic" /\ q = <<"keepMic", "awake">> /\ arg["pm"] /\ MuteBack /\ ("mic" \in auto => before.mic)
        \/ h = "keepMic" /\ q = <<"awake">> /\ MuteBack /\ MicBack
        \/ h = "awake" /\ q = <<>> /\ MuteBack /\ MicBack

LEMMA SleepStage ==
  ASSUME NEW p, p # <<>>, Falling(p)  PROVE SleepAt(Head(p), Tail(p))
<1>. DEFINE h == Head(p)
            q == Tail(p)
<1>1. CASE p = <<"sst", "saveMute", "saveMic", "asleep">>
  <2>1. h = "sst" /\ q = <<"saveMute", "saveMic", "asleep">>
    BY <1>1
  <2>2. MuteBack /\ MicBack
    BY <1>1 DEF Falling
  <2>. QED  BY <2>1, <2>2 DEF SleepAt
<1>2. CASE p = <<"saveMute", "saveMic", "asleep">>
  <2>1. h = "saveMute" /\ q = <<"saveMic", "asleep">>
    BY <1>2
  <2>2. Shows("falling") /\ MuteBack /\ MicBack
    BY <1>2 DEF Falling
  <2>. QED  BY <2>1, <2>2 DEF SleepAt
<1>3. CASE p = <<"setMute", "saveMic", "asleep">>
  <2>1. h = "setMute" /\ q = <<"saveMic", "asleep">>
    BY <1>3
  <2>2. Shows("falling") /\ ~arg["pm"] /\ MuteSaved /\ MicBack
    BY <1>3 DEF Falling
  <2>. QED  BY <2>1, <2>2 DEF SleepAt
<1>4. CASE p = <<"saveMic", "asleep">>
  <2>1. h = "saveMic" /\ q = <<"asleep">>
    BY <1>4
  <2>2. Shows("falling") /\ MuteOff /\ MicBack
    BY <1>4 DEF Falling
  <2>. QED  BY <2>1, <2>2 DEF SleepAt
<1>5. CASE p = <<"setMic", "keepMic", "asleep">>
  <2>1. h = "setMic" /\ q = <<"keepMic", "asleep">>
    BY <1>5
  <2>2. Shows("falling") /\ ~arg["pm"] /\ MuteOff /\ MicSaved
    BY <1>5 DEF Falling
  <2>. QED  BY <2>1, <2>2 DEF SleepAt
<1>6. CASE p = <<"keepMic", "asleep">>
  <2>1. h = "keepMic" /\ q = <<"asleep">>
    BY <1>6
  <2>2. Shows("falling") /\ MuteOff /\ MicOff
    BY <1>6 DEF Falling
  <2>. QED  BY <2>1, <2>2 DEF SleepAt
<1>7. CASE p = <<"asleep">>
  <2>1. h = "asleep" /\ q = <<>>
    BY <1>7
  <2>2. Shows("falling") /\ MuteOff /\ MicOff
    BY <1>7 DEF Falling
  <2>. QED  BY <2>1, <2>2 DEF SleepAt
<1>. QED  BY <1>1, <1>2, <1>3, <1>4, <1>5, <1>6, <1>7 DEF Falling

LEMMA WakeStage ==
  ASSUME NEW p, p # <<>>, Rising(p)  PROVE WakeAt(Head(p), Tail(p))
<1>. DEFINE h == Head(p)
            q == Tail(p)
<1>1. CASE p = <<"sst", "restoreMute", "restoreMic", "awake">>
  <2>1. h = "sst" /\ q = <<"restoreMute", "restoreMic", "awake">>
    BY <1>1
  <2>2. MuteOff /\ MicOff
    BY <1>1 DEF Rising
  <2>. QED  BY <2>1, <2>2 DEF WakeAt
<1>2. CASE p = <<"restoreMute", "restoreMic", "awake">>
  <2>1. h = "restoreMute" /\ q = <<"restoreMic", "awake">>
    BY <1>2
  <2>2. Shows("rising") /\ MuteOff /\ MicOff
    BY <1>2 DEF Rising
  <2>. QED  BY <2>1, <2>2 DEF WakeAt
<1>3. CASE p = <<"setMute", "restoreMic", "awake">>
  <2>1. h = "setMute" /\ q = <<"restoreMic", "awake">>
    BY <1>3
  <2>2. Shows("rising") /\ arg["pm"] /\ (KnownMute => before.mute) /\ MicOff
    BY <1>3 DEF Rising
  <2>. QED  BY <2>1, <2>2 DEF WakeAt
<1>4. CASE p = <<"restoreMic", "awake">>
  <2>1. h = "restoreMic" /\ q = <<"awake">>
    BY <1>4
  <2>2. Shows("rising") /\ MuteBack /\ MicOff
    BY <1>4 DEF Rising
  <2>. QED  BY <2>1, <2>2 DEF WakeAt
<1>5. CASE p = <<"setMic", "keepMic", "awake">>
  <2>1. h = "setMic" /\ q = <<"keepMic", "awake">>
    BY <1>5
  <2>2. Shows("rising") /\ arg["pm"] /\ MuteBack /\ ("mic" \in auto => before.mic)
    BY <1>5 DEF Rising
  <2>. QED  BY <2>1, <2>2 DEF WakeAt
<1>6. CASE p = <<"keepMic", "awake">>
  <2>1. h = "keepMic" /\ q = <<"awake">>
    BY <1>6
  <2>2. Shows("rising") /\ MuteBack /\ MicBack
    BY <1>6 DEF Rising
  <2>. QED  BY <2>1, <2>2 DEF WakeAt
<1>7. CASE p = <<"awake">>
  <2>1. h = "awake" /\ q = <<>>
    BY <1>7
  <2>2. Shows("rising") /\ MuteBack /\ MicBack
    BY <1>7 DEF Rising
  <2>. QED  BY <2>1, <2>2 DEF WakeAt
<1>. QED  BY <1>1, <1>2, <1>3, <1>4, <1>5, <1>6, <1>7 DEF Rising

LEMMA LightsAt ==
  ASSUME VPCInv, calm, NEW h, On("pm", h)
  PROVE  /\ Idle("acpi") /\ Idle("gate") /\ "mic" \notin raced
         /\ KnownMute => (muteLEDstate <=> before.mute)
         /\ \/ power = "falling" /\ SleepAt(h, Tail(prog["pm"]))
            \/ power = "rising" /\ WakeAt(h, Tail(prog["pm"]))
  BY SleepStage, WakeStage DEF VPCInv, LightInv, On, Idle

LEMMA LightsGoOn ==
  ASSUME VPCInv, NEW h, On("pm", h), Drops("pm", h), calm' => calm, "mic" \notin raced => "mic" \notin raced',
         UNCHANGED <<muteLEDstate, before, auto, power>>,
         calm' => \/ power = "falling" /\ Falling(prog["pm"])'
                  \/ power = "rising" /\ Rising(prog["pm"])'
  PROVE  LightInv'
<1>. SUFFICES ASSUME calm'  PROVE LightInv'
  BY DEF LightInv
<1>1. /\ Idle("acpi") /\ Idle("gate") /\ "mic" \notin raced'
      /\ KnownMute => (muteLEDstate <=> before.mute)
  BY LightsAt
<1>2. Idle("acpi")' /\ Idle("gate")'
  BY <1>1 DEF Drops, Goes, Idle
<1>. QED  BY <1>1, <1>2 DEF LightInv, KnownMute

LEMMA SetMicPreserves ==
  ASSUME VPCInv, NEW t \in Threads, SetMic(t)
  PROVE  VPCInv'
<1>1. On(t, "setMic") /\ ProgramsOK /\ DataOK
  BY DEF SetMic, VPCInv, TypeOK
<1>2. UNCHANGED <<events, pending, fold, fnHw, clamHw, muteHw, sstHw, kbd, tpd, FnlockMode,
                  clamshellMode, tabletLike, auto, subscribed, power, muteLEDstate, muteLEDstateSaved,
                  micMuteLEDstate, micMuteLEDstateSaved, event, val, answers, steady, before, settled>>
  BY DEF SetMic, modes, leds
<1>. DEFINE Set == /\ faults' = faults /\ micHw' = arg[t] /\ UNCHANGED arg /\ Advance(t)
                   /\ "mic" \notin raced' <=> \A u \in Threads \ {t} : ~KeepsMic(u)
                   /\ KeepsMic(t)'
            Missed == UNCHANGED <<micHw, raced>> /\ ~KeepsMic(t)' /\ faults' # faults
<1>3. /\ faults' \in Nat /\ faults <= faults' /\ micHw' \in BOOLEAN
      /\ arg' \in [Threads -> BOOLEAN] /\ \A u \in Threads \ {t} : arg'[u] = arg[u]
      /\ "fn" \in raced' <=> "fn" \in raced
      /\ Drops(t, "setMic") /\ ~KeepsFn(t)' /\ ~On(t, "topKbd")' /\ ~On(t, "topTpd")'
      /\ Set \/ Missed
  <2>1. CASE Works /\ micHw' = arg[t] /\ Advance(t) /\ Race(t, "mic", {"keepMic"}) /\ UNCHANGED arg
    <3>1. Drops(t, "setMic") /\ prog'[t] # <<>> /\ Adjacent("setMic", Head(prog'[t]))
      BY <1>1, <2>1, AdvanceDrops DEF Firsts
    <3>2. Head(prog'[t]) = "keepMic" /\ KeepsMic(t)'
      BY <3>1 DEF Adjacent, KeepsMic, On
    <3>3. "mic" \notin raced' <=> \A u \in Threads \ {t} : ~KeepsMic(u)
      BY <2>1 DEF Race, Others, KeepsMic
    <3>4. "fn" \in raced' <=> "fn" \in raced
      BY <2>1 DEF Race
    <3>. QED  BY <1>1, <2>1, <3>1, <3>2, <3>3, <3>4 DEF DataOK, Works, On, KeepsFn
  <2>2. CASE Fails /\ Skip(t, 2) /\ arg' = Forget(arg, t) /\ UNCHANGED <<micHw, raced>>
    <3>1. Drops(t, "setMic") /\ Starts(t)
      BY <1>1, <2>2, SkipDrops
    <3>. QED  BY <1>1, <2>2, <3>1, StartsAfresh DEF DataOK, Fails, Forget
  <2>. QED  BY <2>1, <2>2 DEF SetMic
<1>4. calm' \in BOOLEAN /\ (calm' <=> calm /\ faults' = faults)
  BY DEF SetMic
<1>5. DataOK' /\ Elsewhere(t)
  BY <1>1, <1>2, <1>3, <1>4 DEF DataOK, Elsewhere
<1>6. MicInv' \/ MicPlain(t, "setMic")
  <2>. SUFFICES ASSUME Set, "mic" \notin raced'  PROVE MicInv'
    BY <1>2, <1>3 DEF MicInv, MicPlain
  <2>1. \A u \in Threads : KeepsMic(u)' <=> u = t
    BY <1>3 DEF KeepsMic, On, Drops, Goes
  <2>. QED  BY <2>1 DEF MicInv
<1>7. LightInv' \/ t # "pm"
  <2>. SUFFICES ASSUME t = "pm"  PROVE LightInv'
    OBVIOUS
  <2>1. ASSUME calm'
        PROVE  /\ "mic" \notin raced'
               /\ \/ power = "falling" /\ Falling(prog["pm"])'
                  \/ power = "rising" /\ Rising(prog["pm"])'
    <3>1. Set /\ Idle("acpi") /\ Idle("gate") /\ prog'["pm"] = Tail(prog["pm"])
      BY <1>1, <1>3, <1>4, <2>1, LightsAt, AdvanceDrops
    <3>2. "mic" \notin raced'
      BY <3>1 DEF KeepsMic, On, Idle
    <3>3. CASE power = "falling" /\ SleepAt("setMic", Tail(prog["pm"]))
      <4>1. /\ prog'["pm"] = <<"keepMic", "asleep">>
            /\ Shows("falling") /\ ~arg["pm"] /\ MuteOff /\ MicSaved
        BY <3>1, <3>3 DEF SleepAt
      <4>2. Shows("falling")' /\ MuteOff' /\ MicOff'
        BY <1>2, <3>1, <4>1 DEF Shows, MuteOff, MicOff, MuteSaved, MicSaved, KnownMute
      <4>. QED  BY <3>2, <3>3, <4>1, <4>2 DEF Falling
    <3>4. CASE power = "rising" /\ WakeAt("setMic", Tail(prog["pm"]))
      <4>1. /\ prog'["pm"] = <<"keepMic", "awake">>
            /\ Shows("rising") /\ arg["pm"] /\ MuteBack /\ ("mic" \in auto => before.mic)
        BY <3>1, <3>4 DEF WakeAt
      <4>2. Shows("rising")' /\ MuteBack' /\ MicBack'
        BY <1>2, <3>1, <4>1 DEF Shows, MuteBack, MicBack, KnownMute
      <4>. QED  BY <3>2, <3>4, <4>1, <4>2 DEF Rising
    <3>. QED  BY <1>1, <1>4, <2>1, <3>3, <3>4, LightsAt
  <2>2. CASE calm'
    BY <1>1, <1>2, <1>3, <1>4, <2>1, <2>2, LightsGoOn
  <2>3. CASE ~calm'
    BY <2>3 DEF LightInv
  <2>. QED  BY <2>2, <2>3
<1>8. FnPlain(t, "setMic") /\ FoldPlain(t) /\ faults <= faults'
  BY <1>1, <1>2, <1>3, <1>4, <1>5, <1>6, <1>7 DEF FnPlain, FoldPlain, DataOK
<1>. QED  BY <1>1, <1>2, <1>3, <1>4, <1>5, <1>6, <1>7, <1>8, ThreadStep

LEMMA KeepMicPreserves ==
  ASSUME VPCInv, NEW t \in Threads, KeepMic(t)
  PROVE  VPCInv'
<1>1. On(t, "keepMic") /\ ProgramsOK /\ DataOK
  BY DEF KeepMic, VPCInv, TypeOK
<1>2. UNCHANGED <<events, pending, fold, fnHw, clamHw, muteHw, micHw, sstHw, kbd, tpd, FnlockMode,
                  clamshellMode, tabletLike, auto, subscribed, power, muteLEDstate, muteLEDstateSaved,
                  micMuteLEDstateSaved, event, val, faults, answers, steady, raced, calm, before, settled>>
  BY DEF KeepMic, firmware, modes, history
<1>3. /\ micMuteLEDstate' = arg[t] /\ micMuteLEDstate' \in BOOLEAN
      /\ arg' \in [Threads -> BOOLEAN] /\ \A u \in Threads \ {t} : arg'[u] = arg[u]
  BY <1>1 DEF KeepMic, DataOK, Forget
<1>4. Drops(t, "keepMic") /\ Starts(t) /\ prog'[t] = Tail(prog[t])
  BY <1>1, AdvanceDrops DEF KeepMic, Firsts
<1>5. DataOK' /\ Elsewhere(t)
  BY <1>1, <1>2, <1>3 DEF DataOK, Elsewhere
<1>6. MicInv'
  <2>. SUFFICES ASSUME "mic" \notin raced'  PROVE MicInv'
    BY DEF MicInv
  <2>1. (arg[t] <=> micHw) /\ \A u \in Threads \ {t} : ~KeepsMic(u)
    BY <1>1, <1>2 DEF KeepsMic, VPCInv, MicInv
  <2>2. \A u \in Threads : ~KeepsMic(u)'
    BY <1>4, <2>1, StartsAfresh DEF Drops, Goes, KeepsMic, On
  <2>. QED  BY <1>2, <1>3, <2>1, <2>2 DEF MicInv
<1>7. LightInv' \/ t # "pm"
  <2>. SUFFICES ASSUME t = "pm"  PROVE LightInv'
    OBVIOUS
  <2>1. ASSUME calm
        PROVE  \/ power = "falling" /\ Falling(prog["pm"])'
               \/ power = "rising" /\ Rising(prog["pm"])'
    <3>1. CASE power = "falling" /\ SleepAt("keepMic", Tail(prog["pm"]))
      <4>1. prog'["pm"] = <<"asleep">> /\ Shows("falling") /\ MuteOff /\ MicOff
        BY <1>4, <3>1 DEF SleepAt
      <4>2. Shows("falling")' /\ MuteOff' /\ MicOff'
        BY <1>2, <4>1 DEF Shows, MuteOff, MicOff, MuteSaved, MicSaved, KnownMute
      <4>. QED  BY <3>1, <4>1, <4>2 DEF Falling
    <3>2. CASE power = "rising" /\ WakeAt("keepMic", Tail(prog["pm"]))
      <4>1. prog'["pm"] = <<"awake">> /\ Shows("rising") /\ MuteBack /\ MicBack
        BY <1>4, <3>2 DEF WakeAt
      <4>2. Shows("rising")' /\ MuteBack' /\ MicBack'
        BY <1>2, <4>1 DEF Shows, MuteBack, MicBack, KnownMute
      <4>. QED  BY <3>2, <4>1, <4>2 DEF Rising
    <3>. QED  BY <1>1, <2>1, <3>1, <3>2, LightsAt
  <2>. QED  BY <1>1, <1>2, <1>4, <2>1, LightsGoOn
<1>8. FnPlain(t, "keepMic") /\ FoldPlain(t)
  BY <1>2, <1>4, StartsAfresh DEF FnPlain, FoldPlain
<1>9. faults <= faults'
  BY <1>1, <1>2 DEF DataOK
<1>. QED  BY <1>1, <1>2, <1>4, <1>5, <1>6, <1>7, <1>8, <1>9, ThreadStep

LEMMA SetMutePreserves ==
  ASSUME VPCInv, NEW t \in Threads, SetMute(t)
  PROVE  VPCInv'
<1>1. On(t, "setMute") /\ ProgramsOK /\ DataOK
  BY DEF SetMute, VPCInv, TypeOK
<1>2. UNCHANGED <<events, pending, fold, fnHw, clamHw, micHw, sstHw, kbd, tpd, FnlockMode,
                  clamshellMode, tabletLike, auto, subscribed, power, muteLEDstate, muteLEDstateSaved,
                  micMuteLEDstate, micMuteLEDstateSaved, event, val, answers, steady, raced, before, settled>>
  BY DEF SetMute, modes, leds
<1>3. /\ faults' \in Nat /\ faults <= faults' /\ muteHw' \in BOOLEAN
      /\ arg' \in [Threads -> BOOLEAN] /\ \A u \in Threads \ {t} : arg'[u] = arg[u]
      /\ calm' \in BOOLEAN /\ (calm' <=> calm /\ faults' = faults)
      /\ faults' = faults => muteHw' = arg[t]
  <2>1. calm' \in BOOLEAN /\ (calm' <=> calm /\ faults' = faults)
    BY DEF SetMute
  <2>2. arg' \in [Threads -> BOOLEAN] /\ \A u \in Threads \ {t} : arg'[u] = arg[u]
    BY <1>1 DEF SetMute, DataOK, Forget
  <2>3. /\ faults' \in Nat /\ faults <= faults' /\ muteHw' \in BOOLEAN
        /\ faults' = faults => muteHw' = arg[t]
    BY <1>1 DEF SetMute, DataOK, Works, Fails
  <2>. QED  BY <2>1, <2>2, <2>3
<1>4. Drops(t, "setMute") /\ Starts(t) /\ prog'[t] = Tail(prog[t])
  BY <1>1, AdvanceDrops DEF SetMute, Firsts
<1>5. DataOK' /\ Elsewhere(t)
  BY <1>1, <1>2, <1>3 DEF DataOK, Elsewhere
<1>6. LightInv' \/ t # "pm"
  <2>. SUFFICES ASSUME t = "pm"  PROVE LightInv'
    OBVIOUS
  <2>1. ASSUME calm'
        PROVE  \/ power = "falling" /\ Falling(prog["pm"])'
               \/ power = "rising" /\ Rising(prog["pm"])'
    <3>1. CASE power = "falling" /\ SleepAt("setMute", Tail(prog["pm"]))
      <4>1. /\ prog'["pm"] = <<"saveMic", "asleep">>
            /\ Shows("falling") /\ ~arg["pm"] /\ MuteSaved /\ MicBack
        BY <1>4, <3>1 DEF SleepAt
      <4>2. Shows("falling")' /\ MuteOff' /\ MicBack'
        BY <1>2, <1>3, <2>1, <4>1 DEF Shows, MuteOff, MicBack, MuteSaved, KnownMute
      <4>. QED  BY <3>1, <4>1, <4>2 DEF Falling
    <3>2. CASE power = "rising" /\ WakeAt("setMute", Tail(prog["pm"]))
      <4>1. /\ prog'["pm"] = <<"restoreMic", "awake">>
            /\ Shows("rising") /\ arg["pm"] /\ (KnownMute => before.mute) /\ MicOff
        BY <1>4, <3>2 DEF WakeAt
      <4>2. Shows("rising")' /\ MuteBack' /\ MicOff'
        BY <1>2, <1>3, <2>1, <4>1 DEF Shows, MuteBack, MicOff, MicSaved, KnownMute
      <4>. QED  BY <3>2, <4>1, <4>2 DEF Rising
    <3>. QED  BY <1>1, <1>3, <2>1, <3>1, <3>2, LightsAt
  <2>. QED  BY <1>1, <1>2, <1>3, <1>4, <2>1, LightsGoOn
<1>7. FnPlain(t, "setMute") /\ MicPlain(t, "setMute") /\ FoldPlain(t) /\ faults <= faults'
  BY <1>1, <1>2, <1>3, <1>4, <1>5, <1>6, StartsAfresh DEF FnPlain, MicPlain, FoldPlain, DataOK
<1>. QED  BY <1>1, <1>2, <1>3, <1>4, <1>5, <1>6, <1>7, ThreadStep

LEMMA IndicatePreserves ==
  ASSUME VPCInv, Indicate("pm")
  PROVE  VPCInv'
<1>1. On("pm", "sst") /\ ProgramsOK /\ DataOK
  BY DEF Indicate, VPCInv, TypeOK
<1>2. UNCHANGED <<events, pending, fold, fnHw, clamHw, muteHw, micHw, kbd, tpd, FnlockMode,
                  clamshellMode, tabletLike, auto, subscribed, power, muteLEDstate, muteLEDstateSaved,
                  micMuteLEDstate, micMuteLEDstateSaved, event, arg, val, answers, steady, raced, before, settled>>
  BY DEF Indicate, modes, leds, locals
<1>3. /\ faults' \in Nat /\ faults <= faults'
      /\ calm' \in BOOLEAN /\ (calm' <=> calm /\ faults' = faults)
      /\ faults' = faults /\ "sst" \in auto => sstHw' = power
  <2>1. calm' \in BOOLEAN /\ (calm' <=> calm /\ faults' = faults)
    BY DEF Indicate
  <2>2. /\ faults' \in Nat /\ faults <= faults'
        /\ faults' = faults /\ "sst" \in auto => sstHw' = power
    BY <1>1 DEF Indicate, DataOK, Works, Fails
  <2>. QED  BY <2>1, <2>2
<1>4. Drops("pm", "sst") /\ Starts("pm") /\ prog'["pm"] = Tail(prog["pm"])
  BY <1>1, AdvanceDrops DEF Indicate, Firsts
<1>5. DataOK' /\ Elsewhere("pm")
  BY <1>1, <1>2, <1>3 DEF DataOK, Elsewhere
<1>6. LightInv'
  <2>1. ASSUME calm'
        PROVE  \/ power = "falling" /\ Falling(prog["pm"])'
               \/ power = "rising" /\ Rising(prog["pm"])'
    <3>1. CASE power = "falling" /\ SleepAt("sst", Tail(prog["pm"]))
      <4>1. /\ prog'["pm"] = <<"saveMute", "saveMic", "asleep">>
            /\ MuteBack /\ MicBack
        BY <1>4, <3>1 DEF SleepAt
      <4>2. Shows("falling")' /\ MuteBack' /\ MicBack'
        BY <1>2, <1>3, <2>1, <3>1, <4>1 DEF Shows, MuteBack, MicBack, KnownMute
      <4>. QED  BY <3>1, <4>1, <4>2 DEF Falling
    <3>2. CASE power = "rising" /\ WakeAt("sst", Tail(prog["pm"]))
      <4>1. /\ prog'["pm"] = <<"restoreMute", "restoreMic", "awake">>
            /\ MuteOff /\ MicOff
        BY <1>4, <3>2 DEF WakeAt
      <4>2. Shows("rising")' /\ MuteOff' /\ MicOff'
        BY <1>2, <1>3, <2>1, <3>2, <4>1 DEF Shows, MuteOff, MicOff, MuteSaved, MicSaved, KnownMute
      <4>. QED  BY <3>2, <4>1, <4>2 DEF Rising
    <3>. QED  BY <1>1, <1>3, <2>1, <3>1, <3>2, LightsAt
  <2>. QED  BY <1>1, <1>2, <1>3, <1>4, <2>1, LightsGoOn
<1>7. FnPlain("pm", "sst") /\ MicPlain("pm", "sst") /\ FoldPlain("pm")
  BY <1>2, <1>4, StartsAfresh DEF FnPlain, MicPlain, FoldPlain
<1>. QED  BY <1>1, <1>2, <1>3, <1>4, <1>5, <1>6, <1>7, ThreadStep

LEMMA SaveMutePreserves ==
  ASSUME VPCInv, SaveMute("pm")
  PROVE  VPCInv'
<1>1. On("pm", "saveMute") /\ ProgramsOK /\ DataOK
  BY DEF SaveMute, VPCInv, TypeOK
<1>2. UNCHANGED <<events, pending, fold, fnHw, clamHw, muteHw, micHw, sstHw, kbd, tpd, FnlockMode,
                  clamshellMode, tabletLike, auto, subscribed, power, muteLEDstate,
                  micMuteLEDstate, micMuteLEDstateSaved, event, val, faults, answers, steady, raced,
                  calm, before, settled>>
  BY DEF SaveMute, firmware, modes, history
<1>3. /\ arg' \in [Threads -> BOOLEAN] /\ \A u \in Threads \ {"pm"} : arg'[u] = arg[u]
      /\ muteLEDstateSaved' \in BOOLEAN
      /\ "mute" \in auto => (muteLEDstateSaved' <=> muteLEDstate) /\ ~arg'["pm"]
  BY <1>1 DEF SaveMute, Darken, DataOK
<1>4. /\ Drops("pm", "saveMute") /\ Starts("pm")
      /\ IF "mute" \in auto /\ muteLEDstate THEN prog'["pm"] = <<"setMute">> \o Tail(prog["pm"])
                                            ELSE prog'["pm"] = Tail(prog["pm"])
  <2>1. CASE "mute" \in auto /\ muteLEDstate
    BY <1>1, <2>1, InsertDrops DEF SaveMute, Darken, Firsts
  <2>2. CASE ~("mute" \in auto /\ muteLEDstate)
    <3>1. Advance("pm")
      BY <1>1, <2>2, InsertNothing DEF SaveMute, Darken
    <3>. QED  BY <1>1, <2>2, <3>1, AdvanceDrops DEF Firsts
  <2>. QED  BY <2>1, <2>2
<1>5. DataOK' /\ Elsewhere("pm")
  BY <1>1, <1>2, <1>3 DEF DataOK, Elsewhere
<1>6. LightInv'
  <2>1. ASSUME calm
        PROVE  power = "falling" /\ Falling(prog["pm"])'
    <3>1. /\ power = "falling" /\ Tail(prog["pm"]) = <<"saveMic", "asleep">>
          /\ Shows("falling") /\ MuteBack /\ MicBack
          /\ KnownMute => (muteLEDstate <=> before.mute)
      BY <1>1, <2>1, LightsAt DEF SleepAt, WakeAt
    <3>2. Shows("falling")' /\ MuteSaved' /\ MicBack'
      BY <1>2, <1>3, <3>1 DEF Shows, MuteSaved, MicBack, KnownMute
    <3>3. CASE "mute" \in auto /\ muteLEDstate
      <4>1. prog'["pm"] = <<"setMute", "saveMic", "asleep">> /\ ~arg'["pm"]
        BY <1>3, <1>4, <3>1, <3>3, LightPrograms
      <4>. QED  BY <3>1, <3>2, <4>1 DEF Falling
    <3>4. CASE ~("mute" \in auto /\ muteLEDstate)
      <4>1. prog'["pm"] = <<"saveMic", "asleep">>
        BY <1>4, <3>1, <3>4
      <4>2. MuteOff'
        BY <1>2, <3>1, <3>2, <3>4 DEF MuteOff, MuteBack, KnownMute
      <4>. QED  BY <3>1, <3>2, <4>1, <4>2 DEF Falling
    <3>. QED  BY <3>3, <3>4
  <2>. QED  BY <1>1, <1>2, <1>4, <2>1, LightsGoOn
<1>7. FnPlain("pm", "saveMute") /\ MicPlain("pm", "saveMute") /\ FoldPlain("pm") /\ faults <= faults'
  BY <1>1, <1>2, <1>4, StartsAfresh DEF FnPlain, MicPlain, FoldPlain, DataOK
<1>. QED  BY <1>1, <1>2, <1>4, <1>5, <1>6, <1>7, ThreadStep

LEMMA SaveMicPreserves ==
  ASSUME VPCInv, SaveMic("pm")
  PROVE  VPCInv'
<1>1. On("pm", "saveMic") /\ ProgramsOK /\ DataOK
  BY DEF SaveMic, VPCInv, TypeOK
<1>2. UNCHANGED <<events, pending, fold, fnHw, clamHw, muteHw, micHw, sstHw, kbd, tpd, FnlockMode,
                  clamshellMode, tabletLike, auto, subscribed, power, muteLEDstate, muteLEDstateSaved,
                  micMuteLEDstate, event, val, faults, answers, steady, raced, calm, before, settled>>
  BY DEF SaveMic, firmware, modes, history
<1>3. /\ arg' \in [Threads -> BOOLEAN] /\ \A u \in Threads \ {"pm"} : arg'[u] = arg[u]
      /\ micMuteLEDstateSaved' \in BOOLEAN
      /\ "mic" \in auto => (micMuteLEDstateSaved' <=> micMuteLEDstate) /\ ~arg'["pm"]
  BY <1>1 DEF SaveMic, Darken, DataOK
<1>4. /\ Drops("pm", "saveMic") /\ Starts("pm")
      /\ IF "mic" \in auto /\ micMuteLEDstate THEN prog'["pm"] = <<"setMic", "keepMic">> \o Tail(prog["pm"])
                                              ELSE prog'["pm"] = Tail(prog["pm"])
  <2>1. CASE "mic" \in auto /\ micMuteLEDstate
    BY <1>1, <2>1, InsertDrops DEF SaveMic, Darken, Firsts
  <2>2. CASE ~("mic" \in auto /\ micMuteLEDstate)
    <3>1. Advance("pm")
      BY <1>1, <2>2, InsertNothing DEF SaveMic, Darken
    <3>. QED  BY <1>1, <2>2, <3>1, AdvanceDrops DEF Firsts
  <2>. QED  BY <2>1, <2>2
<1>5. DataOK' /\ Elsewhere("pm")
  BY <1>1, <1>2, <1>3 DEF DataOK, Elsewhere
<1>6. LightInv'
  <2>1. ASSUME calm
        PROVE  power = "falling" /\ Falling(prog["pm"])'
    <3>1. /\ power = "falling" /\ Tail(prog["pm"]) = <<"asleep">>
          /\ Shows("falling") /\ MuteOff /\ MicBack
          /\ Idle("acpi") /\ Idle("gate") /\ "mic" \notin raced
      BY <1>1, <2>1, LightsAt DEF SleepAt, WakeAt
    <3>2. micMuteLEDstate <=> micHw
      <4>1. \A u \in Threads : ~KeepsMic(u)
        BY <1>1, <3>1 DEF KeepsMic, On, Idle
      <4>. QED  BY <3>1, <4>1 DEF VPCInv, MicInv
    <3>3. Shows("falling")' /\ MuteOff' /\ MicSaved'
      BY <1>2, <1>3, <3>1, <3>2 DEF Shows, MuteOff, MuteSaved, MicSaved, MicBack, KnownMute
    <3>4. CASE "mic" \in auto /\ micMuteLEDstate
      <4>1. prog'["pm"] = <<"setMic", "keepMic", "asleep">> /\ ~arg'["pm"]
        BY <1>3, <1>4, <3>1, <3>4, LightPrograms
      <4>. QED  BY <3>1, <3>3, <4>1 DEF Falling
    <3>5. CASE ~("mic" \in auto /\ micMuteLEDstate)
      <4>1. prog'["pm"] = <<"asleep">>
        BY <1>4, <3>1, <3>5
      <4>2. MicOff'
        BY <1>2, <3>2, <3>3, <3>5 DEF MicOff
      <4>. QED  BY <3>1, <3>3, <4>1, <4>2 DEF Falling
    <3>. QED  BY <3>4, <3>5
  <2>. QED  BY <1>1, <1>2, <1>4, <2>1, LightsGoOn
<1>7. FnPlain("pm", "saveMic") /\ MicPlain("pm", "saveMic") /\ FoldPlain("pm") /\ faults <= faults'
  BY <1>1, <1>2, <1>4, StartsAfresh DEF FnPlain, MicPlain, FoldPlain, DataOK
<1>. QED  BY <1>1, <1>2, <1>4, <1>5, <1>6, <1>7, ThreadStep

LEMMA RestoreMutePreserves ==
  ASSUME VPCInv, RestoreMute("pm")
  PROVE  VPCInv'
<1>1. On("pm", "restoreMute") /\ ProgramsOK /\ DataOK
  BY DEF RestoreMute, VPCInv, TypeOK
<1>2. UNCHANGED <<events, pending, fold, fnHw, clamHw, muteHw, micHw, sstHw, kbd, tpd, FnlockMode,
                  clamshellMode, tabletLike, auto, subscribed, power, muteLEDstate, muteLEDstateSaved,
                  micMuteLEDstate, micMuteLEDstateSaved, event, val, faults, answers, steady, raced,
                  calm, before, settled>>
  BY DEF RestoreMute, Restore, firmware, modes, leds, history
<1>. DEFINE Lit == "mute" \in auto /\ muteLEDstateSaved
<1>3. /\ arg' \in [Threads -> BOOLEAN] /\ \A u \in Threads \ {"pm"} : arg'[u] = arg[u]
      /\ arg'["pm"] <=> Lit
  <2>1. PICK b \in BOOLEAN : (b <=> Lit) /\ arg' = [arg EXCEPT !["pm"] = b]
    BY DEF RestoreMute, Restore
  <2>. QED  BY <1>1, <2>1 DEF DataOK
<1>4. /\ Drops("pm", "restoreMute") /\ Starts("pm")
      /\ IF Lit THEN prog'["pm"] = <<"setMute">> \o Tail(prog["pm"])
                ELSE prog'["pm"] = Tail(prog["pm"])
  <2>1. CASE Lit
    BY <1>1, <2>1, InsertDrops DEF RestoreMute, Restore, Firsts
  <2>2. CASE ~Lit
    <3>1. Advance("pm")
      BY <1>1, <2>2, InsertNothing DEF RestoreMute, Restore
    <3>. QED  BY <1>1, <2>2, <3>1, AdvanceDrops DEF Firsts
  <2>. QED  BY <2>1, <2>2
<1>5. DataOK' /\ Elsewhere("pm")
  BY <1>1, <1>2, <1>3 DEF DataOK, Elsewhere
<1>6. LightInv'
  <2>1. ASSUME calm
        PROVE  power = "rising" /\ Rising(prog["pm"])'
    <3>1. /\ power = "rising" /\ Tail(prog["pm"]) = <<"restoreMic", "awake">>
          /\ Shows("rising") /\ MuteOff /\ MicOff
      BY <1>1, <2>1, LightsAt DEF SleepAt, WakeAt
    <3>2. Shows("rising")' /\ MicOff'
      BY <1>2, <3>1 DEF Shows, MicOff, MicSaved
    <3>3. CASE Lit
      <4>1. prog'["pm"] = <<"setMute", "restoreMic", "awake">> /\ arg'["pm"]
        BY <1>3, <1>4, <3>1, <3>3, LightPrograms
      <4>2. (KnownMute => before.mute)'
        BY <1>2, <3>1, <3>3 DEF MuteOff, MuteSaved, KnownMute
      <4>. QED  BY <3>1, <3>2, <4>1, <4>2 DEF Rising
    <3>4. CASE ~Lit
      <4>1. prog'["pm"] = <<"restoreMic", "awake">>
        BY <1>4, <3>1, <3>4
      <4>2. MuteBack'
        BY <1>2, <3>1, <3>4 DEF MuteOff, MuteSaved, MuteBack, KnownMute
      <4>. QED  BY <3>1, <3>2, <4>1, <4>2 DEF Rising
    <3>. QED  BY <3>3, <3>4
  <2>. QED  BY <1>1, <1>2, <1>4, <2>1, LightsGoOn
<1>7. FnPlain("pm", "restoreMute") /\ MicPlain("pm", "restoreMute") /\ FoldPlain("pm") /\ faults <= faults'
  BY <1>1, <1>2, <1>4, StartsAfresh DEF FnPlain, MicPlain, FoldPlain, DataOK
<1>. QED  BY <1>1, <1>2, <1>4, <1>5, <1>6, <1>7, ThreadStep

LEMMA RestoreMicPreserves ==
  ASSUME VPCInv, RestoreMic("pm")
  PROVE  VPCInv'
<1>1. On("pm", "restoreMic") /\ ProgramsOK /\ DataOK
  BY DEF RestoreMic, VPCInv, TypeOK
<1>2. UNCHANGED <<events, pending, fold, fnHw, clamHw, muteHw, micHw, sstHw, kbd, tpd, FnlockMode,
                  clamshellMode, tabletLike, auto, subscribed, power, muteLEDstate, muteLEDstateSaved,
                  micMuteLEDstate, micMuteLEDstateSaved, event, val, faults, answers, steady, raced,
                  calm, before, settled>>
  BY DEF RestoreMic, Restore, firmware, modes, leds, history
<1>. DEFINE Lit == "mic" \in auto /\ micMuteLEDstateSaved
<1>3. /\ arg' \in [Threads -> BOOLEAN] /\ \A u \in Threads \ {"pm"} : arg'[u] = arg[u]
      /\ arg'["pm"] <=> Lit
  <2>1. PICK b \in BOOLEAN : (b <=> Lit) /\ arg' = [arg EXCEPT !["pm"] = b]
    BY DEF RestoreMic, Restore
  <2>. QED  BY <1>1, <2>1 DEF DataOK
<1>4. /\ Drops("pm", "restoreMic") /\ Starts("pm")
      /\ IF Lit THEN prog'["pm"] = <<"setMic", "keepMic">> \o Tail(prog["pm"])
                ELSE prog'["pm"] = Tail(prog["pm"])
  <2>1. CASE Lit
    BY <1>1, <2>1, InsertDrops DEF RestoreMic, Restore, Firsts
  <2>2. CASE ~Lit
    <3>1. Advance("pm")
      BY <1>1, <2>2, InsertNothing DEF RestoreMic, Restore
    <3>. QED  BY <1>1, <2>2, <3>1, AdvanceDrops DEF Firsts
  <2>. QED  BY <2>1, <2>2
<1>5. DataOK' /\ Elsewhere("pm")
  BY <1>1, <1>2, <1>3 DEF DataOK, Elsewhere
<1>6. LightInv'
  <2>1. ASSUME calm
        PROVE  power = "rising" /\ Rising(prog["pm"])'
    <3>1. /\ power = "rising" /\ Tail(prog["pm"]) = <<"awake">>
          /\ Shows("rising") /\ MuteBack /\ MicOff
      BY <1>1, <2>1, LightsAt DEF SleepAt, WakeAt
    <3>2. Shows("rising")' /\ MuteBack'
      BY <1>2, <3>1 DEF Shows, MuteBack, KnownMute
    <3>3. CASE Lit
      <4>1. prog'["pm"] = <<"setMic", "keepMic", "awake">> /\ arg'["pm"]
        BY <1>3, <1>4, <3>1, <3>3, LightPrograms
      <4>2. ("mic" \in auto => before.mic)'
        BY <1>2, <3>1, <3>3 DEF MicOff, MicSaved
      <4>. QED  BY <3>1, <3>2, <4>1, <4>2 DEF Rising
    <3>4. CASE ~Lit
      <4>1. prog'["pm"] = <<"awake">>
        BY <1>4, <3>1, <3>4
      <4>2. MicBack'
        BY <1>2, <3>1, <3>4 DEF MicOff, MicSaved, MicBack
      <4>. QED  BY <3>1, <3>2, <4>1, <4>2 DEF Rising
    <3>. QED  BY <3>3, <3>4
  <2>. QED  BY <1>1, <1>2, <1>4, <2>1, LightsGoOn
<1>7. FnPlain("pm", "restoreMic") /\ MicPlain("pm", "restoreMic") /\ FoldPlain("pm") /\ faults <= faults'
  BY <1>1, <1>2, <1>4, StartsAfresh DEF FnPlain, MicPlain, FoldPlain, DataOK
<1>. QED  BY <1>1, <1>2, <1>4, <1>5, <1>6, <1>7, ThreadStep

LEMMA EndOfPowerStatePreserves ==
  ASSUME VPCInv, EndOfPowerState("pm")
  PROVE  VPCInv'
<1>1. PICK h \in {"asleep", "awake"} : On("pm", h)
  BY DEF EndOfPowerState
<1>2. ProgramsOK /\ DataOK
  BY DEF VPCInv, TypeOK
<1>3. UNCHANGED <<events, pending, fold, fnHw, clamHw, muteHw, micHw, sstHw, kbd, tpd, FnlockMode,
                  clamshellMode, tabletLike, auto, subscribed, muteLEDstate, muteLEDstateSaved,
                  micMuteLEDstate, micMuteLEDstateSaved, event, arg, val, faults, answers, steady, raced,
                  calm, before, settled>>
  BY DEF EndOfPowerState, firmware, leds, locals, history
<1>4. Drops("pm", h) /\ Starts("pm") /\ prog'["pm"] = Tail(prog["pm"])
  BY <1>1, <1>2, AdvanceDrops DEF EndOfPowerState, Firsts
<1>5. DataOK' /\ Elsewhere("pm")
  BY <1>2, <1>3 DEF DataOK, Elsewhere
<1>6. LightInv'
  <2>. SUFFICES ASSUME calm  PROVE LightInv'
    BY <1>3 DEF LightInv
  <2>1. Idle("acpi")' /\ Idle("gate")' /\ "mic" \notin raced' /\ (KnownMute => (muteLEDstate <=> before.mute))'
    BY <1>1, <1>3, <1>4, LightsAt DEF Drops, Goes, Idle, KnownMute
  <2>2. CASE h = "asleep"
    <3>1. Tail(prog["pm"]) = <<>> /\ Shows("falling") /\ MuteOff /\ MicOff
      BY <1>1, <2>2, LightsAt DEF SleepAt, WakeAt
    <3>2. Shows("falling")' /\ MuteOff' /\ MicOff'
      BY <1>3, <3>1 DEF Shows, MuteOff, MicOff, MuteSaved, MicSaved, KnownMute
    <3>3. power' = "off" /\ Idle("pm")'
      BY <1>1, <1>4, <2>2, <3>1 DEF EndOfPowerState, Idle
    <3>. QED  BY <2>1, <3>2, <3>3 DEF LightInv
  <2>3. CASE h = "awake"
    <3>1. Tail(prog["pm"]) = <<>> /\ Shows("rising") /\ MuteBack /\ MicBack
      BY <1>1, <2>3, LightsAt DEF SleepAt, WakeAt
    <3>2. Shows("rising")' /\ MuteBack' /\ MicBack'
      BY <1>3, <3>1 DEF Shows, MuteBack, MicBack, KnownMute
    <3>3. power' = "on" /\ Idle("pm")'
      BY <1>1, <1>4, <2>3, <3>1 DEF EndOfPowerState, Idle, On
    <3>. QED  BY <2>1, <3>2, <3>3 DEF LightInv
  <2>. QED  BY <2>2, <2>3
<1>7. FnPlain("pm", h) /\ MicPlain("pm", h) /\ FoldPlain("pm") /\ faults <= faults'
  BY <1>1, <1>2, <1>3, <1>4, StartsAfresh DEF FnPlain, MicPlain, FoldPlain, DataOK
<1>. QED  BY <1>1, <1>3, <1>4, <1>5, <1>6, <1>7, ThreadStep

-----------------------------------------------------------------------------
(* Taking an event of the queue. *)
LEMMA TakeEventPreserves ==
  ASSUME VPCInv, NEW t \in Threads, Take(t), events # <<>>, Works,
         events' = Tail(events),
         event' = [event EXCEPT ![t] = Head(events)],
         Insert(t, Handler(Head(events))),
         answers' = [answers EXCEPT ![t] = 0], steady' = [steady EXCEPT ![t] = TRUE]
  PROVE  VPCInv'
<1>. DEFINE e == Head(events)
            q == Tail(prog[t])
<1>1. On(t, "take") /\ ProgramsOK /\ DataOK
  BY DEF Take, VPCInv, TypeOK
<1>2. UNCHANGED <<pending, fold, fnHw, clamHw, muteHw, micHw, sstHw, kbd, tpd, FnlockMode,
                  clamshellMode, tabletLike, auto, subscribed, power, muteLEDstate, muteLEDstateSaved,
                  micMuteLEDstate, micMuteLEDstateSaved, arg, val, faults, raced, calm, before, settled>>
  BY DEF Take, modes, leds, Works
<1>3. /\ events \in Seq(Events) /\ e \in Events /\ events' \in Seq(Events)
      /\ Len(events') = Len(events) - 1
      /\ \A i \in DOMAIN events : events[i] # e => \E j \in DOMAIN events' : events'[j] = events[i]
  <2>1. events \in Seq(Events) /\ e = events[1] /\ e \in Events /\ events' \in Seq(Events)
        /\ Len(events) \in Nat \ {0}
        /\ Len(events') = Len(events) - 1 /\ \A j \in 1 .. Len(events') : events'[j] = events[j + 1]
    BY <1>1 DEF DataOK
  <2>2. ASSUME NEW i \in DOMAIN events, events[i] # e
        PROVE  \E j \in DOMAIN events' : events'[j] = events[i]
    <3>1. i - 1 \in 1 .. Len(events') /\ events'[i - 1] = events[i]
      BY <2>1, <2>2
    <3>2. i - 1 \in DOMAIN events'
      BY <2>1, <3>1
    <3>. QED  BY <3>1, <3>2
  <2>. QED  BY <2>1, <2>2
<1>. HIDE DEF e
<1>4. /\ event' \in [Threads -> Events] /\ event'[t] = e /\ answers' \in [Threads -> Nat] /\ answers'[t] = 0
      /\ steady' \in [Threads -> BOOLEAN] /\ steady'[t] = TRUE
      /\ \A u \in Threads \ {t} : event'[u] = event[u] /\ answers'[u] = answers[u] /\ steady'[u] = steady[u]
  <2>1. event' = [event EXCEPT ![t] = e]
    BY DEF e
  <2>. QED  BY <1>1, <1>3, <2>1 DEF DataOK
<1>5. /\ \A s : Has(t, s) <=> s = "take" \/ Holds(q, s)
      /\ \A s \in Over("take") : ~Holds(q, s)
  BY <1>1, RestOfProgram DEF On, ProgramsOK, Has
<1>. HIDE DEF q
<1>6. /\ Goes(t) /\ Starts(t)
      /\ \A s : Has(t, s)' <=> Holds(Handler(e), s) \/ Holds(q, s)
  <2>1. Insert(t, Handler(e)) /\ "take" \notin Firsts
    BY DEF e, Firsts
  <2>2. /\ Program(Handler(e)) /\ Handler(e) # <<>> /\ Head(Handler(e)) \notin Seconds
        /\ Handler(e)[Len(Handler(e))] \notin {"answer", "clamshell"}
    BY <1>3, HandlerPrograms DEF Handled
  <2>3. \A s \in Over("take") : ~Holds(Tail(prog[t]), s)
    BY <1>5 DEF q
  <2>. QED  BY <1>1, <2>1, <2>2, <2>3, InsertStarts DEF q
<1>7. /\ Has(t, "answer")' <=> e \in {"mic", "sleep"}
      /\ Has(t, "clamshell")' <=> e = "tablet"
      /\ e = "fnEsc" => Has(t, "readFn")'
      /\ ~Has(t, "take")'
  <2>1. {"answer", "clamshell", "take"} \subseteq Over("take")
    BY DEF Over
  <2>. QED  BY <1>3, <1>5, <1>6, <2>1, HandlerPrograms DEF Handled
<1>8. \A u \in Threads \ {t} : /\ prog'[u] = prog[u]
                               /\ \A s : (On(u, s)' <=> On(u, s)) /\ (Has(u, s)' <=> Has(u, s))
                               /\ Idle(u)' <=> Idle(u)
  BY <1>6 DEF Goes, On, Has, Idle
<1>9. TypeOK'
  <2>1. DataOK'
    BY <1>1, <1>2, <1>3, <1>4 DEF DataOK
  <2>. QED  BY <1>1, <1>6, <2>1 DEF TypeOK, ProgramsOK, Goes
<1>10. EventsAreAnnounced'
  <2>1. Takers' = Takers \ {t} /\ t \in Takers
    BY <1>1, <1>7, <1>8, OnHas DEF Takers, Has, Holds
  <2>2. Cardinality(Takers') = Cardinality(Takers) - 1 /\ Cardinality(Takers) \in Nat
    BY <2>1, TakersAreFew, FS_RemoveElement
  <2>3. faults = 0 => Len(events) <= pending + Cardinality(Takers)
    BY DEF VPCInv, EventsAreAnnounced, Takers
  <2>4. Len(events) \in Nat /\ pending \in Nat
    BY <1>1 DEF DataOK
  <2>5. faults' = 0 => Len(events') <= pending' + Cardinality(Takers')
    BY <1>2, <1>3, <2>2, <2>3, <2>4
  <2>. QED  BY <2>5 DEF EventsAreAnnounced, Takers
<1>11. AnswerInv'
  <2>1. Answered(t)'
    BY <1>4, <1>7 DEF Answered
  <2>2. \A u \in Threads \ {t} : Answered(u)'
    BY <1>2, <1>4, <1>8 DEF VPCInv, AnswerInv, Answered
  <2>. QED  BY <2>1, <2>2 DEF AnswerInv
<1>12. FnInv' /\ MicInv'
  <2>1. \A u \in Threads : (KeepsFn(u)' <=> KeepsFn(u)) /\ (KeepsMic(u)' <=> KeepsMic(u))
    BY <1>1, <1>6, <1>8, StartsAfresh DEF KeepsFn, KeepsMic, On
  <2>2. FnComes => FnComes'
    <3>1. ASSUME NEW i \in DOMAIN events, events[i] = "fnEsc"  PROVE FnComes'
      <4>1. CASE e = "fnEsc"
        BY <1>7, <4>1 DEF FnComes
      <4>2. CASE e # "fnEsc"
        BY <1>3, <3>1, <4>2 DEF FnComes
      <4>. QED  BY <4>1, <4>2
    <3>2. \A u \in Threads : Has(u, "readFn") => Has(u, "readFn")'
      BY <1>5, <1>6, <1>8
    <3>. QED  BY <3>1, <3>2 DEF FnComes
  <2>3. FnKnown => FnKnown'
    BY <1>2, <2>1 DEF FnKnown
  <2>. QED  BY <1>2, <2>1, <2>2, <2>3 DEF VPCInv, FnInv, MicInv
<1>13. FoldInv'
  <2>. SUFFICES ASSUME settled # "no"  PROVE FoldInv'
    BY <1>2 DEF FoldInv
  <2>1. Has(t, "take") /\ ~Idle(t) /\ "take" \in Over("topTpd")
    BY <1>1, OnHas DEF Over
  <2>2. settled # "reading" /\ \A u \in Threads \ {t} : Idle(u)
    BY <2>1 DEF VPCInv, FoldInv
  <2>3. \A u \in Threads : Folding(u)'
    BY <1>6, <1>8, <2>2, StartsAfresh DEF Folding, Idle, On
  <2>. QED  BY <1>2, <1>8, <2>2, <2>3 DEF FoldInv
<1>14. LightInv'
  <2>1. ~calm
    BY <1>1 DEF VPCInv, LightInv, On, Idle, Falling, Rising
  <2>. QED  BY <1>2, <2>1 DEF LightInv
<1>. QED  BY <1>9, <1>10, <1>11, <1>12, <1>13, <1>14 DEF VPCInv

LEMMA TakePreserves ==
  ASSUME VPCInv, NEW t \in Threads, Take(t)
  PROVE  VPCInv'
<1>1. CASE ((events = <<>> /\ Works) \/ Fails) /\ Advance(t) /\ UNCHANGED <<events, event, answers, steady>>
  <2>1. On(t, "take") /\ ProgramsOK /\ DataOK
    BY DEF Take, VPCInv, TypeOK
  <2>2. UNCHANGED <<events, pending, fold, fnHw, clamHw, muteHw, micHw, sstHw, kbd, tpd, FnlockMode,
                    clamshellMode, tabletLike, auto, subscribed, power, muteLEDstate, muteLEDstateSaved,
                    micMuteLEDstate, micMuteLEDstateSaved, event, arg, val, answers, steady,
                    raced, calm, before, settled>>
    BY <1>1 DEF Take, modes, leds
  <2>3. faults' \in Nat /\ faults <= faults' /\ (faults' = 0 => events = <<>>)
    BY <1>1, <2>1 DEF DataOK, Works, Fails
  <2>4. Drops(t, "take") /\ Starts(t)
    BY <1>1, <2>1, AdvanceDrops DEF Firsts
  <2>5. DataOK' /\ Elsewhere(t)
    BY <2>1, <2>2, <2>3 DEF DataOK, Elsewhere
  <2>6. EventsAreAnnounced'
    <3>1. Cardinality(Takers') \in Nat
      <4>1. Takers' \subseteq Threads
        BY DEF Takers
      <4>. QED  BY <4>1, FiniteThreads, FS_Subset, FS_CardinalityType
    <3>2. faults' = 0 => Len(events') = 0
      BY <2>2, <2>3
    <3>3. faults' = 0 => Len(events') <= pending' + Cardinality(Takers')
      BY <2>5, <3>1, <3>2 DEF DataOK
    <3>. QED  BY <3>3 DEF EventsAreAnnounced, Takers
  <2>7. FnPlain(t, "take") /\ MicPlain(t, "take") /\ FoldPlain(t)
    BY <2>2, <2>4, StartsAfresh DEF FnPlain, MicPlain, FoldPlain
  <2>. QED  BY <2>1, <2>2, <2>3, <2>4, <2>5, <2>6, <2>7, ThreadStep DEF Lighting
<1>. QED  BY <1>1, TakeEventPreserves DEF Take

-----------------------------------------------------------------------------
(* Requests, keys and power.  First those that start no thread.            *)
LEMMA KeyPreserves ==
  ASSUME VPCInv, NEW e \in Events, Key(e)
  PROVE  VPCInv'
<1>1. DataOK
  BY DEF VPCInv, TypeOK
<1>2. UNCHANGED <<clamHw, muteHw, micHw, sstHw, kbd, tpd, FnlockMode,
                  clamshellMode, tabletLike, auto, subscribed, power, muteLEDstate, muteLEDstateSaved,
                  micMuteLEDstate, micMuteLEDstateSaved, prog, event, arg, val, faults, answers, steady,
                  raced, before>>
  BY DEF Key, modes, leds, locals
<1>3. /\ events' = Append(events, e) /\ pending' = pending + 1
      /\ fnHw' = (IF e = "fnEsc" THEN ~fnHw ELSE fnHw) /\ fold' \in Folds
      /\ calm' \in BOOLEAN /\ ~calm' /\ settled' = "no"
  <2>1. fold' \in IF e = "tablet" THEN Folds \ {fold} ELSE {fold}
    BY DEF Key
  <2>2. fold' \in Folds
    BY <1>1, <2>1 DEF DataOK
  <2>. QED  BY <2>2 DEF Key, Queue, Disturb
<1>4. /\ events' \in Seq(Events) /\ Len(events') = Len(events) + 1 /\ Len(events) \in Nat
      /\ \A i \in DOMAIN events : i \in DOMAIN events' /\ events'[i] = events[i]
      /\ Len(events') \in DOMAIN events' /\ events'[Len(events')] = e
  BY <1>1, <1>3 DEF DataOK
<1>5. TypeOK'
  <2>1. fnHw' \in BOOLEAN
    BY <1>1, <1>3 DEF DataOK
  <2>2. pending' \in Nat
    BY <1>1, <1>3 DEF DataOK
  <2>3. DataOK'
    BY <1>1, <1>2, <1>3, <1>4, <2>1, <2>2 DEF DataOK
  <2>. QED  BY <1>2, <2>3 DEF VPCInv, TypeOK, ProgramsOK
<1>6. EventsAreAnnounced'
  <2>1. Takers' = Takers
    BY <1>2 DEF Takers
  <2>2. faults = 0 => Len(events) <= pending + Cardinality(Takers)
    BY DEF VPCInv, EventsAreAnnounced, Takers
  <2>3. pending \in Nat
    BY <1>1 DEF DataOK
  <2>4. faults' = 0 => Len(events') <= pending' + Cardinality(Takers')
    BY <1>2, <1>3, <1>4, <2>1, <2>2, <2>3, TakersAreFew
  <2>. QED  BY <2>4 DEF EventsAreAnnounced, Takers
<1>7. AnswerInv' /\ MicInv'
  BY <1>2 DEF VPCInv, AnswerInv, Answered, Has, MicInv, KeepsMic, On
<1>8. FnInv'
  <2>1. \A u \in Threads : (KeepsFn(u)' <=> KeepsFn(u)) /\ \A s : Has(u, s)' <=> Has(u, s)
    BY <1>2 DEF KeepsFn, On, Has
  <2>2. CASE e = "fnEsc"
    <3>1. FnComes'
      BY <1>4, <2>2 DEF FnComes
    <3>. QED  BY <1>2, <2>1, <3>1 DEF VPCInv, FnInv
  <2>3. CASE e # "fnEsc"
    <3>1. FnComes => FnComes'
      BY <1>4, <2>1 DEF FnComes
    <3>2. FnKnown => FnKnown'
      BY <1>2, <1>3, <2>1, <2>3 DEF FnKnown
    <3>. QED  BY <1>2, <2>1, <3>1, <3>2 DEF VPCInv, FnInv
  <2>. QED  BY <2>2, <2>3
<1>9. FoldInv' /\ LightInv'
  BY <1>3 DEF FoldInv, LightInv
<1>. QED  BY <1>5, <1>6, <1>7, <1>8, <1>9 DEF VPCInv

LEMMA SubscriptionPreserves ==
  ASSUME VPCInv, Subscription
  PROVE  VPCInv'
<1>1. TypeOK /\ DataOK
  BY DEF VPCInv, TypeOK
<1>2. UNCHANGED <<events, pending, fold, fnHw, clamHw, muteHw, micHw, sstHw, kbd, tpd, FnlockMode,
                  clamshellMode, tabletLike, auto, power, muteLEDstate, muteLEDstateSaved,
                  micMuteLEDstate, micMuteLEDstateSaved, prog, event, arg, val, faults, answers,
                  raced, before>>
  BY DEF Subscription, firmware, leds, locals
<1>3. /\ subscribed' \in BOOLEAN /\ steady' \in [Threads -> BOOLEAN] /\ \A t \in Threads : ~steady'[t]
      /\ calm' \in BOOLEAN /\ ~calm' /\ settled' = "no"
  BY DEF Subscription, Disturb
<1>4. TypeOK'
  <2>1. DataOK'
    BY <1>1, <1>2, <1>3 DEF DataOK
  <2>. QED  BY <1>1, <1>2, <2>1 DEF TypeOK, ProgramsOK
<1>5. EventsAreAnnounced'
  BY <1>2 DEF VPCInv, EventsAreAnnounced
<1>6. AnswerInv'
  BY <1>2, <1>3 DEF VPCInv, AnswerInv, Answered, Has
<1>7. FnInv' /\ MicInv'
  BY <1>2 DEF VPCInv, FnInv, FnComes, FnKnown, KeepsFn, Has, On, MicInv, KeepsMic
<1>8. FoldInv' /\ LightInv'
  BY <1>3 DEF FoldInv, LightInv
<1>. QED  BY <1>4, <1>5, <1>6, <1>7, <1>8 DEF VPCInv

LEMMA SetAutoPreserves ==
  ASSUME VPCInv, SetAuto
  PROVE  VPCInv'
<1>1. TypeOK /\ DataOK
  BY DEF VPCInv, TypeOK
<1>2. UNCHANGED <<events, pending, fold, fnHw, clamHw, muteHw, micHw, sstHw, kbd, tpd, FnlockMode,
                  clamshellMode, tabletLike, subscribed, power, muteLEDstate, muteLEDstateSaved,
                  micMuteLEDstate, micMuteLEDstateSaved, prog, event, arg, val, faults, answers, steady,
                  raced, before>>
  BY DEF SetAuto, firmware, leds, locals
<1>3. calm' \in BOOLEAN /\ ~calm' /\ settled' = "no"
  BY DEF SetAuto, Disturb
<1>4. TypeOK'
  <2>1. DataOK'
    BY <1>1, <1>2, <1>3 DEF DataOK
  <2>. QED  BY <1>1, <1>2, <2>1 DEF TypeOK, ProgramsOK
<1>5. EventsAreAnnounced'
  BY <1>2 DEF VPCInv, EventsAreAnnounced
<1>6. AnswerInv'
  BY <1>2 DEF VPCInv, AnswerInv, Answered, Has
<1>7. FnInv' /\ MicInv'
  BY <1>2 DEF VPCInv, FnInv, FnComes, FnKnown, KeepsFn, Has, On, MicInv, KeepsMic
<1>8. FoldInv' /\ LightInv'
  BY <1>3 DEF FoldInv, LightInv
<1>. QED  BY <1>4, <1>5, <1>6, <1>7, <1>8 DEF VPCInv

(* An idle thread begins.                                                  *)
LEMMA BeginPreserves ==
  ASSUME VPCInv, NEW t \in Threads, Idle(t), NEW p \in Openings, prog' = [prog EXCEPT ![t] = p],
         settled' = IF Quiet THEN "alone" ELSE "no",
         UNCHANGED <<events, fold, fnHw, micHw, FnlockMode, subscribed, micMuteLEDstate, event, val, faults,
                     answers, steady, raced>>,
         \A u \in Threads \ {t} : arg'[u] = arg[u],
         DataOK', EventsAreAnnounced' \/ UNCHANGED pending, LightInv'
  PROVE  VPCInv'
<1>1. TypeOK /\ ProgramsOK /\ DataOK
  BY DEF VPCInv, TypeOK
<1>2. /\ DOMAIN prog' = Threads /\ prog'[t] = p
      /\ \A u \in Threads \ {t} : /\ prog'[u] = prog[u]
                                  /\ \A s : (On(u, s)' <=> On(u, s)) /\ (Has(u, s)' <=> Has(u, s))
                                  /\ Idle(u)' <=> Idle(u)
  BY <1>1 DEF ProgramsOK, On, Has, Idle
<1>3. /\ Program(p) /\ Starts(t)
      /\ \A s : ~Has(t, s) /\ ~On(t, s)
      /\ \A s \in {"answer", "notify", "clamshell"} : ~Has(t, s)'
  BY <1>2, OpeningPrograms DEF Starts, On, Has, Holds, Idle
<1>4. TypeOK'
  BY <1>1, <1>2, <1>3 DEF TypeOK, ProgramsOK
<1>5. EventsAreAnnounced'
  <2>1. \A u \in Threads : Has(u, "take") => Has(u, "take")'
    BY <1>2, <1>3
  <2>. QED  BY <1>1, <2>1, AnnouncedStill DEF VPCInv, DataOK
<1>6. AnswerInv'
  BY <1>2, <1>3 DEF VPCInv, AnswerInv, Answered
<1>7. FnInv' /\ MicInv'
  <2>1. \A u \in Threads : (KeepsFn(u)' <=> KeepsFn(u)) /\ (KeepsMic(u)' <=> KeepsMic(u))
    BY <1>2, <1>3, StartsAfresh DEF KeepsFn, KeepsMic
  <2>2. FnComes => FnComes'
    BY <1>2, <1>3 DEF FnComes
  <2>3. FnKnown => FnKnown'
    BY <2>1 DEF FnKnown
  <2>4. \A u \in Threads : KeepsMic(u) => arg'[u] = arg[u]
    BY <1>3 DEF KeepsMic
  <2>. QED  BY <2>1, <2>2, <2>3, <2>4 DEF VPCInv, FnInv, MicInv
<1>8. FoldInv'
  <2>. SUFFICES ASSUME Quiet  PROVE FoldInv'
    BY DEF FoldInv
  <2>1. \A u \in Threads \ {t} : Idle(u)'
    BY <1>2 DEF Quiet
  <2>2. \A u \in Threads : Folding(u)'
    BY <1>3, <2>1, StartsAfresh DEF Folding, On, Idle
  <2>. QED  BY <2>1, <2>2 DEF FoldInv
<1>. QED  BY <1>4, <1>5, <1>6, <1>7, <1>8 DEF VPCInv

LEMMA MessagePreserves ==
  ASSUME VPCInv, Message
  PROVE  VPCInv'
<1>1. Idle("acpi") /\ DataOK /\ ProgramsOK
  BY DEF Message, Idle, VPCInv, TypeOK
<1>2. UNCHANGED <<events, fold, fnHw, clamHw, muteHw, micHw, sstHw, kbd, tpd, FnlockMode,
                  clamshellMode, tabletLike, auto, subscribed, power, muteLEDstate, muteLEDstateSaved,
                  micMuteLEDstate, micMuteLEDstateSaved, event, arg, val, faults, answers, steady,
                  raced, before>>
  BY DEF Message, modes, leds, locals
<1>3. /\ pending > 0 /\ pending' = pending - 1
      /\ prog' = [prog EXCEPT !["acpi"] = <<"take">>]
      /\ settled' = IF Quiet THEN "alone" ELSE "no"
      /\ calm' \in BOOLEAN /\ ~calm'
  BY DEF Message
<1>4. settled' \in {"no", "alone", "reading"} /\ pending' \in Nat
  BY <1>1, <1>3 DEF DataOK
<1>5. DataOK'
  BY <1>1, <1>2, <1>3, <1>4 DEF DataOK
<1>6. EventsAreAnnounced'
  <2>1. "acpi" \notin Takers /\ Takers' = Takers \cup {"acpi"}
    <3>1. /\ \A u \in Threads \ {"acpi"} : prog'[u] = prog[u]
          /\ prog["acpi"] = <<>> /\ prog'["acpi"] = <<"take">>
      BY <1>1, <1>3 DEF ProgramsOK, Idle
    <3>2. "acpi" \notin Takers
      BY <3>1 DEF Takers
    <3>3. \E i \in DOMAIN prog'["acpi"] : prog'["acpi"][i] = "take"
      BY <3>1
    <3>. QED  BY <3>1, <3>2, <3>3 DEF Takers
  <2>2. Cardinality(Takers') = Cardinality(Takers) + 1 /\ Cardinality(Takers) \in Nat
    BY <2>1, TakersAreFew, FS_AddElement
  <2>3. faults = 0 => Len(events) <= pending + Cardinality(Takers)
    BY DEF VPCInv, EventsAreAnnounced, Takers
  <2>4. Len(events) \in Nat /\ pending \in Nat
    BY <1>1 DEF DataOK
  <2>5. faults' = 0 => Len(events') <= pending' + Cardinality(Takers')
    BY <1>2, <1>3, <2>2, <2>3, <2>4
  <2>. QED  BY <2>5 DEF EventsAreAnnounced, Takers
<1>7. LightInv'
  BY <1>3 DEF LightInv
<1>. QED  BY <1>1, <1>2, <1>3, <1>5, <1>6, <1>7, BeginPreserves DEF Openings

LEMMA SetPropertyPreserves ==
  ASSUME VPCInv, NEW name, NEW p \in Openings, NEW x \in BOOLEAN, SetProperty(name, p, x)
  PROVE  VPCInv'
<1>1. Idle("gate") /\ DataOK
  BY DEF SetProperty, Begin, VPCInv, TypeOK
<1>2. UNCHANGED <<events, pending, fold, fnHw, clamHw, muteHw, micHw, sstHw, kbd, tpd, FnlockMode,
                  clamshellMode, tabletLike, auto, subscribed, power, muteLEDstate, muteLEDstateSaved,
                  micMuteLEDstate, micMuteLEDstateSaved, event, val, faults, answers, steady,
                  raced, before>>
  BY DEF SetProperty, firmware, modes, leds
<1>3. /\ prog' = [prog EXCEPT !["gate"] = p]
      /\ settled' = IF Quiet THEN "alone" ELSE "no"
      /\ calm' \in BOOLEAN /\ ~calm'
      /\ arg' = [arg EXCEPT !["gate"] = x]
  BY DEF SetProperty, Begin
<1>4. /\ settled' \in {"no", "alone", "reading"}
      /\ arg' \in [Threads -> BOOLEAN] /\ \A u \in Threads \ {"gate"} : arg'[u] = arg[u]
  BY <1>1, <1>3 DEF DataOK
<1>5. DataOK'
  BY <1>1, <1>2, <1>3, <1>4 DEF DataOK
<1>6. LightInv'
  BY <1>3 DEF LightInv
<1>. QED  BY <1>1, <1>2, <1>3, <1>4, <1>5, <1>6, BeginPreserves

LEMMA setPropertiesGatedPreserves ==
  ASSUME VPCInv, setPropertiesGated
  PROVE  VPCInv'
<1>1. /\ <<"setMute">> \in Openings /\ <<"setMic", "keepMic">> \in Openings
      /\ <<"readFn", "keepFn", "setFn", "keepSetFn">> \in Openings
      /\ <<"readClam", "setClam">> \in Openings /\ updateAll \in Openings
  BY DEF Openings
<1>2. CASE SetProperty("Update", updateAll, FALSE)
  BY <1>1, <1>2, SetPropertyPreserves
<1>3. ASSUME NEW on \in BOOLEAN, SetProperty("MuteLED", <<"setMute">>, on)  PROVE VPCInv'
  BY <1>1, <1>3, SetPropertyPreserves
<1>4. ASSUME NEW on \in BOOLEAN, SetProperty("MicMuteLED", <<"setMic", "keepMic">>, on)  PROVE VPCInv'
  BY <1>1, <1>4, SetPropertyPreserves
<1>5. ASSUME NEW on \in BOOLEAN, SetProperty("FnKey", <<"readFn", "keepFn", "setFn", "keepSetFn">>, on)
      PROVE  VPCInv'
  BY <1>1, <1>5, SetPropertyPreserves
<1>6. ASSUME NEW on \in BOOLEAN, SetProperty("Clamshell", <<"readClam", "setClam">>, on)  PROVE VPCInv'
  BY <1>1, <1>6, SetPropertyPreserves
<1>. QED  BY <1>2, <1>3, <1>4, <1>5, <1>6 DEF setPropertiesGated

LEMMA SleepPreserves ==
  ASSUME VPCInv, Sleep
  PROVE  VPCInv'
<1>. DEFINE p == <<"sst", "saveMute", "saveMic", "asleep">>
<1>1. Idle("pm") /\ DataOK
  BY DEF Sleep, Begin, VPCInv, TypeOK
<1>2. UNCHANGED <<events, pending, fold, fnHw, clamHw, muteHw, micHw, sstHw, kbd, tpd, FnlockMode,
                  clamshellMode, tabletLike, auto, subscribed, muteLEDstate, muteLEDstateSaved,
                  micMuteLEDstate, micMuteLEDstateSaved, event, arg, val, faults, answers, steady, raced>>
  BY DEF Sleep, firmware, leds, locals
<1>3. /\ prog' = [prog EXCEPT !["pm"] = p] /\ power' = "falling"
      /\ settled' = IF Quiet THEN "alone" ELSE "no"
      /\ calm' \in BOOLEAN /\ (calm' <=> Quiet /\ "mic" \notin raced)
  BY DEF Sleep, Begin
<1>4. /\ before' \in [mic : BOOLEAN, mute : BOOLEAN, known : BOOLEAN]
      /\ before'.mic = micHw /\ before'.mute = muteHw
      /\ before'.known <=> muteLEDstate = muteHw
  <2>1. PICK b \in BOOLEAN : /\ b <=> muteLEDstate = muteHw
                             /\ before' = [mic |-> micHw, mute |-> muteHw, known |-> b]
    BY DEF Sleep
  <2>. QED  BY <1>1, <2>1 DEF DataOK
<1>5. DataOK'
  <2>1. settled' \in {"no", "alone", "reading"}
    BY <1>3
  <2>. QED  BY <1>1, <1>2, <1>3, <1>4, <2>1 DEF DataOK
<1>6. LightInv'
  <2>. SUFFICES ASSUME calm'  PROVE LightInv'
    BY DEF LightInv
  <2>1. Idle("acpi")' /\ Idle("gate")' /\ "mic" \notin raced' /\ prog'["pm"] = p
    BY <1>2, <1>3 DEF Quiet, Idle, VPCInv, TypeOK, ProgramsOK
  <2>2. (KnownMute => (muteLEDstate <=> before.mute))' /\ MuteBack' /\ MicBack'
    BY <1>2, <1>4 DEF KnownMute, MuteBack, MicBack
  <2>. QED  BY <1>3, <2>1, <2>2 DEF LightInv, Falling
<1>. QED  BY <1>1, <1>2, <1>3, <1>5, <1>6, BeginPreserves DEF Openings

LEMMA WakePreserves ==
  ASSUME VPCInv, Wake
  PROVE  VPCInv'
<1>. DEFINE p == <<"sst", "restoreMute", "restoreMic", "awake">>
<1>1. Idle("pm") /\ DataOK /\ power = "off"
  BY DEF Wake, Begin, VPCInv, TypeOK
<1>2. UNCHANGED <<events, pending, fold, fnHw, clamHw, muteHw, micHw, sstHw, kbd, tpd, FnlockMode,
                  clamshellMode, tabletLike, auto, subscribed, muteLEDstate, muteLEDstateSaved,
                  micMuteLEDstate, micMuteLEDstateSaved, event, arg, val, faults, answers, steady, raced,
                  before>>
  BY DEF Wake, firmware, leds, locals
<1>3. /\ prog' = [prog EXCEPT !["pm"] = p] /\ power' = "rising"
      /\ settled' = IF Quiet THEN "alone" ELSE "no"
      /\ calm' \in BOOLEAN /\ (calm' <=> calm /\ Quiet)
  BY DEF Wake, Begin
<1>4. DataOK'
  <2>1. settled' \in {"no", "alone", "reading"}
    BY <1>3
  <2>. QED  BY <1>1, <1>2, <1>3, <2>1 DEF DataOK
<1>5. LightInv'
  <2>. SUFFICES ASSUME calm'  PROVE LightInv'
    BY DEF LightInv
  <2>1. Idle("acpi")' /\ Idle("gate")' /\ prog'["pm"] = p
    BY <1>3 DEF Quiet, Idle, VPCInv, TypeOK, ProgramsOK
  <2>2. "mic" \notin raced /\ (KnownMute => (muteLEDstate <=> before.mute)) /\ MuteOff /\ MicOff
    BY <1>1, <1>3 DEF VPCInv, LightInv
  <2>3. (KnownMute => (muteLEDstate <=> before.mute))' /\ MuteOff' /\ MicOff'
    BY <1>2, <2>2 DEF KnownMute, MuteOff, MicOff, MuteSaved, MicSaved
  <2>. QED  BY <1>2, <1>3, <2>1, <2>2, <2>3 DEF LightInv, Rising
<1>. QED  BY <1>1, <1>2, <1>3, <1>4, <1>5, BeginPreserves DEF Openings

-----------------------------------------------------------------------------
LEMMA InitVPC == Init => VPCInv
<1>. SUFFICES ASSUME Init  PROVE VPCInv
  OBVIOUS
<1>1. \A t \in Threads : /\ prog[t] = <<>> /\ Idle(t)
                         /\ \A s : ~Has(t, s) /\ ~On(t, s)
  BY DEF Init, Idle, Has, Holds, On
<1>2. TypeOK
  <2>1. kbd \in BOOLEAN /\ tpd \in BOOLEAN
    BY DEF Init
  <2>2. /\ fnHw \in BOOLEAN /\ clamHw \in BOOLEAN /\ muteHw \in BOOLEAN /\ micHw \in BOOLEAN
        /\ FnlockMode \in BOOLEAN /\ clamshellMode \in BOOLEAN /\ tabletLike \in BOOLEAN
        /\ muteLEDstate \in BOOLEAN /\ muteLEDstateSaved \in BOOLEAN
        /\ micMuteLEDstate \in BOOLEAN /\ micMuteLEDstateSaved \in BOOLEAN
        /\ subscribed \in BOOLEAN /\ calm \in BOOLEAN
    BY DEF Init
  <2>3. /\ events \in Seq(Events) /\ pending \in Nat /\ fold \in Folds /\ faults \in Nat
        /\ event \in [Threads -> Events] /\ arg \in [Threads -> BOOLEAN] /\ val \in [Threads -> BOOLEAN]
        /\ answers \in [Threads -> Nat] /\ steady \in [Threads -> BOOLEAN]
        /\ settled \in {"no", "alone", "reading"}
        /\ before \in [mic : BOOLEAN, mute : BOOLEAN, known : BOOLEAN]
    BY DEF Init, Events
  <2>4. DataOK
    BY <2>1, <2>2, <2>3 DEF DataOK
  <2>5. Program(<<>>)
    BY DEF Program
  <2>6. DOMAIN prog = Threads
    BY DEF Init
  <2>. QED  BY <1>1, <2>4, <2>5, <2>6 DEF TypeOK, ProgramsOK
<1>3. EventsAreAnnounced
  <2>1. Len(events) = 0 /\ pending = 0
    BY DEF Init
  <2>. QED  BY <2>1, TakersAreFew DEF EventsAreAnnounced, Takers
<1>4. AnswerInv
  BY <1>1 DEF Init, AnswerInv, Answered
<1>5. FnInv /\ MicInv
  BY <1>1 DEF Init, FnInv, FnKnown, KeepsFn, MicInv, KeepsMic
<1>6. LightInv /\ FoldInv
  BY DEF Init, LightInv, FoldInv
<1>. QED  BY <1>2, <1>3, <1>4, <1>5, <1>6 DEF VPCInv

LEMMA IdleVPC == VPCInv /\ UNCHANGED vars => VPCInv'
<1>. SUFFICES ASSUME VPCInv, UNCHANGED vars  PROVE VPCInv'
  OBVIOUS
<1>. USE DEF vars, firmware, modes, leds, locals, bounds, history
<1>1. TypeOK'
  BY DEF VPCInv, TypeOK, DataOK, ProgramsOK
<1>2. EventsAreAnnounced' /\ AnswerInv'
  BY DEF VPCInv, EventsAreAnnounced, AnswerInv, Answered, Has
<1>3. FnInv' /\ MicInv'
  BY DEF VPCInv, FnInv, FnComes, FnKnown, KeepsFn, Has, On, MicInv, KeepsMic
<1>4. FoldInv'
  BY DEF VPCInv, FoldInv, Folding, React, Idle, On, Has
<1>5. LightInv'
  BY DEF VPCInv, LightInv, Falling, Rising, Idle, Shows, KnownMute, MuteSaved, MicSaved,
         MuteOff, MicOff, MuteBack, MicBack
<1>. QED  BY <1>1, <1>2, <1>3, <1>4, <1>5 DEF VPCInv

LEMMA NextVPC == VPCInv /\ [Next]_vars => VPCInv'
<1>. SUFFICES ASSUME VPCInv, [Next]_vars  PROVE VPCInv'
  OBVIOUS
<1>1. CASE Outside
  BY <1>1, KeyPreserves, SubscriptionPreserves, MessagePreserves, setPropertiesGatedPreserves,
     SetAutoPreserves DEF Outside
<1>2. CASE Sleep \/ Wake
  BY <1>2, SleepPreserves, WakePreserves
<1>3. CASE \E t \in Threads : Step(t)
  <2>1. PICK t \in Threads : Step(t)
    BY <1>3
  <2>2. CASE Take(t) \/ Answer(t) \/ Notify(t) \/ Clamshell(t) \/ GetKeyboard(t) \/ SetKeyboard(t)
    BY <2>2, TakePreserves, AnswerPreserves, NotifyPreserves, ClamshellPreserves,
       GetKeyboardPreserves, SetKeyboardPreserves
  <2>3. CASE \/ ReadFold(t) \/ TopKeyboard(t) \/ TopTouchPad(t) \/ ReadClamshell(t) \/ SetClamshell(t)
    BY <2>3, ReadFoldPreserves, TopKeyboardPreserves, TopTouchPadPreserves, ReadClamshellPreserves,
       SetClamshellPreserves
  <2>4. CASE \/ ReadFn(t) \/ KeepFn(t) \/ SetFn(t) \/ SetMic(t) \/ KeepMic(t) \/ ReadMute(t) \/ SetMute(t)
    BY <2>4, ReadFnPreserves, KeepFnPreserves, SetFnPreserves, SetMicPreserves, KeepMicPreserves,
       ReadMutePreserves, SetMutePreserves
  <2>. QED  BY <2>1, <2>2, <2>3, <2>4 DEF Step
<1>4. CASE PowerStep("pm")
  BY <1>4, IndicatePreserves, SaveMutePreserves, SaveMicPreserves, RestoreMutePreserves,
     RestoreMicPreserves, EndOfPowerStatePreserves DEF PowerStep
<1>5. CASE Rest \/ UNCHANGED vars
  BY <1>5, IdleVPC DEF Rest
<1>. QED  BY <1>1, <1>2, <1>3, <1>4, <1>5 DEF Next

-----------------------------------------------------------------------------
(* The programs of the threads, the answers, the Fn lock, the lights and   *)
(* the folded machine's keyboard and touchpad are throughout as VPCInv     *)
(* says (updateVPC, setPropertiesGated and setPowerState of ThinkVPC.cpp). *)
THEOREM ThinkVPCIsKnown == Spec => []VPCInv
<1>. QED  BY InitVPC, NextVPC, PTL DEF Spec

(* No event of the firmware is left in its queue without a notification or *)
(* a thread that is still to take it, unless the firmware has failed to    *)
(* answer (updateVPC, ThinkVPC.cpp:706-716).                               *)
THEOREM EventsStayAnnounced == Spec => []EventsAreAnnounced
<1>1. VPCInv => EventsAreAnnounced
  BY DEF VPCInv
<1>. QED  BY <1>1, ThinkVPCIsKnown, PTL

(* The microphone and sleep keys are answered by the driver or by the      *)
(* application, and once (updateVPC, ThinkVPC.cpp:732-741 and 890-891).    *)
THEOREM KeysAreAnsweredOnce == Spec => []AnsweredOnce
<1>1. VPCInv => AnsweredOnce
  <2>. SUFFICES ASSUME VPCInv, NEW t \in Threads, Idle(t), steady[t], event[t] \in {"mic", "sleep"}
                PROVE  answers[t] = 1
    BY DEF AnsweredOnce
  <2>1. \A s : ~Has(t, s)
    BY DEF Idle, Has, Holds
  <2>. QED  BY <2>1 DEF VPCInv, AnswerInv, Answered
<1>. QED  BY <1>1, ThinkVPCIsKnown, PTL

(* The driver's idea of the Fn lock is the firmware's when nothing is left *)
(* to be done, unless two threads have raced or the firmware has failed    *)
(* (updateFnlock, setFnLock, ThinkVPC.cpp:899-925).                        *)
THEOREM FnLockIsKnown == Spec => []FnLockAgrees
<1>1. VPCInv => FnLockAgrees
  <2>. SUFFICES ASSUME VPCInv, Quiet, faults = 0, "fn" \notin raced,
                       \A i \in DOMAIN events : events[i] # "fnEsc"
                PROVE  FnlockMode = fnHw
    BY DEF FnLockAgrees
  <2>1. \A t \in Threads : ~Has(t, "readFn") /\ ~KeepsFn(t)
    BY DEF Quiet, Idle, Has, Holds, KeepsFn, On
  <2>2. FnlockMode <=> fnHw
    BY <2>1 DEF VPCInv, FnInv, FnComes, FnKnown
  <2>. QED  BY <2>2 DEF VPCInv, TypeOK, DataOK
<1>. QED  BY <1>1, ThinkVPCIsKnown, PTL

(* A machine that sleeps undisturbed shows that it does, with the          *)
(* microphone's light and a known mute light off, and wakes with both as   *)
(* they were (setPowerState, ThinkVPC.cpp:1083-1105).                      *)
THEOREM LightsSleepAndWake == Spec => []LightsFollowSleep
<1>1. VPCInv => LightsFollowSleep
  <2>. SUFFICES ASSUME VPCInv, Quiet, calm  PROVE LightsFollowSleep
    BY DEF LightsFollowSleep
  <2>1. ~Falling(prog["pm"]) /\ ~Rising(prog["pm"])
    <3>1. prog["pm"] = <<>>
      BY DEF Quiet, Idle
    <3>2. ASSUME NEW p, Falling(p)  PROVE p # <<>>
      BY <3>2 DEF Falling
    <3>3. ASSUME NEW p, Rising(p)  PROVE p # <<>>
      BY <3>3 DEF Rising
    <3>. QED  BY <3>1, <3>2, <3>3
  <2>2. /\ micHw \in BOOLEAN /\ muteHw \in BOOLEAN
        /\ before.mic \in BOOLEAN /\ before.mute \in BOOLEAN /\ before.known \in BOOLEAN
    BY DEF VPCInv, TypeOK, DataOK
  <2>3. CASE power = "off" /\ Shows("falling") /\ MuteOff /\ MicOff
    <3>1. /\ "sst" \in auto => sstHw = "falling"
          /\ "mic" \in auto => ~micHw
          /\ "mute" \in auto /\ before.known => ~muteHw
      BY <2>3 DEF Shows, MuteOff, MicOff, KnownMute
    <3>. QED  BY <2>2, <2>3, <3>1 DEF LightsFollowSleep
  <2>4. CASE power = "on" /\ Shows("rising") /\ MuteBack /\ MicBack
    <3>1. /\ "sst" \in auto => sstHw = "rising"
          /\ "mic" \in auto => (micHw <=> before.mic)
          /\ "mute" \in auto /\ before.known => (muteHw <=> before.mute)
      BY <2>4 DEF Shows, MuteBack, MicBack, KnownMute
    <3>. QED  BY <2>2, <2>4, <3>1 DEF LightsFollowSleep
  <2>. QED  BY <2>1, <2>3, <2>4 DEF VPCInv, LightInv
<1>. QED  BY <1>1, ThinkVPCIsKnown, PTL

(* After an undisturbed reading of how the machine is folded, keyboard and *)
(* touchpad react unless it is a tablet out of clamshell mode              *)
(* (updateYogaMode, ThinkVPC.cpp:662-703).                                 *)
THEOREM TopCaseKeepsUp == Spec => []TopCaseFollowsFold
<1>1. VPCInv => TopCaseFollowsFold
  <2>. SUFFICES ASSUME VPCInv, Quiet, settled = "reading"
                PROVE  kbd = tpd /\ kbd = (fold # "tablet" \/ clamHw)
    BY DEF TopCaseFollowsFold
  <2>1. (clamshellMode <=> clamHw) /\ (kbd <=> React) /\ (tpd <=> React)
    BY DEF VPCInv, FoldInv
  <2>2. kbd \in BOOLEAN /\ tpd \in BOOLEAN /\ (kbd <=> tpd) /\ (kbd <=> fold # "tablet" \/ clamHw)
    BY <2>1 DEF VPCInv, TypeOK, DataOK, React
  <2>. QED  BY <2>2
<1>. QED  BY <1>1, ThinkVPCIsKnown, PTL

=============================================================================
