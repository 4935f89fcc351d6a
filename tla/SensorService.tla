---------------------------- MODULE SensorService ----------------------------
(***************************************************************************)
(* The life of a YogaSMC service, on YogaBaseService: start and stop step  *)
(* by step while power calls, the poller, matching notifications about the *)
(* drivers that take its messages, and VirtualSMC run on their own threads.*)
(* A thread that uses what is not there, or is no more, panics.            *)
(***************************************************************************)
EXTENDS SensorTable

CONSTANTS
  Machines,   \* the variants, and the sensors of each machine
  Consumers   \* the drivers that may be published and terminated

ASSUME MachinesDescribed ==
  \A m \in Machines :
    /\ m.variant \in {"Think", "Idea", "DY"}
    /\ m.variant = "DY" => m.sensors \in Seq({m.sensors[i] : i \in DOMAIN m.sensors})

VARIABLES
  machine, phase,                \* of start and stop
  gate, notifiers, managed,      \* YogaBaseService's gate and work loop, notifiers, power management
  poller, enabled, armed,        \* the timer: on the work loop, enabled, with a timeout
  awake, ready, table, currentSensor,
  left,                          \* the sensors that addVSMCKey has still to try
  pm, power, loop, smc,          \* the threads
  there, news, early,            \* the consumers, the notification each has in progress
  notificationServices

life == <<machine, phase, gate, notifiers, managed>>
timer == <<poller, enabled, armed>>
sensors == <<table, left, currentSensor>>
threads == <<pm, power, loop, smc>>
consumers == <<there, news, early, notificationServices>>
vars == <<life, timer, awake, ready, sensors, threads, consumers>>

Starting == {"probed", "gated", "publishing", "notified", "managed", "polling", "based", "keyed", "awake", "ready"}

Phase(from, to) == phase = from /\ phase' = to /\ UNCHANGED machine

-----------------------------------------------------------------------------
(* start: a gate and a poller may fail to be made, and what is there stays.*)
MakeGate ==
  /\ \/ Phase("probed", "gated") /\ gate' = "live"
     \/ Phase("probed", "failed") /\ UNCHANGED gate
  /\ UNCHANGED <<notifiers, managed, timer, awake, ready, sensors, threads, consumers>>

(* The consumers there are may be announced before the field that the      *)
(* handler compares with is set.                                           *)
NotifyPublished ==
  /\ Phase("gated", "publishing")
  /\ notifiers' = {"publish"}
  /\ notificationServices' \in {{}, {c \in Consumers : there[c] = "there"}}
  /\ UNCHANGED <<gate, managed, timer, awake, ready, sensors, threads, there, news, early>>

NotifyTerminated ==
  /\ Phase("publishing", "notified")
  /\ notifiers' = {"publish", "terminate"}
  /\ early' = {c \in Consumers : there[c] # "absent"}
  /\ UNCHANGED <<gate, managed, timer, awake, ready, sensors, threads, there, news, notificationServices>>

JoinPM ==
  /\ Phase("notified", "managed") /\ managed' = TRUE
  /\ UNCHANGED <<gate, notifiers, timer, awake, ready, sensors, threads, consumers>>

MakePoller ==
  /\ \/ Phase("managed", "polling") /\ poller' = "added" /\ enabled' = TRUE
     \/ Phase("managed", "failed") /\ UNCHANGED <<poller, enabled>>
  /\ UNCHANGED <<gate, notifiers, managed, armed, awake, ready, sensors, threads, consumers>>

AddVendor ==
  /\ phase = "polling" /\ left # <<>>
  /\ table' = AddVendorKey(machine, table, Head(left)) /\ left' = Tail(left)
  /\ UNCHANGED <<life, timer, awake, ready, currentSensor, threads, consumers>>

SetBase ==
  /\ Phase("polling", "based") /\ left = <<>>
  /\ table' = [table EXCEPT !.ECSensorBase = table.sensorCount] /\ left' = Presets
  /\ UNCHANGED <<gate, notifiers, managed, timer, awake, ready, currentSensor, threads, consumers>>

AddPreset ==
  /\ phase = "based" /\ left # <<>>
  /\ table' = addECKeySp(machine, table, Head(left)) /\ left' = Tail(left)
  /\ UNCHANGED <<life, timer, awake, ready, currentSensor, threads, consumers>>

SubmitKeys ==
  /\ Phase("based", "keyed") /\ left = <<>>
  /\ UNCHANGED <<gate, notifiers, managed, timer, awake, ready, sensors, threads, consumers>>

SetAwake ==
  /\ Phase("keyed", "awake") /\ awake' = TRUE
  /\ UNCHANGED <<gate, notifiers, managed, timer, ready, sensors, threads, consumers>>

SetReady ==
  /\ Phase("awake", "ready") /\ ready' = TRUE
  /\ UNCHANGED <<gate, notifiers, managed, timer, awake, sensors, threads, consumers>>

Arm ==
  /\ Phase("ready", "started")
  /\ armed' = TRUE /\ enabled' = TRUE
  /\ UNCHANGED <<gate, notifiers, managed, poller, awake, ready, sensors, threads, consumers>>

-----------------------------------------------------------------------------
(* stop: removing a source or a notifier waits for what is running. *)
DisablePoller ==
  /\ Phase("started", "disabled")
  /\ enabled' = FALSE /\ armed' = FALSE
  /\ UNCHANGED <<gate, notifiers, managed, poller, awake, ready, sensors, threads, consumers>>

ReleasePoller ==
  /\ Phase("disabled", "released") /\ loop = "idle"
  /\ poller' = "none"
  /\ UNCHANGED <<gate, notifiers, managed, enabled, armed, awake, ready, sensors, threads, consumers>>

KeepNotified ==  \* mutant: the notifier stays
  /\ Phase("released", "unpublished")
  /\ UNCHANGED <<gate, notifiers, managed, timer, awake, ready, sensors, threads, consumers>>

RemovePublished ==
  /\ Phase("released", "unpublished") /\ \A c \in Consumers : news[c] # "publish"
  /\ notifiers' = notifiers \ {"publish"}
  /\ UNCHANGED <<gate, managed, timer, awake, ready, sensors, threads, consumers>>

RemoveTerminated ==
  /\ Phase("unpublished", "unnotified") /\ \A c \in Consumers : news[c] # "terminate"
  /\ notifiers' = notifiers \ {"terminate"}
  /\ UNCHANGED <<gate, managed, timer, awake, ready, sensors, threads, consumers>>

Flush ==
  /\ Phase("unnotified", "flushed") /\ notificationServices' = {}
  /\ UNCHANGED <<gate, notifiers, managed, timer, awake, ready, sensors, threads, there, news, early>>

FreeGate ==
  /\ Phase("flushed", "freed") /\ gate' = "freed"
  /\ UNCHANGED <<notifiers, managed, timer, awake, ready, sensors, threads, consumers>>

LeavePM ==
  /\ Phase("freed", "stopped") /\ pm \in {"idle", "panic"}
  /\ managed' = FALSE
  /\ UNCHANGED <<gate, notifiers, timer, awake, ready, sensors, threads, consumers>>

-----------------------------------------------------------------------------
(* setPowerState: the first call is the one to be on, and may come at any  *)
(* step after the service has joined.  The machine does not sleep while    *)
(* start runs.                                                             *)
PM(from, to) == pm = from /\ pm' = to
PMUnchanged == UNCHANGED <<life, sensors, loop, smc, consumers>>
Returned(p) == pm' = "idle" /\ power' = p

PowerOn ==
  /\ managed /\ power = "off" /\ PM("idle", "on?")
  /\ UNCHANGED <<power, timer, awake, ready>> /\ PMUnchanged

TestAwake ==
  /\ pm = "on?"
  /\ IF awake THEN Returned("on") ELSE pm' = "ready?" /\ UNCHANGED power
  /\ UNCHANGED <<timer, awake, ready>> /\ PMUnchanged

NeverReady ==  \* mutant: ready is not tested
  /\ pm = "ready?"
  /\ pm' = "wake" /\ UNCHANGED power
  /\ UNCHANGED <<timer, awake, ready>> /\ PMUnchanged

TestReady ==
  /\ pm = "ready?"
  /\ IF ready THEN pm' = "wake" /\ UNCHANGED power ELSE Returned("on")
  /\ UNCHANGED <<timer, awake, ready>> /\ PMUnchanged

Wake ==
  /\ PM("wake", "add") /\ awake' = TRUE
  /\ UNCHANGED <<power, timer, ready>> /\ PMUnchanged

AddPoller ==
  /\ pm = "add"
  /\ IF poller = "none" THEN pm' = "panic" /\ UNCHANGED poller ELSE pm' = "arm" /\ poller' = "added"
  /\ UNCHANGED <<power, enabled, armed, awake, ready>> /\ PMUnchanged

ArmPoller ==
  /\ pm = "arm"
  /\ IF poller = "none" THEN pm' = "panic" /\ UNCHANGED <<power, enabled, armed>>
     ELSE Returned("on") /\ enabled' = TRUE /\ armed' = TRUE
  /\ UNCHANGED <<poller, awake, ready>> /\ PMUnchanged

PowerOff ==
  /\ managed /\ power = "on" /\ phase \notin Starting
  /\ pm = "idle"
  /\ IF awake THEN pm' = "disable" /\ UNCHANGED power ELSE Returned("off")
  /\ UNCHANGED <<timer, awake, ready>> /\ PMUnchanged

Disable ==
  /\ pm = "disable"
  /\ IF poller = "none" THEN pm' = "panic" /\ UNCHANGED <<enabled, armed>>
     ELSE pm' = "remove" /\ enabled' = FALSE /\ armed' = FALSE
  /\ UNCHANGED <<power, poller, awake, ready>> /\ PMUnchanged

RemovePoller ==
  /\ pm = "remove"
  /\ IF poller = "none" THEN pm' = "panic" /\ UNCHANGED poller
     ELSE loop = "idle" /\ pm' = "sleep" /\ poller' = "removed"
  /\ UNCHANGED <<power, enabled, armed, awake, ready>> /\ PMUnchanged

Sleep ==
  /\ pm = "sleep" /\ awake' = FALSE /\ Returned("off")
  /\ UNCHANGED <<timer, ready>> /\ PMUnchanged

-----------------------------------------------------------------------------
(* updateEC, on the work loop. *)
LoopUnchanged == UNCHANGED <<life, awake, ready, table, left, pm, power, smc, consumers>>

Fire ==
  /\ poller = "added" /\ enabled /\ armed /\ loop = "idle"
  /\ armed' = FALSE /\ loop' = (IF awake THEN "vendor" ELSE "idle")
  /\ UNCHANGED <<poller, enabled, currentSensor>> /\ LoopUnchanged

ReadVendor ==  \* all readings fail, or none does
  /\ loop = "vendor" /\ loop' = "methods"
  /\ currentSensor' \in {currentSensor, updateECVendor(machine, table, currentSensor)}
  /\ UNCHANGED timer /\ LoopUnchanged

ReadMethods ==
  /\ loop = "methods" /\ loop' = "rearm"
  /\ currentSensor' \in {currentSensor, updateMethods(table, currentSensor)}
  /\ UNCHANGED timer /\ LoopUnchanged

Rearm ==
  /\ loop = "rearm" /\ loop' = "idle"
  /\ armed' = (enabled /\ poller = "added")
  /\ UNCHANGED <<poller, enabled, currentSensor>> /\ LoopUnchanged

-----------------------------------------------------------------------------
(* A consumer comes and goes once, and the service is told of it if it has *)
(* asked.  The handler waits for the gate, which a poll holds.             *)
ConsumersUnchanged == UNCHANGED <<life, timer, awake, ready, sensors, threads, early>>

Published(c) ==
  /\ there[c] = "absent" /\ there' = [there EXCEPT ![c] = "there"]
  /\ news' = IF "publish" \in notifiers THEN [news EXCEPT ![c] = "publish"] ELSE news
  /\ UNCHANGED notificationServices /\ ConsumersUnchanged

Terminated(c) ==
  /\ there[c] = "there" /\ news[c] = "none" /\ there' = [there EXCEPT ![c] = "gone"]
  /\ news' = IF "terminate" \in notifiers THEN [news EXCEPT ![c] = "terminate"] ELSE news
  /\ UNCHANGED notificationServices /\ ConsumersUnchanged

notificationHandler(c) ==
  /\ news[c] # "none" /\ loop = "idle"
  /\ news' = [news EXCEPT ![c] = "none"]
  /\ notificationServices' =
       IF news[c] = "publish" THEN notificationServices \cup {c} ELSE notificationServices \ {c}
  /\ UNCHANGED there /\ ConsumersUnchanged

(* VirtualSMC writes BDVT, whose key holds the service for good, stopped   *)
(* or not: dispatchMessage counts the consumers and then takes the gate.   *)
SMCUnchanged == UNCHANGED <<life, timer, awake, ready, sensors, pm, power, loop, consumers>>
Submitted == phase \notin {"probed", "gated", "publishing", "notified", "managed", "polling", "based", "failed"}

CountConsumers ==
  /\ Submitted /\ smc = "idle"
  /\ smc' = IF phase \in {"flushed", "freed", "stopped"} THEN "panic"
            ELSE IF notificationServices = {} THEN "idle" ELSE "counted"
  /\ SMCUnchanged

dispatchMessage ==
  /\ smc = "counted" /\ loop = "idle"
  /\ smc' = IF gate = "freed" THEN "panic" ELSE "idle"
  /\ SMCUnchanged

-----------------------------------------------------------------------------
Init ==
  /\ machine \in Machines /\ phase = "probed"
  /\ gate = "none" /\ notifiers = {} /\ managed = FALSE
  /\ poller = "none" /\ enabled = FALSE /\ armed = FALSE
  /\ awake = FALSE /\ ready = FALSE
  /\ table = NoSensors /\ left = Candidates(machine) /\ currentSensor = [i \in Slots |-> Unset]
  /\ pm = "idle" /\ power = "off" /\ loop = "idle" /\ smc = "idle"
  /\ there = [c \in Consumers |-> "absent"] /\ news = [c \in Consumers |-> "none"]
  /\ early = {} /\ notificationServices = {}

AddKeys == AddVendor \/ SetBase \/ AddPreset \/ SubmitKeys
Start ==
  \/ MakeGate \/ NotifyPublished \/ NotifyTerminated \/ JoinPM \/ MakePoller \/ AddKeys
  \/ SetAwake \/ SetReady \/ Arm
Stop == DisablePoller \/ ReleasePoller \/ RemovePublished \/ RemoveTerminated \/ Flush \/ FreeGate \/ LeavePM
Power ==
  \/ PowerOn \/ TestAwake \/ TestReady \/ Wake \/ AddPoller \/ ArmPoller
  \/ PowerOff \/ Disable \/ RemovePoller \/ Sleep
Poll == Fire \/ ReadVendor \/ ReadMethods \/ Rearm
Consume == \E c \in Consumers : Published(c) \/ Terminated(c) \/ notificationHandler(c)

Next == Start \/ Stop \/ Power \/ Poll \/ Consume \/ CountConsumers \/ dispatchMessage

Spec == Init /\ [][Next]_vars

-----------------------------------------------------------------------------
(* While it starts and until it is stopped no power call finds the service *)
(* without its poller, and once it has started, when a call to be off has  *)
(* returned no poll runs and none will, and when one to be on has, one     *)
(* runs or will.  A poll runs only when the table of sensors is complete,  *)
(* and none is left running when stop has removed the poller.  A power     *)
(* call that comes after that is not covered: it finds none                *)
(* (YogaSMC.cpp:62-102, 146-180; Changelog lines 41 and 145).              *)
PollingFollowsPower ==
  /\ phase \in Starting \cup {"started", "failed"} => pm # "panic"
  /\ phase = "started" /\ pm = "idle" =>
       IF power = "off" /\ ~awake THEN loop = "idle" /\ ~armed
       ELSE poller = "added" /\ awake /\ (armed \/ loop # "idle")
  /\ loop # "idle" => phase \in {"ready", "started", "disabled"}

(* A key's slot is in the table, and holds nothing but what its own sensor *)
(* has read, whatever sensors the variant and the ACPI tables have and     *)
(* however many (KeyImplementations.hpp:17-29, IdeaSMC.cpp:13-65,          *)
(* DYSMC.cpp:80-222).                                                      *)
SensorsAreOwn ==
  \A k \in table.keys :
    /\ k.slot < table.sensorCount /\ table.sensorCount <= MAX_SENSOR
    /\ currentSensor[k.slot] \in {Unset, k.source}

(* A handler and a poll find the gate they wait for; once no notification  *)
(* is in progress, the service sends to the consumers that are there and   *)
(* to no other, those aside that were there before it listened             *)
(* (YogaBaseService.cpp:46-98, 121-138).                                   *)
ConsumersAreKnown ==
  /\ loop # "idle" \/ (\E c \in Consumers : news[c] # "none") => gate = "live"
  /\ notifiers = {"publish", "terminate"} =>
       \A c \in Consumers \ early : news[c] = "none" => (c \in notificationServices <=> there[c] = "there")
=============================================================================
