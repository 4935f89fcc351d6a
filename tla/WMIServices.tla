----------------------------- MODULE WMIServices -----------------------------
(***************************************************************************)
(* The services for the WMI devices beside a VPC: YogaVPC finds and        *)
(* classifies them when it is probed, starts them when it has started and  *)
(* stops them with itself, while the firmware notifies those that run.     *)
(* Two VPCs do so: IdeaVPC ("idea"), and DYVPC ("dy"), which is a WMI      *)
(* device itself.                                                          *)
(***************************************************************************)
EXTENDS WMI, Integers, Functions

CONSTANTS
  Devices,      \* the WMI devices besides the VPC's own, in the order they are found
  Machines,     \* the machines: their VPC, and what the firmware describes in each device's _WDG
  NoEvent       \* no notification

ASSUME DevicesDiffer ==
  Devices \in Seq(Range(Devices)) /\ \A i, j \in DOMAIN Devices : Devices[i] = Devices[j] => i = j
ASSUME Described ==
  \A m \in Machines :
    /\ m.vendor \in {"idea", "dy"} /\ DOMAIN m.wdg = Range(Devices) \cup {"vpc"}
    /\ \A d \in DOMAIN m.wdg :
         /\ m.wdg[d] \in Seq(Range(m.wdg[d]))
         /\ \A b \in Range(m.wdg[d]) : IsBlock(b) /\ b.id # NoEvent

VARIABLES
  vendor, wdg,          \* the machine
  phase,                \* of YogaVPC
  at,                   \* how far its loop is
  WMICollection,        \* the devices it has services for, and of what class
  WMIProvCollection,    \* their providers, in the same order
  service,              \* a device's service
  todo,                 \* the events it has still to register
  event, extension,     \* YogaEvent, paperEvent, SREvent or sensorEvent; extension of IdeaWMIYoga
  input,                \* the firmware reports DYVPC's input events
  calls                 \* the calls of the firmware that the last step made

machine == <<vendor, wdg>>
vpc == <<phase, at, WMICollection, WMIProvCollection>>
child == <<service, todo, event, extension>>
servicesVars == <<machine, vpc, child, input, calls>>

Found == Range(Devices)
WMIOf(d) == extractData(wdg[d])
NoCalls == calls' = {}
Without(s, i) == [j \in 1 .. Len(s) - 1 |-> s[IF j < i THEN j ELSE j + 1]]

-----------------------------------------------------------------------------
(* The class of a device's service, and the events each registers. *)
withIdeaWMI(w) ==
  IF \/ hasMethod(w, "gsensorEvent", {"event"}) /\ hasMethod(w, "gsensor", {"method"})
     \/ hasMethod(w, "gsensorExtEvent", {"event"}) /\ hasMethod(w, "gsensorExt", {"method"}) THEN "Yoga" ELSE
  IF hasMethod(w, "paperEvent", {"event"}) THEN "Paper" ELSE
  IF hasMethod(w, "superEvent", {"event"}) THEN "SuperRes" ELSE
  IF hasMethod(w, "battery", {"expensive", "string"}) THEN "Battery" ELSE
  IF hasMethod(w, "gameZone", {"method"}) THEN "GameZone" ELSE "YogaWMI"

withDYWMI(w) == IF hasMethod(w, "sensor", {}) THEN "DYWMI" ELSE "YogaWMI"

ClassOf(d) == IF vendor = "idea" THEN withIdeaWMI(WMIOf(d)) ELSE withDYWMI(WMIOf(d))

Registers(class) ==
  IF class = "Yoga" THEN {"gsensorEvent", "gsensorExtEvent"} ELSE
  IF class = "Paper" THEN {"paperEvent"} ELSE
  IF class = "SuperRes" THEN {"superEvent"} ELSE
  IF class = "DYWMI" THEN {"sensorEvent"} ELSE {}

(* What it asks of the firmware when it has started, and after its event.  *)
SuperResStart(w) == evaluateMethod(w, "super", 0)
BatteryStart(w) == UNION {queryBlock(w, "battery", i) : i \in 0 .. 2}
GameZoneStart(w) == evaluateMethod(w, "gameZone", 0)

processWMI(class, w) ==
  IF class = "SuperRes" THEN SuperResStart(w) ELSE
  IF class = "Battery" THEN BatteryStart(w) ELSE
  IF class = "GameZone" THEN GameZoneStart(w) ELSE {}

HingeMethod(d) == IF extension[d] THEN "gsensorExt" ELSE "gsensor"

ACPIEvent(class, d) ==
  IF class = "Yoga" THEN evaluateMethod(WMIOf(d), HingeMethod(d), 0) ELSE
  IF class = "SuperRes" THEN evaluateMethod(WMIOf(d), "super", 0) ELSE {}

-----------------------------------------------------------------------------
(* YogaVPC::probe: the devices are classified one by one, Thunderbolt's    *)
(* and the VPC's own left out.                                             *)
ProbeVPC ==
  /\ phase = "matching"
  /\ LET w == WMIOf("vpc")
         able == vendor = "idea" \/ hasMethod(w, "inputEvent", {"event"}) \/ hasMethod(w, "bios", {"method"})
     IN phase' = IF able THEN "probing" ELSE "refused"
  /\ at' = 1 /\ NoCalls
  /\ UNCHANGED <<machine, WMICollection, WMIProvCollection, child, input>>

ProbeWMI ==
  /\ phase = "probing" /\ at <= Len(Devices)
  /\ at' = at + 1 /\ NoCalls
  /\ LET d == Devices[at]
     IN \/ /\ ~hasMethod(WMIOf(d), "thunderbolt", {"method"})
           /\ WMICollection' = Append(WMICollection, [device |-> d, class |-> ClassOf(d)])
           /\ WMIProvCollection' = Append(WMIProvCollection, d)
           /\ service' = [service EXCEPT ![d] = "made"]
        \/ UNCHANGED <<WMICollection, WMIProvCollection, service>>  \* Thunderbolt, or init fails
  /\ UNCHANGED <<machine, phase, todo, event, extension, input>>

(* IdeaVPC::initVPC fails if its device does not answer.                   *)
InitIdeaVPC ==
  /\ vendor = "idea" /\ phase = "probing" /\ at > Len(Devices)
  /\ phase' \in {"starting", "failed"}
  /\ at' = Len(WMICollection) /\ NoCalls
  /\ UNCHANGED <<machine, WMICollection, WMIProvCollection, child, input>>

(* DYVPC's reads the description of its own device and has its events      *)
(* reported, if the firmware has a method for that.                        *)
InitDYVPC ==
  /\ vendor = "dy" /\ phase = "probing" /\ at > Len(Devices)
  /\ phase' = "starting" /\ at' = Len(WMICollection)
  /\ LET w == WMIOf("vpc")
         enable == IF hasMethod(w, "inputEvent", {"event"}) THEN executeMethod(w, "inputEvent") ELSE {}
     IN /\ calls' \in {executeMethod(w, "bmf") \cup enable, executeMethod(w, "bmf")}
        /\ input' = (\E c \in calls' : c.name = "WE" /\ c.block.guid = "inputEvent")
  /\ UNCHANGED <<machine, WMICollection, WMIProvCollection, child>>

-----------------------------------------------------------------------------
(* The loop of YogaVPC::start, from the last device to the first.  One     *)
(* that cannot be attached or started is taken from both collections.      *)
Current == WMICollection[at].device

DropOne ==  \* mutant: the provider stays
  /\ phase = "starting" /\ at > 0 /\ service[Current] = "made"
  /\ WMICollection' = Without(WMICollection, at) /\ UNCHANGED WMIProvCollection
  /\ service' = [service EXCEPT ![Current] = "dropped"]
  /\ at' = at - 1 /\ NoCalls
  /\ UNCHANGED <<machine, phase, todo, event, extension, input>>

DropChild ==
  /\ phase = "starting" /\ at > 0 /\ service[Current] = "made"
  /\ WMICollection' = Without(WMICollection, at)
  /\ WMIProvCollection' = Without(WMIProvCollection, at)
  /\ service' = [service EXCEPT ![Current] = "dropped"]
  /\ at' = at - 1 /\ NoCalls
  /\ UNCHANGED <<machine, phase, todo, event, extension, input>>

(* YogaWMI::start: the description, the class's own queries, the events.   *)
StartChild ==
  /\ phase = "starting" /\ at > 0 /\ service[Current] = "made"
  /\ service' = [service EXCEPT ![Current] = "described"]
  /\ calls' = executeMethod(WMIOf(Current), "bmf")
  /\ UNCHANGED <<machine, vpc, todo, event, extension, input>>

ProcessWMI ==
  /\ phase = "starting" /\ at > 0 /\ service[Current] = "described"
  /\ service' = [service EXCEPT ![Current] = "registering"]
  /\ todo' = [todo EXCEPT ![Current] = DOMAIN WMIOf(Current).event]
  /\ calls' = processWMI(WMICollection[at].class, WMIOf(Current))
  /\ UNCHANGED <<machine, vpc, event, extension, input>>

ForgetExtension(n) ==  \* mutant: the extension is not noticed
  /\ phase = "starting" /\ at > 0 /\ service[Current] = "registering" /\ n \in todo[Current]
  /\ todo' = [todo EXCEPT ![Current] = @ \ {n}]
  /\ IF WMIOf(Current).event[n].guid \in Registers(WMICollection[at].class)
     THEN event' = [event EXCEPT ![Current] = n] ELSE UNCHANGED event
  /\ NoCalls
  /\ UNCHANGED <<machine, vpc, service, extension, input>>

(* The dictionary's order is anyone's guess. *)
getNotifyID(n) ==
  /\ phase = "starting" /\ at > 0 /\ service[Current] = "registering" /\ n \in todo[Current]
  /\ todo' = [todo EXCEPT ![Current] = @ \ {n}]
  /\ LET guid == WMIOf(Current).event[n].guid
     IN IF guid \in Registers(WMICollection[at].class)
        THEN /\ event' = [event EXCEPT ![Current] = n]
             /\ extension' = [extension EXCEPT ![Current] = @ \/ guid = "gsensorExtEvent"]
        ELSE UNCHANGED <<event, extension>>
  /\ NoCalls
  /\ UNCHANGED <<machine, vpc, service, input>>

ChildStarted ==
  /\ phase = "starting" /\ at > 0 /\ service[Current] = "registering" /\ todo[Current] = {}
  /\ service' = [service EXCEPT ![Current] = "started"]
  /\ at' = at - 1 /\ NoCalls
  /\ UNCHANGED <<machine, phase, WMICollection, WMIProvCollection, todo, event, extension, input>>

EndOfStart ==
  /\ phase = "starting" /\ at = 0
  /\ phase' = "started" /\ NoCalls
  /\ UNCHANGED <<machine, at, WMICollection, WMIProvCollection, child, input>>

-----------------------------------------------------------------------------
(* The firmware notifies a running service of one of its events, and       *)
(* DYWMI's clients ask for a sensor.                                       *)
Running(d) == service[d] \in {"described", "registering", "started"}

Notified(i) ==
  LET d == WMICollection[i].device
  IN /\ Running(d)
     /\ \E n \in DOMAIN WMIOf(d).event :
          calls' = IF n = event[d] THEN ACPIEvent(WMICollection[i].class, d) ELSE {}
     /\ UNCHANGED <<machine, vpc, child, input>>

UpdateSensor(i) ==
  LET d == WMICollection[i].device
  IN /\ service[d] = "started" /\ WMICollection[i].class = "DYWMI"
     /\ \E index \in 0 .. getInstanceCount(WMIOf(d), "sensor") - 1 : calls' = queryBlock(WMIOf(d), "sensor", index)
     /\ UNCHANGED <<machine, vpc, child, input>>

-----------------------------------------------------------------------------
(* YogaVPC::stop: exitVPC, then the same loop. *)
ExitVPC ==
  /\ phase = "started" /\ phase' = "stopping"
  /\ at' = Len(WMICollection)
  /\ calls' = IF vendor = "dy" /\ hasMethod(WMIOf("vpc"), "inputEvent", {"event"})
              THEN executeMethod(WMIOf("vpc"), "inputEvent") ELSE {}
  /\ input' = FALSE
  /\ UNCHANGED <<machine, WMICollection, WMIProvCollection, child>>

StopChild ==
  /\ phase = "stopping" /\ at > 0
  /\ service' = [service EXCEPT ![Current] = "stopped"]
  /\ at' = at - 1 /\ NoCalls
  /\ UNCHANGED <<machine, phase, WMICollection, WMIProvCollection, todo, event, extension, input>>

EndOfStop ==
  /\ phase = "stopping" /\ at = 0
  /\ phase' = "stopped" /\ NoCalls
  /\ WMICollection' = <<>> /\ WMIProvCollection' = <<>>
  /\ UNCHANGED <<machine, at, child, input>>

(* Nothing more comes of a service that was refused, failed or stopped. *)
Over == phase \in {"refused", "failed", "stopped"} /\ UNCHANGED servicesVars

ServicesInit ==
  /\ \E m \in Machines : vendor = m.vendor /\ wdg = m.wdg
  /\ phase = "matching" /\ at = 0
  /\ WMICollection = <<>> /\ WMIProvCollection = <<>>
  /\ service = [d \in Found |-> "none"] /\ todo = [d \in Found |-> {}]
  /\ event = [d \in Found |-> NoEvent] /\ extension = [d \in Found |-> FALSE]
  /\ input = FALSE /\ calls = {}

Starting == ProbeVPC \/ ProbeWMI \/ InitIdeaVPC \/ InitDYVPC \/ DropChild \/ StartChild \/ ProcessWMI \/ ChildStarted \/ EndOfStart
Stopping == ExitVPC \/ StopChild \/ EndOfStop

ServicesNext ==
  \/ Starting \/ Stopping \/ Over
  \/ \E d \in Found : \E n \in todo[d] : getNotifyID(n)
  \/ \E i \in DOMAIN WMICollection : Notified(i) \/ UpdateSensor(i)

ServicesSpec == ServicesInit /\ [][ServicesNext]_servicesVars

-----------------------------------------------------------------------------
(* Every call of the firmware names a block of the right kind, and an      *)
(* instance it has, whatever the firmware describes (WMI.cpp:230-271,      *)
(* 381-459).                                                               *)
CallsAreAnswered ==
  \A c \in calls : Answered(c) /\ (c.block.guid \in {"bmf", "inputEvent"} \/ c.instance < c.block.count)

(* A folding machine's service registers the event of its hinge and reads  *)
(* how it is folded with a method the firmware has, if every event has a   *)
(* number and a GUID of its own and each of the hinge's has an instance of *)
(* its method (IdeaWMI.cpp:46-55, 73-86).                                  *)
Unambiguous(w, table) ==
  /\ \A i, j \in DOMAIN table :
       /\ IsEvent(table[i]) /\ table[i].guid = table[j].guid => i = j
       /\ IsEvent(table[i]) /\ IsEvent(table[j]) /\ table[i].id = table[j].id => i = j
  /\ \A pair \in {<<"gsensorEvent", "gsensor">>, <<"gsensorExtEvent", "gsensorExt">>} :
       getMethod(w, pair[1], {"event"}) => evaluateMethod(w, pair[2], 0) # {}

HingeIsRead ==
  \A i \in DOMAIN WMICollection :
    LET d == WMICollection[i].device
    IN WMICollection[i].class = "Yoga" /\ service[d] = "started" /\ Unambiguous(WMIOf(d), wdg[d]) =>
         /\ event[d] # NoEvent
         /\ WMIOf(d).event[event[d]].guid \in {"gsensorEvent", "gsensorExtEvent"}
         /\ evaluateMethod(WMIOf(d), HingeMethod(d), 0) # {}

(* The two collections stay in step whatever devices are dropped, each     *)
(* service that runs is one of them, and a VPC that has stopped leaves     *)
(* none running and no events reported (YogaVPC.cpp:107-127, 170-185,      *)
(* DYVPC.cpp:69-95).                                                       *)
ChildrenAreStopped ==
  /\ phase \notin {"stopped", "failed"} =>
       /\ Len(WMICollection) = Len(WMIProvCollection)
       /\ \A i \in DOMAIN WMICollection : WMICollection[i].device = WMIProvCollection[i]
       /\ \A d \in Found : Running(d) => d \in Range(WMIProvCollection)
  /\ phase = "started" => \A d \in Range(WMIProvCollection) : service[d] = "started"
  /\ phase = "stopped" => ~input /\ \A d \in Found : ~Running(d)
=============================================================================
