# YogaSMC in TLA+

YogaSMC is a macOS kernel extension for Lenovo machines, with a menu bar
application, a preference pane and command line tools. The kernel extension
talks to embedded controllers and to ACPI methods of the firmware, and it is
called from many threads that share no lock. The modules here describe that
concurrency: which thread may do what between two steps of which other, and
what has to come out of it.

Paths below are relative to `src/`; `TC` is `YogaSMC/YogaVPC/ThinkCentre.cpp`,
`VPC` is `YogaSMC/YogaVPC.cpp`, `Base` is `YogaSMC/YogaBaseService.cpp`.

## 1. The system

### Threads

Everything hard in this code comes from who may call what.

| thread | enters through | holds the command gate |
|---|---|---|
| property setter (a process writes the registry) | `setProperties` -> `commandGate->runAction(setPropertiesGated)` | yes |
| work-loop timers | `updateSensors`, `backlightRest`, `updateEC` | yes (same work loop) |
| user client (one per opened connection) | `YogaSMCUserClient` `readEC`, `writeEC`, `registerNotificationPort`, close | no |
| power management | `setPowerState` | no |
| ACPI notifications, keyboard and other drivers | `message` | no |
| matching and termination | `start`, `stop` | no |

A gated handler therefore excludes other gated handlers and nothing else.

### Components

| component | state | operations | how it interacts | what makes it correct |
|---|---|---|---|---|
| ThinkCentre service (`TC`) | `handshakeActive`, `manualMode`, `manualDuty`, `manualLevel`, `savedHwmCfg`, poller; the controller's registers | fan commands by EC write or property, poll, start, stop, sleep, wake | controller ports; user client; VirtualSMC | the configuration window is always closed; driver and controller agree; the fan is handed back |
| YogaVPC (`VPC`) | `DYTCCap`, `DYTCLock`, backlight level, saved level, timeout | `setPropertiesGated`, `message`, `setPowerState`, `backlightRest` | firmware methods; subclasses override the backlight methods | a setting takes; the published state is true; the keyboard can be lit |
| ThinkVPC | LEDs, fan control, yoga mode, hot-key mask | hot keys, LEDs, conservation, mute LEDs over sleep | EC, firmware, user client | states saved for sleep come back |
| IdeaVPC | VPC0 configuration, battery modes, keyboard state | mailbox commands `read_ec_data`, `write_ec_data`; timer; ACPI events | VCMD/VDAT registers of the EC | a reader gets the answer to its own command |
| DYVPC | none beyond capabilities | `WMIQuery`, events | WMI method | argument layout |
| YogaHIDD | button and power state | `message`, `setPowerState` | HID event methods, user client | events reach the client |
| YogaBaseService (`Base`) | set of input drivers, gate, work loop, top-case state | `dispatchMessage`, `setTopCase`, `updateTopCase`, start, stop | keyboard and touchpad drivers by messages | nothing is sent after the gate is gone |
| YogaSMCUserClient | provider's `client`, one message buffer, port | open, close, register, read, write, notify | the application over Mach ports | `client` is only ever an open client; event and data belong together |
| YogaSMC and its variants | sensor table, `awake`, `ready`, poller | poll, sleep, wake, keys | EC, VirtualSMC | polls resume after a wake |
| YogaWMI, WMI, IdeaWMI, DYWMI | GUID table, event ids, `YogaMode` | event dispatch, method calls, life under a VPC | ACPI WMI methods, input drivers | calls the firmware answers; keyboard and touchpad follow the hinge |
| applications (`YogaSMCNC`, `YogaSMCPane`, helpers, utilities) | connection, defaults | menus, fan helpers, notifications | user client, registry | two fans are not confused |
| `tools/smckeys.c`, SSDT samples, bmf decoder | none | | | |

`PROJECT.json` gives each component its status and every hazard its line.

### Hard behaviours

* commands to one controller that interleave inside a multi-write sequence
  (`TC` 202-238), readers that test a flag and then read (`TC` 241-262);
* a shared mailbox or port window (`TC` 99-120, `IdeaVPC.cpp` 873-923);
* a lock that covers one command of a transaction (`VPC` 433-476, 646-669);
* timers against sleep, key presses and properties (`VPC` 399-431, 726-735);
* state that is saved for sleep, or kept over it, and is stale afterwards;
* stop while calls are still under way; partial failure of firmware methods.

## 2. The modules

| module | models | state it keeps |
|---|---|---|
| `ThinkCentreFan` | the ThinkCentre service: fan commands from clients and properties, polls, monitoring, start, stop, sleep and wake | the controller's window (`fan`, `hwmCfg`), every field that two threads share, the published properties, the poller, a program counter per thread |
| `EcRegisters` | what `ecRead8`, `ecRead16`, `ecWrite8` promise: byte accesses that take effect at one instant | registers, one call per thread |
| `EcPorts` | the same calls, port write by port write, under `ioLock`; refines `EcRegisters` | lock, page and index port |
| `DYTC` | thermal modes: `DYTCCommand`, `setDYTC`, `parseDYTC`, `updateDYTC` and the property that starts them | the firmware's mode, `DYTCCap`, `DYTCLock`, the DYTC property, each thread's locals |
| `KeyboardBacklight` | backlight level, automatic backlight, timeout, key presses, sleep and wake, with ThinkVPC's methods | the lit level, the driver's fields, the timeout |
| `TopCase` | `IdeaWMIYoga`: keyboard and touchpad follow the hinge, by messages to their drivers | hinge, drivers, the cached states, `YogaMode` |
| `IdeaMailbox` | IdeaVPC's events: `read_ec_data`, `write_ec_data`, `updateVPC`, `updateKeyboard` and their callers, on two threads without a lock | VCMD, VDAT, what the controller has to report, the inferred level, the touchpad's state |
| `IdeaModes` | IdeaVPC's conservation and rapid charge, Fn lock, always-on USB and the backlight of a folded machine: requests from the gate and from the SMC, `updateBattery`, `updateKeyboard`, the toggles and the folding and Fn events | the firmware's modes, the driver's copies, what each thread is running |
| `ThinkVPC` | hotkey events, mute LEDs, sleep indicator, Fn lock, clamshell and tablet mode, sleep and wake of a ThinkPad | the firmware's event queue and lights, the driver's copies and saved states, what each thread is running |
| `Notifications` | what a service promises about the messages an application gets | subscriber, each thread's post, the last message |
| `UserClient` | `YogaSMCUserClient`: open, register, close, death, termination, and the posts of the service's threads; implements `Notifications` | owner, `client`, port, header and message of each user client, where each application and thread is |
| `ThinkFanHelper` | the fan helpers of YogaSMCNC on top of `UserClient` | the controller's selected fan, what each application has queued |
| `WMI` | the table of WMI blocks and the checks before a call, as operators | none |
| `WMIServices` | probe, start, events and stop of IdeaVPC and DYVPC with the services of the WMI devices beside them, on top of `WMI` | the two collections, each service's event, the last calls of the firmware |
| `SensorTable` | what adding a sensor or a key to the table does, for each of YogaSMC's variants, as operators | none |
| `SensorService` | start and stop of a YogaSMC on YogaBaseService, with power calls, polls, consumers and SMC writes, on top of `SensorTable` | gate, notifiers, poller, `awake`, `ready`, the table and the sensors `left` to try, consumers, each thread's place |
| `ThinkCentreFanProofs`, `DYTCProofs`, `TopCaseProofs`, `IdeaMailboxProofs`, `ThinkVPCProofs` | the proofs of the module each is named after | |
| `ClientAndSensorProofs` | the proofs of `UserClient`, `ThinkFanHelper` and `SensorService` | |
| `KeyboardAndWMIProofs` | the proofs of `KeyboardBacklight` and `WMIServices` | |
| `PortsAndModesProofs` | the proofs of `EcRegisters`, `EcPorts` and `IdeaModes` | |
| `MC*` | the instances for TLC | |

Compositions: `EcPorts` implements the registers that `ThinkCentreFan` takes as
atomic; `ThinkFanHelper` runs over `UserClient`, which implements `Notifications`;
`WMIServices` and `SensorService` run over the operators of `WMI` and `SensorTable`.

All modules are laid out alike. A step is one access to the hardware, to
another driver or to a field that another thread may touch; accesses nobody can
observe in between are merged with the step before. Where handlers branch and
loop, `pc[t]` is thread `t`'s next step and `At(t, a, b)` moves it from `a` to
`b` (`From` in `EcPorts`). Where they are short sequences that share their steps (`ThinkVPC`,
`IdeaModes`), `prog[t]` is the sequence of steps thread `t` has left, and a step
may put more in front. `SensorService` and `WMIServices` keep one `phase`. An
operation that starts is an action of its own, with the guards of the C++
handler. History variables (`alone`, `overlap`, `settled`, `calm`, ...) are only
read by properties; `Begin` or `Count` comments on each.

### Correspondence and modelling decisions

*ThinkCentreFan.* The controller's side is external and taken from the comments
in `TC` and from `THINKCENTRE.md`: REQ opens a window and drops what was staged,
a duty outside a window is ignored, DONE applies what is staged and with nothing
staged returns the fan to the controller. One register of a sensor stands for
them all in a poll. Raising `handshakeActive` is part of the step that begins a
command, and `manualMode`/`manualDuty` and the two published properties are set
in one step each. The machine does not sleep while `start` runs; requests come
after `registerService`; `stop` begins when the clients have closed, but
properties may still arrive. `FanPWM` leaves `manualLevel` as it was
(`LevelReadBack` leaves such reads out), the first `setPowerState(1)` writes a
`savedHwmCfg` nobody saved, and the test at `TC` 528 can never be true: the
model does what the code does. A poll tests `handshakeActive` once, so it does
read registers inside a window that opens after the test.

*EcPorts.* The page port takes a page after 0xFF, as the comments at `TC` 101
and 115 say. C++ does not order the two reads of `ecRead16`: either goes first.

*DYTC.* The firmware's answers are external: lap mode has priority in a reply,
RESET ends it, and the standard mode has no settings of its own. Raw commands
are GET, RESET and two SETs. Evaluating the method
and looking at the error code is one step. `initDYTC` is the initial state, with
a firmware that has at least one capability. A refresh may run between the
commands of a setting, since the lock is let go after each.

*KeyboardBacklight.* `initVPC` could add the timer. `IdeaVPC` infers its level by
a different algorithm (`IdeaMailbox`). A failed method changes nothing in the
keyboard. With a timeout set the code darkens for sleep without saving the
level, and `WakeRestores` says so.

*TopCase.* A driver that is replaced starts enabled. The power state is "off"
until the first call after registration. `Stopped` waits for the other
threads, so the freed gate of `Base` 90-92 is a hazard and not modelled here. A
hinge that moves while the machine sleeps may or may not be announced. A sleep
in flipped mode enables the keyboard but keeps `YogaMode`, so that the wake's
reading leaves it enabled: `FlippedIsDisabled` leaves that out.

*IdeaMailbox.* The controller is external: it takes a command at any time or
never, VPC1 and VPC2 are cleared as they are read, and a write clears VDAT
(comments at `IdeaVPC.cpp` 872 and 896). A notification may come at any time,
with or without an event. The touchpad and the backlight stand for the events
that change a field; the others dispatch keys. After a failed read the
touchpad's state is taken from `result` all the same (798-807), so it is either.
A refresh reads the keyboard before and after the events, as `updateAll` and
its base class do. Direct reads (`readEC`) only log and are left out.
The mailbox is not safe for two threads, and the properties say what is left:
`ExchangeIsOwn` holds for a caller nobody interrupts, the fields recover as soon
as a later event is handled by one thread. `LevelFollowsCycle` starts anew
whenever HALS finds the keyboard dark.

*IdeaModes.* The firmware is external: its modes are independent of each other,
the keyboard's backlight goes off, low, high with its key, and every change of
it comes with an event. A call that fails leaves everything
as it is. A rapid charge request on a machine without it is dropped after the
battery was read, and counts as a use of the battery's method. Stand and tent are
one way to fold. A refresh (`UpdateAll`) reads battery and keyboard, takes the events
the firmware has and reads the keyboard once more, as `updateAll` and its base
class do. What the driver publishes of two
modes is late or wrong (597, 651); the properties are about the fields, which
decide what later requests do. `setBacklight` lowers the level by one before the
firmware's event infers it again (660-662), and a second fold before the machine
is a laptop again saves the level of a dark keyboard: `YogaRestores` is about one
fold and the one back.

*ThinkVPC.* The firmware queues events and notifies each once; a notification may
be handled at any time later, one at a time, as ACPI does. What the driver does
for an event is one program, in the order of the code, and `client` is tested
twice, for the answer and for the post. Flat counts as laptop, stand and tent as
tablet, as `updateYogaMode` treats them. `muteLEDstate` is read from the
firmware only by a refresh, so the lights come back after a sleep if the driver
knew of them (`before.known`); the scene with requests, refreshes and sleeps of the
mute light (`MuteScene`) is for that. The battery's thresholds, the fan's property and
the hotkey mask are left out.

*UserClient.* IOKit's side is external: `open` grants one owner, `terminate`
makes a client inactive, an inactive service closes nobody. An application's
calls are sequential; a thread's post is a test of `client`, a use of it, the
test of the port, two fields and a send. The compiled code may use the pointer it
tested or load it again, so both are taken; where it loads null, the machine
stops (`Panic`). That user clients are freed only after their posts is not
checked. `registerNotificationPort` sets `client` before port and header, so an
early post is dropped.

*Notifications.* `own` is the event a thread is posting, `mixed` those of the
posts that overlap it, `reach` the applications subscribed since it began. A
message is put together of `mixed` and goes to one of `reach`, or is lost: the
strongest promise the one shared message and the unlocked pointer allow.
`UserClient` keeps these three as history variables, which is the refinement
mapping.

*ThinkFanHelper.* The main thread runs helper calls one after the other, the
second fan's first (`AppDelegate.swift`). One of two helpers reads the selection,
compares and writes it; a helper alone takes it as it is (`ThinkFanHelper.swift`
187). After an application with two helpers it may be the second fan that is
selected, and a lone helper then sets and reads that one, as "Main":
`SelectionHolds` says that it is the fan `found` at the opening, not that it is the
main one. A call that fails disables its
helper for good, as the Swift code does. `ThinkSMC` has code that selects a fan
as well, but nothing sets `dualFan`, so it never runs.

*WMI, WMIServices.* GUIDs are names. A later block replaces an earlier one of the
same GUID or notification, as the dictionaries do: `extractData` picks the last
of each. A table is `Unambiguous` when no event shares its GUID with another block
or its number with another event and each hinge event has a method with an
instance; one whose method has no instance was let through at first, and the
attempt to prove `HingeIsRead` showed it. A call is a block, the kind
of object (`WM`, `WQ`, `WE`) and an instance, recorded in `calls` when a step
makes it. Attaching and starting a child may fail at any time. IdeaWMI's choice
of class, the events each registers and the queries each makes are tables of
operators. The data of game zone events and the forwarding of the Fn keys are left
out. A YogaWMI that matches on its own, without a VPC, is left out with its
wait of two seconds.

*SensorTable, SensorService.* A table is built while the service starts, a sensor
of the variant and then an ACPI preset at a time (`AddVendor`, `SetBase`,
`AddPreset`), and a poll fills slots by it; one poll's readings all succeed or
all fail. The machine does not sleep while `start` runs. `IONotifier::remove` and
`removeEventSource` wait for what is running, as IOKit documents. Consumers that
are there before the notifiers are (`early`) may be missed. A thread that uses
what is not there or freed goes to `panic` and stays: the properties say when
that cannot happen. After `stop` has released the poller a power call does
panic, since `ready` stays set and `PMstop` comes last, and so does an SMC write
after the collection or the gate is gone; the properties leave these out.

## 3. The runs

| run | instance | what it shows |
|---|---|---|
| `thinkcentre_fan` | one client besides the work loop, PM and driver threads; one value per input; 2.5 million states | windows closed and flags lowered (`HandshakesEnd`), driver and controller agree when quiet, poller alive, monitoring restored, fan handed back |
| `fan_duty_refresh` (violated) | same threads, one duty and the automatic level, with fairness | the published duty can stay wrong for ever |
| `ec_ports` | two threads, three registers, one of which changes on its own | the ports implement atomic registers; undisturbed words are whole |
| `dytc` | the gate and one message thread, three settings, one failure | the lock is let go; settings take; the property is true |
| `backlight` | four threads, three levels, one timeout value, one failure | the level is known, sleep is dark, a wake restores, a rest can be undone |
| `top_case` | three threads, laptop and two flipped modes, one unknown reading | the drivers follow the hinge; a sleep or stop leaves the keyboard enabled, and the touchpad outside laptop mode |
| `idea_mailbox` | work loop and ACPI threads, two of the sixteen events, unbounded key presses, failures and timeouts; 4.3 million states | who gets its own answer, and that touchpad and inferred level follow the keys |
| `user_client` | two applications, two posting threads, two events, two fans | one subscriber, who has the service open; the service can be opened again; messages are those of `Notifications`; each of two helpers uses its own fan, a lone one the fan it found |
| `think_vpc` | three threads, five scenes of requests and events that touch the same state, four of them in a behaviour, one failure | no event is left behind, each key is answered once, Fn lock, lights, keyboard and touchpad follow |
| `idea_modes` | four threads, four scenes, four requests, one failure | the copies are the firmware's modes after one lone reading; what is asked for alone is set; a keyboard folded once and back gets its light back |
| `wmi_services` | two VPCs, 2320 firmware tables, two devices, any failure | calls are answered, hinges are read, the collections stay in step |
| `sensor_service` | nine machines of three variants, five slots, two consumers | polling follows the power state until stop, keys show their own sensors, handlers find the gate |

`PROJECT.json` has one mutant per property: a change to a definition as a bug
would make it, which TLC then finds. The violated run is a disagreement
between code and a document; its finding quotes both.

Bounds. `ThinkCentreFan` has four threads, all that can touch one fan in
different ways; a second client adds no step the first and the gate do not
take together, and the theorems hold for any number of clients. One value per
input is enough there because duties are only copied and compared; the
conversion of a level to a duty is a state function, evaluated at the values
given. `EcPorts` takes two threads because only the holder of the lock and one other
matter. A failure may strike once at any step (`MaxFaults`); a second failure
returns to states the first one reaches. `TopCase` has two flipped modes since
all three are treated alike and only a change between two matters; there a
failure leaves nothing behind and is not bounded. `IdeaMailbox` has no bound but
its two threads: a third (`message` may run on several) could only overlap as the
second does, and every property already excludes overlaps.

`ThinkVPC` and `IdeaModes` run four requests and events (`MaxRequests`) of one
scene: a scene is a set of kinds that touch the same state, and four are enough
for two that race, one that is read between them and one that recovers. The
constraint `Relevant` takes one initial value of what a scene never touches.
`UserClient` has two applications, since the service has one owner and the other
is whoever comes next, and two posts that overlap; the theorems hold for any
number of both. Applications, threads and events are interchangeable and
`SYMMETRY` is used in the run, whose properties are safety only. Posts and
helpers share nothing but the connections: `OneOfBoth` takes each with the
other at rest. `WMIServices` takes every order of three of ten blocks that tell
IdeaVPC's classes apart beside a second device, and of two of eleven others for both
VPCs; a child's choice depends on at most three blocks. `SensorService` has five
slots where the code has sixteen (`MAX_SENSOR`), with machines that have fewer, as
many and more sensors than slots.

Deadlock is not checked where the system stops for good (`stopped`) or where
all inputs may be exhausted; `ThinkVPC`, `IdeaModes` and `WMIServices` have a step
for that rest instead, and deadlock is checked.

Fairness. Only `fan_duty_refresh` uses it. `FairSpec` has weak fairness on each
thread's body (a kernel thread inside a handler is scheduled and IODelay ends)
and on the timer (an armed timeout fires). No fairness is assumed of clients,
of properties or of the machine's sleep. The other progress properties are
stated as safety: `PollerAlive` and `PollingFollowsPower` say that a poll runs
or is armed, `EventsAreAnnounced` that a notification is left for each event.

## 4. What is proved

For all values of the constants that satisfy the named assumptions:

* `TypeCorrect`: `TypeOK` of `ThinkCentreFan`. It is inductive with one addition,
  `MonitorByteKept`: a thread between the read and the write of HWM_CFG holds a byte.
* `WindowsAndFlagsHaveOwners` (`HandshakesEnd`): an open window has a thread that
  will write DONE, a raised flag one that will lower it. Each action either moves
  an owner to the next owning step, or opens and raises nothing.
* `DriverAgrees` and `StopRestoresAuto`. Agreement at rest is not inductive, since a
  command breaks it and restores it. `AInv` says what holds at each step of a
  command that runs alone (`Stages`), that without an overlap only one runs
  (`Alone`), that between commands the settled relation holds (`Rest`), and what
  the PM and driver threads may be doing (`PMThread`, `DriverThread`,
  `Stopped`). An overlap switches all of it off until a command begins alone, which is
  why `Stages` of a command does not depend on what was there before.
* `LevelReadsBack`, `PollerStaysAlive` and `MonitoringComesBack` complete the safety
  of that module. A level is followed from the command that sets it to the
  field that is read (`levelStale` says when it may differ); the poller by who holds
  its timeout at each step of a poll, a sleep and a wake; the saved HWM_CFG by what
  start, sleep and wake have read or written at each of their steps. `MonitoringComesBack`
  is about a service that runs or is being stopped, awake: `stop` puts nothing back,
  and nothing is said of what it leaves in HWM_CFG.
* `PortsTypeCorrect`, `DataPortIsOwn`, `PortsImplementRegisters`: with `PInv` (the lock
  has one holder, the holder's register is one its call has yet to access, and
  the ports hold what the holder has written so far) each step of the ports is a
  step of the registers or a stutter. `PortWordsAreWhole` follows through the
  refinement from `WordsAreWhole`, which is proved of the registers alone.
* `OnlyOwnersSubscribe` and `TheGoneHaveReleased`, from `ConnectionInv`: besides the
  types and `SubscriberIsOwner` itself it says that an owner's application is
  between open and close (`OwnerIsOpen`, unless the service is terminated), that
  one about to close the service is its owner (`ClearedIsOwner`), and that an
  inactive user client's application is gone.
* `PostsAreNotifications`: each step of the user client is a step of `Notifications`
  or a stutter. `MessageInv` says what a thread that posts has put where: its
  event is its own, its target subscribed since it began, whoever is subscribed
  now is reached by every post under way, posts that overlap are in each other's
  `mixed`, and what a thread finds in the message by the time it sends comes from
  `mixed`.
* `HelpersUseTheirFan`: a step of a helper is a step of its application or a
  stutter (`HelpersAreClients`), so `ConnectionInv` carries over; `FanInv` adds that a
  running application has the service open and that the one past the selection
  still finds its fan selected: its own if it has two helpers, else the one `found`
  when it opened the service. One owner at a time is what it rests on.
* `LockIsLetGo`, `SettingsTake` and `WhatIsPublishedAgrees` of `DYTC`. The first is inductive
  once the range of `lock` is known. For the others `RequestInv` says, per step
  of a thread that is alone, what it knows of the firmware (`Knows`, which a
  failure elsewhere does not take away: the refresh after a failed setting
  publishes the truth) and how far the firmware is on the way to what was asked
  (`OnTheWay`: a setting is up to four commands, and looking under lap mode turns it
  off and on again). `ModesPlain` is needed because a reply with the standard mode
  cannot be told from one without settings.
* `BacklightIsKnown` and its four corollaries. `LevelInv` says between which two steps
  the driver's level is not the keyboard's; `SleepInv` follows a sleep, the time
  between and the wake step by step, as long as nothing else begins; `RestInv` keeps
  the level a rest has saved. They share one field, `backlightLevelSaved`, and
  the sleep may overwrite it only where no timeout is set, which is why they are
  one invariant.
* `TopCaseIsKnown` and its three corollaries. Agreement of hinge and drivers is broken
  by every fold and by every message under way, and `YogaMode` is set only after
  both messages. `Undisturbed` says what a reading that is alone has found and told
  so far, `OnInv` and `OffInv` what the keyboard is between the two messages, under
  weaker conditions than the properties have, since what an earlier request left
  matters to a later one; `Absent` that a driver not yet there has been told nothing.
  `KeyboardIsLeft` is about the keyboard in every mode and about the touchpad outside
  laptop mode, in which `stop` and a sleep leave it as its key has set it.
* `MailboxIsKnown` and its three corollaries. The mailbox has no lock: `Exchange`
  says what a caller alone finds in it even after a command somebody gave up,
  `TouchPadInv` that a press the driver has not heard of is still among the
  controller's events, in the mailbox or in a thread's local, and `LevelInv` that the
  level, or the one about to be stored, is at most the one unseen press behind.
* `ThinkVPCIsKnown` and its five corollaries. `ProgramsOK` says which programs a
  thread may have left, by three conditions that a step and a program put in front
  of another keep: what may follow what (`Adjacent`), what a program does not end
  with, and what it does not do again (`Over`). From there `AnswerInv` counts the
  answers at each point of a handler, `FnInv` and `MicInv` say that a thread which
  keeps what it has read or set is the only one and keeps the truth, or that
  somebody is still to read it, `LightInv` follows a calm sleep and wake step by
  step, and `FoldInv` what a reading that is alone has found. `LightInv` needs
  `MicInv`: what a sleep saves is the driver's copy, and what comes back is the light.

* `PowerIsFollowed` and `ConsumersStayKnown`, from `ServiceIsKnown`. Start, stop, a power call
  and a poll interleave, so `PowerInv` says for each phase whether there is a poller
  (`Stages`) and for each step of a power call how far it has come with the timer
  (`PowerCall`): between a sleep's disabling of the timer and its return no poll is
  armed, and a wake arms one only after `awake` is set. That polling follows the power
  state is said of a started service; before that and until `stop` begins, that a power
  call finds the poller; in every phase, that a poll runs only with a complete table and
  that none runs once `stop` has removed the poller. What a power call does after that
  is left out, since it finds none. `Listening` says when there is a
  gate and which notifiers there are, which is what a notification in progress waits
  for, and `Told` what it is about: a consumer is never told to have come after it
  was told to have gone.
* `KeysShowTheirOwn`, from `TableIsKnown`. `KeysFound` says where the poll will look for a
  key's reading: a slot at or above `ECSensorBase` holds the preset's method, one below it
  the variant's sensor, and ThinkSMC has one slot of its own. `Room` counts what is
  left to add against the slots, which is what keeps `ECSensorBase` in place; where the
  presets do not fit they are dropped, and the keys that are there keep their slots.
* `NoServiceIsLeft`, from `ServicesAreListed`. `Stages` of `Lives` says by place of the loop which
  services have been made, started or stopped; a device that fails is removed from two
  arrays while the loop runs over them backwards, and the lemmas on `Without`
  show that places below it stay and those above move down by one in both
  (`DropKeepsLives`). `Unlisted` says what becomes of devices that are in neither.
* `HingeHasItsMethod` and `EveryCallIsAnswered`. `Events` says which event and method a
  service that has passed each of its events can have registered. What the table of
  blocks holds follows from `LastIsOne`, by well-founded induction on places: the
  entry of a GUID or number is one of the blocks with it. Then each of the queries
  a class makes is, guard by guard, a call the block answers.
* `ModesDoAgree`, from `ModesAreKept`. The firmware's modes are read by one evaluation and
  compared and stored in others, with other threads between. `Apart` says that a
  thread uses only the methods it has announced and that a group of modes in
  `agreed`, or of a thread that is alone, has one user; `HasRead` that what
  such a user is about to store is still what the firmware has; `HasKept` that a
  mode is right or the one thread that has sent it is about to keep it. The
  programs a thread may have left are a finite set (`Programs`), closed under its steps.
* `AskedWillBeSet` adds `HasAsked`: a mode that was asked for alone is set, or the
  one user of its group still owes a comparison, a sending or a flip that leads there, with
  the argument asked for. The SMC key's comparison is with the driver's copy, so it
  needs `HasKept`.
* `LightIsRestored` adds `Folding`, for one fold and the one back: while a machine with
  `onYogaMode` is folded and back undisturbed, only the WMI and ACPI threads run, with one of a few programs, and each step
  of them says where the light that was on is kept: in the keyboard, in what was read, in
  `backlightLevel` or in `backlightLevelSaved`.

The assumptions are those in the modules: thread names differ, inputs are
bytes, register numbers are below 0xFF00 (page 0xFF means "unlock"), the
free lock is no thread, `None` is neither a client nor an event, devices are listed once,
a table is a sequence of blocks, and machines and presets are named and fit
the slots a variant always uses. TLC evaluates them in the runs.
The type invariants that the proofs rest on are proved and not run again.

Each inductive invariant was checked by TLC on its component's run before it was
proved. The bounds of the runs do not enter the theorems: they hold for any number
of clients, applications, message threads, requests, events and failures, and any
set of levels, settings, timeouts, lights and flipped modes.

Only model-checked: liveness under fairness, which the prover cannot do.
`FanDutyRefreshes`, the one such property, is false, and its run refutes it.
Every invariant and action property of the passing runs is stated by a theorem.
That the table of sensors or of WMI blocks is right for every description would
need induction over data if they were built by folds, so the one is built
step by step, as the code does, and the other by what it ends up with.

## 5. Not modelled

Registry layout, logging and formatting; the matching of drivers; chip detection
and sensor discovery of the ThinkCentre service; the encoding of SMC values and the
names of keys; the queries at start that only find out what a machine has; the
layout of DYVPC's buffers; YogaHIDD, whose events are posts of `UserClient`; the
ACPI tables; the vendored bmf decoder; the user interface of the applications,
the preference pane and the command line tools. `PROJECT.json` says for each
component what is left out.

## 6. What could follow

The properties of the runs are proved. What is left is more of the code: the
encoding of SMC values and the conversion of temperatures, the battery thresholds of
ThinkVPC, and the choice of fan and temperature slots in the ThinkCentre service.
