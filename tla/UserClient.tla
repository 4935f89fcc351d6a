----------------------------- MODULE UserClient -----------------------------
(***************************************************************************)
(* YogaSMCUserClient: an application's connection to a service.  It opens  *)
(* the service for itself, registers for notifications, and is closed by   *)
(* the application or when that dies, while the service's threads send     *)
(* events to whoever is in `client`, without a lock.  The calls of one     *)
(* application are sequential.                                             *)
(***************************************************************************)
EXTENDS FiniteSets

CONSTANTS
  Clients,   \* user clients, one for each connection of an application
  Threads,   \* the service's threads that post (message, Update property)
  Events,    \* the events, each with its own data
  None       \* no client

ASSUME NoneIsNone == None \notin Clients \cup Events

VARIABLES
  owner,       \* who has the service open (IOService's own record), or None
  client,      \* YogaVPC::client
  inactive,    \* the user clients that have been terminated
  terminated,  \* the service has
  port,        \* the user clients whose m_notificationPort is set
  header,      \* those whose message header names that port
  message,     \* the one message each of them keeps
  app,         \* where each application is
  target,      \* the client each thread sends to
  pc,          \* and where the thread is
  own, mixed, reach, delivered  \* history variables: as in Notifications

connection == <<owner, client, inactive, terminated, port, header>>
history == <<own, mixed, reach, delivered>>
sending == <<message, target, pc, history>>
clientVars == <<connection, app, sending>>

N == INSTANCE Notifications WITH subscriber <- client

IsInactive(c) == terminated \/ c \in inactive

Running == \A t \in Threads : pc[t] # "fault"

AppGoto(c, place) == app' = [app EXCEPT ![c] = place]
AppAt(c, place, next) == Running /\ app[c] = place /\ AppGoto(c, next)

---------------------------------------------------------------------------
(* The application's calls. *)

OpensAny(c) == ~IsInactive(c)  \* mutant: anybody may open
MayOpen(c) == ~IsInactive(c) /\ owner = None

userClientOpen(c) ==
  /\ IF MayOpen(c) THEN AppAt(c, "started", "open") /\ owner' = c
                   ELSE AppAt(c, "started", "closing") /\ UNCHANGED owner
  /\ UNCHANGED <<client, inactive, terminated, port, header, sending>>

(* registerNotificationPort: client is set first, then the port, then the  *)
(* header; the posts under way may see the new client.                     *)
Subscribing(c) ==
  /\ client = None
  /\ client' = c
  /\ reach' = [t \in Threads |-> IF own[t] # None THEN reach[t] \cup {c} ELSE {}]

Register(c) ==
  /\ owner = c
  /\ AppAt(c, "open", "subscribed")
  /\ Subscribing(c)
  /\ UNCHANGED <<owner, inactive, terminated, port, header>>
  /\ UNCHANGED <<message, target, pc, own, mixed, delivered>>

SetPort(c) ==
  /\ AppAt(c, "subscribed", "ported")
  /\ port' = port \cup {c}
  /\ UNCHANGED <<owner, client, inactive, terminated, header, sending>>

SetHeader(c) ==
  /\ AppAt(c, "ported", "running")
  /\ header' = header \cup {c}
  /\ UNCHANGED <<owner, client, inactive, terminated, port, sending>>

(* YogaHIDD's and unknown services' applications go on unsubscribed. *)
Unsubscribed(c) ==
  /\ AppAt(c, "open", "running")
  /\ UNCHANGED <<connection, sending>>

---------------------------------------------------------------------------
(* clientClose, which IOServiceClose and the application's death both end  *)
(* in: userClientClose, then terminate.                                    *)

CloseOrDie(c) ==
  /\ AppAt(c, "running", "closing")
  /\ UNCHANGED <<connection, sending>>

ClosesSubscriber(c) == ~IsInactive(c) /\ client = c  \* mutant: the registration is taken for the connection

(* userClientClose has something to do. *)
Closes(c) == ~IsInactive(c) /\ owner = c

KeepClient(c) == UNCHANGED client  \* mutant: the registration outlives the connection
ClearClient(c) == IF client = c THEN client' = None ELSE UNCHANGED client

userClientClose(c) ==
  /\ AppAt(c, "closing", IF Closes(c) THEN "cleared" ELSE "terminating")
  /\ IF Closes(c) THEN ClearClient(c) ELSE UNCHANGED client
  /\ UNCHANGED <<owner, inactive, terminated, port, header, sending>>

CloseProvider(c) ==
  /\ AppAt(c, "cleared", "terminating")
  /\ owner' = None
  /\ UNCHANGED <<client, inactive, terminated, port, header, sending>>

Terminate(c) ==
  /\ AppAt(c, "terminating", "gone")
  /\ inactive' = inactive \cup {c}
  /\ UNCHANGED <<owner, client, terminated, port, header, sending>>

(* The service is terminated under its clients, and they with it; from     *)
(* here on userClientClose is refused.                                     *)
ProviderTerminates ==
  /\ Running /\ ~terminated
  /\ terminated' = TRUE
  /\ UNCHANGED <<owner, client, inactive, port, header, app, sending>>

---------------------------------------------------------------------------
(* `if (client) client->sendNotification(event, data)` in a thread of the  *)
(* service.                                                                *)

Goto(t, place) == pc' = [pc EXCEPT ![t] = place]
At(t, place, next) == Running /\ pc[t] = place /\ Goto(t, next)

Finish(t) ==
  /\ own' = [own EXCEPT ![t] = None]
  /\ mixed' = [mixed EXCEPT ![t] = {}]
  /\ reach' = [reach EXCEPT ![t] = {}]

TestClient(t, e) ==
  /\ client # None
  /\ At(t, "idle", "call")
  /\ target' = [target EXCEPT ![t] = client]
  /\ own' = [own EXCEPT ![t] = e]
  /\ mixed' = [u \in Threads |-> IF u = t THEN {e} \cup ({own[v] : v \in Threads} \ {None})
                                ELSE IF own[u] # None THEN mixed[u] \cup {e} ELSE {}]
  /\ reach' = [reach EXCEPT ![t] = {client}]
  /\ UNCHANGED <<connection, app, message, delivered>>

Silent(t) ==
  /\ client = None
  /\ At(t, "idle", "idle")
  /\ UNCHANGED <<connection, app, message, target, history>>

(* A build may keep the pointer it tested, or load client again, which may *)
(* have become null meanwhile.                                             *)
LoadClient(t) ==
  /\ \E c \in {target[t], client} :
       IF c = None
       THEN At(t, "call", "fault") /\ Finish(t) /\ UNCHANGED target
       ELSE /\ At(t, "call", "port")
            /\ target' = [target EXCEPT ![t] = c]
            /\ UNCHANGED <<own, mixed, reach>>
  /\ UNCHANGED <<connection, app, message, delivered>>

PortNull(t) ==
  /\ target[t] \notin port
  /\ At(t, "port", "idle")
  /\ Finish(t)
  /\ UNCHANGED <<connection, app, message, target, delivered>>

FillEvent(t) ==
  /\ target[t] \in port
  /\ At(t, "port", "data")
  /\ message' = [message EXCEPT ![target[t]].event = own[t]]
  /\ UNCHANGED <<connection, app, target, history>>

FillDataNot(t) == At(t, "data", "send") /\ UNCHANGED <<connection, app, message, target, history>>  \* mutant: data is left as it was

FillData(t) ==
  /\ At(t, "data", "send")
  /\ message' = [message EXCEPT ![target[t]].data = own[t]]
  /\ UNCHANGED <<connection, app, target, history>>

(* The kernel copies the message into the port's queue, or refuses: the    *)
(* queue is full, the port is dead, the header is not there yet.           *)
Send(t) ==
  /\ At(t, "send", "idle")
  /\ Finish(t)
  /\ \/ UNCHANGED delivered
     \/ /\ target[t] \in header
        /\ delivered' = [to |-> target[t], event |-> message[target[t]].event,
                         data |-> message[target[t]].data]
  /\ UNCHANGED <<connection, app, message, target>>

(* A null client was called: the machine stops. *)
Panic == ~Running /\ UNCHANGED clientVars

---------------------------------------------------------------------------
ClientInit ==
  /\ owner = None /\ client = None
  /\ inactive = {} /\ terminated = FALSE
  /\ port = {} /\ header = {}
  /\ message = [c \in Clients |-> [event |-> None, data |-> None]]
  /\ app = [c \in Clients |-> "started"]
  /\ target = [t \in Threads |-> None]
  /\ pc = [t \in Threads |-> "idle"]
  /\ own = [t \in Threads |-> None]
  /\ mixed = [t \in Threads |-> {}]
  /\ reach = [t \in Threads |-> {}]
  /\ delivered = [to |-> None, event |-> None, data |-> None]

Posts == \E t \in Threads :
  \/ \E e \in Events : TestClient(t, e)
  \/ Silent(t) \/ LoadClient(t) \/ PortNull(t) \/ FillEvent(t) \/ FillData(t) \/ Send(t)

Connects == \E c \in Clients :
  \/ userClientOpen(c) \/ Register(c) \/ SetPort(c) \/ SetHeader(c) \/ Unsubscribed(c)
  \/ userClientClose(c) \/ CloseProvider(c) \/ Terminate(c)

ClientNext == Connects \/ (\E c \in Clients : CloseOrDie(c)) \/ Posts \/ ProviderTerminates \/ Panic

ClientSpec == ClientInit /\ [][ClientNext]_clientVars

---------------------------------------------------------------------------
(* Every variable has its type. *)
ClientTypeOK ==
  /\ owner \in Clients \cup {None} /\ client \in Clients \cup {None}
  /\ inactive \subseteq Clients /\ terminated \in BOOLEAN
  /\ port \subseteq Clients /\ header \subseteq Clients
  /\ message \in [Clients -> [event : Events \cup {None}, data : Events \cup {None}]]
  /\ app \in [Clients -> {"started", "open", "subscribed", "ported", "running",
                          "closing", "cleared", "terminating", "gone"}]
  /\ target \in [Threads -> Clients \cup {None}]
  /\ pc \in [Threads -> {"idle", "call", "port", "data", "send", "fault"}]
  /\ own \in [Threads -> Events \cup {None}]
  /\ mixed \in [Threads -> SUBSET Events] /\ reach \in [Threads -> SUBSET Clients]

(* Only the application that has the service open is subscribed: nobody is *)
(* after it has closed, unless the service was terminated under it         *)
(* (YogaSMCUserClient.cpp:79-96, 182-193).                                 *)
SubscriberIsOwner == client # None => client = owner

(* A service that goes on can be opened again once the application that    *)
(* had it is gone, however that went (YogaSMCUserClient.cpp:236-248).      *)
GoneHasReleased == \A c \in Clients : app[c] = "gone" /\ ~terminated => c \notin {owner, client}

(* What the threads send is what Notifications promises.                   *)
SendsAreNotifications == N!Spec

=============================================================================
