----------------------- MODULE ClientAndSensorProofs ------------------------
(***************************************************************************)
(* The two services an application or VirtualSMC asks: the user client and *)
(* the fan helpers over it, and the sensor service.                        *)
(***************************************************************************)
EXTENDS ThinkFanHelper, SensorService, SequenceTheorems, TLAPS

-----------------------------------------------------------------------------
(***************************************************************************)
(* ThinkFanHelper.  For any number of applications, threads and events:    *)
(* only the application that has the service open is subscribed, one that  *)
(* is gone has let the service go, what the threads send is what           *)
(* Notifications promises, and a fan helper works on its own fan.          *)
(***************************************************************************)

(* Opening and subscription.  What the two claims lack to be inductive:    *)
(* who has the service open has not got past its own closing, unless the   *)
(* service was terminated under it, and one in the middle of closing still *)
(* has it open.                                                            *)

OwnerIsOpen ==
  \A c \in Clients : owner = c =>
    \/ app[c] \in {"open", "subscribed", "ported", "running", "closing", "cleared"}
    \/ terminated
ClearedIsOwner == \A c \in Clients : app[c] = "cleared" => owner = c /\ client # c
InactiveIsGone == \A c \in inactive : app[c] = "gone"

ConnectionInv ==
  ClientTypeOK /\ SubscriberIsOwner /\ OwnerIsOpen /\ ClearedIsOwner /\ InactiveIsGone

Places == {"started", "open", "subscribed", "ported", "running", "closing", "cleared",
           "terminating", "gone"}

(* A step of an application that leaves it where its own calls go on, and  *)
(* nobody's connection or message changed.                                 *)
LEMMA AppMovesOn ==
  ASSUME ConnectionInv, NEW c \in Clients,
         NEW place, NEW next \in Places,
         AppAt(c, place, next),
         owner = c => next \in {"open", "subscribed", "ported", "running", "closing", "cleared"}
                      \/ terminated,
         next # "cleared", place # "gone",
         UNCHANGED <<owner, client, inactive, terminated, message, target, pc, own, mixed, reach>>,
         port' \subseteq Clients /\ header' \subseteq Clients
  PROVE  ConnectionInv'
<1>. USE DEF ConnectionInv, AppAt, AppGoto
<1>1. app' \in [Clients -> Places] /\ app[c] = place /\ app'[c] = next
  BY DEF ClientTypeOK, Places
<1>2. \A d \in Clients : d # c => app'[d] = app[d]
  BY DEF ClientTypeOK
<1>3. ClientTypeOK'
  BY <1>1 DEF ClientTypeOK, Places
<1>4. OwnerIsOpen'
  BY <1>1, <1>2 DEF OwnerIsOpen
<1>5. ClearedIsOwner'
  BY <1>1, <1>2 DEF ClearedIsOwner
<1>6. InactiveIsGone'
  BY <1>1, <1>2 DEF InactiveIsGone, ClientTypeOK
<1>. QED  BY <1>3, <1>4, <1>5, <1>6 DEF SubscriberIsOwner

LEMMA ConnectsKeep ==
  ASSUME ConnectionInv, Connects
  PROVE  ConnectionInv'
<1>. SUFFICES ASSUME NEW c \in Clients,
                     \/ userClientOpen(c) \/ Register(c) \/ SetPort(c) \/ SetHeader(c)
                     \/ Unsubscribed(c) \/ userClientClose(c) \/ CloseProvider(c) \/ Terminate(c)
              PROVE  ConnectionInv'
  BY DEF Connects
<1>0. None \notin Clients
  BY NoneIsNone
<1>. USE DEF sending, history, connection
<1>1. CASE userClientOpen(c)
  <2>1. CASE MayOpen(c)
    <3>1. /\ owner = None /\ owner' = c /\ app[c] = "started" /\ app' = [app EXCEPT ![c] = "open"]
          /\ UNCHANGED <<client, inactive, terminated, port, header, message, target, pc, own, mixed, reach>>
      BY <1>1, <2>1 DEF userClientOpen, MayOpen, AppAt, AppGoto
    <3>. QED  BY <1>0, <3>1 DEF ConnectionInv, ClientTypeOK, SubscriberIsOwner, OwnerIsOpen, ClearedIsOwner, InactiveIsGone
  <2>2. CASE ~MayOpen(c)
    BY <1>1, <2>2, AppMovesOn DEF userClientOpen, ConnectionInv, ClientTypeOK, Places
  <2>. QED  BY <2>1, <2>2
<1>2. CASE Register(c)
  <2>1. /\ client = None /\ client' = c /\ owner = c /\ app[c] = "open"
        /\ app' = [app EXCEPT ![c] = "subscribed"]
        /\ UNCHANGED <<owner, inactive, terminated, port, header, message, target, pc, own, mixed>>
    BY <1>2 DEF Register, Subscribing, AppAt, AppGoto
  <2>2. reach' \in [Threads -> SUBSET Clients]
    BY <1>2 DEF Register, Subscribing, ConnectionInv, ClientTypeOK
  <2>. QED  BY <1>0, <2>1, <2>2 DEF ConnectionInv, ClientTypeOK, SubscriberIsOwner, OwnerIsOpen, ClearedIsOwner, InactiveIsGone
<1>3. CASE SetPort(c)
  BY <1>3, AppMovesOn DEF SetPort, ConnectionInv, ClientTypeOK, Places
<1>4. CASE SetHeader(c)
  BY <1>4, AppMovesOn DEF SetHeader, ConnectionInv, ClientTypeOK, Places
<1>5. CASE Unsubscribed(c)
  BY <1>5, AppMovesOn DEF Unsubscribed, ConnectionInv, ClientTypeOK, Places
<1>6. CASE userClientClose(c)
  <2>. UNCHANGED <<owner, inactive, terminated, port, header, message, target, pc, own, mixed, reach>>
    BY <1>6 DEF userClientClose
  <2>1. CASE Closes(c)
    <3>1. /\ owner = c /\ app[c] = "closing" /\ app' = [app EXCEPT ![c] = "cleared"]
          /\ client' = None
      BY <1>6, <2>1 DEF userClientClose, Closes, ClearClient, AppAt, AppGoto, ConnectionInv, SubscriberIsOwner
    <3>. QED  BY <1>0, <3>1 DEF ConnectionInv, ClientTypeOK, SubscriberIsOwner, OwnerIsOpen, ClearedIsOwner, InactiveIsGone
  <2>2. CASE ~Closes(c)
    <3>1. owner = c => terminated
      BY <1>6, <2>2 DEF Closes, IsInactive, userClientClose, AppAt, ConnectionInv, InactiveIsGone
    <3>. QED  BY <1>6, <2>2, <3>1, AppMovesOn DEF userClientClose, ConnectionInv, ClientTypeOK, Places
  <2>. QED  BY <2>1, <2>2
<1>7. CASE CloseProvider(c)
  <2>1. /\ app[c] = "cleared" /\ app' = [app EXCEPT ![c] = "terminating"]
        /\ owner' = None /\ client = None
        /\ UNCHANGED <<client, inactive, terminated, port, header, message, target, pc, own, mixed, reach>>
    BY <1>7 DEF CloseProvider, AppAt, AppGoto, ConnectionInv, ClearedIsOwner, SubscriberIsOwner
  <2>. QED  BY <1>0, <2>1 DEF ConnectionInv, ClientTypeOK, SubscriberIsOwner, OwnerIsOpen, ClearedIsOwner, InactiveIsGone
<1>8. CASE Terminate(c)
  <2>1. /\ app[c] = "terminating" /\ app' = [app EXCEPT ![c] = "gone"]
        /\ inactive' = inactive \cup {c}
        /\ UNCHANGED <<owner, client, terminated, port, header, message, target, pc, own, mixed, reach>>
    BY <1>8 DEF Terminate, AppAt, AppGoto
  <2>. QED  BY <1>0, <2>1 DEF ConnectionInv, ClientTypeOK, SubscriberIsOwner, OwnerIsOpen, ClearedIsOwner, InactiveIsGone
<1>. QED  BY <1>1, <1>2, <1>3, <1>4, <1>5, <1>6, <1>7, <1>8

(* The threads' steps keep the types of what they send and leave the       *)
(* connections alone.                                                      *)
LEMMA PostsKeep ==
  ASSUME ConnectionInv, Posts
  PROVE  ConnectionInv'
<1>. SUFFICES ASSUME NEW t \in Threads,
                     \/ \E e \in Events : TestClient(t, e)
                     \/ Silent(t) \/ LoadClient(t) \/ PortNull(t) \/ FillEvent(t) \/ FillData(t) \/ Send(t)
              PROVE  ConnectionInv'
  BY DEF Posts
<1>. USE DEF ClientTypeOK, At, Goto
<1>1. UNCHANGED <<connection, app>>
  BY DEF TestClient, Silent, LoadClient, PortNull, FillEvent, FillData, Send
<1>2. ClientTypeOK
  BY DEF ConnectionInv
<1>3. Finish(t) => /\ own' \in [Threads -> Events \cup {None}]
                   /\ mixed' \in [Threads -> SUBSET Events]
                   /\ reach' \in [Threads -> SUBSET Clients]
  BY <1>2 DEF Finish
<1>4. ClientTypeOK'
  <2>1. ASSUME NEW e \in Events, TestClient(t, e) PROVE ClientTypeOK'
    <3>1. mixed' \in [Threads -> SUBSET Events]
      BY <1>2, <2>1 DEF TestClient
    <3>. QED  BY <1>1, <1>2, <2>1, <3>1 DEF TestClient, connection
  <2>2. CASE Silent(t)
    BY <1>1, <1>2, <2>2 DEF Silent, connection, history
  <2>3. CASE LoadClient(t)
    BY <1>1, <1>2, <1>3, <2>3 DEF LoadClient, connection
  <2>4. CASE PortNull(t)
    BY <1>1, <1>2, <1>3, <2>4 DEF PortNull, connection
  <2>5. CASE FillEvent(t)
    <3>1. message' \in [Clients -> [event : Events \cup {None}, data : Events \cup {None}]]
      BY <1>2, <2>5 DEF FillEvent
    <3>. QED  BY <1>1, <1>2, <2>5, <3>1 DEF FillEvent, connection, history
  <2>6. CASE FillData(t)
    <3>1. message' \in [Clients -> [event : Events \cup {None}, data : Events \cup {None}]]
      BY <1>2, <2>6 DEF FillData
    <3>. QED  BY <1>1, <1>2, <2>6, <3>1 DEF FillData, connection, history
  <2>7. CASE Send(t)
    BY <1>1, <1>2, <1>3, <2>7 DEF Send, connection
  <2>. QED  BY <2>1, <2>2, <2>3, <2>4, <2>5, <2>6, <2>7
<1>. QED  BY <1>1, <1>4 DEF ConnectionInv, SubscriberIsOwner, OwnerIsOpen, ClearedIsOwner, InactiveIsGone, connection

LEMMA ConnectionKept ==
  ASSUME ConnectionInv, [ClientNext]_clientVars
  PROVE  ConnectionInv'
<1>. USE DEF connection, sending, history
<1>1. CASE \E c \in Clients : CloseOrDie(c)
  BY <1>1, AppMovesOn DEF CloseOrDie, ConnectionInv, ClientTypeOK, Places
<1>2. CASE ProviderTerminates
  BY <1>2 DEF ProviderTerminates, ConnectionInv, ClientTypeOK, SubscriberIsOwner, OwnerIsOpen, ClearedIsOwner, InactiveIsGone
<1>3. CASE UNCHANGED clientVars
  BY <1>3 DEF clientVars, ConnectionInv, ClientTypeOK, SubscriberIsOwner, OwnerIsOpen, ClearedIsOwner, InactiveIsGone
<1>4. CASE Panic
  BY <1>3, <1>4 DEF Panic
<1>. QED  BY <1>1, <1>2, <1>3, <1>4, ConnectsKeep, PostsKeep DEF ClientNext

LEMMA ConnectionInvariant == ClientSpec => []ConnectionInv
<1>1. ClientInit => ConnectionInv
  <2>1. ClientInit => ClientTypeOK
    <3>1. ClientInit => message \in [Clients -> [event : Events \cup {None}, data : Events \cup {None}]]
      BY DEF ClientInit
    <3>2. ClientInit => /\ app \in [Clients -> Places]
                        /\ pc \in [Threads -> {"idle", "call", "port", "data", "send", "fault"}]
      BY DEF ClientInit, Places
    <3>. QED  BY <3>1, <3>2 DEF ClientInit, ClientTypeOK, Places
  <2>2. ClientInit => \A c \in Clients : app[c] = "started" /\ owner # c
    BY NoneIsNone DEF ClientInit
  <2>. QED  BY <2>1, <2>2 DEF ClientInit, ConnectionInv, SubscriberIsOwner, OwnerIsOpen, ClearedIsOwner, InactiveIsGone
<1>. QED  BY <1>1, ConnectionKept, PTL DEF ClientSpec

(* Only the application that has the service open is subscribed, however   *)
(* applications come, close, die and race each other, and also when the    *)
(* service is terminated under them.                                       *)
THEOREM OnlyOwnersSubscribe == ClientSpec => []SubscriberIsOwner
BY ConnectionInvariant, PTL DEF ConnectionInv

(* An application that is gone has let the service go: another one may     *)
(* open it.                                                                *)
THEOREM TheGoneHaveReleased == ClientSpec => []GoneHasReleased
<1>1. ConnectionInv => GoneHasReleased
  BY NoneIsNone DEF ConnectionInv, SubscriberIsOwner, OwnerIsOpen, GoneHasReleased
<1>. QED  BY <1>1, ConnectionInvariant, PTL

-----------------------------------------------------------------------------
(* The messages.  A thread that posts has an event of its own, and to one  *)
(* who subscribed since its post began; the events of all posts under way  *)
(* are among those its message may be mixed of, and so is what it has put  *)
(* into the message, whoever has written over it since.                    *)

Busy == {"call", "port", "data", "send"}

OwnWhileBusy == \A t \in Threads : own[t] # None <=> pc[t] \in Busy
TargetWasReached == \A t \in Threads : pc[t] \in Busy => target[t] \in reach[t]
ClientIsReached == \A t \in Threads : pc[t] \in Busy /\ client # None => client \in reach[t]
OverlapsAreMixed ==
  \A t, u \in Threads : pc[t] \in Busy /\ pc[u] \in Busy => own[u] \in mixed[t]
FilledFromMixed ==
  \A t \in Threads :
    /\ pc[t] \in {"data", "send"} => message[target[t]].event \in mixed[t]
    /\ pc[t] = "send" => message[target[t]].data \in mixed[t]

MessageInv ==
  OwnWhileBusy /\ TargetWasReached /\ ClientIsReached /\ OverlapsAreMixed /\ FilledFromMixed

(* What applications do subscribes or unsubscribes at most. *)
LEMMA ConnectionStep ==
  ASSUME ConnectionInv, MessageInv,
         \/ Connects \/ ProviderTerminates \/ Panic
         \/ \E c \in Clients : CloseOrDie(c)
  PROVE  MessageInv' /\ [N!Next]_N!notifications
<1>. USE DEF connection, sending, history
<1>1. CASE \E c \in Clients : Register(c)
  <2>1. PICK c \in Clients : Register(c)
    BY <1>1
  <2>2. N!Subscribe(c)
    BY <2>1 DEF Register, Subscribing, N!Subscribe, N!Posting
  <2>3. /\ client' = c /\ UNCHANGED <<message, target, pc, own, mixed>>
        /\ \A t \in Threads : reach'[t] = IF own[t] # None THEN reach[t] \cup {c} ELSE {}
    BY <2>1 DEF Register, Subscribing
  <2>4. MessageInv'
    BY <2>3 DEF MessageInv, OwnWhileBusy, TargetWasReached, ClientIsReached, OverlapsAreMixed, FilledFromMixed
  <2>. QED  BY <2>2, <2>4 DEF N!Next
<1>2. CASE UNCHANGED <<message, target, pc, own, mixed, reach, delivered>> /\ (client' = client \/ client' = None)
  <2>1. MessageInv'
    BY <1>2 DEF MessageInv, OwnWhileBusy, TargetWasReached, ClientIsReached, OverlapsAreMixed, FilledFromMixed
  <2>2. N!Unsubscribe \/ UNCHANGED N!notifications
    BY <1>2 DEF N!Unsubscribe, N!notifications
  <2>. QED  BY <2>1, <2>2 DEF N!Next
<1>3. Connects => \/ \E c \in Clients : Register(c)
                  \/ /\ UNCHANGED <<message, target, pc, own, mixed, reach, delivered>>
                     /\ client' = client \/ client' = None
  BY DEF Connects, userClientOpen, SetPort, SetHeader, Unsubscribed, userClientClose, ClearClient, CloseProvider, Terminate
<1>4. ProviderTerminates \/ Panic \/ (\E c \in Clients : CloseOrDie(c)) =>
        UNCHANGED <<message, target, pc, own, mixed, reach, delivered, client>>
  BY DEF ProviderTerminates, Panic, CloseOrDie, clientVars
<1>. QED  BY <1>1, <1>2, <1>3, <1>4

(* A thread that ends its post, with or without a message, changes nothing *)
(* for the others.                                                         *)
LEMMA EndOfPostKeeps ==
  ASSUME ConnectionInv, MessageInv, NEW t \in Threads,
         pc[t] \in Busy, Finish(t), NEW place \in {"idle", "fault"}, Goto(t, place),
         UNCHANGED <<client, message, target>>
  PROVE  /\ MessageInv'
         /\ delivered' = delivered => N!Lose(t)
         /\ delivered' \in [to : reach[t], event : mixed[t], data : mixed[t]] => N!Deliver(t)
<1>1. N!EndOfPost(t)
  BY DEF Finish, N!EndOfPost, N!Posting, MessageInv, OwnWhileBusy
<1>2. \A u \in Threads : u # t => /\ pc'[u] = pc[u] /\ own'[u] = own[u]
                                 /\ mixed'[u] = mixed[u] /\ reach'[u] = reach[u]
  BY DEF Finish, Goto, ConnectionInv, ClientTypeOK
<1>3. own'[t] = None /\ pc'[t] \notin Busy
  BY DEF Finish, Goto, ConnectionInv, ClientTypeOK, Busy
<1>4. MessageInv'
  BY <1>2, <1>3 DEF MessageInv, OwnWhileBusy, TargetWasReached, ClientIsReached, OverlapsAreMixed, FilledFromMixed, Busy
<1>. QED  BY <1>1, <1>4 DEF N!Lose, N!Deliver

LEMMA FillKeeps ==
  ASSUME ConnectionInv, MessageInv, NEW t \in Threads, FillEvent(t) \/ FillData(t)
  PROVE  MessageInv' /\ UNCHANGED N!notifications
<1>. USE DEF connection, history
<1>1. /\ pc[t] \in Busy /\ pc'[t] \in Busy
      /\ \A u \in Threads : u # t => pc'[u] = pc[u]
      /\ UNCHANGED <<client, target, own, mixed, reach, delivered>>
  BY DEF FillEvent, FillData, At, Goto, ConnectionInv, ClientTypeOK, Busy
<1>2. target[t] \in Clients
  BY <1>1 DEF MessageInv, TargetWasReached, ConnectionInv, ClientTypeOK
<1>3. \A u \in Threads : pc[u] \in Busy => target[u] \in Clients /\ own[t] \in mixed[u]
  BY <1>1 DEF MessageInv, OverlapsAreMixed, TargetWasReached, ConnectionInv, ClientTypeOK
<1>4. FilledFromMixed'
  <2>1. CASE FillEvent(t)
    <3>1. pc[t] = "port" /\ pc'[t] = "data"
      BY <2>1 DEF FillEvent, At, Goto, ConnectionInv, ClientTypeOK
    <3>2. \A c \in Clients : /\ message'[c].data = message[c].data
                            /\ message'[c].event = IF c = target[t] THEN own[t] ELSE message[c].event
      BY <2>1, <1>2 DEF FillEvent, ConnectionInv, ClientTypeOK
    <3>. QED  BY <1>1, <1>3, <3>1, <3>2 DEF FilledFromMixed, MessageInv, Busy
  <2>2. CASE FillData(t)
    <3>1. pc[t] = "data" /\ pc'[t] = "send"
      BY <2>2 DEF FillData, At, Goto, ConnectionInv, ClientTypeOK
    <3>2. \A c \in Clients : /\ message'[c].event = message[c].event
                            /\ message'[c].data = IF c = target[t] THEN own[t] ELSE message[c].data
      BY <2>2, <1>2 DEF FillData, ConnectionInv, ClientTypeOK
    <3>. QED  BY <1>1, <1>3, <3>1, <3>2 DEF FilledFromMixed, MessageInv, Busy
  <2>. QED  BY <2>1, <2>2
<1>. QED
  BY <1>1, <1>4 DEF MessageInv, OwnWhileBusy, TargetWasReached, ClientIsReached, OverlapsAreMixed, N!notifications

LEMMA PostStep ==
  ASSUME ConnectionInv, MessageInv, Posts
  PROVE  MessageInv' /\ [N!Next]_N!notifications
<1>. USE DEF connection, history
<1>. SUFFICES ASSUME NEW t \in Threads,
                     \/ \E e \in Events : TestClient(t, e)
                     \/ Silent(t) \/ LoadClient(t) \/ PortNull(t) \/ FillEvent(t) \/ FillData(t) \/ Send(t)
              PROVE  MessageInv' /\ [N!Next]_N!notifications
  BY DEF Posts
<1>1. ASSUME NEW e \in Events, TestClient(t, e)
      PROVE  MessageInv' /\ N!Post(t, e)
  <2>1. pc[t] = "idle" /\ own[t] = None
    BY <1>1 DEF TestClient, At, MessageInv, OwnWhileBusy, Busy
  <2>2. {own[v] : v \in Threads} \ {None} = {own[v] : v \in {w \in Threads : own[w] # None}}
    OBVIOUS
  <2>3. N!Post(t, e)
    BY <1>1, <2>1, <2>2 DEF TestClient, N!Post, N!Posting
  <2>4. /\ client # None /\ UNCHANGED <<client, message>>
        /\ pc'[t] = "call" /\ own'[t] = e /\ target'[t] = client /\ reach'[t] = {client}
    BY <1>1 DEF TestClient, At, Goto, ConnectionInv, ClientTypeOK
  <2>5. \A u \in Threads : u # t => /\ pc'[u] = pc[u] /\ own'[u] = own[u]
                                   /\ target'[u] = target[u] /\ reach'[u] = reach[u]
    BY <1>1 DEF TestClient, At, Goto, ConnectionInv, ClientTypeOK
  <2>6. e # None
    BY NoneIsNone
  <2>7. OwnWhileBusy' /\ TargetWasReached' /\ ClientIsReached'
    <3>1. OwnWhileBusy'
      BY <2>4, <2>5, <2>6 DEF MessageInv, OwnWhileBusy, Busy
    <3>2. TargetWasReached'
      BY <2>4, <2>5 DEF MessageInv, TargetWasReached, Busy
    <3>3. ClientIsReached'
      BY <2>4, <2>5 DEF MessageInv, ClientIsReached, Busy
    <3>. QED  BY <3>1, <3>2, <3>3
  <2>8. \A u \in Threads : u # t /\ pc[u] \in Busy => mixed'[u] = mixed[u] \cup {e}
    BY <1>1 DEF TestClient, MessageInv, OwnWhileBusy
  <2>9. e \in mixed'[t] /\ \A v \in Threads : pc[v] \in Busy => own[v] \in mixed'[t]
    BY <1>1 DEF TestClient, MessageInv, OwnWhileBusy
  <2>10. OverlapsAreMixed'
    <3>. SUFFICES ASSUME NEW u \in Threads, NEW v \in Threads, pc'[u] \in Busy, pc'[v] \in Busy
                  PROVE  own'[v] \in mixed'[u]
      BY DEF OverlapsAreMixed
    <3>1. CASE u = t
      BY <3>1, <2>4, <2>5, <2>9
    <3>2. CASE u # t /\ v = t
      BY <3>2, <2>4, <2>5, <2>8
    <3>3. CASE u # t /\ v # t
      BY <3>3, <2>5, <2>8 DEF MessageInv, OverlapsAreMixed
    <3>. QED  BY <3>1, <3>2, <3>3
  <2>11. FilledFromMixed'
    <3>. SUFFICES ASSUME NEW u \in Threads, pc'[u] \in {"data", "send"}
                  PROVE  /\ message'[target'[u]].event \in mixed'[u]
                         /\ pc'[u] = "send" => message'[target'[u]].data \in mixed'[u]
      BY DEF FilledFromMixed
    <3>1. u # t /\ pc[u] \in {"data", "send"} /\ pc[u] \in Busy
      BY <2>4, <2>5 DEF Busy
    <3>. QED  BY <3>1, <2>4, <2>5, <2>8 DEF MessageInv, FilledFromMixed
  <2>. QED  BY <2>3, <2>7, <2>10, <2>11 DEF MessageInv
<1>2. CASE Silent(t)
  <2>1. UNCHANGED <<client, message, target, pc, own, mixed, reach, delivered>>
    BY <1>2 DEF Silent, At, Goto, ConnectionInv, ClientTypeOK
  <2>. QED
    BY <2>1 DEF MessageInv, OwnWhileBusy, TargetWasReached, ClientIsReached, OverlapsAreMixed, FilledFromMixed, N!notifications
<1>3. CASE LoadClient(t)
  <2>. PICK c \in {target[t], client} :
         IF c = None
         THEN At(t, "call", "fault") /\ Finish(t) /\ UNCHANGED target
         ELSE /\ At(t, "call", "port")
              /\ target' = [target EXCEPT ![t] = c]
              /\ UNCHANGED <<own, mixed, reach>>
    BY <1>3 DEF LoadClient
  <2>0. pc[t] = "call" /\ pc[t] \in Busy /\ UNCHANGED <<client, message, delivered>>
    BY <1>3 DEF LoadClient, At, Busy
  <2>1. CASE c = None
    BY <2>0, <2>1, EndOfPostKeeps DEF At, N!Next
  <2>2. CASE c # None
    <3>1. c \in reach[t]
      BY <2>0, <2>2 DEF MessageInv, TargetWasReached, ClientIsReached
    <3>2. pc'[t] = "port" /\ target'[t] = c /\ UNCHANGED <<own, mixed, reach>>
      BY <2>2 DEF At, Goto, ConnectionInv, ClientTypeOK
    <3>3. \A u \in Threads : u # t => pc'[u] = pc[u] /\ target'[u] = target[u]
      BY <2>2 DEF At, Goto, ConnectionInv, ClientTypeOK
    <3>. QED
      BY <2>0, <3>1, <3>2, <3>3
      DEF MessageInv, OwnWhileBusy, TargetWasReached, ClientIsReached, OverlapsAreMixed, FilledFromMixed, Busy, N!notifications
  <2>. QED  BY <2>1, <2>2
<1>4. CASE PortNull(t)
  BY <1>4, EndOfPostKeeps DEF PortNull, At, Busy, N!Next
<1>5. CASE FillEvent(t) \/ FillData(t)
  BY <1>5, FillKeeps
<1>6. CASE Send(t)
  <2>1. /\ pc[t] = "send" /\ pc[t] \in Busy /\ Finish(t) /\ Goto(t, "idle")
        /\ UNCHANGED <<client, message, target>>
    BY <1>6 DEF Send, At, Busy
  <2>2. delivered' = delivered \/ delivered' \in [to : reach[t], event : mixed[t], data : mixed[t]]
    BY <1>6, <2>1 DEF Send, MessageInv, TargetWasReached, FilledFromMixed
  <2>. QED  BY <2>1, <2>2, EndOfPostKeeps DEF N!Next
<1>. QED  BY <1>1, <1>2, <1>3, <1>4, <1>5, <1>6 DEF N!Next

LEMMA ClientStep ==
  ASSUME ConnectionInv, MessageInv, [ClientNext]_clientVars
  PROVE  MessageInv' /\ [N!Next]_N!notifications
<1>1. CASE UNCHANGED clientVars
  BY <1>1 DEF clientVars, connection, sending, history, MessageInv, OwnWhileBusy, TargetWasReached,
              ClientIsReached, OverlapsAreMixed, FilledFromMixed, N!notifications
<1>. QED  BY <1>1, ConnectionStep, PostStep DEF ClientNext

(* However applications and posts interleave, and even where a post goes   *)
(* on to one that has just closed, what is sent is what Notifications      *)
(* promises: events and data of posts that overlap, to somebody who        *)
(* subscribed meanwhile.                                                   *)
THEOREM PostsAreNotifications == ClientSpec => SendsAreNotifications
<1>1. ClientInit => MessageInv /\ N!Init
  BY DEF ClientInit, MessageInv, OwnWhileBusy, TargetWasReached, ClientIsReached, OverlapsAreMixed,
         FilledFromMixed, Busy, N!Init, N!NoMessage
<1>2. ConnectionInv /\ MessageInv /\ [ClientNext]_clientVars => MessageInv' /\ [N!Next]_N!notifications
  BY ClientStep
<1>. QED  BY <1>1, <1>2, ConnectionInvariant, PTL DEF ClientSpec, SendsAreNotifications, N!Spec

-----------------------------------------------------------------------------
(* The fan helpers.  An application that runs has the service open, so it  *)
(* is alone; one that does not run has nothing queued.                     *)

LEMMA HelpersAreClients == FanSpec => ClientSpec
<1>1. FanInit => ClientInit
  BY DEF FanInit
<1>2. [FanNext]_helperVars => [ClientNext]_clientVars
  BY DEF FanNext, Ask, Disabled, ReadSelection, WriteSelection, Access, Fails, Leave, Others, ClientNext, helperVars
<1>. QED  BY <1>1, <1>2, PTL DEF FanSpec, ClientSpec

Opened == {"open", "subscribed", "ported", "running"}
RunningIsOwner == \A c \in Clients : app[c] \in Opened => owner = c
QueuedIsRunning == \A c \in Clients : app[c] # "running" => todo[c] = <<>>
Selected ==
  \A c \in dual : todo[c] # <<>> /\ step[c] = "access" => fan = Current(c)

(* A helper that selects has another beside it, so an application with one *)
(* keeps the fan it found.                                                 *)
SelectsOfTwo ==
  \A c \in Clients : todo[c] # <<>> /\ step[c] = "select" => c \in dual
Kept == \A c \in Clients \ dual : app[c] \in Opened => fan = found[c]

FanTypes ==
  /\ dual \subseteq Clients
  /\ DOMAIN todo = Clients /\ DOMAIN step = Clients

FanInv == FanTypes /\ RunningIsOwner /\ QueuedIsRunning /\ Selected /\ SelectsOfTwo /\ Kept

LEMMA OthersKeepFans ==
  ASSUME ConnectionInv, FanInv, Others
  PROVE  FanInv'
<1>. USE DEF connection, sending, history, clientVars, Opened
<1>0. \A c \in Clients :
        /\ app[c] = "running" => app'[c] = "running"
        /\ app'[c] \in Opened => app[c] \in Opened \/ (app[c] = "started" /\ app'[c] = "open")
  <2>1. CASE Connects
    BY <2>1 DEF Connects, userClientOpen, Register, SetPort, SetHeader, Unsubscribed, userClientClose,
                CloseProvider, Terminate, AppAt, AppGoto, ConnectionInv, ClientTypeOK
  <2>2. CASE Posts \/ ProviderTerminates \/ Panic
    BY <2>2 DEF Posts, TestClient, Silent, LoadClient, PortNull, FillEvent, FillData, Send, ProviderTerminates, Panic
  <2>. QED  BY <2>1, <2>2 DEF Others
<1>1. RunningIsOwner'
  <2>1. CASE Connects
    <3>. PICK c \in Clients :
           \/ userClientOpen(c) \/ Register(c) \/ SetPort(c) \/ SetHeader(c)
           \/ Unsubscribed(c) \/ userClientClose(c) \/ CloseProvider(c) \/ Terminate(c)
      BY <2>1 DEF Connects
    <3>1. \A d \in Clients : d # c => app'[d] = app[d]
      BY DEF userClientOpen, Register, SetPort, SetHeader, Unsubscribed, userClientClose,
             CloseProvider, Terminate, AppAt, AppGoto, ConnectionInv, ClientTypeOK
    <3>2. CASE userClientOpen(c)
      BY <3>1, <3>2, NoneIsNone
      DEF userClientOpen, MayOpen, AppAt, AppGoto, ConnectionInv, ClientTypeOK, FanInv, RunningIsOwner
    <3>3. CASE CloseProvider(c)
      BY <3>1, <3>3 DEF CloseProvider, AppAt, AppGoto, ConnectionInv, ClientTypeOK, ClearedIsOwner, FanInv, RunningIsOwner
    <3>4. CASE Register(c) \/ SetPort(c) \/ SetHeader(c) \/ Unsubscribed(c) \/ userClientClose(c) \/ Terminate(c)
      BY <3>1, <3>4
      DEF Register, SetPort, SetHeader, Unsubscribed, userClientClose, Terminate,
          AppAt, AppGoto, ConnectionInv, ClientTypeOK, FanInv, RunningIsOwner
    <3>. QED  BY <3>2, <3>3, <3>4
  <2>2. CASE Posts \/ ProviderTerminates \/ Panic
    <3>1. UNCHANGED <<app, owner>>
      BY <2>2 DEF Posts, TestClient, Silent, LoadClient, PortNull, FillEvent, FillData, Send, ProviderTerminates, Panic
    <3>. QED  BY <3>1 DEF FanInv, RunningIsOwner
  <2>. QED  BY <2>1, <2>2 DEF Others
<1>2. Kept'
  <2>. SUFFICES ASSUME NEW c \in Clients, c \notin dual, app'[c] \in Opened
                PROVE  fan = found'[c]
    BY DEF Kept, Others
  <2>. QED  BY <1>0 DEF Others, Found, FanInv, Kept
<1>. QED  BY <1>0, <1>1, <1>2 DEF Others, FanInv, FanTypes, QueuedIsRunning, Selected, SelectsOfTwo, Current

(* Only one application runs, so a step of its helpers selects for no one  *)
(* else.                                                                   *)
LEMMA HelperStepKeeps ==
  ASSUME ConnectionInv, FanInv, NEW c \in Clients,
         Ask(c) \/ Disabled(c) \/ ReadSelection(c) \/ WriteSelection(c) \/ Access(c)
  PROVE  FanInv'
<1>. USE DEF Ready, AtStep, Advance, Done, Fails, Answers
<1>1. app[c] = "running" /\ UNCHANGED <<app, owner, dual, found>>
  BY DEF Ask, Disabled, ReadSelection, WriteSelection, Access, clientVars, connection
<1>2. \A d \in Clients : d # c => todo[d] = <<>> /\ todo'[d] = todo[d] /\ step'[d] = step[d]
  <2>1. \A d \in Clients : d # c => todo[d] = <<>>
    BY <1>1 DEF FanInv, RunningIsOwner, QueuedIsRunning, Opened
  <2>2. \A d \in Clients : d # c => todo'[d] = todo[d] /\ step'[d] = step[d]
    BY DEF Ask, Disabled, ReadSelection, WriteSelection, Access, FanInv, FanTypes
  <2>. QED  BY <2>1, <2>2
<1>3. DOMAIN todo' = Clients /\ DOMAIN step' = Clients
  BY DEF Ask, Disabled, ReadSelection, WriteSelection, Access, FanInv, FanTypes
<1>4. step'[c] = "access" /\ c \in dual => todo'[c] = todo[c] /\ fan' = Head(todo[c])
  BY DEF Ask, Disabled, ReadSelection, WriteSelection, Access, FanInv, FanTypes, Current
<1>5. RunningIsOwner' /\ QueuedIsRunning'
  BY <1>1, <1>2 DEF FanInv, RunningIsOwner, QueuedIsRunning
<1>6. Selected'
  BY <1>1, <1>2, <1>4 DEF Selected, Current, FanInv, FanTypes
<1>7. step'[c] = "select" => c \in dual
  BY DEF Ask, Disabled, ReadSelection, WriteSelection, Access, FanInv, FanTypes
<1>8. SelectsOfTwo'
  BY <1>1, <1>2, <1>7 DEF SelectsOfTwo
<1>9. Kept'
  <2>1. fan' # fan => c \in dual
    BY DEF Ask, Disabled, ReadSelection, WriteSelection, Access, FanInv, SelectsOfTwo
  <2>2. \A d \in Clients : d # c => app[d] \notin Opened
    BY <1>1 DEF FanInv, RunningIsOwner, Opened
  <2>. QED  BY <1>1, <2>1, <2>2 DEF FanInv, Kept
<1>. QED  BY <1>1, <1>3, <1>5, <1>6, <1>8, <1>9 DEF FanInv, FanTypes

LEMMA FanStep ==
  ASSUME ConnectionInv, FanInv, [FanNext]_helperVars
  PROVE  FanInv'
<1>1. CASE \E c \in Clients : Leave(c)
  <2>. PICK c \in Clients : Leave(c)
    BY <1>1
  <2>1. /\ app[c] = "running" /\ app' = [app EXCEPT ![c] = "closing"]
        /\ UNCHANGED <<owner, fan, dual, found>>
        /\ todo' = [todo EXCEPT ![c] = <<>>] /\ step' = [step EXCEPT ![c] = "begin"]
    BY DEF Leave, CloseOrDie, AppAt, AppGoto, connection
  <2>2. /\ app'[c] = "closing" /\ todo'[c] = <<>>
        /\ \A d \in Clients : d # c => app'[d] = app[d] /\ todo'[d] = todo[d] /\ step'[d] = step[d]
    BY <2>1 DEF ConnectionInv, ClientTypeOK, FanInv, FanTypes
  <2>. QED  BY <2>1, <2>2
            DEF FanInv, FanTypes, RunningIsOwner, QueuedIsRunning, Selected, SelectsOfTwo, Kept, Current, Opened
<1>2. CASE Others
  BY <1>2, OthersKeepFans
<1>3. CASE UNCHANGED helperVars
  BY <1>3 DEF helperVars, clientVars, connection, fanVars, FanInv, FanTypes, RunningIsOwner, QueuedIsRunning,
              Selected, SelectsOfTwo, Kept, Current
<1>. QED  BY <1>1, <1>2, <1>3, HelperStepKeeps DEF FanNext

(* Each of two helpers sets its level and reads its speed on its own fan,  *)
(* whatever was selected before; a lone one, which does not select, does   *)
(* so on the fan its application found: the application has the service    *)
(* for itself, and its helpers take turns.                                 *)
THEOREM HelpersUseTheirFan == FanSpec => []SelectionHolds
<1>1. FanInit => FanInv
  <2>1. FanInit => FanTypes /\ QueuedIsRunning /\ Selected /\ SelectsOfTwo /\ Kept
    BY DEF FanInit, FanTypes, QueuedIsRunning, Selected, SelectsOfTwo, Kept
  <2>2. FanInit => RunningIsOwner
    BY DEF FanInit, ClientInit, RunningIsOwner, Opened
  <2>. QED  BY <2>1, <2>2 DEF FanInv
<1>2. ConnectionInv /\ FanInv /\ [FanNext]_helperVars => FanInv'
  BY FanStep
<1>3. FanInv => SelectionHolds
  BY DEF FanInv, FanTypes, Selected, Kept, Opened, SelectionHolds, AtStep, Ready
<1>. QED  BY <1>1, <1>2, <1>3, HelpersAreClients, ConnectionInvariant, PTL DEF FanSpec

-----------------------------------------------------------------------------
(***************************************************************************)
(* SensorService.  For any machines, presets, slots and consumers: polling *)
(* follows the power state, handlers find the gate, the consumers are      *)
(* known, and no key shows another's sensor.                               *)
(***************************************************************************)

(* The parts of a life: before there is a poller, while there is one and   *)
(* the keys are added, and when it has been released.                      *)
Waiting == {"probed", "gated", "publishing", "notified", "managed"}
Building == {"polling", "based", "keyed", "awake", "ready"}
Gone == {"released", "unpublished", "unnotified", "flushed", "freed", "stopped"}

LifeTypeOK ==
  /\ phase \in Starting \cup {"failed", "started", "disabled"} \cup Gone
  /\ poller \in {"none", "added", "removed"} /\ gate \in {"none", "live", "freed"}
  /\ enabled \in BOOLEAN /\ armed \in BOOLEAN /\ awake \in BOOLEAN /\ ready \in BOOLEAN
  /\ pm \in {"idle", "on?", "ready?", "wake", "add", "arm", "disable", "remove", "sleep", "panic"}
  /\ power \in {"on", "off"} /\ loop \in {"idle", "vendor", "methods", "rearm"}

(* A poll runs or will; none does and none will. *)
Polling == poller = "added" /\ enabled /\ (armed \/ loop # "idle")
Resting == ~awake /\ power = "off" /\ loop = "idle" /\ ~armed

(* What PollingFollowsPower lacks to be inductive: where in its life the   *)
(* service has a poller, is ready and may be awake, and how far a power    *)
(* call has come with the timer.                                           *)
Stages ==
  /\ poller = "none" <=> phase \in Waiting \cup {"failed"} \cup Gone
  /\ phase \in Building => poller = "added"
  /\ ready <=> phase \in {"ready", "started", "disabled"} \cup Gone
  /\ phase \in {"awake", "ready"} => awake
  /\ awake => ready \/ phase = "awake"
  /\ armed => ready
  /\ loop # "idle" => phase \in {"ready", "started", "disabled"}

PowerCall ==
  /\ pm \in {"wake", "add", "arm"} => ready
  /\ pm \in {"disable", "remove", "sleep"} => phase \in {"started", "disabled"} \cup Gone
  /\ pm = "panic" => phase \in Gone
  /\ phase = "started" =>
       /\ pm \in {"idle", "on?", "ready?", "wake"} => IF awake THEN Polling ELSE Resting
       /\ pm \in {"add", "arm"} => awake
       /\ pm = "arm" => poller = "added"
       /\ pm \in {"remove", "sleep"} => ~armed /\ ~enabled
       /\ pm = "sleep" => loop = "idle"

PowerInv == LifeTypeOK /\ Stages /\ PowerCall

(* What ConsumersAreKnown lacks: which notifiers there are when, that each *)
(* notification in progress has its notifier, and what it is about.        *)
Listening ==
  /\ notifiers \subseteq {"publish", "terminate"}
  /\ phase \in {"probed", "gated", "unnotified", "flushed", "freed", "stopped"} => notifiers = {}
  /\ phase = "publishing" => notifiers = {"publish"}
  /\ phase = "unpublished" => notifiers \subseteq {"terminate"}
  /\ phase \in Waiting \cup Building \cup {"started", "disabled"} \cup Gone =>
       (gate = "live" <=> phase \notin {"probed", "freed", "stopped"})
  /\ phase = "failed" => notifiers = {} \/ gate = "live"

Told ==
  /\ there \in [Consumers -> {"absent", "there", "gone"}]
  /\ news \in [Consumers -> {"none", "publish", "terminate"}]
  /\ \A c \in Consumers :
       /\ news[c] # "none" => news[c] \in notifiers
       /\ there[c] = "absent" => news[c] = "none" /\ c \notin notificationServices
       /\ notifiers = {"publish", "terminate"} /\ c \notin early =>
            /\ news[c] = "none" => (c \in notificationServices <=> there[c] = "there")
            /\ news[c] = "publish" => there[c] = "there"
            /\ news[c] = "terminate" => there[c] = "gone"

ServiceInv == PowerInv /\ Listening /\ Told

-----------------------------------------------------------------------------
LEMMA ServiceInit == Init => ServiceInv
BY DEF Init, ServiceInv, PowerInv, LifeTypeOK, Stages, PowerCall, Listening, Told, Polling, Resting,
       Starting, Waiting, Building, Gone

LEMMA StartKeepsPower ==
  ASSUME ServiceInv, Start
  PROVE  PowerInv'
<1>. USE DEF ServiceInv, PowerInv, LifeTypeOK, Stages, PowerCall, Polling, Resting,
             Starting, Waiting, Building, Gone, Phase, life, timer, threads
<1>1. CASE MakeGate
  BY <1>1 DEF MakeGate
<1>2. CASE NotifyPublished
  BY <1>2 DEF NotifyPublished
<1>3. CASE NotifyTerminated
  BY <1>3 DEF NotifyTerminated
<1>4. CASE JoinPM
  BY <1>4 DEF JoinPM
<1>5. CASE MakePoller
  BY <1>5 DEF MakePoller
<1>6. CASE AddVendor \/ SetBase \/ AddPreset \/ SubmitKeys
  BY <1>6 DEF AddVendor, SetBase, AddPreset, SubmitKeys
<1>7. CASE SetAwake
  BY <1>7 DEF SetAwake
<1>8. CASE SetReady
  BY <1>8 DEF SetReady
<1>9. CASE Arm
  BY <1>9 DEF Arm
<1>. QED  BY <1>1, <1>2, <1>3, <1>4, <1>5, <1>6, <1>7, <1>8, <1>9 DEF Start, AddKeys

LEMMA StopKeepsPower ==
  ASSUME ServiceInv, Stop
  PROVE  PowerInv'
<1>. USE DEF ServiceInv, PowerInv, LifeTypeOK, Stages, PowerCall, Polling, Resting,
             Starting, Waiting, Building, Gone, Phase, life, timer, threads
<1>1. CASE DisablePoller
  BY <1>1 DEF DisablePoller
<1>2. CASE ReleasePoller
  BY <1>2 DEF ReleasePoller
<1>3. CASE RemovePublished
  BY <1>3 DEF RemovePublished
<1>4. CASE RemoveTerminated
  BY <1>4 DEF RemoveTerminated
<1>5. CASE Flush
  BY <1>5 DEF Flush
<1>6. CASE FreeGate
  BY <1>6 DEF FreeGate
<1>7. CASE LeavePM
  BY <1>7 DEF LeavePM
<1>. QED  BY <1>1, <1>2, <1>3, <1>4, <1>5, <1>6, <1>7 DEF Stop

LEMMA PowerKeepsPower ==
  ASSUME ServiceInv, Power
  PROVE  PowerInv'
<1>. USE DEF ServiceInv, PowerInv, LifeTypeOK, Stages, PowerCall, Polling, Resting,
             Starting, Waiting, Building, Gone, PM, PMUnchanged, Returned, life, timer
<1>1. CASE PowerOn
  BY <1>1 DEF PowerOn
<1>2. CASE TestAwake
  BY <1>2 DEF TestAwake
<1>3. CASE TestReady
  BY <1>3 DEF TestReady
<1>4. CASE Wake
  BY <1>4 DEF Wake
<1>5. CASE AddPoller
  BY <1>5 DEF AddPoller
<1>6. CASE ArmPoller
  BY <1>6 DEF ArmPoller
<1>7. CASE PowerOff
  BY <1>7 DEF PowerOff
<1>8. CASE Disable
  BY <1>8 DEF Disable
<1>9. CASE RemovePoller
  BY <1>9 DEF RemovePoller
<1>10. CASE Sleep
  BY <1>10 DEF Sleep
<1>. QED  BY <1>1, <1>2, <1>3, <1>4, <1>5, <1>6, <1>7, <1>8, <1>9, <1>10 DEF Power

LEMMA PollKeepsPower ==
  ASSUME ServiceInv, Poll
  PROVE  PowerInv'
<1>. USE DEF ServiceInv, PowerInv, LifeTypeOK, Stages, PowerCall, Polling, Resting,
             Starting, Waiting, Building, Gone, LoopUnchanged, life, timer
<1>1. CASE Fire
  BY <1>1 DEF Fire
<1>2. CASE ReadVendor
  BY <1>2 DEF ReadVendor
<1>3. CASE ReadMethods
  BY <1>3 DEF ReadMethods
<1>4. CASE Rearm
  BY <1>4 DEF Rearm
<1>. QED  BY <1>1, <1>2, <1>3, <1>4 DEF Poll

(* Neither consumers nor the SMC touch the timer. *)
LEMMA OthersKeepPower ==
  ASSUME ServiceInv, Consume \/ CountConsumers \/ dispatchMessage \/ UNCHANGED vars
  PROVE  PowerInv'
<1>1. UNCHANGED <<phase, gate, poller, enabled, armed, awake, ready, pm, power, loop>>
  BY DEF Consume, Published, Terminated, notificationHandler, ConsumersUnchanged, CountConsumers,
         dispatchMessage, SMCUnchanged, vars, life, timer, threads
<1>. QED
  BY <1>1 DEF ServiceInv, PowerInv, LifeTypeOK, Stages, PowerCall, Polling, Resting

-----------------------------------------------------------------------------
LEMMA StartKeepsConsumers ==
  ASSUME ServiceInv, Start
  PROVE  Listening' /\ Told'
<1>. USE DEF ServiceInv, PowerInv, LifeTypeOK, Listening, Told,
             Starting, Waiting, Building, Gone, Phase, life, consumers
<1>1. CASE MakeGate
  BY <1>1 DEF MakeGate
<1>2. CASE NotifyPublished
  BY <1>2 DEF NotifyPublished
<1>3. CASE NotifyTerminated
  BY <1>3 DEF NotifyTerminated
<1>4. CASE JoinPM
  BY <1>4 DEF JoinPM
<1>5. CASE MakePoller
  BY <1>5 DEF MakePoller
<1>6. CASE AddVendor \/ SetBase \/ AddPreset \/ SubmitKeys
  BY <1>6 DEF AddVendor, SetBase, AddPreset, SubmitKeys
<1>7. CASE SetAwake \/ SetReady \/ Arm
  BY <1>7 DEF SetAwake, SetReady, Arm
<1>. QED  BY <1>1, <1>2, <1>3, <1>4, <1>5, <1>6, <1>7 DEF Start, AddKeys

LEMMA StopKeepsConsumers ==
  ASSUME ServiceInv, Stop
  PROVE  Listening' /\ Told'
<1>. USE DEF ServiceInv, PowerInv, LifeTypeOK, Listening, Told,
             Starting, Waiting, Building, Gone, Phase, life, consumers
<1>1. CASE DisablePoller \/ ReleasePoller
  BY <1>1 DEF DisablePoller, ReleasePoller
<1>2. CASE RemovePublished
  BY <1>2 DEF RemovePublished
<1>3. CASE RemoveTerminated
  BY <1>3 DEF RemoveTerminated
<1>4. CASE Flush
  BY <1>4 DEF Flush
<1>5. CASE FreeGate
  BY <1>5 DEF FreeGate
<1>6. CASE LeavePM
  BY <1>6 DEF LeavePM
<1>. QED  BY <1>1, <1>2, <1>3, <1>4, <1>5, <1>6 DEF Stop

LEMMA ConsumersKeepConsumers ==
  ASSUME ServiceInv, NEW c \in Consumers, Published(c) \/ Terminated(c) \/ notificationHandler(c)
  PROVE  Listening' /\ Told'
<1>. USE DEF ServiceInv, PowerInv, LifeTypeOK, Listening, Told, ConsumersUnchanged, life
<1>1. CASE Published(c)
  BY <1>1 DEF Published
<1>2. CASE Terminated(c)
  BY <1>2 DEF Terminated
<1>3. CASE notificationHandler(c)
  BY <1>3 DEF notificationHandler
<1>. QED  BY <1>1, <1>2, <1>3

(* Neither power calls, polls nor the SMC touch them. *)
LEMMA OthersKeepConsumers ==
  ASSUME ServiceInv, Power \/ Poll \/ CountConsumers \/ dispatchMessage \/ UNCHANGED vars
  PROVE  Listening' /\ Told'
<1>1. UNCHANGED <<phase, gate, notifiers, there, news, early, notificationServices>>
  BY DEF Power, PowerOn, TestAwake, TestReady, Wake, AddPoller, ArmPoller, PowerOff, Disable,
         RemovePoller, Sleep, PMUnchanged, Poll, Fire, ReadVendor, ReadMethods, Rearm, LoopUnchanged,
         CountConsumers, dispatchMessage, SMCUnchanged, vars, life, consumers
<1>. QED  BY <1>1 DEF ServiceInv, Listening, Told

LEMMA ServiceKept == ServiceInv /\ [Next]_vars => ServiceInv'
<1>. SUFFICES ASSUME ServiceInv, [Next]_vars PROVE ServiceInv'
  OBVIOUS
<1>1. PowerInv'
  BY StartKeepsPower, StopKeepsPower, PowerKeepsPower, PollKeepsPower, OthersKeepPower DEF Next
<1>2. Listening' /\ Told'
  BY StartKeepsConsumers, StopKeepsConsumers, ConsumersKeepConsumers, OthersKeepConsumers DEF Next, Consume
<1>. QED  BY <1>1, <1>2 DEF ServiceInv

THEOREM ServiceIsKnown == Spec => []ServiceInv
BY ServiceInit, ServiceKept, PTL DEF Spec

(* Until the service is stopped a power call finds the poller; while it is *)
(* started the polls are, when the call has returned, as it was asked; and *)
(* no poll runs before the sensors are there or after stop has removed the *)
(* poller (YogaSMC.cpp:62-102, 146-180).                                   *)
THEOREM PowerIsFollowed == Spec => []PollingFollowsPower
<1>1. ServiceInv => PollingFollowsPower
  BY DEF ServiceInv, PowerInv, LifeTypeOK, Stages, PowerCall, Polling, Resting, PollingFollowsPower,
         Starting, Gone
<1>. QED  BY <1>1, ServiceIsKnown, PTL

(* Polls and handlers find the gate, and the service knows who is there    *)
(* (YogaBaseService.cpp:46-98, 121-138).                                   *)
THEOREM ConsumersStayKnown == Spec => []ConsumersAreKnown
<1>1. ServiceInv => ConsumersAreKnown
  BY DEF ServiceInv, PowerInv, Stages, Listening, Told, LifeTypeOK, ConsumersAreKnown,
         Starting, Waiting, Building, Gone
<1>. QED  BY <1>1, ServiceIsKnown, PTL

-----------------------------------------------------------------------------
(* The table of sensors.  What SensorsAreOwn lacks: where each key's       *)
(* sensor is found, that what is still to be added fits, and that nothing  *)
(* is read into a slot before it has a key.                                *)
Sensors(m) == {m.sensors[i] : i \in DOMAIN m.sensors}
Named ==
  {Unset, "fanOne", "fanTwo", "IR", "CPU", "GPU"} \cup {Presets[i] : i \in DOMAIN Presets}
  \cup UNION {Sensors(m) : m \in {n \in Machines : n.variant = "DY"}}

Tables ==
  [sensorCount : 0 .. MAX_SENSOR, ECSensorBase : 0 .. MAX_SENSOR, keys : SUBSET [source : Named, slot : Slots],
   sensorIndex : [Slots -> Named], sensorMethods : [Slots -> Named]]

KeysFound(think, t, base) ==
  \A k \in t.keys :
    /\ k.slot < t.sensorCount
    /\ IF k.slot >= base THEN t.sensorMethods[k.slot] = k.source
       ELSE IF think THEN k.source = "fanOne" ELSE t.sensorIndex[k.slot] = k.source

Think == machine.variant = "Think"
Base == IF phase = "polling" THEN table.sensorCount ELSE table.ECSensorBase

TableTypeOK ==
  /\ machine \in Machines /\ table \in Tables /\ left \in Seq(Named) /\ Base <= table.sensorCount
  /\ DOMAIN currentSensor = Slots

Room ==
  /\ phase \in Waiting \cup {"polling", "failed"} =>
       /\ Think => table.sensorCount + Len(left) = 1 /\ (left # <<>> => Head(left) = "fanOne")
       /\ machine.variant = "Idea" => table.sensorCount + Len(left) <= 5
  /\ phase \in Waiting => table = NoSensors
  /\ Think /\ phase \notin Waiting \cup {"polling", "failed"} => Base = 1

ReadOnlyOwn ==
  /\ \A i \in Slots : i >= table.sensorCount => currentSensor[i] = Unset
  /\ \A k \in table.keys : currentSensor[k.slot] \in {Unset, k.source}

TableInv == TableTypeOK /\ Room /\ KeysFound(Think, table, Base) /\ ReadOnlyOwn

(* What the additions return. *)
LEMMA KeyAdded ==
  ASSUME NEW t \in Tables, NEW s \in Named, t.sensorCount < MAX_SENSOR
  PROVE  /\ AddKey(t, s) \in Tables
         /\ AddKey(t, s).sensorCount = t.sensorCount + 1
         /\ AddKey(t, s).keys = t.keys \cup {[source |-> s, slot |-> t.sensorCount]}
         /\ AddKey(t, s).ECSensorBase = t.ECSensorBase
         /\ AddKey(t, s).sensorIndex = t.sensorIndex
         /\ AddKey(t, s).sensorMethods = t.sensorMethods
BY IdeaFits DEF AddKey, Tables, Slots

LEMMA SensorAdded ==
  ASSUME NEW t \in Tables, NEW s \in Named, t.sensorCount < MAX_SENSOR
  PROVE  /\ AddSensor(t, s) \in Tables
         /\ AddSensor(t, s).sensorCount = t.sensorCount + 1
         /\ AddSensor(t, s).keys = t.keys \cup {[source |-> s, slot |-> t.sensorCount]}
         /\ AddSensor(t, s).ECSensorBase = t.ECSensorBase
         /\ AddSensor(t, s).sensorIndex = [t.sensorIndex EXCEPT ![t.sensorCount] = s]
         /\ AddSensor(t, s).sensorMethods = t.sensorMethods
<1>1. t.sensorCount \in Slots
  BY IdeaFits DEF Tables, Slots
<1>. QED  BY <1>1, KeyAdded DEF AddSensor, Tables

LEMMA PresetAdded ==
  ASSUME NEW t \in Tables, NEW s \in Named, NEW u, t.sensorCount < MAX_SENSOR,
         u = [AddKey(t, s) EXCEPT !.sensorMethods[t.sensorCount] = s]
  PROVE  /\ u \in Tables
         /\ u.sensorCount = t.sensorCount + 1
         /\ u.keys = t.keys \cup {[source |-> s, slot |-> t.sensorCount]}
         /\ u.ECSensorBase = t.ECSensorBase
         /\ u.sensorIndex = t.sensorIndex
         /\ u.sensorMethods = [t.sensorMethods EXCEPT ![t.sensorCount] = s]
<1>. DEFINE a == AddKey(t, s)
<1>1. t.sensorCount \in Slots
  BY IdeaFits DEF Tables, Slots
<1>2. /\ a \in Tables /\ a.sensorCount = t.sensorCount + 1 /\ a.ECSensorBase = t.ECSensorBase
      /\ a.keys = t.keys \cup {[source |-> s, slot |-> t.sensorCount]}
      /\ a.sensorIndex = t.sensorIndex /\ a.sensorMethods = t.sensorMethods
  BY KeyAdded
<1>3. u = [a EXCEPT !.sensorMethods[t.sensorCount] = s]
  OBVIOUS
<1>. HIDE DEF a
<1>. DEFINE f == [a.sensorMethods EXCEPT ![t.sensorCount] = s]
<1>4. f \in [Slots -> Named] /\ f = [t.sensorMethods EXCEPT ![t.sensorCount] = s]
  BY <1>1, <1>2 DEF Tables
<1>5. u = [a EXCEPT !.sensorMethods = f]
  BY <1>3
<1>. HIDE DEF f
<1>. QED  BY <1>2, <1>4, <1>5 DEF Tables

LEMMA AllNamed ==
  /\ {"fanOne", "fanTwo", "IR", "CPU", "GPU"} \subseteq Named
  /\ Presets \in Seq(Named)
  /\ \A m \in Machines : m.variant = "DY" => m.sensors \in Seq(Named)
<1>1. {Presets[i] : i \in DOMAIN Presets} \subseteq Named
  BY DEF Named
<1>2. ASSUME NEW m \in Machines, m.variant = "DY"
      PROVE  m.sensors \in Seq(Named)
  <2>1. Sensors(m) \subseteq Named
    BY <1>2 DEF Named
  <2>2. m.sensors \in Seq(Sensors(m))
    BY <1>2, MachinesDescribed DEF Sensors
  <2>. QED  BY <2>1, <2>2
<1>3. {"fanOne", "fanTwo", "IR", "CPU", "GPU"} \subseteq Named
  BY DEF Named
<1>. QED  BY <1>1, <1>2, <1>3, PresetsListed

LEMMA CandidatesNamed ==
  ASSUME NEW m \in Machines
  PROVE  /\ Candidates(m) \in Seq(Named)
         /\ m.variant = "Think" => Len(Candidates(m)) = 1 /\ Head(Candidates(m)) = "fanOne"
         /\ m.variant = "Idea" => Len(Candidates(m)) = 5
<1>1. CASE m.variant = "Think"
  <2>1. Candidates(m) = <<"fanOne">>
    BY <1>1 DEF Candidates
  <2>. QED  BY <1>1, <2>1, AllNamed
<1>2. CASE m.variant = "Idea"
  <2>1. Candidates(m) = <<"fanOne", "fanTwo", "IR", "CPU", "GPU">>
    BY <1>2 DEF Candidates, IdeaSensors
  <2>. QED  BY <1>2, <2>1, AllNamed
<1>3. CASE m.variant = "DY"
  BY <1>3, AllNamed DEF Candidates
<1>. QED  BY <1>1, <1>2, <1>3, MachinesDescribed

LEMMA TableInit == Init => TableInv
<1>. SUFFICES ASSUME Init PROVE TableInv
  OBVIOUS
<1>1. NoSensors \in Tables /\ NoSensors.sensorCount = 0 /\ NoSensors.ECSensorBase = 0 /\ NoSensors.keys = {}
  BY IdeaFits DEF NoSensors, Tables, Named
<1>2. /\ machine \in Machines /\ phase = "probed" /\ table = NoSensors /\ left = Candidates(machine)
      /\ DOMAIN currentSensor = Slots /\ \A i \in Slots : currentSensor[i] = Unset
  BY DEF Init
<1>3. TableTypeOK
  BY <1>1, <1>2, CandidatesNamed DEF TableTypeOK, Base
<1>4. Room
  <2>1. table.sensorCount = 0 /\ phase \in Waiting
    BY <1>1, <1>2 DEF Waiting
  <2>2. /\ Think => Len(left) = 1 /\ Head(left) = "fanOne"
        /\ machine.variant = "Idea" => Len(left) = 5
    BY <1>2, CandidatesNamed DEF Think
  <2>3. /\ Think => table.sensorCount + Len(left) = 1
        /\ machine.variant = "Idea" => table.sensorCount + Len(left) <= 5
    <3>1. ASSUME Len(left) = 1 PROVE table.sensorCount + Len(left) = 1
      BY <2>1, <3>1
    <3>2. ASSUME Len(left) = 5 PROVE table.sensorCount + Len(left) <= 5
      BY <2>1, <3>2
    <3>. QED  BY <2>2, <3>1, <3>2, Zenon
  <2>. QED  BY <1>2, <2>1, <2>2, <2>3 DEF Room
<1>. QED  BY <1>1, <1>2, <1>3, <1>4 DEF TableInv, KeysFound, ReadOnlyOwn

(* A key added in the next slot, to be read where the table now says, is   *)
(* found there and leaves the others.                                      *)
LEMMA KeysStayFound ==
  ASSUME NEW think \in BOOLEAN, NEW t \in Tables, NEW u \in Tables, NEW s \in Named, NEW b \in Nat, NEW c \in Nat,
         KeysFound(think, t, b), t.sensorCount < MAX_SENSOR,
         u.sensorCount = t.sensorCount + 1, u.keys = t.keys \cup {[source |-> s, slot |-> t.sensorCount]},
         \/ /\ c = b /\ b <= t.sensorCount /\ u.sensorIndex = t.sensorIndex
            /\ u.sensorMethods = [t.sensorMethods EXCEPT ![t.sensorCount] = s]
         \/ /\ b = t.sensorCount /\ c = u.sensorCount /\ ~think
            /\ u.sensorIndex = [t.sensorIndex EXCEPT ![t.sensorCount] = s]
         \/ /\ b = t.sensorCount /\ c = u.sensorCount /\ think /\ s = "fanOne"
  PROVE  KeysFound(think, u, c)
<1>1. t.sensorCount \in Nat /\ t.sensorCount \in Slots
  BY IdeaFits DEF Tables, Slots
<1>2. ASSUME NEW k \in t.keys
      PROVE  /\ k.slot < u.sensorCount
             /\ IF k.slot >= c THEN u.sensorMethods[k.slot] = k.source
                ELSE IF think THEN k.source = "fanOne" ELSE u.sensorIndex[k.slot] = k.source
  <2>1. k.slot \in Slots /\ k.slot \in Nat /\ k.slot < t.sensorCount
    BY IdeaFits DEF KeysFound, Tables, Slots
  <2>. QED  BY <1>1, <2>1 DEF KeysFound, Tables
<1>3. ASSUME NEW k, k = [source |-> s, slot |-> t.sensorCount]
      PROVE  /\ k.slot < u.sensorCount
             /\ IF k.slot >= c THEN u.sensorMethods[k.slot] = k.source
                ELSE IF think THEN k.source = "fanOne" ELSE u.sensorIndex[k.slot] = k.source
  BY <1>1, <1>3 DEF Tables
<1>. QED  BY <1>2, <1>3 DEF KeysFound

LEMMA AddVendorKept ==
  ASSUME TableInv, AddVendor
  PROVE  TableInv'
<1>. DEFINE s == Head(left)
<1>1. /\ table \in Tables /\ left \in Seq(Named) /\ left # <<>> /\ machine \in Machines
      /\ machine' = machine /\ phase = "polling" /\ phase' = phase /\ currentSensor' = currentSensor
      /\ left' = Tail(left) /\ table' = AddVendorKey(machine, table, s)
  BY DEF AddVendor, TableInv, TableTypeOK, life
<1>2. s \in Named /\ left' \in Seq(Named) /\ Len(left) \in Nat \ {0} /\ Len(left') = Len(left) - 1
  BY <1>1
<1>3. table.sensorCount \in 0 .. MAX_SENSOR /\ MAX_SENSOR \in Nat /\ MAX_SENSOR >= 5
  BY <1>1, IdeaFits DEF IdeaSensors, Tables
<1>4. /\ Think' = Think /\ Base = table.sensorCount /\ Base' = table'.sensorCount
      /\ phase \notin Waiting /\ phase' \notin Waiting
  BY <1>1 DEF Think, Base, Waiting
<1>5. /\ KeysFound(Think, table, Base) /\ ReadOnlyOwn /\ DOMAIN currentSensor = Slots
      /\ Think => table.sensorCount + Len(left) = 1 /\ s = "fanOne"
      /\ machine.variant = "Idea" => table.sensorCount + Len(left) <= 5
  BY <1>1 DEF TableInv, TableTypeOK, Room
<1>6. \/ table' = table /\ ~Think
      \/ table' = AddSensor(table, s) /\ ~Think /\ table.sensorCount < MAX_SENSOR
      \/ table' = AddKey(table, s) /\ Think /\ table.sensorCount = 0 /\ s = "fanOne"
  <2>1. CASE machine.variant = "Think"
    <3>1. AddVendorKey(machine, table, s) = AddKey(table, s)
      BY <2>1 DEF AddVendorKey
    <3>. QED  BY <1>1, <1>2, <1>3, <1>5, <2>1, <3>1 DEF Think
  <2>2. CASE machine.variant = "Idea"
    <3>1. AddVendorKey(machine, table, s) \in {table, AddSensor(table, s)}
      BY <2>2 DEF AddVendorKey
    <3>. QED  BY <1>1, <1>2, <1>3, <1>5, <2>2, <3>1 DEF Think
  <2>3. CASE machine.variant = "DY"
    <3>1. AddVendorKey(machine, table, s) = IF table.sensorCount < MAX_SENSOR THEN AddSensor(table, s) ELSE table
      BY <2>3 DEF AddVendorKey
    <3>. QED  BY <1>1, <2>3, <3>1 DEF Think
  <2>. QED  BY <1>1, <2>1, <2>2, <2>3, MachinesDescribed
<1>7. CASE table' = table /\ ~Think
  <2>1. TableTypeOK' /\ Room'
    BY <1>1, <1>2, <1>3, <1>4, <1>5, <1>7 DEF TableTypeOK, Room, Think
  <2>. QED  BY <1>1, <1>4, <1>5, <1>7, <2>1 DEF TableInv, ReadOnlyOwn
<1>8. ASSUME table' \in Tables, table'.sensorCount = table.sensorCount + 1, table.sensorCount < MAX_SENSOR,
             table'.keys = table.keys \cup {[source |-> s, slot |-> table.sensorCount]},
             KeysFound(Think, table', table'.sensorCount)
      PROVE  TableInv'
  <2>1. TableTypeOK' /\ Room'
    BY <1>1, <1>2, <1>3, <1>4, <1>5, <1>8 DEF TableTypeOK, Room, Think, Tables
  <2>2. ReadOnlyOwn'
    BY <1>1, <1>3, <1>5, <1>8, IdeaFits DEF ReadOnlyOwn, Tables, Slots
  <2>. QED  BY <1>4, <1>8, <2>1, <2>2 DEF TableInv
<1>9. CASE table' = AddSensor(table, s) /\ ~Think /\ table.sensorCount < MAX_SENSOR
  <2>1. KeysFound(Think, table', table'.sensorCount)
    <3>1. /\ table' \in Tables /\ table'.sensorCount = table.sensorCount + 1
          /\ table'.keys = table.keys \cup {[source |-> s, slot |-> table.sensorCount]}
          /\ table'.sensorIndex = [table.sensorIndex EXCEPT ![table.sensorCount] = s]
      BY <1>1, <1>2, <1>9, SensorAdded
    <3>2. table.sensorCount \in Nat /\ table'.sensorCount \in Nat
      BY <1>3, <3>1
    <3>3. Think \in BOOLEAN /\ ~Think
      BY <1>9 DEF Think
    <3>4. KeysFound(Think, table, table.sensorCount)
      BY <1>4, <1>5, Zenon
    <3>. HIDE DEF s
    <3>. QED  BY <1>1, <1>2, <1>9, <3>1, <3>2, <3>3, <3>4, KeysStayFound, Zenon
  <2>. QED  BY <1>1, <1>2, <1>8, <1>9, <2>1, SensorAdded
<1>10. CASE table' = AddKey(table, s) /\ Think /\ table.sensorCount = 0 /\ s = "fanOne"
  <2>1. KeysFound(Think, table', table'.sensorCount)
    <3>1. /\ table' \in Tables /\ table'.sensorCount = table.sensorCount + 1 /\ table.sensorCount < MAX_SENSOR
          /\ table'.keys = table.keys \cup {[source |-> s, slot |-> table.sensorCount]}
      BY <1>1, <1>2, <1>3, <1>10, KeyAdded
    <3>2. table.sensorCount \in Nat /\ table'.sensorCount \in Nat
      BY <1>3, <3>1
    <3>3. Think \in BOOLEAN /\ Think
      BY <1>10 DEF Think
    <3>4. KeysFound(Think, table, table.sensorCount)
      BY <1>4, <1>5, Zenon
    <3>. HIDE DEF s
    <3>. QED  BY <1>1, <1>2, <1>10, <3>1, <3>2, <3>3, <3>4, KeysStayFound, Zenon
  <2>. QED  BY <1>1, <1>2, <1>3, <1>8, <1>10, <2>1, KeyAdded
<1>. QED  BY <1>6, <1>7, <1>9, <1>10

LEMMA AddPresetKept ==
  ASSUME TableInv, AddPreset
  PROVE  TableInv'
<1>. DEFINE s == Head(left)
<1>1. /\ table \in Tables /\ left \in Seq(Named) /\ left # <<>> /\ machine \in Machines
      /\ machine' = machine /\ phase = "based" /\ phase' = phase /\ currentSensor' = currentSensor
      /\ left' = Tail(left) /\ table' = addECKeySp(machine, table, s)
  BY DEF AddPreset, TableInv, TableTypeOK, life
<1>2. s \in Named /\ left' \in Seq(Named)
  BY <1>1
<1>3. table.sensorCount \in 0 .. MAX_SENSOR /\ MAX_SENSOR \in Nat /\ table.ECSensorBase \in Nat
  BY <1>1, IdeaFits DEF Tables
<1>4. /\ Think' = Think /\ Base = table.ECSensorBase /\ Base' = table'.ECSensorBase
      /\ phase \notin Waiting \cup {"polling", "failed"} /\ phase' \notin Waiting \cup {"polling", "failed"}
  BY <1>1 DEF Think, Base, Waiting
<1>5. /\ KeysFound(Think, table, Base) /\ ReadOnlyOwn /\ DOMAIN currentSensor = Slots
      /\ Base <= table.sensorCount /\ (Think => Base = 1)
  BY <1>1, <1>4 DEF TableInv, TableTypeOK, Room
<1>6. CASE table' = table
  BY <1>1, <1>2, <1>4, <1>5, <1>6 DEF TableInv, TableTypeOK, Room, ReadOnlyOwn
<1>7. CASE table' # table
  <2>1. /\ table.sensorCount < MAX_SENSOR /\ table' \in Tables /\ table'.sensorCount = table.sensorCount + 1
        /\ table'.keys = table.keys \cup {[source |-> s, slot |-> table.sensorCount]}
        /\ table'.ECSensorBase = table.ECSensorBase /\ table'.sensorIndex = table.sensorIndex
        /\ table'.sensorMethods = [table.sensorMethods EXCEPT ![table.sensorCount] = s]
    <3>. HIDE DEF s
    <3>1. s \in Named /\ table \in Tables
      BY <1>1, <1>2
    <3>2. table.sensorCount < MAX_SENSOR /\ table' = [AddKey(table, s) EXCEPT !.sensorMethods[table.sensorCount] = s]
      BY <1>1, <1>7, Zenon DEF addECKeySp
    <3>. QED  BY <3>1, <3>2, PresetAdded, Zenon
  <2>2. KeysFound(Think', table', Base')
    BY <1>1, <1>2, <1>3, <1>4, <1>5, <2>1, KeysStayFound DEF Think
  <2>3. TableTypeOK' /\ Room'
    BY <1>1, <1>2, <1>3, <1>4, <1>5, <2>1 DEF TableTypeOK, Room
  <2>4. ReadOnlyOwn'
    BY <1>1, <1>3, <1>5, <2>1, IdeaFits DEF ReadOnlyOwn, Tables, Slots
  <2>. QED  BY <2>2, <2>3, <2>4 DEF TableInv
<1>. QED  BY <1>6, <1>7

LEMMA SetBaseKept ==
  ASSUME TableInv, SetBase
  PROVE  TableInv'
<1>1. /\ table \in Tables /\ machine' = machine /\ phase = "polling" /\ phase' = "based"
      /\ currentSensor' = currentSensor /\ left = <<>> /\ left' = Presets /\ machine \in Machines
      /\ table' = [table EXCEPT !.ECSensorBase = table.sensorCount]
  BY DEF SetBase, Phase, TableInv, TableTypeOK
<1>2. /\ table' \in Tables /\ table'.ECSensorBase = table.sensorCount /\ table'.sensorCount = table.sensorCount
      /\ table'.keys = table.keys /\ table'.sensorIndex = table.sensorIndex
      /\ table'.sensorMethods = table.sensorMethods /\ table.sensorCount \in Nat
  BY <1>1, IdeaFits DEF Tables
<1>3. Presets \in Seq(Named)
  BY AllNamed
<1>4. Think' = Think /\ Base = table.sensorCount /\ Base' = table.sensorCount
  BY <1>1, <1>2 DEF Think, Base
<1>5. TableTypeOK' /\ Room'
  BY <1>1, <1>2, <1>3, <1>4 DEF TableInv, TableTypeOK, Room, Waiting
<1>6. KeysFound(Think', table', Base') /\ ReadOnlyOwn'
  BY <1>1, <1>2, <1>4 DEF TableInv, KeysFound, ReadOnlyOwn
<1>. QED  BY <1>5, <1>6 DEF TableInv

(* A poll reads a slot from its own sensor. *)
LEMMA PollKeepsTable ==
  ASSUME TableInv, ServiceInv, ReadVendor \/ ReadMethods
  PROVE  TableInv'
<1>1. UNCHANGED <<machine, phase, table, left>> /\ loop # "idle"
  BY DEF ReadVendor, ReadMethods, LoopUnchanged, life
<1>2. /\ phase \notin Waiting \cup {"polling", "failed"} /\ Base = table.ECSensorBase /\ (Think => Base = 1)
      /\ table \in Tables /\ table.sensorCount \in Nat /\ table.ECSensorBase \in Nat
      /\ Base <= table.sensorCount /\ DOMAIN currentSensor = Slots
  BY <1>1, IdeaFits DEF ServiceInv, PowerInv, Stages, TableInv, TableTypeOK, Room, Base, Waiting, Tables
<1>3. /\ DOMAIN currentSensor' = Slots
      /\ \A i \in Slots :
           \/ currentSensor'[i] = currentSensor[i]
           \/ ~Think /\ i < Base /\ currentSensor'[i] = table.sensorIndex[i]
           \/ Think /\ i < Base /\ currentSensor'[i] = "fanOne"
           \/ Base <= i /\ i < table.sensorCount /\ currentSensor'[i] = table.sensorMethods[i]
  BY <1>2 DEF ReadVendor, ReadMethods, updateECVendor, updateMethods, Think
<1>4. Slots \subseteq Nat
  BY IdeaFits DEF Slots
<1>5. ReadOnlyOwn'
  <2>1. ASSUME NEW k \in table.keys
        PROVE  currentSensor'[k.slot] \in {Unset, k.source}
    <3>1. k.slot \in Slots /\ k.slot \in Nat /\ currentSensor[k.slot] \in {Unset, k.source}
      BY <1>2, <1>4 DEF Tables, TableInv, ReadOnlyOwn
    <3>2. IF k.slot >= Base THEN table.sensorMethods[k.slot] = k.source
          ELSE IF Think THEN k.source = "fanOne" ELSE table.sensorIndex[k.slot] = k.source
      BY DEF TableInv, KeysFound
    <3>. QED  BY <1>2, <1>3, <3>1, <3>2
  <2>2. ASSUME NEW i \in Slots, i >= table.sensorCount
        PROVE  currentSensor'[i] = Unset
    BY <1>2, <1>3, <1>4, <2>2 DEF TableInv, ReadOnlyOwn
  <2>. QED  BY <1>1, <2>1, <2>2 DEF ReadOnlyOwn
<1>. QED  BY <1>1, <1>3, <1>5 DEF TableInv, TableTypeOK, Room, Think, Base

LEMMA TableKept == TableInv /\ ServiceInv /\ [Next]_vars => TableInv'
<1>. SUFFICES ASSUME TableInv, ServiceInv, [Next]_vars PROVE TableInv'
  OBVIOUS
<1>1. CASE AddVendor \/ SetBase \/ AddPreset \/ ReadVendor \/ ReadMethods
  BY <1>1, AddVendorKept, SetBaseKept, AddPresetKept, PollKeepsTable
<1>2. CASE ~(AddVendor \/ SetBase \/ AddPreset \/ ReadVendor \/ ReadMethods)
  <2>1. UNCHANGED <<machine, table, left, currentSensor>>
    BY <1>2 DEF Next, Start, AddKeys, MakeGate, NotifyPublished, NotifyTerminated, JoinPM, MakePoller, SubmitKeys,
       SetAwake, SetReady, Arm, Stop, DisablePoller, ReleasePoller, RemovePublished, RemoveTerminated, Flush,
       FreeGate, LeavePM, Power, PowerOn, TestAwake, TestReady, Wake, AddPoller, ArmPoller, PowerOff, Disable,
       RemovePoller, Sleep, PMUnchanged, Poll, Fire, Rearm, LoopUnchanged, Consume, Published, Terminated,
       notificationHandler, ConsumersUnchanged, CountConsumers, dispatchMessage, SMCUnchanged, Phase, vars,
       life, sensors
  <2>2. \/ phase' = phase
        \/ phase \in Waiting /\ phase' \in Waiting \cup {"polling", "failed"}
        \/ phase \notin Waiting \cup {"polling", "failed"} /\ phase' \notin Waiting \cup {"polling", "failed"}
    BY <1>2 DEF Next, Start, AddKeys, MakeGate, NotifyPublished, NotifyTerminated, JoinPM, MakePoller, SubmitKeys,
       SetAwake, SetReady, Arm, Stop, DisablePoller, ReleasePoller, RemovePublished, RemoveTerminated, Flush,
       FreeGate, LeavePM, Power, PowerOn, TestAwake, TestReady, Wake, AddPoller, ArmPoller, PowerOff, Disable,
       RemovePoller, Sleep, PMUnchanged, Poll, Fire, Rearm, LoopUnchanged, Consume, Published, Terminated,
       notificationHandler, ConsumersUnchanged, CountConsumers, dispatchMessage, SMCUnchanged, Phase, vars,
       life, Waiting
  <2>3. phase \in Waiting => table.sensorCount = 0 /\ table.ECSensorBase = 0
    BY DEF TableInv, Room, NoSensors
  <2>4. Think' = Think /\ Base' = Base
    BY <2>1, <2>2, <2>3 DEF Think, Base, Waiting
  <2>. QED  BY <2>1, <2>2, <2>4 DEF TableInv, TableTypeOK, Room, KeysFound, ReadOnlyOwn, Waiting
<1>. QED  BY <1>1, <1>2

THEOREM TableIsKnown == Spec => []TableInv
BY TableInit, TableKept, ServiceIsKnown, PTL DEF Spec

(* No key shows what another sensor has read, whatever the machine's       *)
(* sensors (KeyImplementations.hpp:17-29, IdeaSMC.cpp:13-65,               *)
(* DYSMC.cpp:80-222).                                                      *)
THEOREM KeysShowTheirOwn == Spec => []SensorsAreOwn
<1>1. TableInv => SensorsAreOwn
  BY IdeaFits DEF TableInv, TableTypeOK, Tables, KeysFound, ReadOnlyOwn, SensorsAreOwn
<1>. QED  BY <1>1, TableIsKnown, PTL

=============================================================================
