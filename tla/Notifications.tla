--------------------------- MODULE Notifications ----------------------------
(***************************************************************************)
(* What a service promises about its notifications                         *)
(* (YogaSMCUserClient.cpp:182-221 and the senders in ThinkVPC, IdeaVPC and *)
(* YogaHIDD): at most one application subscribes at a time; every message  *)
(* it gets was posted by a thread that is still posting it, to somebody    *)
(* who subscribed meanwhile; two posts may get mixed only when they        *)
(* overlap; and a message may be lost.                                     *)
(***************************************************************************)
CONSTANTS
  Clients,   \* user clients, one for each connection of an application
  Threads,   \* the service's threads that post
  Events,    \* the events, each with its own data
  None       \* no client

VARIABLES
  subscriber,  \* the subscribed client or None
  own,         \* the event each thread is posting, or None
  mixed,       \* the events of the posts that overlap it, its own included
  reach,       \* per thread, who has subscribed since its post began
  delivered    \* the last message an application got

notifications == <<subscriber, own, mixed, reach, delivered>>

Posting(t) == own[t] # None

NoMessage == [to |-> None, event |-> None, data |-> None]
Messages == [to : Clients, event : Events, data : Events]

Subscribe(c) ==
  /\ subscriber = None
  /\ subscriber' = c
  /\ reach' = [t \in Threads |-> IF Posting(t) THEN reach[t] \cup {c} ELSE {}]
  /\ UNCHANGED <<own, mixed, delivered>>

Unsubscribe ==
  /\ subscriber' = None
  /\ UNCHANGED <<own, mixed, reach, delivered>>

Post(t, e) ==
  /\ subscriber # None
  /\ ~Posting(t)
  /\ own' = [own EXCEPT ![t] = e]
  /\ mixed' = [u \in Threads |-> IF u = t THEN {e} \cup {own[v] : v \in {w \in Threads : Posting(w)}}
                                ELSE IF Posting(u) THEN mixed[u] \cup {e} ELSE {}]
  /\ reach' = [reach EXCEPT ![t] = {subscriber}]
  /\ UNCHANGED <<subscriber, delivered>>

EndOfPost(t) ==
  /\ Posting(t)
  /\ own' = [own EXCEPT ![t] = None]
  /\ mixed' = [mixed EXCEPT ![t] = {}]
  /\ reach' = [reach EXCEPT ![t] = {}]
  /\ UNCHANGED subscriber

Lose(t) == EndOfPost(t) /\ UNCHANGED delivered

Deliver(t) ==
  /\ EndOfPost(t)
  /\ delivered' \in [to : reach[t], event : mixed[t], data : mixed[t]]

Init ==
  /\ subscriber = None
  /\ own = [t \in Threads |-> None]
  /\ mixed = [t \in Threads |-> {}]
  /\ reach = [t \in Threads |-> {}]
  /\ delivered = NoMessage

Next ==
  \/ \E c \in Clients : Subscribe(c)
  \/ Unsubscribe
  \/ \E t \in Threads : (\E e \in Events : Post(t, e)) \/ Lose(t) \/ Deliver(t)

Spec == Init /\ [][Next]_notifications

=============================================================================
