-------------------------- MODULE MCThinkFanHelper --------------------------
(* UserClient and the fan helpers on top of it for TLC: two applications,  *)
(* two posting threads, two events.  The applications, the threads and the *)
(* events are interchangeable.                                             *)
EXTENDS ThinkFanHelper, TLC

Interchangeable == Permutations(Clients) \cup Permutations(Threads) \cup Permutations(Events)

(* Posts and helpers share the connections and nothing else: TLC takes the *)
(* ones with the others at rest.                                           *)
HelpersAtRest ==
  /\ fan = "main" /\ dual = {}
  /\ \A c \in Clients : todo[c] = <<>> /\ trusted[c] = Fans
PostsAtRest == (\A t \in Threads : pc[t] = "idle") /\ (\A c \in Clients : message[c].event = None)
OneOfBoth == HelpersAtRest \/ PostsAtRest
=============================================================================
