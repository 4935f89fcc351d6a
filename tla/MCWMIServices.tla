---------------------------- MODULE MCWMIServices ----------------------------
(* WMIServices for TLC: a device described by any three of the blocks that *)
(* tell IdeaVPC's classes apart, in any order, beside another, and one by  *)
(* any two of the others, for both VPCs.                                   *)
EXTENDS WMIServices

Block(guid, flags, id, count) == [guid |-> guid, flags |-> flags, id |-> id, count |-> count]

Method(guid, count) == Block(guid, {"method"}, 8, count)
Event(guid, n) == Block(guid, {"event"}, n, 1)

Blocks == {
  Event("gsensorEvent", 1), Event("gsensorExtEvent", 1), Event("gsensorExtEvent", 2),
  Method("gsensor", 1), Method("gsensor", 0), Method("gsensorExt", 1),
  Event("paperEvent", 1), Event("superEvent", 2),
  Method("super", 0), Block("super", {"method", "event"}, 2, 1)}

Odd == {
  Block("battery", {"string"}, 8, 3), Block("battery", {"expensive"}, 8, 1), Block("battery", {"expensive", "method"}, 8, 3),
  Method("gameZone", 1), Block("bmf", {}, 8, 1), Block("bmf", {"event"}, 2, 1), Block("bmf", {"string", "event"}, 2, 1),
  Block("sensor", {}, 8, 2), Block("sensor", {"method"}, 8, 2), Event("sensorEvent", 1), Method("thunderbolt", 1)}

Own == {
  Event("inputEvent", 3), Block("inputEvent", {"method", "event"}, 3, 1), Method("bios", 1), Method("bmf", 1)}

Machine(kind, t1, t2, t3) ==
  [vendor |-> kind, wdg |-> [d \in {"d1", "d2", "vpc"} |-> CASE d = "d1" -> t1 [] d = "d2" -> t2 [] d = "vpc" -> t3]]

Distinct(n, blocks) == {t \in [1 .. n -> blocks] : \A i, j \in 1 .. n : t[i] = t[j] => i = j}

MCDevices == <<"d1", "d2">>
MCMachines ==
  {Machine("idea", t, <<Method(g, 1)>>, <<>>) : t \in Distinct(3, Blocks), g \in {"gameZone", "thunderbolt"}}
  \cup {Machine(v, t, <<Method("bmf", 1)>>, <<b>>) : v \in {"idea", "dy"}, t \in Distinct(2, Odd), b \in Own}
=============================================================================
