--------------------------------- MODULE WMI ---------------------------------
(***************************************************************************)
(* The table of WMI blocks that a firmware device describes in _WDG: how   *)
(* it is read into two dictionaries, and the checks every call of the      *)
(* firmware passes.  What a call may do is a set of calls, empty when it   *)
(* is refused.                                                             *)
(***************************************************************************)
EXTENDS Naturals, Sequences

Flags == {"expensive", "method", "string", "event"}

(* A block has a GUID, flags, an instance count and two bytes: the number  *)
(* of its notification if it is an event, the name of its object if not.   *)
IsBlock(b) == DOMAIN b = {"guid", "flags", "id", "count"} /\ b.flags \subseteq Flags /\ b.count \in 0 .. 255

IsEvent(b) == "event" \in b.flags
HasObjectId(b) == ~IsEvent(b)

(* The blocks are read in order: a later one takes the place of an       *)
(* earlier one with its GUID in mData, and an event that of one with its   *)
(* notification in mEvent.                                                 *)
Last(indices) == CHOOSE i \in indices : \A j \in indices : j <= i
BlocksOf(wdg, guid) == {i \in DOMAIN wdg : wdg[i].guid = guid}
EventsOf(wdg, id) == {i \in DOMAIN wdg : IsEvent(wdg[i]) /\ wdg[i].id = id}

extractData(wdg) ==
  [data |-> [g \in {wdg[i].guid : i \in DOMAIN wdg} |-> wdg[Last(BlocksOf(wdg, g))]],
   event |-> [n \in {wdg[i].id : i \in {j \in DOMAIN wdg : IsEvent(wdg[j])}} |-> wdg[Last(EventsOf(wdg, n))]]]

-----------------------------------------------------------------------------
getMethod(wmi, guid, flg) ==
  guid \in DOMAIN wmi.data /\ (flg = {} \/ wmi.data[guid].flags \cap flg # {})

hasMethod(wmi, guid, flg) ==
  getMethod(wmi, guid, flg) /\ (flg = {"event"} \/ HasObjectId(wmi.data[guid]))

Call(name, block, instance) == {[name |-> name, block |-> block, instance |-> instance]}

(* WMxx runs a method, WExx switches an event, WQxx reads a block. *)
NameOf(b) ==
  IF "method" \in b.flags THEN "WM" ELSE
  IF "string" \in b.flags THEN "WQ" ELSE
  IF IsEvent(b) THEN "WE" ELSE "WQ"

executeMethod(wmi, guid) ==
  IF getMethod(wmi, guid, {}) /\ (NameOf(wmi.data[guid]) = "WE" \/ HasObjectId(wmi.data[guid]))
  THEN Call(NameOf(wmi.data[guid]), wmi.data[guid], 0) ELSE {}

evaluateMethod(wmi, guid, instance) ==
  IF /\ getMethod(wmi, guid, {"method"})
     /\ HasObjectId(wmi.data[guid])
     /\ wmi.data[guid].count > instance
  THEN Call("WM", wmi.data[guid], instance) ELSE {}

QueryAny(wmi, guid, instance) ==  \* mutant: the flags are not looked at
  IF getMethod(wmi, guid, {}) /\ HasObjectId(wmi.data[guid]) /\ wmi.data[guid].count > instance
  THEN Call("WQ", wmi.data[guid], instance) ELSE {}

queryBlock(wmi, guid, instance) ==
  IF /\ getMethod(wmi, guid, {})
     /\ HasObjectId(wmi.data[guid])
     /\ wmi.data[guid].count > instance
     /\ wmi.data[guid].flags \cap {"event", "method"} = {}
  THEN Call("WQ", wmi.data[guid], instance) ELSE {}

getInstanceCount(wmi, guid) == IF getMethod(wmi, guid, {}) THEN wmi.data[guid].count ELSE 0

-----------------------------------------------------------------------------
(* A call is one that its block answers: a method is run, an event is      *)
(* switched, and only what is neither is read.                             *)
Answered(call) ==
  /\ call.name = "WM" => "method" \in call.block.flags /\ ~IsEvent(call.block)
  /\ call.name = "WQ" => "method" \notin call.block.flags /\ ~IsEvent(call.block)
  /\ call.name = "WE" => IsEvent(call.block) /\ call.block.flags \cap {"method", "string"} = {}
=============================================================================
