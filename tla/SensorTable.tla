----------------------------- MODULE SensorTable -----------------------------
(***************************************************************************)
(* The table of sensors behind the SMC keys of YogaSMC and its variants.   *)
(* A key reads one slot of currentSensor; a poll fills the slots, those    *)
(* below ECSensorBase with the variant's readings and the others with what *)
(* ACPI methods return.                                                    *)
(***************************************************************************)
EXTENDS Naturals, Sequences

CONSTANTS
  MAX_SENSOR,  \* the slots
  Presets      \* the names of the ACPI sensors YogaSMC looks for, in its order

IdeaSensors == <<"fanOne", "fanTwo", "IR", "CPU", "GPU">>
Unset == "unset"

ASSUME PresetsListed == Presets \in Seq({Presets[i] : i \in DOMAIN Presets})
ASSUME IdeaFits == MAX_SENSOR \in Nat /\ MAX_SENSOR >= Len(IdeaSensors)

Slots == 0 .. MAX_SENSOR - 1
NoSensors ==
  [sensorCount |-> 0, ECSensorBase |-> 0, keys |-> {},
   sensorIndex |-> [i \in Slots |-> Unset], sensorMethods |-> [i \in Slots |-> Unset]]

AddKey(t, s) ==
  [t EXCEPT !.keys = @ \cup {[source |-> s, slot |-> t.sensorCount]}, !.sensorCount = @ + 1]

AddSensor(t, s) == [AddKey(t, s) EXCEPT !.sensorIndex[t.sensorCount] = s]

(* A machine has a variant, what its vendor's interface answers for, and   *)
(* the presets it has methods for.  First its variant's sensors are tried, *)
(* one by one: a game zone is asked for its second fan only if it has a    *)
(* first, and DYSMC stops at the last slot.                                *)
Candidates(m) ==
  CASE m.variant = "Think" -> <<"fanOne">>
    [] m.variant = "Idea" -> IdeaSensors
    [] m.variant = "DY" -> m.sensors

AddVendorKey(m, t, s) ==
  CASE m.variant = "Think" -> AddKey(t, s)
    [] m.variant = "Idea" ->
         IF s \in m.answers /\ (s = "fanTwo" => "fanOne" \in m.answers) THEN AddSensor(t, s) ELSE t
    [] m.variant = "DY" -> IF t.sensorCount < MAX_SENSOR THEN AddSensor(t, s) ELSE t

(* Then the presets are.                                                   *)
PastLast(m, t, s) ==  \* mutant: the limit is off by one
  IF s \in m.methods /\ t.sensorCount <= MAX_SENSOR
  THEN [AddKey(t, s) EXCEPT !.sensorMethods[t.sensorCount] = s] ELSE t

addECKeySp(m, t, s) ==
  IF s \in m.methods /\ t.sensorCount < MAX_SENSOR
  THEN [AddKey(t, s) EXCEPT !.sensorMethods[t.sensorCount] = s] ELSE t

-----------------------------------------------------------------------------
(* What a poll stores: which source into which slots. *)
updateECVendor(m, t, sensor) ==
  IF m.variant = "Think" THEN [sensor EXCEPT ![0] = "fanOne"]
  ELSE [i \in Slots |-> IF i < t.ECSensorBase THEN t.sensorIndex[i] ELSE sensor[i]]

updateMethods(t, sensor) ==
  [i \in Slots |-> IF t.ECSensorBase <= i /\ i < t.sensorCount THEN t.sensorMethods[i] ELSE sensor[i]]
=============================================================================
