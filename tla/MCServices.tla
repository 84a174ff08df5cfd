----------------------------- MODULE MCServices -----------------------------
(* Instances of Telemetry, Mqtt and SetPower for TLC.  They share no       *)
(* variable, so that what holds when one of them runs alone holds when     *)
(* they run together: `part' is the one that runs, and the others rest.    *)
EXTENDS Telemetry, Mqtt, SetPower

CONSTANTS host1, host2, root1, root2, password1

(* A form that leaves the password masked, one that changes broker and     *)
(* root and names a password, one that switches publishing off and leaves  *)
(* the password empty.                                                     *)
SomeForms ==
  {[on |-> TRUE,  host |-> host1, root |-> root1, pw |-> Masked],
   [on |-> TRUE,  host |-> host2, root |-> root2, pw |-> password1],
   [on |-> FALSE, host |-> host1, root |-> root1, pw |-> NoPassword]}

SomeOffsets == {-300, -45, 300}

VARIABLE part

vars == <<telemetryVars, mqttVars, setPowerVars, part>>

Init ==
  /\ part \in {"views", "sweeps", "mqtt", "power"}
  /\ TelemetryInit /\ MqttInit /\ SetPowerInit
  /\ part # "power" => command = [family |-> "DS3", watts |-> 800, checked |-> TRUE]
  /\ part \in {"mqtt", "power"} => log = [d \in Days |-> 0]

(* Telemetry runs twice: with two requests, the daemon only logging after  *)
(* its first sweep; and with one request and whatever else there is.       *)
TelemetryPart ==
  /\ TelemetryNext
  /\ \/ part = "views" /\ UNCHANGED <<saving, boots>> /\ (sweptOn # 0 => UNCHANGED sweep)
     \/ part = "sweeps" /\ requests' <= 1
  /\ UNCHANGED <<mqttVars, setPowerVars, part>>

MqttPart     == part = "mqtt" /\ MqttNext /\ UNCHANGED <<telemetryVars, setPowerVars, part>>
SetPowerPart == part = "power" /\ SetPowerNext /\ UNCHANGED <<telemetryVars, mqttVars, part>>

Next == TelemetryPart \/ MqttPart \/ SetPowerPart

Spec == Init /\ [][Next]_vars /\ TelemetryFairness

TypeOK == TelemetryTypeOK /\ MqttTypeOK /\ SetPowerTypeOK
=============================================================================
