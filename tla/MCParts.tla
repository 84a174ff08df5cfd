------------------------------ MODULE MCParts ------------------------------
(* Instances of Bridge, ConfigStore and Flasher for TLC.  They run in      *)
(* different processes, or a different computer, and share no variable:    *)
(* what holds when one of them runs alone holds when they run together.    *)
(* `part' is the one that runs; the others rest, and of those that rest    *)
(* nothing is asked.                                                       *)
EXTENDS Bridge, ConfigStore, Flasher

CONSTANT a

OneInverter == <<a>>

VARIABLE part

Init ==
  /\ part \in {"bridge", "config", "flasher"}
  /\ BridgeInit /\ ConfigInit /\ FlasherInit
  /\ part # "config" => ~file.exists

BridgePart  == part = "bridge" /\ BridgeNext /\ UNCHANGED <<configVars, flasherVars, part>>
ConfigPart  == part = "config" /\ ConfigNext /\ UNCHANGED <<bridgeVars, flasherVars, part>>
FlasherPart == part = "flasher" /\ FlasherNext /\ UNCHANGED <<bridgeVars, configVars, part>>

Next == BridgePart \/ ConfigPart \/ FlasherPart

vars == <<bridgeVars, configVars, flasherVars, part>>

(* The fairness of each part, asked of it while it runs. *)
Spec ==
  /\ Init /\ [][Next]_vars
  /\ WF_vars(part = "flasher" /\ HostStep /\ UNCHANGED <<bridgeVars, configVars, part>>)
  /\ WF_vars(part = "config" /\ DaemonStep /\ UNCHANGED <<bridgeVars, flasherVars, part>>)
  /\ \A t \in Handlers :
       WF_vars(part = "config" /\ ServerStep(t) /\ UNCHANGED <<bridgeVars, flasherVars, part>>)

TypeOK == BridgeTypeOK /\ ConfigTypeOK /\ FlasherTypeOK
=============================================================================
