------------------------------ MODULE MCDaemon ------------------------------
(* Instances of Daemon for TLC. *)
EXTENDS Daemon

CONSTANTS i1, i2

(* What the web UI may save: an edit can switch every inverter off ... *)
AllOrNothing == {{}, {i1, i2}}

(* ... or leave at least one of them on, or never happens. *)
FirstStaysOn == {{i1}, {i1, i2}}
AllOn        == {{i1, i2}}

(* Every inverter sees the sun on its own, or all of them at once. *)
AnySubset    == SUBSET Inverters
AllAtOnce    == AllOrNothing

(* A healthy dongle may lose as many pongs as it takes to be given up. *)
MCPongLoss == MaxMissedPings + MaxRecoveries

(* The history of silent cycles saturates right above the largest number   *)
(* a property compares it with.                                            *)
MCSilenceCap == MaxNoReplyCycles + MaxHealAttempts
=============================================================================
