------------------------------- MODULE Daemon -------------------------------
(***************************************************************************)
(* The supervision loop of host/aps_unified_daemon.py: main() opens the    *)
(* dongle, probes the radio, then runs poll cycles; after each cycle a     *)
(* watchdog pings the dongle and an RF self-heal counts cycles without any *)
(* telemetry.  Both escalate to `return 2`, after which the supervisor     *)
(* (systemd Restart=always, docker restart: unless-stopped) starts a new   *)
(* process.                                                                *)
(*                                                                         *)
(* The program counter names the places of main() between which the        *)
(* environment can act: the dongle fails or is plugged back in, inverters  *)
(* fall asleep and wake, the local clock enters and leaves the daytime     *)
(* window, the web UI edits inverters.json, SIGTERM arrives.               *)
(***************************************************************************)
EXTENDS Naturals

CONSTANTS
  Inverters,         \* the inverters inverters.json can list
  Undecodable,       \* those whose family has no entry in DECODERS
  MaxMissedPings,    \* WATCHDOG_MAX_MISSED_PINGS
  MaxRecoveries,     \* WATCHDOG_MAX_RECOVERIES
  MaxNoReplyCycles,  \* MAX_NO_REPLY_CYCLES_BEFORE_HEAL
  MaxHealAttempts,   \* MAX_RF_HEAL_ATTEMPTS
  ProbeAttempts,     \* the 3 of range(1, 4) in the startup self-heal
  FaultKinds,        \* the dongle faults the environment may cause
  MaxFaults,         \* bound: how many of them occur in a behaviour
  EnabledChoices,    \* the sets of enabled inverters the web UI may save
  AwakeChoices,      \* the sets of inverters that the sun may have awake
  ReplyLoss,         \* may a frame on the air be lost?
  PongLossCap,       \* bound: a dongle loses no pong with this many missed already
  MinPhaseCycles,    \* a day or a night outlasts this many cycles
  SilenceCap         \* bound: where the history of silent cycles saturates

(* "stuck": no answer to a ping.  "rxOff": answers, RX command not ACTIVE. *)
(* "deaf": answers, reports ACTIVE, demodulates nothing.  "gone": every    *)
(* use of the serial port raises.                                          *)
Faults == {"stuck", "rxOff", "deaf", "gone"}

ASSUME DaemonAssumption ==
  /\ Undecodable \subseteq Inverters
  /\ MaxMissedPings \in Nat \ {0}
  /\ MaxRecoveries \in Nat \ {0}
  /\ MaxNoReplyCycles \in Nat \ {0}
  /\ MaxHealAttempts \in Nat \ {0}
  /\ ProbeAttempts \in Nat \ {0}
  /\ FaultKinds \subseteq Faults
  /\ MaxFaults \in Nat
  /\ EnabledChoices \subseteq SUBSET Inverters
  /\ EnabledChoices # {}
  /\ AwakeChoices \subseteq SUBSET Inverters
  /\ AwakeChoices # {}
  /\ ReplyLoss \in BOOLEAN
  /\ PongLossCap \in Nat
  /\ MinPhaseCycles \in Nat
  /\ SilenceCap \in Nat
  /\ SilenceCap >= MaxNoReplyCycles + MaxHealAttempts

VARIABLES
  pc,                      \* where main() is
  stop,                    \* the flag _sig sets on SIGTERM / SIGINT
  attempt,                 \* the startup self-heal's loop variable
  current,                 \* enabled inverters of this cycle's snapshot
  toPoll,                  \* those of them not polled yet in this cycle
  decoded,                 \* those decoded in this cycle (cycle_telemetry)
  missed_pings,
  consecutive_recoveries,
  no_reply_cycles,
  rf_heal_attempts,
  enabled,                 \* environment: enabled inverters in inverters.json
  awake,                   \* environment: inverters that produce and answer
  daytime,                 \* environment: what _is_daytime() returns
  dwell,                   \* environment: cycles since the clock last turned
  fault,                   \* environment: the dongle's condition
  faults,                  \* environment: how many faults occurred so far
  silent,                  \* history: cycles closed without telemetry since the last decode
  unbooked                 \* history: a decode whose cycle did not reach the RF self-heal

wdVars  == <<missed_pings, consecutive_recoveries>>
rfVars  == <<no_reply_cycles, rf_heal_attempts, silent, unbooked>>
cycVars == <<current, toPoll, decoded>>
envVars == <<enabled, awake, daytime, dwell, faults>>
vars    == <<pc, stop, attempt, cycVars, wdVars, rfVars, envVars, fault>>

PC == {"open", "probe", "probeOpen", "cycle", "poll", "stalled", "heal",
       "healOpen", "crashed", "exited0", "exited2"}

TypeOK ==
  /\ pc \in PC
  /\ stop \in BOOLEAN
  /\ attempt \in 1..ProbeAttempts
  /\ current \subseteq Inverters
  /\ toPoll \subseteq current
  /\ decoded \subseteq current
  /\ missed_pings \in Nat
  /\ consecutive_recoveries \in 0..MaxRecoveries
  /\ no_reply_cycles \in Nat
  /\ rf_heal_attempts \in Nat
  /\ enabled \in EnabledChoices
  /\ awake \in AwakeChoices
  /\ daytime \in BOOLEAN
  /\ dwell \in 0..MinPhaseCycles
  /\ fault \in Faults \cup {"none"}
  /\ faults \in 0..MaxFaults
  /\ silent \in 0..SilenceCap
  /\ unbooked \in BOOLEAN

-----------------------------------------------------------------------------
(* A fresh process: main() up to its outer loop. *)

ProcessStart ==
  /\ pc = "open"
  /\ stop = FALSE
  /\ attempt = 1
  /\ current = {}
  /\ toPoll = {}
  /\ decoded = {}
  /\ missed_pings = 0
  /\ consecutive_recoveries = 0
  /\ no_reply_cycles = 0
  /\ rf_heal_attempts = 0
  /\ silent = 0
  /\ unbooked = FALSE

Init ==
  /\ ProcessStart
  /\ enabled \in EnabledChoices
  /\ daytime \in BOOLEAN
  /\ awake \in AwakeChoices
  /\ dwell = 0
  /\ fault = "none"
  /\ faults = 0

(* What a reset of the chip on Bridge.open() may leave behind: the fault   *)
(* is cured or it is not.  Nothing cures a port that is gone.              *)
Reopened == IF fault = "gone" THEN {} ELSE {"none", fault}

(* An answer of inverter i reaches the dongle and the dongle hears it. *)
Answers(i) == fault = "none" /\ i \in awake

(* The sets of inverters whose answer is received when those of S are      *)
(* polled: all that answer or, where frames are lost, any of them.         *)
Received(S) ==
  LET A == {i \in S : Answers(i)}
  IN  IF ReplyLoss THEN SUBSET A ELSE {A}

(* An exception that leaves the session for main()'s except clause. *)
Raise == pc' = "crashed"

-----------------------------------------------------------------------------
(* Outer loop. *)

(* The loop head, then _open_bridge(). *)
Open ==
  /\ pc = "open" /\ ~stop
  /\ \/ /\ fault' \in Reopened
        /\ pc' = "probe"
        /\ attempt' = 1
     \/ /\ Reopened = {}
        /\ Raise
        /\ UNCHANGED <<fault, attempt>>
  /\ UNCHANGED <<stop, cycVars, wdVars, rfVars, envVars>>

(* The loop head with the stop flag set: `return 0`. *)
StopAtHead ==
  /\ pc = "open" /\ stop
  /\ pc' = "exited0"
  /\ UNCHANGED <<stop, attempt, cycVars, wdVars, rfVars, envVars, fault>>

(* One _probe_rf() of the startup self-heal.  A reply of an inverter whose *)
(* family DECODERS does not know raises KeyError.                          *)
Probe ==
  /\ pc = "probe"
  /\ IF fault = "gone" THEN Raise
     ELSE \E R \in Received(enabled) :
            \/ R \cap Undecodable # {} /\ Raise
            \/ R \cap Undecodable = {} /\ R # {} /\ pc' = "cycle"
            \/ R = {} /\ pc' = "probeOpen"
  /\ UNCHANGED <<stop, attempt, cycVars, wdVars, rfVars, envVars, fault>>

(* No reply: close, re-open, try again, and proceed after the last one. *)
ProbeOpen ==
  /\ pc = "probeOpen"
  /\ \/ /\ fault' \in Reopened
        /\ IF attempt = ProbeAttempts
             THEN pc' = "cycle" /\ UNCHANGED attempt
             ELSE pc' = "probe" /\ attempt' = attempt + 1
     \/ /\ Reopened = {}
        /\ Raise
        /\ UNCHANGED <<fault, attempt>>
  /\ UNCHANGED <<stop, cycVars, wdVars, rfVars, envVars>>

(* The except clause: close, sleep 8 s, back to the loop head. *)
Recover ==
  /\ pc = "crashed"
  /\ pc' = "open"
  /\ UNCHANGED <<stop, attempt, cycVars, wdVars, rfVars, envVars, fault>>

-----------------------------------------------------------------------------
(* Inner loop: one poll cycle. *)

(* Mutant: the inner loop does not look at the flag. *)
StopIgnoredInSession ==
  /\ pc = "cycle" /\ stop
  /\ pc' = "poll"
  /\ toPoll' = current /\ decoded' = {}
  /\ UNCHANGED <<stop, attempt, current, wdVars, rfVars, envVars, fault>>

(* The inner loop's head with the stop flag set: close, outer loop head. *)
StopInSession ==
  /\ pc = "cycle" /\ stop
  /\ pc' = "open"
  /\ UNCHANGED <<stop, attempt, cycVars, wdVars, rfVars, envVars, fault>>

(* Mutant: the first list a process reads is never reloaded. *)
SnapshotCachedForEver == IF current = {} THEN enabled ELSE current

(* load_inverters(): the enabled inverters a cycle works from. *)
Snapshot == enabled

BeginCycle ==
  /\ pc = "cycle" /\ ~stop
  /\ pc' = "poll"
  /\ current' = Snapshot
  /\ toPoll' = Snapshot
  /\ decoded' = {}
  /\ UNCHANGED <<stop, attempt, wdVars, rfVars, envVars, fault>>

(* Poll one inverter and listen for its telemetry.  A decode counts as     *)
(* proof that the bridge is healthy; the RF self-heal's counters hear of   *)
(* it at the end of the cycle, if the cycle gets there.                    *)
PollInverter(i) ==
  /\ pc = "poll" /\ i \in toPoll
  /\ IF fault = "gone"
       THEN Raise /\ UNCHANGED <<toPoll, decoded, wdVars, rfVars>>
       ELSE \E R \in Received({i}) :
              \/ /\ R = {}
                 /\ toPoll' = toPoll \ {i}
                 /\ UNCHANGED <<pc, decoded, wdVars, rfVars>>
              \/ /\ R # {} /\ i \in Undecodable
                 /\ Raise
                 /\ UNCHANGED <<toPoll, decoded, wdVars, rfVars>>
              \/ /\ R # {} /\ i \notin Undecodable
                 /\ toPoll' = toPoll \ {i}
                 /\ decoded' = decoded \cup {i}
                 /\ consecutive_recoveries' = 0
                 /\ silent' = 0
                 /\ unbooked' = TRUE
                 /\ UNCHANGED <<pc, missed_pings, no_reply_cycles, rf_heal_attempts>>
  /\ UNCHANGED <<stop, attempt, current, envVars, fault>>

(* Mutant: any PONG will do, whatever RX status it carries. *)
PingFailsOnlyUnanswered == fault = "stuck"

(* ping_with_reply() is None, or its RX command status is not ACTIVE. *)
PingFails == fault \in {"stuck", "rxOff"}

(* ping_with_reply() after the last poll, then write_status().  A healthy  *)
(* dongle may miss the deadline as well.                                   *)
Ping ==
  /\ pc = "poll" /\ toPoll = {}
  /\ \/ /\ fault = "gone"
        /\ Raise
        /\ UNCHANGED wdVars
     \/ /\ PingFails \/ (fault # "gone" /\ missed_pings < PongLossCap)
        /\ pc' = "stalled"
        /\ missed_pings' = missed_pings + 1
        /\ UNCHANGED consecutive_recoveries
     \/ /\ fault # "gone" /\ ~PingFails
        /\ pc' = "stalled"
        /\ missed_pings' = 0
        /\ consecutive_recoveries' = 0
  /\ UNCHANGED <<stop, attempt, cycVars, rfVars, envVars, fault>>

(* Mutant: stalled one missed ping too early. *)
CheckStalledEarly == missed_pings >= MaxMissedPings - 1

(* _check_stalled() *)
CheckStalled == missed_pings >= MaxMissedPings

(* Mutant: gives up one recovery too late. *)
GiveUpLate == consecutive_recoveries' > MaxRecoveries

GiveUp == consecutive_recoveries' >= MaxRecoveries

(* A stalled dongle: bounce it by leaving the session, or give up. *)
Bounce ==
  /\ pc = "stalled" /\ CheckStalled
  /\ consecutive_recoveries' = consecutive_recoveries + 1
  /\ pc' = IF GiveUp THEN "exited2" ELSE "open"
  /\ UNCHANGED <<stop, attempt, cycVars, missed_pings, rfVars, envVars, fault>>

NotStalled ==
  /\ pc = "stalled" /\ ~CheckStalled
  /\ pc' = "heal"
  /\ UNCHANGED <<stop, attempt, cycVars, wdVars, rfVars, envVars, fault>>

(* The clock advances with the cycles: what bounds how fast it turns. *)
EndCycle ==
  /\ dwell' = IF dwell < MinPhaseCycles THEN dwell + 1 ELSE dwell
  /\ UNCHANGED <<enabled, awake, daytime, faults>>

(* Mutant: the comparison is off by one. *)
HealDueEarly == no_reply_cycles' + 1 >= MaxNoReplyCycles

HealDue == no_reply_cycles' >= MaxNoReplyCycles

(* The RF self-heal's bookkeeping; short of the threshold the cycle ends   *)
(* with its sleep.                                                         *)
RfHeal ==
  /\ pc = "heal"
  /\ IF current # {} /\ decoded = {}
       THEN /\ no_reply_cycles' = no_reply_cycles + 1
            /\ silent' = IF silent < SilenceCap THEN silent + 1 ELSE silent
            /\ UNCHANGED unbooked
            /\ IF HealDue
                 THEN /\ rf_heal_attempts' = rf_heal_attempts + 1
                      /\ pc' = "healOpen"
                 ELSE pc' = "cycle" /\ UNCHANGED rf_heal_attempts
       ELSE /\ pc' = "cycle"
            /\ IF decoded # {}
                 THEN /\ no_reply_cycles' = 0 /\ rf_heal_attempts' = 0
                      /\ silent' = 0 /\ unbooked' = FALSE
                 ELSE UNCHANGED rfVars
  /\ EndCycle
  /\ UNCHANGED <<stop, attempt, cycVars, wdVars, fault>>

Escalate == daytime /\ rf_heal_attempts >= MaxHealAttempts

(* Mutant: a bounce starts the count anew by day as well. *)
NightResetAlways == TRUE

(* At night never escalate: the count starts anew with each bounce. *)
NightReset == ~daytime

(* The in-place bounce, and after it the daytime escalation. *)
HealOpen ==
  /\ pc = "healOpen"
  /\ \/ /\ fault' \in Reopened
        /\ no_reply_cycles' = 0
        /\ pc' = IF Escalate THEN "exited2" ELSE "cycle"
        /\ rf_heal_attempts' = IF Escalate \/ NightReset THEN 0 ELSE rf_heal_attempts
     \/ /\ Reopened = {}
        /\ Raise
        /\ UNCHANGED <<fault, no_reply_cycles, rf_heal_attempts>>
  /\ UNCHANGED <<stop, attempt, cycVars, wdVars, silent, unbooked, envVars>>

-----------------------------------------------------------------------------
(* The environment. *)

(* The supervisor starts the process again after `return 2`: a fresh USB   *)
(* session, which cures whatever the dongle suffered from unless it is     *)
(* unplugged.                                                              *)
Restart ==
  /\ pc = "exited2" /\ ~stop
  /\ pc' = "open"
  /\ attempt' = 1
  /\ current' = {} /\ toPoll' = {} /\ decoded' = {}
  /\ missed_pings' = 0 /\ consecutive_recoveries' = 0
  /\ no_reply_cycles' = 0 /\ rf_heal_attempts' = 0
  /\ silent' = 0 /\ unbooked' = FALSE
  /\ fault' = IF fault = "gone" THEN "gone" ELSE "none"
  /\ UNCHANGED <<stop, envVars>>

(* SIGTERM or SIGINT. *)
Sigterm ==
  /\ ~stop /\ pc \notin {"exited0", "exited2"}
  /\ stop' = TRUE
  /\ UNCHANGED <<pc, attempt, cycVars, wdVars, rfVars, envVars, fault>>

(* The dongle fails between two steps of the daemon. *)
Fail(f) ==
  /\ faults < MaxFaults /\ fault = "none" /\ f \in FaultKinds
  /\ fault' = f
  /\ faults' = faults + 1
  /\ UNCHANGED <<pc, stop, attempt, cycVars, wdVars, rfVars,
                 enabled, awake, daytime, dwell>>

(* The port comes back.  A session that still holds the old port does not  *)
(* see the new one: its next use of the port raises.                       *)
Replug ==
  /\ fault = "gone"
  /\ pc \in {"open", "probeOpen", "healOpen", "crashed", "exited0", "exited2"}
  /\ fault' = "none"
  /\ UNCHANGED <<pc, stop, attempt, cycVars, wdVars, rfVars, envVars>>

(* The local time enters or leaves [DAY_HOUR_START, DAY_HOUR_END). *)
ClockTurns ==
  /\ dwell >= MinPhaseCycles
  /\ daytime' = ~daytime
  /\ dwell' = 0
  /\ UNCHANGED <<pc, stop, attempt, cycVars, wdVars, rfVars, fault,
                 enabled, awake, faults>>

(* Dawn, dusk or a passing cloud: the sun does not keep to [6, 22). *)
SunChanges ==
  /\ awake' \in AwakeChoices /\ awake' # awake
  /\ UNCHANGED <<pc, stop, attempt, cycVars, wdVars, rfVars, fault,
                 enabled, daytime, dwell, faults>>

(* The web UI writes inverters.json. *)
EditInverters ==
  /\ enabled' \in EnabledChoices /\ enabled' # enabled
  /\ UNCHANGED <<pc, stop, attempt, cycVars, wdVars, rfVars, fault,
                 awake, daytime, dwell, faults>>

-----------------------------------------------------------------------------
DaemonStep ==
  \/ Open \/ StopAtHead \/ Probe \/ ProbeOpen \/ Recover
  \/ StopInSession \/ BeginCycle
  \/ \E i \in Inverters : PollInverter(i)
  \/ Ping \/ Bounce \/ NotStalled \/ RfHeal \/ HealOpen

EnvironmentStep ==
  \/ Restart \/ Sigterm \/ Replug \/ ClockTurns \/ SunChanges \/ EditInverters
  \/ \E f \in FaultKinds : Fail(f)

Next == DaemonStep \/ EnvironmentStep

Spec == Init /\ [][Next]_vars

(* main() never blocks for ever: every wait in it has a deadline.  The     *)
(* supervisor restarts the process (RestartSec=4), and a port that is gone *)
(* comes back.  Nothing else the environment does is fair.                 *)
FairSpec ==
  /\ Spec
  /\ WF_vars(DaemonStep)
  /\ WF_vars(Restart)
  /\ WF_vars(Replug)

-----------------------------------------------------------------------------
(* Properties. *)

(* The watchdog's escalation counter never runs ahead of the evidence: the *)
(* k-th consecutive recovery rests on at least MaxMissedPings + k - 1 pings *)
(* in a row without an answer that says ACTIVE.  A decode may reset the    *)
(* counter alone, a pong resets both.                                      *)
RecoveriesBehindMisses ==
  consecutive_recoveries > 0 =>
    missed_pings >= MaxMissedPings + consecutive_recoveries - 1

(* The same for the RF self-heal: the k-th attempt rests on at least       *)
(* MaxNoReplyCycles + k - 1 cycles closed without telemetry since the last *)
(* decode, however often the in-place open failed.  The one exception is a *)
(* decode that the self-heal never heard of, because its cycle left by the *)
(* watchdog's bounce, a KeyError or an OSError: no_reply_cycles and        *)
(* rf_heal_attempts then still hold what they held before it.              *)
HealsBehindSilence ==
  (rf_heal_attempts > 0 /\ ~unbooked) =>
    \/ silent = SilenceCap
    \/ silent >= MaxNoReplyCycles + rf_heal_attempts - 1

(* The daemon gives its process up (`return 2`) only for one of three      *)
(* reasons: MaxMissedPings + MaxRecoveries - 1 unanswered pings in a row;  *)
(* by day, MaxNoReplyCycles + MaxHealAttempts - 1 cycles closed without    *)
(* telemetry since the last decode; or, by day, fewer of them after a      *)
(* decode that the self-heal never heard of.                               *)
RestartJustified ==
  [][(pc # "exited2" /\ pc' = "exited2") =>
       \/ missed_pings >= MaxMissedPings + MaxRecoveries - 1
       \/ daytime /\ (unbooked \/ silent >= MaxNoReplyCycles + MaxHealAttempts - 1)]_vars

(* A site whose dongle never fails is never restarted: "Survives sunset -> *)
(* sunrise silent windows without false alarms" (README.md).  The window   *)
(* in which the self-heal may escalate is [6, 22) by the local clock.      *)
NoNeedlessRestart == pc = "exited2" => faults > 0

(* A dongle whose fault a ping can see does not stay that way: some bounce *)
(* or the process restart cures it, day or night.                          *)
PingFaultCured ==
  fault \in {"stuck", "rxOff"} ~> (fault \notin {"stuck", "rxOff"} \/ stop)

(* A deaf dongle, which no ping can see, is cured as long as it is day and *)
(* there is an inverter to poll.                                           *)
DeafCuredByDay ==
  (fault = "deaf" /\ daytime) ~>
    (fault # "deaf" \/ ~daytime \/ enabled = {} \/ stop)

(* With a healthy dongle, every enabled inverter that is awake is decoded  *)
(* sooner or later: no crash, bounce or restart loop starves it.           *)
EveryInverterServed ==
  \A i \in Inverters :
    (i \in enabled /\ Answers(i)) ~>
      (i \in decoded \/ i \notin enabled \/ ~Answers(i) \/ stop)

(* SIGTERM ends the process, wherever in main() it finds it. *)
StopTerminates == stop ~> pc \in {"exited0", "exited2"}
=============================================================================
