---------------------------- MODULE DaemonProofs ----------------------------
(***************************************************************************)
(* Proofs about Daemon, for every set of inverters, every threshold and    *)
(* every number of faults.  TypeInvariant is TypeOK alone; Evidence adds   *)
(* what each place of the loop knows of the watchdog's and the RF          *)
(* self-heal's counters, without which neither RecoveriesBehindMisses nor  *)
(* HealsBehindSilence is inductive.                                        *)
(***************************************************************************)
EXTENDS Daemon, TLAPS

USE DaemonAssumption DEF DaemonAssumption

(* TypeOK holds when a process starts. *)
LEMMA InitTypeOK == Init => TypeOK
<1> SUFFICES ASSUME Init PROVE TypeOK
  OBVIOUS
<1>1. awake \in AwakeChoices
  BY DEF Init
<1>2. ProbeAttempts >= 1 /\ 1 \in 1..ProbeAttempts
  OBVIOUS
<1>3. /\ consecutive_recoveries \in 0..MaxRecoveries
      /\ dwell \in 0..MinPhaseCycles
      /\ faults \in 0..MaxFaults
      /\ silent \in 0..SilenceCap
      /\ attempt \in 1..ProbeAttempts
  BY <1>2 DEF Init, ProcessStart
<1> QED
  BY <1>1, <1>3 DEF Init, ProcessStart, TypeOK, PC

(* The types apart from the flag `unbooked`. *)
PlainTypes ==
  /\ pc \in PC /\ stop \in BOOLEAN /\ attempt \in 1..ProbeAttempts
  /\ current \subseteq Inverters /\ toPoll \subseteq current /\ decoded \subseteq current
  /\ missed_pings \in Nat /\ consecutive_recoveries \in 0..MaxRecoveries
  /\ no_reply_cycles \in Nat /\ rf_heal_attempts \in Nat
  /\ enabled \in EnabledChoices /\ awake \in AwakeChoices
  /\ daytime \in BOOLEAN /\ dwell \in 0..MinPhaseCycles
  /\ fault \in Faults \cup {"none"} /\ faults \in 0..MaxFaults
  /\ silent \in 0..SilenceCap

(* Every step of main() keeps the types. *)
LEMMA DaemonTypeOK ==
  ASSUME TypeOK, consecutive_recoveries < MaxRecoveries \/ pc = "exited2", DaemonStep
  PROVE  TypeOK'
<1> USE DEF TypeOK, cycVars, wdVars, rfVars, envVars, PC
<1>1. CASE Open
  BY <1>1 DEF Open, Reopened, Raise, Faults
<1>2. CASE StopAtHead
  BY <1>2 DEF StopAtHead
<1>3. CASE Probe
  BY <1>3 DEF Probe, Raise
<1>4. CASE ProbeOpen
  BY <1>4 DEF ProbeOpen, Reopened, Raise, Faults
<1>5. CASE Recover
  BY <1>5 DEF Recover
<1>6. CASE StopInSession
  BY <1>6 DEF StopInSession
<1>7. CASE BeginCycle
  BY <1>7 DEF BeginCycle, Snapshot
<1>8. ASSUME NEW i \in Inverters, PollInverter(i) PROVE TypeOK'
  <2>1. unbooked' \in BOOLEAN
    BY <1>8 DEF PollInverter
  <2>2. PlainTypes'
    BY <1>8 DEF PollInverter, Raise, PlainTypes
  <2>. QED  BY <2>1, <2>2 DEF PlainTypes
<1>9. CASE Ping
  BY <1>9 DEF Ping, PingFails, Raise, Faults
<1>10. CASE Bounce
  BY <1>10 DEF Bounce, GiveUp
<1>11. CASE NotStalled
  BY <1>11 DEF NotStalled
<1>12. CASE RfHeal
  <2>1. unbooked' \in BOOLEAN
    BY <1>12 DEF RfHeal
  <2>2. PlainTypes'
    BY <1>12 DEF RfHeal, HealDue, EndCycle, PlainTypes
  <2>. QED  BY <2>1, <2>2 DEF PlainTypes
<1>13. CASE HealOpen
  BY <1>13 DEF HealOpen, Reopened, Raise, Escalate, NightReset, Faults
<1> QED
  BY <1>1, <1>2, <1>3, <1>4, <1>5, <1>6, <1>7, <1>8, <1>9, <1>10, <1>11,
     <1>12, <1>13 DEF DaemonStep

(* Every step of the environment keeps the types. *)
LEMMA EnvironmentTypeOK ==
  ASSUME TypeOK, EnvironmentStep
  PROVE  TypeOK'
<1> USE DEF TypeOK, cycVars, wdVars, rfVars, envVars, PC
<1>1. CASE Restart
  <2>1. unbooked' \in BOOLEAN
    BY <1>1 DEF Restart
  <2>2. PlainTypes'
    BY <1>1 DEF Restart, Faults, PlainTypes
  <2>. QED  BY <2>1, <2>2 DEF PlainTypes
<1>2. CASE Sigterm
  BY <1>2 DEF Sigterm
<1>3. CASE Replug
  BY <1>3 DEF Replug
<1>4. CASE ClockTurns
  BY <1>4 DEF ClockTurns
<1>5. CASE SunChanges
  BY <1>5 DEF SunChanges
<1>6. CASE EditInverters
  BY <1>6 DEF EditInverters
<1>7. ASSUME NEW f \in FaultKinds, Fail(f) PROVE TypeOK'
  BY <1>7 DEF Fail, Faults
<1> QED
  BY <1>1, <1>2, <1>3, <1>4, <1>5, <1>6, <1>7 DEF EnvironmentStep

-----------------------------------------------------------------------------
(* What the loop knows of the watchdog's counters.  Between the ping and   *)
(* the stall check the missed pings are already one ahead.                 *)
WatchdogEvidence ==
  /\ consecutive_recoveries < MaxRecoveries \/ pc = "exited2"
  /\ RecoveriesBehindMisses
  /\ (pc = "stalled" /\ consecutive_recoveries > 0) =>
        missed_pings >= MaxMissedPings + consecutive_recoveries

(* What the loop knows of the RF self-heal's counters.  An in-place open   *)
(* that fails leaves no_reply_cycles where it is, so the next attempt may  *)
(* come one cycle later: silent still covers it.  A decode that is not     *)
(* booked takes the cover away until the next one that is.                 *)
HealEvidence ==
  /\ unbooked \/ silent = SilenceCap \/ silent >= no_reply_cycles
  /\ HealsBehindSilence

Evidence == TypeOK /\ WatchdogEvidence /\ HealEvidence

LEMMA InitEvidence == Init => Evidence
  BY InitTypeOK DEF Init, ProcessStart, Evidence, WatchdogEvidence, HealEvidence,
                    RecoveriesBehindMisses, HealsBehindSilence

(* The watchdog's evidence survives every step of main(). *)
LEMMA DaemonWatchdog ==
  ASSUME TypeOK, WatchdogEvidence, DaemonStep
  PROVE  WatchdogEvidence'
<1> USE DEF TypeOK, WatchdogEvidence, RecoveriesBehindMisses, wdVars, cycVars, rfVars, envVars
<1>1. CASE Open
  BY <1>1 DEF Open, Raise
<1>2. CASE StopAtHead
  BY <1>2 DEF StopAtHead
<1>3. CASE Probe
  BY <1>3 DEF Probe, Raise
<1>4. CASE ProbeOpen
  BY <1>4 DEF ProbeOpen, Raise
<1>5. CASE Recover
  BY <1>5 DEF Recover
<1>6. CASE StopInSession
  BY <1>6 DEF StopInSession
<1>7. CASE BeginCycle
  BY <1>7 DEF BeginCycle
<1>8. ASSUME NEW i \in Inverters, PollInverter(i) PROVE WatchdogEvidence'
  BY <1>8 DEF PollInverter, Raise
<1>9. CASE Ping
  BY <1>9 DEF Ping, PingFails, Raise, Faults
<1>10. CASE Bounce
  BY <1>10 DEF Bounce, GiveUp, CheckStalled
<1>11. CASE NotStalled
  BY <1>11 DEF NotStalled
<1>12. CASE RfHeal
  BY <1>12 DEF RfHeal
<1>13. CASE HealOpen
  BY <1>13 DEF HealOpen, Raise
<1> QED
  BY <1>1, <1>2, <1>3, <1>4, <1>5, <1>6, <1>7, <1>8, <1>9, <1>10, <1>11,
     <1>12, <1>13 DEF DaemonStep

(* So does the RF self-heal's: only a decode, RfHeal and HealOpen touch it. *)
LEMMA DaemonHeal ==
  ASSUME TypeOK, HealEvidence, DaemonStep
  PROVE  HealEvidence'
<1> USE DEF TypeOK, HealEvidence, HealsBehindSilence
<1>1. CASE UNCHANGED rfVars
  BY <1>1 DEF rfVars
<1>2. CASE RfHeal
  BY <1>2 DEF RfHeal, HealDue, rfVars
<1>3. CASE HealOpen
  BY <1>3 DEF HealOpen, Escalate, NightReset
<1>4. ASSUME NEW i \in Inverters, PollInverter(i) PROVE HealEvidence'
  <2>1. UNCHANGED rfVars \/ unbooked' = TRUE
    BY <1>4 DEF PollInverter
  <2>2. CASE UNCHANGED rfVars
    BY <1>1, <2>2
  <2>3. CASE unbooked' = TRUE
    BY <2>3
  <2>. QED  BY <2>1, <2>2, <2>3
<1> QED
  BY <1>1, <1>2, <1>3, <1>4 DEF DaemonStep, Open, StopAtHead, Probe, ProbeOpen, Recover,
     StopInSession, BeginCycle, Ping, Bounce, NotStalled

(* The environment touches no counter; a restart resets them all. *)
LEMMA EnvironmentEvidence ==
  ASSUME TypeOK, WatchdogEvidence, HealEvidence, EnvironmentStep
  PROVE  WatchdogEvidence' /\ HealEvidence'
<1> USE DEF TypeOK, WatchdogEvidence, HealEvidence, RecoveriesBehindMisses,
            HealsBehindSilence, wdVars, rfVars
<1>1. CASE Restart
  BY <1>1 DEF Restart
<1>2. CASE UNCHANGED <<pc, wdVars, rfVars>>
  BY <1>2
<1> QED
  BY <1>1, <1>2 DEF EnvironmentStep, Sigterm, Replug, ClockTurns, SunChanges,
                    EditInverters, Fail

LEMMA NextEvidence == Evidence /\ [Next]_vars => Evidence'
<1> SUFFICES ASSUME Evidence, [Next]_vars PROVE Evidence'
  OBVIOUS
<1> USE DEF Evidence
<1>1. CASE DaemonStep
  BY <1>1, DaemonTypeOK, DaemonWatchdog, DaemonHeal DEF WatchdogEvidence
<1>2. CASE EnvironmentStep
  BY <1>2, EnvironmentTypeOK, EnvironmentEvidence
<1>3. CASE UNCHANGED vars
  BY <1>3 DEF vars, cycVars, wdVars, rfVars, envVars, TypeOK, WatchdogEvidence,
              HealEvidence, RecoveriesBehindMisses, HealsBehindSilence
<1> QED
  BY <1>1, <1>2, <1>3 DEF Next

(* The evidence is an invariant of the daemon. *)
THEOREM EvidenceInvariant == Spec => []Evidence
  BY InitEvidence, NextEvidence, PTL DEF Spec

(* Type correctness. *)
THEOREM TypeInvariant == Spec => []TypeOK
<1>1. Evidence => TypeOK
  BY DEF Evidence
<1> QED
  BY <1>1, EvidenceInvariant, PTL

(* The watchdog's k-th recovery in a row rests on MaxMissedPings + k - 1   *)
(* unanswered pings in a row.                                              *)
THEOREM WatchdogTheorem == Spec => []RecoveriesBehindMisses
<1>1. Evidence => RecoveriesBehindMisses
  BY DEF Evidence, WatchdogEvidence
<1> QED
  BY <1>1, EvidenceInvariant, PTL

(* The RF self-heal's k-th attempt rests on MaxNoReplyCycles + k - 1       *)
(* cycles without telemetry since the last decode, even when in-place      *)
(* opens fail, unless a decode went by that the self-heal never heard of.  *)
THEOREM HealTheorem == Spec => []HealsBehindSilence
<1>1. Evidence => HealsBehindSilence
  BY DEF Evidence, HealEvidence
<1> QED
  BY <1>1, EvidenceInvariant, PTL

-----------------------------------------------------------------------------
(* The exit condition of RestartJustified. *)
Justified ==
  (pc # "exited2" /\ pc' = "exited2") =>
    \/ missed_pings >= MaxMissedPings + MaxRecoveries - 1
    \/ daytime /\ (unbooked \/ silent >= MaxNoReplyCycles + MaxHealAttempts - 1)

(* Only two steps leave the process with `return 2`, and both are covered  *)
(* by the evidence.                                                        *)
LEMMA StepJustified == Evidence /\ [Next]_vars => [Justified]_vars
<1> SUFFICES ASSUME Evidence, Next PROVE Justified
  OBVIOUS
<1> USE DEF Justified, Evidence, TypeOK
<1>1. CASE Bounce
  BY <1>1 DEF Bounce, GiveUp, CheckStalled, WatchdogEvidence
<1>2. CASE HealOpen
  BY <1>2 DEF HealOpen, Escalate, HealEvidence, HealsBehindSilence, Raise
<1>3. CASE EnvironmentStep
  BY <1>3 DEF EnvironmentStep, Restart, Sigterm, Replug, ClockTurns, SunChanges,
              EditInverters, Fail
<1>4. CASE DaemonStep /\ ~Bounce /\ ~HealOpen
  <2>1. pc' # "exited2" \/ pc' = pc
    BY <1>4 DEF DaemonStep, Open, StopAtHead, Probe, ProbeOpen, Recover, StopInSession,
                BeginCycle, PollInverter, Ping, NotStalled, RfHeal, Raise
  <2> QED
    BY <2>1
<1> QED
  BY <1>1, <1>2, <1>3, <1>4 DEF Next

(* The daemon never gives its process up without that evidence, or, by     *)
(* day, after a decode that the self-heal never heard of.                  *)
THEOREM RestartTheorem == Spec => RestartJustified
<1>1. Spec => [][Justified]_vars
  BY EvidenceInvariant, StepJustified, PTL DEF Spec
<1> QED
  BY <1>1 DEF RestartJustified, Justified
=============================================================================
