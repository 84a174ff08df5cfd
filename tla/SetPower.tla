------------------------------ MODULE SetPower ------------------------------
(***************************************************************************)
(* The set_max_power command from the dashboard's form to the read-back:   *)
(* the range check of api_action_post() (host/webui/server.py), the floor, *)
(* the calibration offset, the frames and the query of                     *)
(* process_pending_actions() (host/aps_unified_daemon.py), with the        *)
(* arithmetic of the frame builders and of decode_setpower_query().  The   *)
(* queue that carries commands is ActionQueue's; here one command at a     *)
(* time goes through, while the offset may be edited.                      *)
(***************************************************************************)
EXTENDS Integers, FiniteSetsExt

CONSTANTS
  Requested,      \* watts that may be asked for: a form, or a file written by hand
  Offsets,    \* "calib" values a user may save, -300..300
  MaxEdits    \* bound: edits of the offset

Families == {"YC600", "QS1", "DS3"}

(* ACTION_MIN_W, the same as MIN_MAX_POWER_W of the daemon; ACTION_MAX_W.  *)
Floor   == [YC600 |->  50, QS1 |->  50, DS3 |-> 100]
Ceiling == [YC600 |-> 700, QS1 |-> 400, DS3 |-> 800]

ASSUME SetPowerAssumption ==
  /\ Requested \subseteq Nat /\ Offsets \subseteq -300..300 /\ MaxEdits \in Nat

Word == 65536  \* the value is sent in 16 bits
Unreadable == 999  \* inverters.json while a save has it truncated: no offset

VARIABLES
  calib,      \* the inverter's offset in inverters.json
  edits,      \* edits so far
  command,    \* the command: family, watts, and whether the form checked it
  stage,      \* where process_pending_actions() is with it
  effective,  \* the watts to send
  channels,   \* throttle frames still to send
  sent,       \* history: [channel, value] of those that were sent
  pending,    \* the inverter: values received and not yet latched
  programmed, \* the inverter: the value its channels are throttled to
  result,     \* what is recorded; history: was the reply the query's own?
  heldCalib   \* history: the offsets that held since the command was taken

setPowerVars == <<calib, edits, command, stage, effective, channels, sent,
                  pending, programmed, result, heldCalib>>

NoResult == [ok |-> FALSE, accepted |-> FALSE, own |-> FALSE]

SetPowerTypeOK ==
  /\ calib \in Offsets \cup {0, Unreadable} /\ edits \in 0..MaxEdits
  /\ command \in [family : Families, watts : Requested, checked : BOOLEAN]
  /\ stage \in {"queued", "calib", "throttle", "nonsense", "query", "done"}
  /\ effective \in Int
  /\ channels \subseteq {1, 2}
  /\ sent \subseteq [channel : {1, 2}, value : 0..(Word - 1)]
  /\ pending \subseteq 0..(Word - 1) /\ programmed \in 0..(Word - 1)
  /\ result \in [ok : BOOLEAN, accepted : BOOLEAN, own : BOOLEAN]
  /\ heldCalib \subseteq Offsets \cup {0, Unreadable}

(* api_action_post(): what passes the form is in range. *)
InRange(f, w) == Floor[f] <= w /\ w <= Ceiling[f]

-----------------------------------------------------------------------------
(* Mutant: the value is not cut to 16 bits. *)
ValueUncut(f, w) == (w * (IF f = "DS3" THEN 1659 ELSE 2889)) \div 100

(* Arithmetic.  Watts per unit: 28.89 and 16.59, in hundredths; int()      *)
(* truncates, and only the low 16 bits are sent.                           *)
Factor(f) == IF f = "DS3" THEN 1659 ELSE 2889
Value(f, w) == ((w * Factor(f)) \div 100) % Word

(* decode_setpower_query(), rounded down. *)
Watts(f, v) == (v * 100) \div Factor(f)

Distance(a, b) == IF a < b THEN b - a ELSE a - b

Offset(c) == IF c = Unreadable THEN 0 ELSE c

(* Mutant: no lower limit after the offset. *)
EffectiveUnlimited(w, c) == w + Offset(c)

Effective(w, c) == Max({10, w + Offset(c)})

-----------------------------------------------------------------------------
SetPowerInit ==
  /\ calib = 0 /\ edits = 0
  /\ command \in {c \in [family : Families, watts : Requested, checked : BOOLEAN] :
                    c.checked => InRange(c.family, c.watts)}
  /\ stage = "queued" /\ effective = 0 /\ channels = {} /\ sent = {}
  /\ pending = {} /\ programmed = Value(command.family, Ceiling[command.family])
  /\ result = NoResult /\ heldCalib = {}

CalibBecomes(c) ==
  /\ calib' = c
  /\ heldCalib' = IF stage = "calib" THEN heldCalib \cup {c} ELSE heldCalib
  /\ UNCHANGED <<command, stage, effective, channels, sent, pending, programmed, result>>

(* api_inverters_put(): truncated, then written. *)
EditOpen ==
  /\ calib # Unreadable /\ edits < MaxEdits /\ edits' = edits + 1
  /\ CalibBecomes(Unreadable)

EditWrite == calib = Unreadable /\ (\E c \in Offsets : CalibBecomes(c)) /\ UNCHANGED edits

(* The command is taken; below the floor it is refused. *)
Take ==
  /\ stage = "queued"
  /\ heldCalib' = {calib}
  /\ stage' = IF command.watts < Floor[command.family] THEN "done" ELSE "calib"
  /\ UNCHANGED <<calib, edits, command, effective, channels, sent, pending,
                 programmed, result>>

(* inverter_calib(); the DS3 takes a frame for each of its channels. *)
ReadCalib ==
  /\ stage = "calib"
  /\ effective' = Effective(command.watts, calib)
  /\ channels' = IF command.family = "DS3" THEN {1, 2} ELSE {1}
  /\ stage' = "throttle"
  /\ UNCHANGED <<calib, edits, command, sent, pending, programmed, result, heldCalib>>

(* build_setpower_*() and tx_frame(): the inverter receives it or not.     *)
Throttle ==
  /\ stage = "throttle"
  /\ LET ch == Min(channels)
         v  == Value(command.family, effective)
     IN  /\ sent' = sent \cup {[channel |-> ch, value |-> v]}
         /\ pending' \in {pending, pending \cup {v}}
         /\ channels' = channels \ {ch}
  /\ stage' = IF channels' = {} THEN "nonsense" ELSE "throttle"
  /\ UNCHANGED <<calib, edits, command, effective, programmed, result, heldCalib>>

(* build_setpower_nonsense(): an inverter that hears it may latch. *)
Nonsense ==
  /\ stage = "nonsense" /\ stage' = "query"
  /\ programmed' \in {programmed} \cup pending
  /\ UNCHANGED <<calib, edits, command, effective, channels, sent, pending,
                 result, heldCalib>>

(* build_query() and _collect_reply(): no reply, or the longest frame of   *)
(* that inverter in the window.  If it is the query's own it tells the     *)
(* programmed value, which is accepted within 10 W of what was sent; any   *)
(* other frame is decoded all the same, to whatever its bytes say.         *)
Query ==
  /\ stage = "query" /\ stage' = "done"
  /\ result' \in {r \in [ok : {TRUE}, accepted : BOOLEAN, own : BOOLEAN] :
                   (r.accepted /\ r.own) =>
                     Distance(Watts(command.family, programmed), effective) <= 10}
  /\ UNCHANGED <<calib, edits, command, effective, channels, sent, pending,
                 programmed, heldCalib>>

(* tx_frame() or poll() raises: recorded with ok = FALSE. *)
PortFails ==
  /\ stage \in {"throttle", "nonsense", "query"}
  /\ stage' = "done"
  /\ UNCHANGED <<calib, edits, command, effective, channels, sent, pending,
                 programmed, result, heldCalib>>

SetPowerNext ==
  \/ EditOpen \/ EditWrite
  \/ Take \/ ReadCalib \/ Throttle \/ Nonsense \/ Query \/ PortFails

SetPowerSpec == SetPowerInit /\ [][SetPowerNext]_setPowerVars

-----------------------------------------------------------------------------
(* Properties. *)

(* A command that the form checked reaches the inverter as it was meant,   *)
(* although inverters.json is edited, or truncated by a save, while it is  *)
(* under way: its frames, one per channel, say the same; they are off what *)
(* was asked for by no more than one offset that the file held since the   *)
(* command was taken (none while it is truncated), to the side of that     *)
(* offset, and so never below the family's floor unless it is negative,    *)
(* and then at least 10 W; and "accepted", if the reply was the query's    *)
(* own, means that the inverter is throttled to what was sent.  All within *)
(* the watt that the scaling rounds off.                                   *)
SentWatts(frame) == Watts(command.family, frame.value)

SentAsAsked ==
  command.checked =>
    /\ result.ok => Cardinality(sent) = (IF command.family = "DS3" THEN 2 ELSE 1)
    /\ \A f, g \in sent : f.value = g.value
    /\ sent # {} => \E c \in heldCalib : \A frame \in sent :
         /\ SentWatts(frame) >= 9
         /\ Distance(SentWatts(frame), command.watts) <= Distance(Offset(c), 0) + 1
         /\ Offset(c) >= 0 => SentWatts(frame) + 1 >= command.watts
         /\ Offset(c) <= 0 => SentWatts(frame) <= command.watts
    /\ (result.accepted /\ result.own) =>
         \E frame \in sent :
           Distance(Watts(command.family, programmed), SentWatts(frame)) <= 11

(* "Per-family floors mirror MIN_MAX_POWER_W [...] - a misuse here can't   *)
(* push the inverter below the floor even if the file is hand-edited"      *)
(* (comment above ACTION_MIN_W): no frame asks for less than the floor.    *)
FloorKept ==
  \A frame \in sent : SentWatts(frame) + 1 >= Floor[command.family]
=============================================================================
