------------------------------- MODULE Flasher -------------------------------
(***************************************************************************)
(* The browser flasher: onFlash() of flasher/app.js over the bootloader    *)
(* client of flasher/cc26xx-bsl.js, and the ROM bootloader at the other    *)
(* end of the serial line.                                                 *)
(*                                                                         *)
(* The hard part is SerialReader: a read that loses the race against its   *)
(* timeout stays pending on the stream, and the next chunk that arrives    *)
(* resolves it and is gone.  Replies have no sequence numbers, and any     *)
(* wait may time out while the reply is on its way.                        *)
(***************************************************************************)
EXTENDS Naturals, Sequences, FiniteSets

CONSTANTS
  Chunks,      \* number of SEND_DATA chunks in the image
  Retries,     \* retries of sync()
  MaxSessions  \* bound: how often the user clicks "Flash"

ASSUME FlasherAssumption ==
  /\ Chunks \in Nat \ {0}
  /\ Retries \in Nat \ {0}
  /\ MaxSessions \in Nat \ {0}

VARIABLES
  pc,        \* where onFlash() is
  sessions,  \* how often the user clicked
  attempt,   \* sync(): the attempt
  step,      \* the command of Script that is executed
  orphans,   \* reads that timed out and are still pending on the stream
  buf,       \* SerialReader._buf
  stream,    \* target: bytes sent that the stream has not delivered
  inbox,     \* target: commands not executed yet
  synced,    \* target: did it see 0x55 0x55 since its reset?
  alive,     \* target: does it run the bootloader?
  flash,     \* target: what is in the flash, by chunk
  status,    \* target: what GET_STATUS reports
  booted     \* target: was it reset into the application it holds?

sessionVars == <<pc, sessions, attempt, step>>
readerVars  == <<orphans, buf>>
targetVars  == <<synced, alive, flash, status, booted>>
flasherVars == <<sessionVars, readerVars, stream, inbox, targetVars>>

(* Mutant: the chip id is not asked for, as nothing depends on it. *)
ScriptWithoutChipId ==
  <<"ping", "erase", "status", "download", "status">>
    \o [k \in 1..(2 * Chunks) |-> IF k % 2 = 1 THEN "data" ELSE "status"]
    \o <<"crc", "reset">>

(* The commands of onFlash() behind sync(), and those that _expectStatusOK() *)
(* adds.                                                                     *)
Script ==
  <<"ping", "chipId", "erase", "status", "download", "status">>
    \o [k \in 1..(2 * Chunks) |-> IF k % 2 = 1 THEN "data" ELSE "status"]
    \o <<"crc", "reset">>

SYNC == 0   \* in place of a step: the two bytes 0x55 0x55

(* The chunk that a data command carries. *)
ChunkOf(k) == Cardinality({j \in 1..k : Script[j] = "data"})

Responds(k) == Script[k] \in {"chipId", "status", "crc"}

(* A byte of the target: what it is, and the step it answers (which the    *)
(* host cannot see).  "size" and "check" are a response's header.          *)
Byte(k, b)     == [of |-> k, is |-> b]
Ack(k)         == <<Byte(k, "00"), Byte(k, "CC")>>
Nack(k)        == <<Byte(k, "00"), Byte(k, "33")>>
Response(k, v) == <<Byte(k, "size"), Byte(k, "check"), Byte(k, v)>>

Bytes == [of : SYNC..Len(Script),
          is : {"00", "CC", "33", "size", "check", "id", "success", "fail", "match", "differ"}]

FlasherTypeOK ==
  /\ pc \in {"idle", "enter", "sync", "syncAck", "send", "ack", "resp", "done", "error"}
  /\ sessions \in 0..MaxSessions
  /\ attempt \in 1..Retries
  /\ step \in 1..Len(Script)
  /\ orphans \in 0..(Retries + 1)
  /\ buf \in Seq(Bytes) /\ stream \in Seq(Bytes)
  /\ inbox \in Seq(SYNC..Len(Script))
  /\ synced \in BOOLEAN /\ alive \in BOOLEAN /\ booted \in BOOLEAN
  /\ flash \in [1..Chunks -> {"old", "blank", "good", "bad"}]
  /\ status \in {"success", "fail"}

FlasherInit ==
  /\ pc = "idle" /\ sessions = 0 /\ attempt = 1 /\ step = 1
  /\ orphans = 0 /\ buf = <<>> /\ stream = <<>> /\ inbox = <<>>
  /\ synced = FALSE /\ alive = FALSE /\ booted = TRUE
  /\ flash = [i \in 1..Chunks |-> "old"] /\ status = "success"

-----------------------------------------------------------------------------
(* The session. *)

(* onFlash() up to a new CC26xxBSL: the image is fetched and its CRC taken. *)
Click ==
  /\ pc \in {"idle", "error", "done"} /\ sessions < MaxSessions
  /\ pc' = "enter"
  /\ sessions' = sessions + 1
  /\ attempt' = 1 /\ step' = 1
  /\ orphans' = 0 /\ buf' = <<>>
  /\ UNCHANGED <<stream, inbox, targetVars>>

(* invokeBootloader(): the lines reset the chip, and drain() throws away   *)
(* what has arrived.  It ends with a read that times out, unless a chunk   *)
(* came at the very end.                                                   *)
InvokeBootloader ==
  /\ pc = "enter"
  /\ pc' = "sync"
  /\ orphans' \in {0, 1}
  /\ buf' = <<>> /\ stream' = <<>> /\ inbox' = <<>>
  /\ synced' = FALSE /\ booted' = FALSE
  /\ alive' \in BOOLEAN
  /\ status' = "success"
  /\ UNCHANGED <<sessions, attempt, step, flash>>

(* setSignals() throws, before the lines reset the chip or after it.       *)
SignalsThrow ==
  /\ pc = "enter"
  /\ pc' = "error"
  /\ \/ UNCHANGED <<inbox, targetVars>>
     \/ /\ inbox' = <<>>
        /\ synced' = FALSE /\ booted' = FALSE
        /\ alive' \in BOOLEAN
        /\ status' = "success"
        /\ UNCHANGED flash
  /\ UNCHANGED <<sessions, attempt, step, readerVars, stream>>

SendSync ==
  /\ pc = "sync"
  /\ pc' = "syncAck"
  /\ inbox' = Append(inbox, SYNC)
  /\ UNCHANGED <<sessions, attempt, step, readerVars, stream, targetVars>>

(* Mutant: one attempt too many. *)
LastAttemptLate == attempt > Retries

LastAttempt == attempt = Retries

(* The next round of sync()'s loop, or its final throw. *)
NextAttempt ==
  IF LastAttempt THEN pc' = "error" /\ UNCHANGED attempt
                 ELSE pc' = "sync" /\ attempt' = attempt + 1

(* The write of _sendCommand(). *)
SendCommand ==
  /\ pc = "send"
  /\ pc' = "ack"
  /\ inbox' = Append(inbox, step)
  /\ UNCHANGED <<sessions, attempt, step, readerVars, stream, targetVars>>

(* The command of this step is finished. *)
Advance ==
  IF step = Len(Script) THEN pc' = "done" /\ UNCHANGED step
                        ELSE pc' = "send" /\ step' = step + 1

-----------------------------------------------------------------------------
(* SerialReader. *)

(* A header of three bytes stands for read(1), read(1), read(size - 2).    *)
(* Bytes that are not a header but are taken for a size ask for more than  *)
(* will ever come: 0xCC for 204, 0x33 for 51.                              *)
Starved ==
  /\ pc \in {"syncAck", "ack", "resp"}
  /\ buf # <<>> =>
       /\ pc = "resp" /\ Head(buf).is # "00"
       /\ Len(buf) < 3 \/ Head(buf).is \in {"CC", "33"}

(* The stream delivers a chunk: to the oldest pending read, which may be   *)
(* one that nobody waits for any more.                                     *)
Deliver ==
  /\ stream # <<>>
  /\ \E n \in 1..Len(stream) :
       /\ stream' = SubSeq(stream, n + 1, Len(stream))
       /\ \/ /\ orphans > 0
             /\ orphans' = orphans - 1
             /\ UNCHANGED buf
          \/ /\ orphans = 0 /\ Starved
             /\ buf' = buf \o SubSeq(stream, 1, n)
             /\ UNCHANGED orphans
  /\ UNCHANGED <<sessionVars, inbox, targetVars>>

(* _readAck(): anything but ACK and NACK is skipped. *)
ReadAck ==
  /\ pc \in {"syncAck", "ack"} /\ buf # <<>>
  /\ buf' = Tail(buf)
  /\ \/ /\ Head(buf).is \notin {"CC", "33"}
        /\ UNCHANGED <<pc, attempt, step>>
     \/ /\ Head(buf).is = "CC" /\ pc = "syncAck"
        /\ pc' = "send" /\ UNCHANGED <<attempt, step>>
     \/ /\ Head(buf).is = "33" /\ pc = "syncAck"
        /\ NextAttempt /\ UNCHANGED step
     \/ /\ Head(buf).is = "CC" /\ pc = "ack"
        /\ IF Responds(step) THEN pc' = "resp" /\ UNCHANGED step ELSE Advance
        /\ UNCHANGED attempt
     \/ /\ Head(buf).is = "33" /\ pc = "ack"
        /\ pc' = "error" /\ UNCHANGED <<attempt, step>>
  /\ UNCHANGED <<sessions, orphans, stream, inbox, targetVars>>

(* _expectStatusOK(): status 0x40. *)
StatusOK(v) == v # "fail"

(* Mutant: the CRC of the device is logged and not compared. *)
CrcOnlyLogged(v) == TRUE

(* deviceCrc is the CRC of the image. *)
CrcOK(v) == v # "differ"

(* What onFlash() goes on after. *)
Good(v) == StatusOK(v) /\ CrcOK(v)

(* _recvResponse(): padding, then a packet, whose checksum may be wrong. *)
ReadResponse ==
  /\ pc = "resp" /\ buf # <<>> /\ ~Starved
  /\ \/ /\ Head(buf).is = "00"
        /\ buf' = Tail(buf)
        /\ UNCHANGED <<pc, step>>
     \/ /\ Head(buf).is = "size"
        /\ buf' = SubSeq(buf, 4, Len(buf))
        /\ \/ Good(buf[3].is) /\ Advance
           \/ pc' = "error" /\ UNCHANGED step
  /\ UNCHANGED <<sessions, attempt, orphans, stream, inbox, targetVars>>

(* Mutant: a response is awaited without a deadline. *)
DeadlineForAcksOnly == pc \in {"syncAck", "ack"}

HasDeadline == pc \in {"syncAck", "ack", "resp"}

(* The deadline passes (or the stream closes) while a read is pending, or  *)
(* between two reads, whatever is buffered then.  sync() catches the error *)
(* and tries again.                                                        *)
Timeout ==
  /\ HasDeadline
  /\ \/ Starved /\ orphans' = orphans + 1
     \/ UNCHANGED orphans
  /\ IF pc = "syncAck" THEN NextAttempt ELSE pc' = "error" /\ UNCHANGED attempt
  /\ UNCHANGED <<sessions, step, buf, stream, inbox, targetVars>>

-----------------------------------------------------------------------------
(* The target. *)

(* It may also refuse any command whose checksum went wrong on the way. *)
Refuse ==
  /\ alive /\ inbox # <<>>
  /\ inbox' = Tail(inbox)
  /\ stream' = stream \o Nack(Head(inbox))
  /\ UNCHANGED <<sessionVars, readerVars, targetVars>>

(* The first 0x55 0x55 is acknowledged, one that follows perhaps. *)
AnswerSync ==
  /\ alive /\ inbox # <<>> /\ Head(inbox) = SYNC
  /\ inbox' = Tail(inbox)
  /\ synced' = TRUE
  /\ \/ stream' = stream \o Ack(SYNC)
     \/ synced /\ UNCHANGED stream
  /\ UNCHANGED <<sessionVars, readerVars, alive, flash, status, booted>>

(* What a command does to flash, status and the chip. *)
Effect(k) ==
  CASE Script[k] = "erase" ->
         /\ \/ flash' = [i \in 1..Chunks |-> "blank"] /\ status' = "success"
            \/ flash' = [i \in 1..Chunks |-> "bad"] /\ status' = "fail"
         /\ UNCHANGED <<alive, booted>>
    [] Script[k] = "download" ->
         /\ status' \in {"success", "fail"}
         /\ UNCHANGED <<flash, alive, booted>>
    [] Script[k] = "data" ->   \* an 8-bit checksum can miss a wrong byte
         /\ \/ flash' = [flash EXCEPT ![ChunkOf(k)] = "good"] /\ status' = "success"
            \/ flash' = [flash EXCEPT ![ChunkOf(k)] = "bad"] /\ status' \in {"success", "fail"}
         /\ UNCHANGED <<alive, booted>>
    [] Script[k] = "reset" ->
         /\ alive' = FALSE /\ booted' = TRUE
         /\ UNCHANGED <<flash, status>>
    [] OTHER -> UNCHANGED <<flash, status, alive, booted>>

Answer(k) ==
  CASE Script[k] = "chipId" -> Ack(k) \o Response(k, "id")
    [] Script[k] = "status" -> Ack(k) \o Response(k, status)
    [] Script[k] = "crc" ->
         Ack(k) \o Response(k, IF \A i \in 1..Chunks : flash[i] = "good"
                                 THEN "match" ELSE "differ")
    [] OTHER -> Ack(k)

Execute ==
  /\ alive /\ inbox # <<>> /\ Head(inbox) # SYNC
  /\ inbox' = Tail(inbox)
  /\ Effect(Head(inbox))
  /\ stream' = stream \o Answer(Head(inbox))
  /\ UNCHANGED <<sessionVars, readerVars, synced>>

(* The dongle is pulled out, or its bootloader hangs. *)
Dies ==
  /\ alive
  /\ alive' = FALSE
  /\ UNCHANGED <<sessionVars, readerVars, stream, inbox, synced, flash, status, booted>>

-----------------------------------------------------------------------------
HostStep ==
  InvokeBootloader \/ SignalsThrow \/ SendSync \/ SendCommand \/ ReadAck \/ ReadResponse \/ Timeout

TargetStep == Refuse \/ AnswerSync \/ Execute \/ Dies

FlasherNext == Click \/ HostStep \/ Deliver \/ TargetStep

(* Every wait of onFlash() has a deadline; nothing is asked of the target. *)
FlasherSpec == FlasherInit /\ [][FlasherNext]_flasherVars /\ WF_flasherVars(HostStep)

-----------------------------------------------------------------------------
(* Properties. *)

(* From the erasure on host and target are in step: whatever is buffered   *)
(* or on its way answers the command just sent.  The retries of sync() can *)
(* leave ACKs behind, and every ACK looks alike; the framed response to    *)
(* GET_CHIP_ID is what such a conversation cannot get past.                *)
InStep ==
  (pc \in {"send", "ack", "resp"} /\ Script[step] \notin {"ping", "chipId"}) =>
    /\ orphans = 0
    /\ \A i \in 1..Len(inbox) : inbox[i] = step
    /\ \A i \in 1..Len(buf) : buf[i].of = step
    /\ \A i \in 1..Len(stream) : stream[i].of = step

(* "Done - chip running new firmware" is only said of a chip that holds the *)
(* image and was reset into it.                                            *)
DoneMeansFlashed ==
  pc = "done" => booted /\ \A i \in 1..Chunks : flash[i] = "good"

(* The flash button comes back: a session ends, whatever the target does.  *)
SessionEnds == pc = "enter" ~> pc \in {"done", "error"}
=============================================================================
