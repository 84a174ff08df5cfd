------------------------------ MODULE Firmware ------------------------------
(***************************************************************************)
(* The firmware of the dongle: the main loop of main.c, which forwards     *)
(* received frames (radio_service) and executes the packets of the host    *)
(* (uart_bridge_service, on_command), and the radio control of radio.c.    *)
(*                                                                         *)
(* The host's side is the bytes of one packet after the other.  The UART   *)
(* has a small hardware FIFO and is polled: bytes that arrive while the    *)
(* firmware blocks in UARTCharPut() or in a transmission are lost.         *)
(* The RF core runs beside the processor: it writes received frames into   *)
(* the ring of data entries and may abort the RX command.                  *)
(***************************************************************************)
EXTENDS Cobs

CONSTANTS
  HostPackets,        \* the packets <<type, data...>> the host may send
  Channels,       \* the channels radio_set_channel() accepts: 11..26
  DefaultChannel, \* DEFAULT_CHANNEL
  FilterLen,      \* length of PKT_SET_MAC_FILTER's data: 13
  MaxPkt,         \* MAX_PKT, the limit on a decoded packet
  RingSize,       \* RX_BUF_CNT
  RxFrames,         \* what tells received frames apart
  MaxLost         \* bound: how many bytes the link loses

ASSUME FirmwareAssumption ==
  /\ DefaultChannel \in Channels
  /\ FilterLen \in Nat /\ MaxPkt \in Nat
  /\ RingSize \in Nat \ {0}
  /\ RxFrames # {}
  /\ MaxLost \in Nat

(* What the codec does for the packets of the host: encoding leaves no     *)
(* zero, decoding undoes it, and MAX_ENC is room enough for MAX_PKT.       *)
ASSUME HostPacketsAssumption ==
  \A p \in HostPackets :
    /\ Encode(p) \in Seq(Nat \ {0}) /\ Encode(p) # <<>>
    /\ Decode(Encode(p)) = p
    /\ Len(p) <= MaxPkt => Len(Encode(p)) <= MaxPkt + MaxPkt \div (Group - 1) + 2

SET_CHANNEL    == 3
PING           == 6
SET_MAC_FILTER == 8

(* MAX_ENC, the limit on an encoded packet: 254 is Group - 1. *)
MaxEnc == MaxPkt + MaxPkt \div (Group - 1) + 2

VARIABLES
  phase,         \* "service", "forward" or "uart": where the main loop is
  hostPkt,       \* host: the packet it is sending
  hostTail,      \* host: the bytes of it still to come
  lost,          \* host: how many bytes were lost so far
  raw,           \* the encoded bytes collected so far
  framing_error, \* discarding up to the next delimiter
  segment,       \* history: every byte received since the last delimiter
  clean,         \* history: nothing is missing since the host's last delimiter
  rfHandle,      \* did RF_open() succeed?
  radio,         \* the RX command and what the RF core makes of it
  deaf,          \* does the receiver demodulate nothing although its command runs?
  ring,          \* the data entries
  rx_read_entry, \* index of the entry radio_service() looks at
  rx_curr_entry, \* index of the entry the RF core writes next
  accepted,      \* history: frames the core has stored and nobody released
  served         \* the packet on_command() got in the last step, and was the
                 \* host told of a failure (PKT_LOG)?

senderVars == <<hostPkt, hostTail, lost, clean>>
uartVars == <<raw, framing_error, segment>>
ringVars == <<ring, rx_read_entry, rx_curr_entry, accepted>>
firmwareVars ==
  <<phase, senderVars, uartVars, rfHandle, radio, deaf, ringVars, served>>

NoCommand    == [cmd |-> <<>>, told |-> FALSE]
Nowhere == [channel |-> 0, filtered |-> FALSE]

Entry == [finished : BOOLEAN, frame : RxFrames]

FirmwareTypeOK ==
  /\ phase \in {"service", "forward", "uart"}
  /\ hostPkt \in HostPackets \cup {<<>>}
  /\ hostTail \in Seq(Nat)
  /\ lost \in 0..MaxLost
  /\ raw \in Seq(Nat \ {0}) /\ Len(raw) <= MaxEnc
  /\ framing_error \in BOOLEAN
  /\ segment \in Seq(Nat \ {0})
  /\ clean \in BOOLEAN
  /\ rfHandle \in BOOLEAN
  /\ deaf \in BOOLEAN
  /\ radio \in [cur_channel : Channels, rx_running : BOOLEAN, filtered : BOOLEAN,
                status : {"IDLE", "ACTIVE", "ENDED"},
                tuned : [channel : Channels, filtered : BOOLEAN] \cup {Nowhere}]
  /\ ring \in [0..(RingSize - 1) -> Entry]
  /\ rx_read_entry \in 0..(RingSize - 1)
  /\ rx_curr_entry \in 0..(RingSize - 1)
  /\ accepted \in Seq(RxFrames)
  /\ served.told \in BOOLEAN

-----------------------------------------------------------------------------
(* radio.c: the RX command.  status is rf_cmd_ieee_rx.status, which the    *)
(* core writes; tuned is what the core runs the command with, Nowhere when *)
(* it runs none.  Whether a running command hears anything is deaf's       *)
(* business: no part of the firmware can tell.                             *)

(* Mutant: the command is flushed but still noted as running. *)
QuiesceUnnoted(r) ==
  IF r.rx_running THEN [r EXCEPT !.status = "ENDED", !.tuned = Nowhere] ELSE r

(* RF_flushCmd() of a posted RX command. *)
Quiesce(r) ==
  IF r.rx_running
    THEN [r EXCEPT !.rx_running = FALSE, !.status = "ENDED", !.tuned = Nowhere]
    ELSE r

(* Mutant: the synthesizer is reprogrammed under a running receiver. *)
SetChannelUnderRx(r, c) == [r EXCEPT !.cur_channel = c]

(* radio_set_channel(), apart from the result of CMD_FS. *)
SetChannel(r, c) == [Quiesce(r) EXCEPT !.cur_channel = c]

(* radio_set_filter(), up to its call of radio_start_rx(). *)
SetFilter(r, f) == [Quiesce(r) EXCEPT !.filtered = f]

(* Mutant: RX is started without noting it. *)
StartRxUnnoted(r, ok) ==
  IF ok THEN [r EXCEPT !.status = "ACTIVE",
                       !.tuned = [channel |-> r.cur_channel, filtered |-> r.filtered]]
        ELSE [r EXCEPT !.status = "IDLE"]

(* radio_start_rx(): ok tells whether RF_scheduleCmd() took the command. *)
StartRx(r, ok) ==
  IF r.rx_running THEN r
  ELSE IF ok
    THEN [r EXCEPT !.rx_running = TRUE, !.status = "ACTIVE",
                   !.tuned = [channel |-> r.cur_channel, filtered |-> r.filtered]]
    ELSE [r EXCEPT !.status = "IDLE"]

-----------------------------------------------------------------------------
(* Boot: main() up to its loop.  radio_init() may fail, and neither the    *)
(* result of CMD_FS nor that of RF_scheduleCmd() is looked at.             *)

Off == [cur_channel |-> DefaultChannel, rx_running |-> FALSE, filtered |-> FALSE,
        status |-> "IDLE", tuned |-> Nowhere]

Booted(handle, ok) == IF handle THEN StartRx(SetChannel(Off, DefaultChannel), ok) ELSE Off

FirmwareInit ==
  /\ phase = "service"
  /\ hostPkt = <<>> /\ hostTail = <<>> /\ lost = 0 /\ clean = TRUE
  /\ raw = <<>> /\ framing_error = FALSE /\ segment = <<>>
  /\ rfHandle \in BOOLEAN
  /\ \E ok \in BOOLEAN : radio = Booted(rfHandle, ok)
  /\ deaf \in BOOLEAN
  /\ ring = [i \in 0..(RingSize - 1) |->
              [finished |-> FALSE, frame |-> CHOOSE f \in RxFrames : TRUE]]
  /\ rx_read_entry = 0 /\ rx_curr_entry = 0 /\ accepted = <<>>
  /\ served = NoCommand

(* Bridge.open() resets the chip through RTS and drops what it was sending. *)
(* The chip may come up deaf: a USB re-enumeration can leave the receiver  *)
(* demodulating nothing, and opening the bridge anew is the only cure      *)
(* (_probe_rf).                                                            *)
Reset ==
  /\ phase' = "service"
  /\ hostPkt' = <<>> /\ hostTail' = <<>> /\ clean' = TRUE
  /\ raw' = <<>> /\ framing_error' = FALSE /\ segment' = <<>>
  /\ rfHandle' \in BOOLEAN
  /\ \E ok \in BOOLEAN : radio' = Booted(rfHandle', ok)
  /\ deaf' \in BOOLEAN
  /\ ring' = [i \in DOMAIN ring |-> [ring[i] EXCEPT !.finished = FALSE]]
  /\ rx_read_entry' = 0 /\ rx_curr_entry' = 0 /\ accepted' = <<>>
  /\ served' = NoCommand
  /\ UNCHANGED lost

-----------------------------------------------------------------------------
(* The link. *)

(* Bridge.send() *)
HostSends(p) ==
  /\ hostTail = <<>>
  /\ hostPkt' = p
  /\ hostTail' = Append(Encode(p), 0)
  /\ clean' = (segment = <<>>)
  /\ served' = NoCommand
  /\ UNCHANGED <<phase, lost, uartVars, rfHandle, radio, deaf, ringVars>>

(* The FIFO overruns. *)
ByteLost ==
  /\ hostTail # <<>> /\ lost < MaxLost
  /\ hostTail' = Tail(hostTail)
  /\ lost' = lost + 1
  /\ clean' = FALSE
  /\ served' = NoCommand
  /\ UNCHANGED <<phase, hostPkt, uartVars, rfHandle, radio, deaf, ringVars>>

-----------------------------------------------------------------------------
(* uart_bridge_service() *)

(* Mutant: an oversized frame starts anew instead of being discarded. *)
CollectRestarts(b) ==
  /\ raw' = IF Len(raw) < MaxEnc THEN Append(raw, b) ELSE <<>>
  /\ UNCHANGED framing_error

(* A byte that is no delimiter. *)
Collect(b) ==
  IF framing_error THEN UNCHANGED <<raw, framing_error>>
  ELSE IF Len(raw) < MaxEnc
    THEN raw' = Append(raw, b) /\ UNCHANGED framing_error
    ELSE raw' = <<>> /\ framing_error' = TRUE

(* Mutant: a packet that fills the buffer counts as truncated. *)
CompletedBelowLimit ==
  IF framing_error \/ raw = <<>> \/ Len(Decode(raw)) >= MaxPkt THEN <<>> ELSE Decode(raw)

(* The decoded packet that a delimiter completes, or <<>> for none. *)
Completed ==
  IF framing_error \/ raw = <<>> \/ Len(Decode(raw)) > MaxPkt THEN <<>> ELSE Decode(raw)

(* on_command(p).  TX_FRAME, PING and SET_TX_POWER answer the host; the    *)
(* state modelled here changes by none of them.                            *)
OnCommand(p) ==
  \/ /\ Len(p) >= 2 /\ p[1] = SET_CHANNEL
     /\ IF rfHandle /\ p[2] \in Channels
          THEN \/ \E ok \in BOOLEAN :
                    /\ radio' = StartRx(SetChannel(radio, p[2]), ok)
                    /\ served' = [cmd |-> p, told |-> ~ok]
               \/ /\ radio' = SetChannel(radio, p[2])
                  /\ served' = [cmd |-> p, told |-> TRUE]
          ELSE /\ served' = [cmd |-> p, told |-> TRUE]
               /\ UNCHANGED radio
  \/ /\ Len(p) >= 1 + FilterLen /\ p[1] = SET_MAC_FILTER
     /\ IF rfHandle
          THEN \E ok \in BOOLEAN :
                 /\ radio' = StartRx(SetFilter(radio, p[2] # 0), ok)
                 /\ served' = [cmd |-> p, told |-> ~ok]
          ELSE served' = [cmd |-> p, told |-> FALSE] /\ UNCHANGED radio
  \/ /\ ~(Len(p) >= 2 /\ p[1] = SET_CHANNEL)
     /\ ~(Len(p) >= 1 + FilterLen /\ p[1] = SET_MAC_FILTER)
     /\ served' = [cmd |-> p, told |-> FALSE]
     /\ UNCHANGED radio

ReceiveByte ==
  /\ phase = "uart" /\ hostTail # <<>> /\ Head(hostTail) # 0
  /\ hostTail' = Tail(hostTail)
  /\ segment' = Append(segment, Head(hostTail))
  /\ Collect(Head(hostTail))
  /\ served' = NoCommand
  /\ UNCHANGED <<phase, hostPkt, lost, clean, rfHandle, radio, deaf, ringVars>>

ReceiveDelimiter ==
  /\ phase = "uart" /\ hostTail # <<>> /\ Head(hostTail) = 0
  /\ hostTail' = Tail(hostTail)
  /\ raw' = <<>> /\ framing_error' = FALSE /\ segment' = <<>>
  /\ IF Completed = <<>>
       THEN served' = NoCommand /\ UNCHANGED radio
       ELSE OnCommand(Completed)
  /\ UNCHANGED <<phase, hostPkt, lost, clean, rfHandle, deaf, ringVars>>

(* No more characters available. *)
UartIdle ==
  /\ phase = "uart"
  /\ phase' = "service"
  /\ served' = NoCommand
  /\ UNCHANGED <<senderVars, uartVars, rfHandle, radio, deaf, ringVars>>

-----------------------------------------------------------------------------
(* radio_service() and the RF core. *)

(* Mutant: the ring does not close. *)
NextEntryOpen(i) == i + 1

(* pNextEntry *)
NextEntry(i) == (i + 1) % RingSize

(* The core stores a received frame; with no free entry it drops it. *)
CoreReceives(f) ==
  /\ radio.tuned # Nowhere /\ ~deaf
  /\ ~ring[rx_curr_entry].finished
  /\ ring' = [ring EXCEPT ![rx_curr_entry] = [finished |-> TRUE, frame |-> f]]
  /\ rx_curr_entry' = NextEntry(rx_curr_entry)
  /\ accepted' = Append(accepted, f)
  /\ served' = NoCommand
  /\ UNCHANGED <<phase, senderVars, uartVars, rfHandle, radio, deaf, rx_read_entry>>

(* The RX command ends by itself; nobody tells the processor. *)
RxDies ==
  /\ radio.tuned # Nowhere
  /\ radio' = [radio EXCEPT !.status = "ENDED", !.tuned = Nowhere]
  /\ served' = NoCommand
  /\ UNCHANGED <<phase, senderVars, uartVars, rfHandle, deaf, ringVars>>

(* Mutant: the entry is given back before its frame is on its way. *)
ForwardReleased == ring' = [ring EXCEPT ![rx_read_entry].finished = FALSE]

(* The entry stays the processor's while on_rx_frame() sends its frame. *)
ForwardHeld == UNCHANGED ring

(* rx_callback(): the frame goes out over the blocking UART, or, malformed, *)
(* is skipped.                                                             *)
Forward ==
  /\ phase = "service" /\ rfHandle
  /\ ring[rx_read_entry].finished
  /\ phase' = "forward"
  /\ ForwardHeld
  /\ served' = NoCommand
  /\ UNCHANGED <<senderVars, uartVars, rfHandle, radio, deaf, rx_read_entry, rx_curr_entry, accepted>>

Release ==
  /\ phase = "forward"
  /\ phase' = "service"
  /\ ring' = [ring EXCEPT ![rx_read_entry].finished = FALSE]
  /\ rx_read_entry' = NextEntry(rx_read_entry)
  /\ accepted' = Tail(accepted)
  /\ served' = NoCommand
  /\ UNCHANGED <<senderVars, uartVars, rfHandle, radio, deaf, rx_curr_entry>>

Drained ==
  /\ phase = "service" /\ ~(rfHandle /\ ring[rx_read_entry].finished)
  /\ phase' = "uart"
  /\ served' = NoCommand
  /\ UNCHANGED <<senderVars, uartVars, rfHandle, radio, deaf, ringVars>>

-----------------------------------------------------------------------------
FirmwareNext ==
  \/ Reset \/ ByteLost \/ (\E p \in HostPackets : HostSends(p))
  \/ ReceiveByte \/ ReceiveDelimiter \/ UartIdle
  \/ (\E f \in RxFrames : CoreReceives(f)) \/ RxDies
  \/ Forward \/ Release \/ Drained

FirmwareSpec == FirmwareInit /\ [][FirmwareNext]_firmwareVars

-----------------------------------------------------------------------------
(* Properties. *)

(* The parser works on the whole of what arrived since the last delimiter  *)
(* or on nothing: the tail of an oversized frame is never taken for a      *)
(* packet of its own (H-2).                                                *)
NoTailExecuted ==
  /\ framing_error <=> Len(segment) > MaxEnc
  /\ ~framing_error => raw = segment

(* A packet that arrives complete behind a delimiter is understood as it   *)
(* was sent, whatever was lost or discarded before: the link               *)
(* resynchronizes within one packet.                                       *)
IntactPacketUnderstood ==
  (clean /\ hostTail = <<0>> /\ Len(hostPkt) <= MaxPkt) => Completed = hostPkt

(* A PKT_INFO that says ACTIVE and a channel means that an RX command runs *)
(* on that channel, with the filter the host set last, through refusals of *)
(* the RF core, aborts, and changes of either by the host.  It does not    *)
(* mean that the command hears anything.                                   *)
InfoIsHonest ==
  radio.status = "ACTIVE" =>
    radio.tuned = [channel |-> radio.cur_channel, filtered |-> radio.filtered]

(* An RX command that runs can still be flushed: the firmware has noted it. *)
ReceiverIsKnown == radio.tuned # Nowhere => radio.rx_running

(* "0x0002 (ACTIVE) means the receiver is armed and listening" (proto.h):  *)
(* a PING answered with ACTIVE comes from a receiver that hears.  The deaf *)
(* dongle that _probe_rf() of the daemon is there for says otherwise.      *)
ActiveMeansListening ==
  (served.cmd = <<PING>> /\ radio.status = "ACTIVE") =>
    radio.tuned # Nowhere /\ ~deaf

(* SET_CHANNEL leaves RX running on that channel, even if it had died      *)
(* before, or the host log gets to know (H-4).                             *)
SetChannelAnswered ==
  (Len(served.cmd) >= 2 /\ served.cmd[1] = SET_CHANNEL /\ ~served.told) =>
    radio.tuned.channel = served.cmd[2]

(* The ring is a queue: from rx_read_entry on it holds the frames stored   *)
(* and not yet released, oldest first, and the rest is free.  So no frame  *)
(* is forwarded twice, out of order or half overwritten by the core.       *)
RingIsQueue ==
  \A k \in 0..(RingSize - 1) :
    LET e == ring[(rx_read_entry + k) % RingSize]
    IN  /\ e.finished <=> k < Len(accepted)
        /\ e.finished => e.frame = accepted[k + 1]
=============================================================================
