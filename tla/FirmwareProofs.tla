--------------------------- MODULE FirmwareProofs ---------------------------
(***************************************************************************)
(* Proofs about Firmware, for every set of packets and every buffer size:  *)
(* the frame parser and what it understands, the radio state machine with  *)
(* what PKT_INFO says of it, and the ring of received frames.              *)
(***************************************************************************)
EXTENDS Firmware, SequenceTheorems, TLAPS

-----------------------------------------------------------------------------
(* The parser. *)

(* What a byte of the host is, and where its bytes end up. *)
ParserInv ==
  /\ hostTail \in Seq(Nat)
  /\ raw \in Seq(Nat \ {0})
  /\ segment \in Seq(Nat \ {0})
  /\ framing_error \in BOOLEAN
  /\ Len(raw) <= MaxEnc
  /\ NoTailExecuted

LEMMA MaxEncNat == MaxEnc \in Nat /\ MaxEnc >= 2
<1>1. MaxPkt \in Nat /\ Group - 1 \in Nat /\ Group - 1 > 0
  BY FirmwareAssumption, GroupAssumption
<1>2. MaxPkt \div (Group - 1) \in Nat
  BY <1>1, Z3
<1> QED
  BY <1>1, <1>2 DEF MaxEnc

(* After boot and after a delimiter nothing is collected. *)
LEMMA EmptyParser ==
  ASSUME raw = <<>>, framing_error = FALSE, segment = <<>>, hostTail \in Seq(Nat)
  PROVE  ParserInv
<1>1. raw \in Seq(Nat \ {0}) /\ segment \in Seq(Nat \ {0})
  OBVIOUS
<1>2. Len(raw) = 0 /\ Len(segment) = 0
  OBVIOUS
<1>3. Len(raw) <= MaxEnc /\ ~(Len(segment) > MaxEnc)
  BY <1>2, MaxEncNat
<1> QED
  BY <1>1, <1>3, Zenon DEF ParserInv, NoTailExecuted

LEMMA InitParser == FirmwareInit => ParserInv
<1>1. <<>> \in Seq(Nat)
  OBVIOUS
<1> QED
  BY <1>1, EmptyParser, Zenon DEF FirmwareInit

(* A byte behind the limit opens the discarding, one below it is kept. *)
LEMMA CollectParser ==
  ASSUME ParserInv, ReceiveByte
  PROVE  ParserInv'
<1> DEFINE b == Head(hostTail)
<1>1. b \in Nat \ {0} /\ Tail(hostTail) \in Seq(Nat)
  BY DEF ParserInv, ReceiveByte
<1>2. segment' = Append(segment, b) /\ Len(segment') = Len(segment) + 1
      /\ segment' \in Seq(Nat \ {0})
  BY <1>1 DEF ParserInv, ReceiveByte
<1>3. hostTail' \in Seq(Nat)
  BY <1>1 DEF ReceiveByte
<1>4. CASE framing_error
  BY <1>2, <1>3, <1>4, MaxEncNat DEF ParserInv, NoTailExecuted, ReceiveByte, Collect
<1>5. CASE ~framing_error /\ Len(raw) < MaxEnc
  <2>1. raw' = Append(raw, b) /\ framing_error' = framing_error
    BY <1>5 DEF ReceiveByte, Collect
  <2>2. raw' = segment' /\ Len(segment') <= MaxEnc
    BY <1>2, <1>5, <2>1, MaxEncNat DEF ParserInv, NoTailExecuted
  <2> QED
    BY <1>2, <1>3, <1>5, <2>1, <2>2, MaxEncNat DEF ParserInv, NoTailExecuted
<1>6. CASE ~framing_error /\ ~(Len(raw) < MaxEnc)
  <2>1. raw' = <<>> /\ framing_error' = TRUE
    BY <1>6 DEF ReceiveByte, Collect
  <2>2. Len(segment') > MaxEnc
    BY <1>2, <1>6, MaxEncNat DEF ParserInv, NoTailExecuted
  <2> QED
    BY <1>2, <1>3, <2>1, <2>2, MaxEncNat DEF ParserInv, NoTailExecuted
<1> QED
  BY <1>4, <1>5, <1>6 DEF ParserInv

LEMMA NextParser ==
  ASSUME ParserInv, [FirmwareNext]_firmwareVars
  PROVE  ParserInv'
<1> USE DEF ParserInv, NoTailExecuted
<1>0. ASSUME raw' = <<>>, framing_error' = FALSE, segment' = <<>>, hostTail' \in Seq(Nat)
      PROVE  ParserInv'
  <2>1. raw' \in Seq(Nat \ {0}) /\ segment' \in Seq(Nat \ {0})
    BY <1>0
  <2>2. Len(raw') = 0 /\ Len(segment') = 0
    BY <1>0
  <2>3. Len(raw') <= MaxEnc /\ ~(Len(segment') > MaxEnc)
    BY <2>2, MaxEncNat
  <2> QED
    BY <1>0, <2>1, <2>3, MaxEncNat, Zenon
<1>1. CASE Reset
  <2>1. hostTail' \in Seq(Nat)
    BY <1>1 DEF Reset
  <2> QED
    BY <1>1, <2>1, <1>0 DEF Reset
<1>2. CASE ByteLost
  BY <1>2 DEF ByteLost, uartVars
<1>3. ASSUME NEW p \in HostPackets, HostSends(p) PROVE ParserInv'
  <2>1. Append(Encode(p), 0) \in Seq(Nat)
    BY HostPacketsAssumption
  <2> QED
    BY <1>3, <2>1 DEF HostSends, uartVars
<1>4. CASE ReceiveByte
  BY <1>4, CollectParser
<1>5. CASE ReceiveDelimiter
  <2>1. hostTail' \in Seq(Nat)
    BY <1>5 DEF ReceiveDelimiter
  <2> QED
    BY <1>5, <2>1, <1>0 DEF ReceiveDelimiter
<1>6. CASE UNCHANGED <<hostTail, uartVars>>
  BY <1>6 DEF uartVars
<1> QED
  BY <1>1, <1>2, <1>3, <1>4, <1>5, <1>6
  DEF FirmwareNext, firmwareVars, senderVars, UartIdle, CoreReceives, RxDies, Forward, Release, Drained

(* The parser never takes the tail of an oversized frame for a packet: for *)
(* every limit, every set of packets and every loss on the link.           *)
THEOREM ParserTheorem == FirmwareSpec => []NoTailExecuted
<1>1. FirmwareInit => ParserInv
  BY InitParser
<1>2. ParserInv /\ [FirmwareNext]_firmwareVars => ParserInv'
  BY NextParser
<1>3. ParserInv => NoTailExecuted
  BY DEF ParserInv
<1> QED
  BY <1>1, <1>2, <1>3, PTL DEF FirmwareSpec

-----------------------------------------------------------------------------
(* The radio. *)

Radio == [cur_channel : Channels, rx_running : BOOLEAN, filtered : BOOLEAN,
          status : {"IDLE", "ACTIVE", "ENDED"},
          tuned : [channel : Channels, filtered : BOOLEAN] \cup {Nowhere}]

(* A radio whose RX command, if it runs at all, runs as the host asked for *)
(* and can be stopped.  "A command that does not run is not reported as    *)
(* active" makes InfoIsHonest inductive.                                   *)
Sane(r) ==
  /\ r \in Radio
  /\ r.status = "ACTIVE" => r.tuned = [channel |-> r.cur_channel, filtered |-> r.filtered]
  /\ r.status # "ACTIVE" => r.tuned = Nowhere
  /\ r.status = "ACTIVE" => r.rx_running

RadioInv == Sane(radio)

LEMMA QuiesceSane ==
  ASSUME NEW r, Sane(r)
  PROVE  Sane(Quiesce(r)) /\ ~Quiesce(r).rx_running /\ Quiesce(r).status # "ACTIVE"
         /\ Quiesce(r).tuned = Nowhere
  BY DEF Sane, Quiesce, Radio

LEMMA SetChannelSane ==
  ASSUME NEW r, Sane(r), NEW c \in Channels
  PROVE  /\ Sane(SetChannel(r, c)) /\ ~SetChannel(r, c).rx_running
         /\ SetChannel(r, c).cur_channel = c
  BY QuiesceSane DEF Sane, SetChannel, Radio

LEMMA SetFilterSane ==
  ASSUME NEW r, Sane(r), NEW f \in BOOLEAN
  PROVE  Sane(SetFilter(r, f))
  BY QuiesceSane DEF Sane, SetFilter, Radio

LEMMA StartRxSane ==
  ASSUME NEW r, Sane(r), NEW ok \in BOOLEAN
  PROVE  /\ Sane(StartRx(r, ok))
         /\ (ok /\ ~r.rx_running) => StartRx(r, ok).tuned.channel = r.cur_channel
<1>1. CASE r.rx_running
  BY <1>1 DEF StartRx
<1>2. CASE ~r.rx_running /\ ok
  BY <1>2 DEF StartRx, Sane, Radio
<1>3. CASE ~r.rx_running /\ ~ok
  BY <1>3 DEF StartRx, Sane, Radio
<1> QED
  BY <1>1, <1>2, <1>3

LEMMA BootedSane ==
  ASSUME NEW handle \in BOOLEAN, NEW ok \in BOOLEAN
  PROVE  Sane(Booted(handle, ok))
<1>1. Sane(Off)
  BY FirmwareAssumption DEF Sane, Off, Radio
<1> QED
  BY <1>1, FirmwareAssumption, SetChannelSane, StartRxSane DEF Booted

(* What a SET_CHANNEL did, as the host can tell. *)
Answered(r, s) ==
  (Len(s.cmd) >= 2 /\ s.cmd[1] = SET_CHANNEL /\ ~s.told) => r.tuned.channel = s.cmd[2]

LEMMA OnCommandRadio ==
  ASSUME RadioInv, NEW p, OnCommand(p)
  PROVE  RadioInv' /\ Answered(radio', served')
<1> USE DEF RadioInv
<1>1. ASSUME Len(p) >= 2, p[1] = SET_CHANNEL, rfHandle, p[2] \in Channels,
             NEW ok \in BOOLEAN,
             radio' = StartRx(SetChannel(radio, p[2]), ok),
             served' = [cmd |-> p, told |-> ~ok]
      PROVE  RadioInv' /\ Answered(radio', served')
  <2>1. Sane(SetChannel(radio, p[2])) /\ ~SetChannel(radio, p[2]).rx_running
        /\ SetChannel(radio, p[2]).cur_channel = p[2]
    BY <1>1, SetChannelSane
  <2> QED
    BY <1>1, <2>1, StartRxSane DEF Answered
<1>2. ASSUME Len(p) >= 2, p[1] = SET_CHANNEL, rfHandle, p[2] \in Channels,
             radio' = SetChannel(radio, p[2]),
             served' = [cmd |-> p, told |-> TRUE]
      PROVE  RadioInv' /\ Answered(radio', served')
  BY <1>2, SetChannelSane DEF Answered
<1>3. ASSUME served'.told, UNCHANGED radio
      PROVE  RadioInv' /\ Answered(radio', served')
  BY <1>3 DEF Answered
<1>4. ASSUME p[1] = SET_MAC_FILTER, NEW ok \in BOOLEAN,
             radio' = StartRx(SetFilter(radio, p[2] # 0), ok),
             served' = [cmd |-> p, told |-> ~ok]
      PROVE  RadioInv' /\ Answered(radio', served')
  <2>1. Sane(SetFilter(radio, p[2] # 0))
    BY SetFilterSane
  <2> QED
    BY <1>4, <2>1, StartRxSane DEF Answered, SET_MAC_FILTER, SET_CHANNEL
<1>5. ASSUME p[1] = SET_MAC_FILTER \/ ~(Len(p) >= 2 /\ p[1] = SET_CHANNEL),
             served' = [cmd |-> p, told |-> FALSE], UNCHANGED radio
      PROVE  RadioInv' /\ Answered(radio', served')
  BY <1>5 DEF Answered, SET_MAC_FILTER, SET_CHANNEL
<1> QED
  BY <1>1, <1>2, <1>3, <1>4, <1>5 DEF OnCommand

RadioInvAndAnswer == RadioInv /\ SetChannelAnswered

LEMMA InitRadio == FirmwareInit => RadioInvAndAnswer
  BY BootedSane DEF FirmwareInit, RadioInvAndAnswer, RadioInv, SetChannelAnswered, NoCommand

LEMMA NextRadio ==
  ASSUME RadioInvAndAnswer, [FirmwareNext]_firmwareVars
  PROVE  RadioInvAndAnswer'
<1> USE DEF RadioInvAndAnswer
<1>1. served' = NoCommand => SetChannelAnswered'
  BY DEF NoCommand, SetChannelAnswered
<1>2. CASE Reset
  <2>1. RadioInv'
    BY <1>2, BootedSane DEF Reset, RadioInv
  <2> QED
    BY <1>1, <1>2, <2>1 DEF Reset
<1>3. CASE ReceiveDelimiter
  <2>1. CASE Completed = <<>>
    BY <1>1, <1>3, <2>1 DEF ReceiveDelimiter, RadioInv
  <2>2. CASE Completed # <<>>
    BY <1>3, <2>2, OnCommandRadio DEF ReceiveDelimiter, Answered, SetChannelAnswered
  <2> QED
    BY <2>1, <2>2
<1>4. CASE RxDies
  <2>1. Sane([radio EXCEPT !.status = "ENDED", !.tuned = Nowhere])
    BY DEF RadioInv, Sane, Radio
  <2> QED
    BY <1>1, <1>4, <2>1 DEF RxDies, RadioInv
<1>5. CASE UNCHANGED radio /\ served' = NoCommand
  BY <1>1, <1>5 DEF RadioInv
<1>6. CASE UNCHANGED firmwareVars
  BY <1>6 DEF firmwareVars, RadioInv, SetChannelAnswered
<1> QED
  BY <1>2, <1>3, <1>4, <1>5, <1>6
  DEF FirmwareNext, ByteLost, HostSends, ReceiveByte, UartIdle, CoreReceives, Forward, Release, Drained

LEMMA RadioInvariant == FirmwareSpec => []RadioInvAndAnswer
<1>1. FirmwareInit => RadioInvAndAnswer
  BY InitRadio
<1>2. RadioInvAndAnswer /\ [FirmwareNext]_firmwareVars => RadioInvAndAnswer'
  BY NextRadio
<1> QED
  BY <1>1, <1>2, PTL DEF FirmwareSpec

(* What PKT_INFO reports as active is an RX command that runs where it     *)
(* reports and as the host set it; whether it hears is another matter.     *)
THEOREM InfoTheorem == FirmwareSpec => []InfoIsHonest
<1>1. RadioInvAndAnswer => InfoIsHonest
  BY DEF RadioInvAndAnswer, RadioInv, Sane, InfoIsHonest
<1> QED
  BY <1>1, RadioInvariant, PTL

(* The firmware never loses the handle of an RX command that runs. *)
THEOREM ReceiverTheorem == FirmwareSpec => []ReceiverIsKnown
<1>1. RadioInvAndAnswer => ReceiverIsKnown
  BY DEF RadioInvAndAnswer, RadioInv, Sane, ReceiverIsKnown
<1> QED
  BY <1>1, RadioInvariant, PTL

(* SET_CHANNEL is carried out, or the host is told that it was not. *)
THEOREM SetChannelTheorem == FirmwareSpec => []SetChannelAnswered
<1>1. RadioInvAndAnswer => SetChannelAnswered
  BY DEF RadioInvAndAnswer
<1> QED
  BY <1>1, RadioInvariant, PTL

-----------------------------------------------------------------------------
(* The link. *)

(* What was received, s, and what is still to come, t, are the two parts of *)
(* the encoded packet e and its delimiter.                                  *)
Parts(s, t, e) ==
  /\ Len(s) + Len(t) = Len(e) + 1
  /\ \A k \in 1..Len(s) : s[k] = Append(e, 0)[k]
  /\ \A k \in 1..Len(t) : t[k] = Append(e, 0)[Len(s) + k]

LinkInv ==
  hostTail # <<>> =>
    /\ hostPkt \in HostPackets
    /\ clean => Parts(segment, hostTail, Encode(hostPkt))

LEMMA ByteMoves ==
  ASSUME NEW e, NEW s \in Seq(Nat), NEW t \in Seq(Nat), t # <<>>, Parts(s, t, e)
  PROVE  Parts(Append(s, Head(t)), Tail(t), e)
<1> DEFINE a == Append(s, Head(t))
           b == Tail(t)
           f == Append(e, 0)
<1>1. /\ Len(a) = Len(s) + 1 /\ Len(b) = Len(t) - 1 /\ Len(s) \in Nat /\ Len(t) \in Nat \ {0}
      /\ \A k \in 1..Len(s) : a[k] = s[k]
      /\ a[Len(s) + 1] = t[1]
      /\ \A k \in 1..Len(b) : b[k] = t[k + 1]
  OBVIOUS
<1>2. /\ Len(s) + Len(t) = Len(e) + 1
      /\ \A k \in 1..Len(s) : s[k] = f[k]
      /\ \A k \in 1..Len(t) : t[k] = f[Len(s) + k]
  BY DEF Parts
<1> HIDE DEF a, b, f
<1>3. Len(a) + Len(b) = Len(e) + 1
  BY <1>1, <1>2
<1>4. ASSUME NEW k \in 1..Len(a) PROVE a[k] = f[k]
  <2>1. CASE k \in 1..Len(s)
    BY <1>1, <1>2, <2>1
  <2>2. CASE k = Len(s) + 1
    <3>1. 1 \in 1..Len(t)
      BY <1>1
    <3>. QED  BY <1>1, <1>2, <2>2, <3>1
  <2>. QED  BY <1>1, <2>1, <2>2
<1>5. ASSUME NEW k \in 1..Len(b) PROVE b[k] = f[Len(a) + k]
  <2>1. k + 1 \in 1..Len(t) /\ Len(s) + (k + 1) = Len(a) + k
    BY <1>1
  <2>. QED  BY <1>1, <1>2, <2>1
<1>. QED  BY <1>3, <1>4, <1>5 DEF Parts, a, b, f

(* The only delimiter of a packet is its last byte.                        *)
LEMMA DelimiterIsLast ==
  ASSUME NEW e \in Seq(Nat \ {0}), NEW s \in Seq(Nat \ {0}), NEW t \in Seq(Nat),
         t # <<>>, Head(t) = 0, Parts(s, t, e)
  PROVE  t = <<0>> /\ s = e
<1> DEFINE f == Append(e, 0)
<1>1. /\ s \in Seq(Nat) /\ e \in Seq(Nat)
      /\ Len(s) \in Nat /\ Len(e) \in Nat /\ Len(t) \in Nat \ {0} /\ t[1] = 0
      /\ \A k \in 1..Len(e) : e[k] # 0 /\ f[k] = e[k]
  OBVIOUS
<1>2. /\ Len(s) + Len(t) = Len(e) + 1
      /\ \A k \in 1..Len(s) : s[k] = f[k]
      /\ \A k \in 1..Len(t) : t[k] = f[Len(s) + k]
  BY DEF Parts
<1> HIDE DEF f
<1>3. Len(s) = Len(e) /\ Len(t) = 1
  <2>1. 1 \in 1..Len(t)
    BY <1>1
  <2>2. f[Len(s) + 1] = 0
    BY <1>1, <1>2, <2>1
  <2>3. ~(Len(s) + 1 \in 1..Len(e))
    BY <1>1, <2>2
  <2>4. Len(s) + Len(t) = Len(e) + 1 /\ Len(s) \in Nat /\ Len(e) \in Nat /\ Len(t) \in Nat \ {0}
    BY <1>1, <1>2
  <2>5. \A x, y \in Nat, z \in Nat \ {0} :
          (x + z = y + 1 /\ ~(x + 1 \in 1..y)) => x = y /\ z = 1
    OBVIOUS
  <2>. QED  BY <2>3, <2>4, <2>5, Zenon
<1>4. s = e
  <2>1. \A k \in 1..Len(s) : s[k] = e[k]
    BY <1>1, <1>2, <1>3
  <2>2. s \in Seq(Nat) /\ e \in Seq(Nat) /\ Len(s) = Len(e)
    BY <1>1, <1>3
  <2>. QED  BY <2>1, <2>2, SeqEqual, Zenon
<1>. QED  BY <1>1, <1>3, <1>4

LEMMA InitLink == FirmwareInit => LinkInv
  BY DEF FirmwareInit, LinkInv

LEMMA NextLink ==
  ASSUME ParserInv, LinkInv, [FirmwareNext]_firmwareVars
  PROVE  LinkInv'
<1> USE DEF LinkInv
<1>1. CASE Reset
  BY <1>1 DEF Reset
<1>2. CASE ByteLost
  <2>1. hostTail # <<>> /\ hostPkt' = hostPkt /\ clean' = FALSE
    BY <1>2 DEF ByteLost
  <2>. QED  BY <2>1
<1>3. ASSUME NEW p \in HostPackets, HostSends(p) PROVE LinkInv'
  <2>1. hostPkt' = p /\ hostTail' = Append(Encode(p), 0) /\ clean' = (segment = <<>>)
        /\ segment' = segment
    BY <1>3 DEF HostSends, uartVars
  <2>2. Append(Encode(p), 0) \in Seq(Nat)
    BY HostPacketsAssumption
  <2>3. Parts(<<>>, Append(Encode(p), 0), Encode(p))
    BY HostPacketsAssumption DEF Parts
  <2>. QED  BY <2>1, <2>3
<1>4. CASE ReceiveByte
  <2>1. /\ hostTail # <<>> /\ hostTail' = Tail(hostTail)
        /\ segment' = Append(segment, Head(hostTail))
        /\ hostPkt' = hostPkt /\ clean' = clean
    BY <1>4 DEF ReceiveByte
  <2>2. hostTail \in Seq(Nat) /\ segment \in Seq(Nat)
    BY DEF ParserInv
  <2>. QED  BY <2>1, <2>2, ByteMoves
<1>5. CASE ReceiveDelimiter
  <2>1. /\ hostTail # <<>> /\ Head(hostTail) = 0 /\ hostTail' = Tail(hostTail)
        /\ hostPkt' = hostPkt /\ clean' = clean /\ segment' = <<>>
    BY <1>5 DEF ReceiveDelimiter
  <2>2. CASE clean
    <3>1. hostTail = <<0>>
      BY <2>1, <2>2, HostPacketsAssumption, DelimiterIsLast DEF ParserInv
    <3>2. hostTail' = <<>>
      BY <2>1, <3>1
    <3>. QED  BY <3>2
  <2>3. CASE ~clean
    BY <2>1, <2>3
  <2>. QED  BY <2>2, <2>3
<1>6. CASE UNCHANGED <<senderVars, uartVars>>
  BY <1>6 DEF senderVars, uartVars
<1> QED
  BY <1>1, <1>2, <1>3, <1>4, <1>5, <1>6
  DEF FirmwareNext, firmwareVars, UartIdle, CoreReceives, RxDies, Forward, Release, Drained

(* A packet that arrives complete behind a delimiter is the one the parser *)
(* completes, whatever was lost or discarded before it.                    *)
THEOREM ResyncTheorem == FirmwareSpec => []IntactPacketUnderstood
<1>1. FirmwareInit => ParserInv /\ LinkInv
  BY InitParser, InitLink
<1>2. (ParserInv /\ LinkInv) /\ [FirmwareNext]_firmwareVars => (ParserInv /\ LinkInv)'
  BY NextParser, NextLink
<1>3. ParserInv /\ LinkInv => IntactPacketUnderstood
  <2>1. SUFFICES ASSUME ParserInv, LinkInv, clean, hostTail = << 0 >>, Len(hostPkt) <= MaxPkt
                 PROVE  Completed = hostPkt
    BY DEF IntactPacketUnderstood
  <2>2. hostPkt \in HostPackets /\ Parts(segment, hostTail, Encode(hostPkt))
    BY <2>1 DEF LinkInv
  <2>3. segment = Encode(hostPkt)
    <3>1. /\ segment \in Seq(Nat \ {0}) /\ Encode(hostPkt) \in Seq(Nat \ {0})
          /\ hostTail \in Seq(Nat) /\ hostTail # <<>> /\ Head(hostTail) = 0
      BY <2>1, <2>2, HostPacketsAssumption DEF ParserInv
    <3>. QED  BY <2>2, <3>1, DelimiterIsLast
  <2>4. Len(Encode(hostPkt)) <= MaxEnc
    BY <2>1, <2>2, HostPacketsAssumption DEF MaxEnc
  <2>5. raw = Encode(hostPkt) /\ ~framing_error
    <3>1. Len(segment) \in Nat /\ MaxEnc \in Nat /\ framing_error \in BOOLEAN
      BY <2>1, MaxEncNat DEF ParserInv
    <3>2. ~(Len(segment) > MaxEnc)
      BY <2>3, <2>4, <3>1
    <3>. QED  BY <2>1, <2>3, <3>2, Zenon DEF ParserInv, NoTailExecuted
  <2>6. raw # <<>> /\ Decode(raw) = hostPkt
    BY <2>2, <2>5, HostPacketsAssumption, Zenon
  <2>7. ~(Len(hostPkt) > MaxPkt)
    <3>1. Len(hostPkt) \in Nat
      BY <2>2, HostPacketsAssumption
    <3>. QED  BY <2>1, <3>1, FirmwareAssumption
  <2>. QED  BY <2>5, <2>6, <2>7, Zenon DEF Completed
<1>. QED  BY <1>1, <1>2, <1>3, PTL DEF FirmwareSpec

-----------------------------------------------------------------------------
(* The ring of data entries. *)

(* The core writes behind the frames that are stored, and the entry that   *)
(* is being forwarded is the oldest of them.                               *)
RingInv ==
  /\ ring \in [0..(RingSize - 1) -> Entry]
  /\ rx_read_entry \in 0..(RingSize - 1)
  /\ accepted \in Seq(RxFrames) /\ Len(accepted) <= RingSize
  /\ rx_curr_entry = (rx_read_entry + Len(accepted)) % RingSize
  /\ phase = "forward" => accepted # <<>>
  /\ RingIsQueue

LEMMA Around ==
  ASSUME NEW a \in 0..(RingSize - 1), NEW k \in 0..RingSize
  PROVE  /\ a + k < RingSize => (a + k) % RingSize = a + k
         /\ ~(a + k < RingSize) => (a + k) % RingSize = a + k - RingSize
         /\ (a + k) % RingSize \in 0..(RingSize - 1)
<1>1. \A R \in Nat \ {0} : \A x \in 0..(R - 1) : x % R = x
  BY Z3
<1>2. \A R \in Nat \ {0} : \A x \in R..(2 * R - 1) : x % R = x - R
  BY Z3
<1>3. RingSize \in Nat \ {0}
  BY FirmwareAssumption
<1>4. CASE a + k < RingSize
  <2>1. a + k \in 0..(RingSize - 1)
    BY <1>3, <1>4
  <2>2. (a + k) % RingSize = a + k
    BY <1>1, <1>3, <2>1
  <2>. QED  BY <1>4, <2>1, <2>2
<1>5. CASE ~(a + k < RingSize)
  <2>1. a + k \in RingSize..(2 * RingSize - 1) /\ a + k - RingSize \in 0..(RingSize - 1)
    BY <1>3, <1>5
  <2>2. (a + k) % RingSize = a + k - RingSize
    BY <1>2, <1>3, <2>1
  <2>. QED  BY <1>5, <2>1, <2>2
<1>. QED  BY <1>4, <1>5

LEMMA Distinct ==
  ASSUME NEW a \in 0..(RingSize - 1), NEW k \in 0..(RingSize - 1), NEW l \in 0..(RingSize - 1),
         (a + k) % RingSize = (a + l) % RingSize
  PROVE  k = l
<1>1. RingSize \in Nat \ {0} /\ k \in 0..RingSize /\ l \in 0..RingSize
  BY FirmwareAssumption
<1>2. /\ a + k < RingSize => (a + k) % RingSize = a + k
      /\ ~(a + k < RingSize) => (a + k) % RingSize = a + k - RingSize
      /\ a + l < RingSize => (a + l) % RingSize = a + l
      /\ ~(a + l < RingSize) => (a + l) % RingSize = a + l - RingSize
  BY <1>1, Around
<1>. QED  BY <1>1, <1>2

(* One further along the ring, from either end.                            *)
LEMMA Further ==
  ASSUME NEW a \in 0..(RingSize - 1), NEW k \in 0..(RingSize - 1)
  PROVE  /\ (a + 0) % RingSize = a /\ (a + RingSize) % RingSize = a
         /\ (((a + k) % RingSize) + 1) % RingSize = (a + (k + 1)) % RingSize
         /\ (((a + 1) % RingSize) + k) % RingSize = (a + (k + 1)) % RingSize
<1>1. /\ RingSize \in Nat \ {0} /\ k \in 0..RingSize /\ k + 1 \in 0..RingSize
      /\ 0 \in 0..RingSize /\ 1 \in 0..RingSize /\ RingSize \in 0..RingSize
  BY FirmwareAssumption
<1>2. (a + 0) % RingSize = a
  <2>1. a + 0 < RingSize /\ a + 0 = a
    BY <1>1
  <2>. QED  BY <1>1, <2>1, Around
<1>3. (a + RingSize) % RingSize = a
  <2>1. ~(a + RingSize < RingSize) /\ a + RingSize - RingSize = a
    BY <1>1
  <2>. QED  BY <1>1, <2>1, Around
<1>4. PICK b \in 0..(RingSize - 1), c \in 0..(RingSize - 1) :
        b = (a + k) % RingSize /\ c = (a + 1) % RingSize
  BY <1>1, Around
<1>5. /\ a + k < RingSize => b = a + k
      /\ ~(a + k < RingSize) => b = a + k - RingSize
      /\ a + 1 < RingSize => c = a + 1
      /\ ~(a + 1 < RingSize) => c = a + 1 - RingSize
  BY <1>1, <1>4, Around
<1>6. PICK d, e, f : d = (b + 1) % RingSize /\ e = (c + k) % RingSize /\ f = (a + (k + 1)) % RingSize
  OBVIOUS
<1>7. /\ b + 1 < RingSize => d = b + 1
      /\ ~(b + 1 < RingSize) => d = b + 1 - RingSize
      /\ c + k < RingSize => e = c + k
      /\ ~(c + k < RingSize) => e = c + k - RingSize
      /\ a + (k + 1) < RingSize => f = a + (k + 1)
      /\ ~(a + (k + 1) < RingSize) => f = a + (k + 1) - RingSize
  BY <1>1, <1>6, Around
<1>8. d = f /\ e = f
  BY <1>1, <1>5, <1>7
<1>. QED  BY <1>2, <1>3, <1>4, <1>6, <1>8

(* The k-th entry from the one that is read next, the ring being closed.   *)
Slot(k) == (rx_read_entry + k) % RingSize

LEMMA SlotFacts ==
  ASSUME RingInv
  PROVE  /\ RingSize \in Nat \ {0} /\ rx_read_entry \in 0..(RingSize - 1)
         /\ Len(accepted) \in 0..RingSize
         /\ \A k \in 0..RingSize : Slot(k) \in 0..(RingSize - 1)
         /\ Slot(0) = rx_read_entry /\ Slot(RingSize) = rx_read_entry
         /\ \A k, l \in 0..(RingSize - 1) : Slot(k) = Slot(l) => k = l
         /\ \A k \in 0..(RingSize - 1) : /\ ring[Slot(k)] \in Entry
                                         /\ ring[Slot(k)].finished <=> k < Len(accepted)
                                         /\ k < Len(accepted) =>
                                              ring[Slot(k)].frame = accepted[k + 1]
<1>1. RingSize \in Nat \ {0} /\ rx_read_entry \in 0..(RingSize - 1) /\ Len(accepted) \in 0..RingSize
  BY FirmwareAssumption DEF RingInv
<1>2. \A k \in 0..RingSize : Slot(k) \in 0..(RingSize - 1)
  BY <1>1, Around DEF Slot
<1>3. 0 \in 0..(RingSize - 1) /\ \A k \in 0..(RingSize - 1) : k \in 0..RingSize
  BY <1>1
<1>4. \A k \in 0..(RingSize - 1) : /\ ring[Slot(k)].finished <=> k < Len(accepted)
                                   /\ k < Len(accepted) => ring[Slot(k)].frame = accepted[k + 1]
  BY DEF RingInv, RingIsQueue, Slot
<1>5. \A k \in 0..(RingSize - 1) : ring[Slot(k)] \in Entry
  BY <1>2, <1>3 DEF RingInv
<1>6. \A k, l \in 0..(RingSize - 1) : Slot(k) = Slot(l) => k = l
  BY <1>1, Distinct DEF Slot
<1>7. Slot(0) = rx_read_entry /\ Slot(RingSize) = rx_read_entry
  BY <1>1, <1>3, Further DEF Slot
<1>. QED  BY <1>1, <1>2, <1>4, <1>5, <1>6, <1>7

LEMMA InitRing == FirmwareInit => RingInv
<1> SUFFICES ASSUME FirmwareInit PROVE RingInv
  OBVIOUS
<1>1. RingSize \in Nat \ {0} /\ 0 \in 0..(RingSize - 1) /\ (CHOOSE f \in RxFrames : TRUE) \in RxFrames
  BY FirmwareAssumption
<1>2. /\ rx_read_entry = 0 /\ rx_curr_entry = 0 /\ accepted = <<>> /\ phase = "service"
      /\ ring = [i \in 0..(RingSize - 1) |->
                  [finished |-> FALSE, frame |-> CHOOSE f \in RxFrames : TRUE]]
  BY DEF FirmwareInit
<1>3. Len(accepted) = 0 /\ accepted \in Seq(RxFrames)
  BY <1>2
<1>4. \A k \in 0..(RingSize - 1) : (0 + k) % RingSize \in 0..(RingSize - 1) /\ k \in Nat
  BY <1>1, Around
<1>5. RingIsQueue
  BY <1>2, <1>3, <1>4 DEF RingIsQueue
<1>6. ring \in [0..(RingSize - 1) -> Entry]
  BY <1>1, <1>2 DEF Entry
<1>7. rx_curr_entry = (rx_read_entry + Len(accepted)) % RingSize
  BY <1>1, <1>2, <1>3, Around
<1>. QED  BY <1>1, <1>2, <1>3, <1>5, <1>6, <1>7 DEF RingInv

(* The core appends to the queue. *)
LEMMA CoreRing ==
  ASSUME RingInv, NEW f \in RxFrames, CoreReceives(f)
  PROVE  RingInv'
<1> DEFINE n == Len(accepted)
<1>1. /\ ~ring[rx_curr_entry].finished /\ rx_curr_entry = Slot(n)
      /\ ring' = [ring EXCEPT ![rx_curr_entry] = [finished |-> TRUE, frame |-> f]]
      /\ rx_curr_entry' = (rx_curr_entry + 1) % RingSize
      /\ accepted' = Append(accepted, f)
      /\ phase' = phase /\ rx_read_entry' = rx_read_entry
  BY DEF CoreReceives, RingInv, NextEntry, Slot
<1>2. /\ accepted' \in Seq(RxFrames) /\ accepted' # <<>> /\ Len(accepted') = n + 1
      /\ accepted'[n + 1] = f /\ \A k \in 1..n : accepted'[k] = accepted[k]
  <2>1. accepted \in Seq(RxFrames)
    BY DEF RingInv
  <2>. QED  BY <1>1, <2>1
<1>3. RingSize \in Nat \ {0} /\ rx_read_entry \in 0..(RingSize - 1) /\ n \in 0..RingSize
  BY SlotFacts
<1>4. n \in 0..(RingSize - 1)
  <2>1. CASE n = RingSize
    <3>1. Slot(n) = Slot(0) /\ 0 < n /\ 0 \in 0..(RingSize - 1)
      BY <1>3, <2>1, SlotFacts
    <3>. QED  BY <1>1, <3>1, SlotFacts
  <2>. QED  BY <1>3, <2>1
<1>5. /\ rx_curr_entry \in 0..(RingSize - 1)
      /\ \A k \in 0..(RingSize - 1) : Slot(k) = rx_curr_entry <=> k = n
  BY <1>1, <1>3, <1>4, SlotFacts
<1>6. /\ ring' \in [0..(RingSize - 1) -> Entry]
      /\ ring'[rx_curr_entry] = [finished |-> TRUE, frame |-> f]
      /\ \A i \in 0..(RingSize - 1) : i # rx_curr_entry => ring'[i] = ring[i]
  BY <1>1, <1>5 DEF RingInv, Entry
<1>7. rx_curr_entry' = (rx_read_entry + (n + 1)) % RingSize
  BY <1>1, <1>3, <1>4, Further DEF Slot
<1>8. ASSUME NEW k \in 0..(RingSize - 1)
      PROVE  /\ ring'[Slot(k)].finished <=> k < n + 1
             /\ ring'[Slot(k)].finished => ring'[Slot(k)].frame = accepted'[k + 1]
  <2>1. CASE k = n
    <3>1. ring'[Slot(k)] = [finished |-> TRUE, frame |-> f]
      BY <1>5, <1>6, <2>1
    <3>2. k < n + 1 /\ accepted'[k + 1] = f
      BY <1>2, <1>3, <2>1
    <3>. QED  BY <3>1, <3>2
  <2>2. CASE k # n
    <3>1. ring'[Slot(k)] = ring[Slot(k)]
      <4>1. Slot(k) # rx_curr_entry
        BY <1>5, <2>2
      <4>2. Slot(k) \in 0..(RingSize - 1)
        <5>1. k \in 0..RingSize
          BY <1>3
        <5>. QED  BY <5>1, SlotFacts
      <4>. QED  BY <1>6, <4>1, <4>2
    <3>2. (k < n + 1 <=> k < n) /\ (k < n => k + 1 \in 1..n)
      BY <1>3, <2>2
    <3>3. ring[Slot(k)].finished <=> k < n
      BY SlotFacts
    <3>4. k < n => ring[Slot(k)].frame = accepted'[k + 1]
      BY <1>2, <3>2, SlotFacts
    <3>. QED  BY <3>1, <3>2, <3>3, <3>4, Zenon
  <2>. QED  BY <2>1, <2>2
<1>9. RingIsQueue'
  BY <1>1, <1>2, <1>8 DEF RingIsQueue, Slot
<1>10. Len(accepted') <= RingSize
  BY <1>2, <1>3, <1>4
<1> HIDE DEF n
<1>11. rx_curr_entry' = (rx_read_entry + Len(accepted')) % RingSize
  BY <1>2, <1>7
<1>. QED  BY <1>1, <1>2, <1>3, <1>6, <1>9, <1>10, <1>11 DEF RingInv

(* The oldest frame leaves it. *)
LEMMA ReleaseRing ==
  ASSUME RingInv, Release
  PROVE  RingInv'
<1> DEFINE n == Len(accepted)
<1>1. /\ accepted # <<>>
      /\ ring' = [ring EXCEPT ![rx_read_entry].finished = FALSE]
      /\ rx_read_entry' = (rx_read_entry + 1) % RingSize
      /\ accepted' = Tail(accepted)
      /\ phase' = "service" /\ rx_curr_entry' = rx_curr_entry /\ rx_curr_entry = Slot(n)
  BY DEF Release, RingInv, NextEntry, Slot
<1>2. /\ accepted' \in Seq(RxFrames) /\ Len(accepted') = n - 1 /\ n \in Nat \ {0}
      /\ \A k \in 1..(n - 1) : accepted'[k] = accepted[k + 1]
  BY <1>1 DEF RingInv
<1>3. RingSize \in Nat \ {0} /\ rx_read_entry \in 0..(RingSize - 1) /\ n \in 1..RingSize
  BY <1>2, SlotFacts
<1>4. /\ ring' \in [0..(RingSize - 1) -> Entry]
      /\ ring'[rx_read_entry].finished = FALSE
      /\ \A i \in 0..(RingSize - 1) : i # rx_read_entry => ring'[i] = ring[i]
  <2>1. ring[rx_read_entry] \in Entry
    BY <1>3 DEF RingInv
  <2>2. [ring[rx_read_entry] EXCEPT !.finished = FALSE] \in Entry
    BY <2>1 DEF Entry
  <2>. QED  BY <1>1, <1>3, <2>2 DEF RingInv, Entry
<1>5. rx_read_entry' \in 0..(RingSize - 1)
  <2>1. 1 \in 0..RingSize
    BY <1>3
  <2>. QED  BY <1>1, <1>3, <2>1, Around
<1> HIDE DEF n
<1>7. \A k \in 0..(RingSize - 1) : (rx_read_entry' + k) % RingSize = Slot(k + 1)
  BY <1>1, <1>3, Further DEF Slot
<1>8. rx_curr_entry = (rx_read_entry' + (n - 1)) % RingSize
  <2>1. n - 1 \in 0..(RingSize - 1) /\ (n - 1) + 1 = n
    BY <1>3
  <2>. QED  BY <1>1, <1>7, <2>1
<1>9. ASSUME NEW k \in 0..(RingSize - 1)
      PROVE  /\ ring'[Slot(k + 1)].finished <=> k < n - 1
             /\ ring'[Slot(k + 1)].finished => ring'[Slot(k + 1)].frame = accepted'[k + 1]
  <2>1. CASE k = RingSize - 1
    <3>1. Slot(k + 1) = rx_read_entry /\ ~(k < n - 1)
      <4>1. k + 1 = RingSize /\ ~(k < n - 1)
        BY <1>3, <2>1
      <4>. QED  BY <4>1, SlotFacts
    <3>. QED  BY <1>4, <3>1
  <2>2. CASE k # RingSize - 1
    <3>1. k + 1 \in 0..(RingSize - 1) /\ k + 1 # 0 /\ 0 \in 0..(RingSize - 1)
      BY <1>3, <2>2
    <3>2. Slot(0) = rx_read_entry
      BY <1>3, <3>1, SlotFacts
    <3>3. Slot(k + 1) # rx_read_entry /\ Slot(k + 1) \in 0..(RingSize - 1)
      <4>1. k + 1 \in 0..RingSize
        BY <1>3
      <4>2. Slot(k + 1) \in 0..(RingSize - 1)
        BY <4>1, SlotFacts
      <4>3. Slot(k + 1) # Slot(0)
        BY <3>1, SlotFacts
      <4>. QED  BY <3>2, <4>2, <4>3
    <3>4. ring'[Slot(k + 1)] = ring[Slot(k + 1)]
      BY <1>4, <3>3
    <3>5. /\ ring[Slot(k + 1)].finished <=> k + 1 < n
          /\ k + 1 < n => ring[Slot(k + 1)].frame = accepted[(k + 1) + 1]
      BY <3>1, SlotFacts DEF n
    <3>6. (k < n - 1 <=> k + 1 < n) /\ (k + 1 < n => k + 1 \in 1..(n - 1))
      BY <1>3
    <3>7. k + 1 < n => accepted'[k + 1] = accepted[(k + 1) + 1]
      BY <1>2, <3>6
    <3>. QED  BY <3>4, <3>5, <3>6, <3>7, Zenon
  <2>. QED  BY <2>1, <2>2
<1>10. RingIsQueue'
  BY <1>2, <1>7, <1>9 DEF RingIsQueue
<1>11. Len(accepted') <= RingSize /\ rx_curr_entry' = (rx_read_entry' + Len(accepted')) % RingSize
  BY <1>1, <1>2, <1>3, <1>8
<1>. QED  BY <1>1, <1>2, <1>4, <1>5, <1>10, <1>11 DEF RingInv

LEMMA NextRing ==
  ASSUME RingInv, [FirmwareNext]_firmwareVars
  PROVE  RingInv'
<1>1. CASE Reset
  <2>1. /\ rx_read_entry' = 0 /\ rx_curr_entry' = 0 /\ accepted' = <<>> /\ phase' = "service"
        /\ ring' = [i \in DOMAIN ring |-> [ring[i] EXCEPT !.finished = FALSE]]
    BY <1>1 DEF Reset
  <2>2. /\ Len(accepted') = 0 /\ accepted' \in Seq(RxFrames)
        /\ RingSize \in Nat \ {0} /\ 0 \in 0..(RingSize - 1)
    BY <2>1, FirmwareAssumption
  <2>3. /\ DOMAIN ring = 0..(RingSize - 1)
        /\ \A i \in 0..(RingSize - 1) : ring[i] \in [finished : BOOLEAN, frame : RxFrames]
    BY DEF RingInv, Entry
  <2>4. \A i \in 0..(RingSize - 1) : [ring[i] EXCEPT !.finished = FALSE] \in Entry
    BY <2>3 DEF Entry
  <2>5. /\ ring' \in [0..(RingSize - 1) -> Entry]
        /\ \A i \in 0..(RingSize - 1) : ring'[i].finished = FALSE
    BY <2>1, <2>3, <2>4
  <2>6. \A k \in 0..(RingSize - 1) : (0 + k) % RingSize \in 0..(RingSize - 1) /\ ~(k < 0)
    BY <2>2, Around
  <2>7. RingIsQueue'
    BY <2>1, <2>2, <2>5, <2>6 DEF RingIsQueue
  <2>8. rx_curr_entry' = (rx_read_entry' + Len(accepted')) % RingSize
    BY <2>1, <2>2, Further
  <2>. QED  BY <2>1, <2>2, <2>5, <2>7, <2>8 DEF RingInv
<1>2. ASSUME NEW f \in RxFrames, CoreReceives(f) PROVE RingInv'
  BY <1>2, CoreRing
<1>3. CASE Release
  BY <1>3, ReleaseRing
<1>4. CASE Forward
  <2>1. accepted # <<>>
    <3>1. Slot(0) = rx_read_entry /\ 0 \in 0..(RingSize - 1)
      BY SlotFacts
    <3>2. 0 < Len(accepted)
      BY <1>4, <3>1, SlotFacts DEF Forward
    <3>. QED  BY <3>2
  <2>. QED  BY <1>4, <2>1 DEF Forward, ForwardHeld, RingInv, RingIsQueue
<1>5. CASE UNCHANGED ringVars /\ (phase' = phase \/ phase' # "forward")
  BY <1>5 DEF ringVars, RingInv, RingIsQueue
<1>. QED
  BY <1>1, <1>2, <1>3, <1>4, <1>5
  DEF FirmwareNext, firmwareVars, ByteLost, HostSends, ReceiveByte, ReceiveDelimiter, UartIdle, RxDies, Drained

(* Whatever the order in which the core stores and the main loop forwards, *)
(* every frame stored is forwarded once, in order, from an entry that the  *)
(* core leaves alone: for every number of data entries.                    *)
THEOREM RingTheorem == FirmwareSpec => []RingIsQueue
<1>1. FirmwareInit => RingInv
  BY InitRing
<1>2. RingInv /\ [FirmwareNext]_firmwareVars => RingInv'
  BY NextRing
<1>3. RingInv => RingIsQueue
  BY DEF RingInv
<1>. QED  BY <1>1, <1>2, <1>3, PTL DEF FirmwareSpec

-----------------------------------------------------------------------------
(* What is left of the types. *)
RestInv ==
  /\ phase \in {"service", "forward", "uart"}
  /\ hostPkt \in HostPackets \cup {<<>>}
  /\ lost \in 0..MaxLost
  /\ clean \in BOOLEAN /\ rfHandle \in BOOLEAN /\ deaf \in BOOLEAN
  /\ served.told \in BOOLEAN

LEMMA NextRest ==
  ASSUME ParserInv, RestInv, [FirmwareNext]_firmwareVars
  PROVE  RestInv'
<1> USE DEF RestInv
<1>0. served' = NoCommand => served'.told \in BOOLEAN
  BY DEF NoCommand
<1>1. CASE Reset
  BY <1>0, <1>1 DEF Reset
<1>2. CASE ByteLost
  <2>1. lost' \in 0..MaxLost
    BY <1>2, FirmwareAssumption DEF ByteLost
  <2>2. clean' \in BOOLEAN /\ served' = NoCommand /\ UNCHANGED <<phase, hostPkt, rfHandle, deaf>>
    BY <1>2 DEF ByteLost
  <2>. QED  BY <1>0, <2>1, <2>2
<1>3. ASSUME NEW p \in HostPackets, HostSends(p) PROVE RestInv'
  BY <1>0, <1>3 DEF HostSends
<1>4. CASE ReceiveByte
  BY <1>0, <1>4 DEF ReceiveByte
<1>5. CASE ReceiveDelimiter
  <2>1. served'.told \in BOOLEAN
    <3>1. CASE Completed = <<>>
      BY <1>0, <1>5, <3>1 DEF ReceiveDelimiter
    <3>2. CASE OnCommand(Completed)
      <4>1. \E told \in BOOLEAN : served' = [cmd |-> Completed, told |-> told]
        BY <3>2 DEF OnCommand
      <4>. QED  BY <4>1
    <3>. QED  BY <1>5, <3>1, <3>2 DEF ReceiveDelimiter
  <2>. QED  BY <1>5, <2>1 DEF ReceiveDelimiter
<1>6. CASE UartIdle
  BY <1>0, <1>6 DEF UartIdle, senderVars
<1>7. ASSUME NEW f \in RxFrames, CoreReceives(f) PROVE RestInv'
  BY <1>0, <1>7 DEF CoreReceives, senderVars
<1>8. CASE RxDies \/ Forward \/ Release \/ Drained
  BY <1>0, <1>8 DEF RxDies, Forward, Release, Drained, senderVars
<1>9. CASE UNCHANGED firmwareVars
  BY <1>9 DEF firmwareVars, senderVars
<1>. QED  BY <1>1, <1>2, <1>3, <1>4, <1>5, <1>6, <1>7, <1>8, <1>9 DEF FirmwareNext

(* Every variable keeps its type. *)
THEOREM TypeInvariant == FirmwareSpec => []FirmwareTypeOK
<1> DEFINE TInv == ParserInv /\ RadioInvAndAnswer /\ RingInv /\ RestInv
<1>1. FirmwareInit => TInv
  <2>1. FirmwareInit => RestInv
    BY FirmwareAssumption DEF FirmwareInit, RestInv, NoCommand
  <2>. QED  BY <2>1, InitParser, InitRadio, InitRing
<1>2. TInv /\ [FirmwareNext]_firmwareVars => TInv'
  BY NextParser, NextRadio, NextRing, NextRest
<1>3. TInv => FirmwareTypeOK
  <2>1. SUFFICES ASSUME TInv PROVE FirmwareTypeOK
    OBVIOUS
  <2>2. rx_curr_entry \in 0..(RingSize - 1)
    <3>1. Len(accepted) \in 0..RingSize /\ rx_read_entry \in 0..(RingSize - 1)
      BY <2>1, SlotFacts
    <3>2. rx_curr_entry = (rx_read_entry + Len(accepted)) % RingSize
      BY <2>1 DEF RingInv
    <3>. QED  BY <3>1, <3>2, Around
  <2>3. radio \in Radio
    BY <2>1 DEF RadioInvAndAnswer, RadioInv, Sane
  <2>. QED  BY <2>1, <2>2, <2>3 DEF FirmwareTypeOK, ParserInv, RingInv, RestInv, Radio
<1> HIDE DEF TInv
<1>. QED  BY <1>1, <1>2, <1>3, PTL DEF FirmwareSpec
=============================================================================
