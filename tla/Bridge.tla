------------------------------- MODULE Bridge -------------------------------
(***************************************************************************)
(* host/aps_bridge/bridge.py as the daemon uses it: poll() and             *)
(* ping_with_reply() share one stream of packets from the dongle.  A cycle *)
(* polls each enabled inverter in turn, listening for its reply with       *)
(* poll(), and ends with one ping_with_reply(), which has to read past     *)
(* whatever else arrives while it waits for PKT_INFO and to put it back.   *)
(*                                                                         *)
(* A packet is on the wire once its COBS terminator is: what poll() finds  *)
(* is everything that arrived since the last call.  Byte-level framing is  *)
(* modelled in its own module.                                             *)
(***************************************************************************)
EXTENDS Naturals, Sequences, FiniteSets

CONSTANTS
  Order,        \* the enabled inverters, in the order they are polled
  Foreign,      \* overheard frames and PKT_LOG packets the dongle may send
  MaxCycles,    \* bound: cycles in a behaviour
  None          \* no payload received

Polled == {Order[k] : k \in 1..Len(Order)}

(* Packets: a frame received from inverter src in answer to the poll of    *)
(* cycle n, the PKT_INFO answering the ping of cycle n, anything else.     *)
Reply(i, n) == [type |-> "rx", src |-> i, cycle |-> n]
Info(n)     == [type |-> "info", src |-> None, cycle |-> n]
Other(f)    == [type |-> "other", src |-> f, cycle |-> 0]

Frames  == {Reply(i, n) : i \in Polled, n \in 1..MaxCycles}
             \cup {Other(f) : f \in Foreign}
Packets == Frames \cup {Info(n) : n \in 1..MaxCycles}

ASSUME BridgeAssumption ==
  /\ Order \in Seq(Polled)
  /\ \A j, k \in 1..Len(Order) : Order[j] = Order[k] => j = k
  /\ MaxCycles \in Nat \ {0}
  /\ None \notin Polled \cup Foreign \cup Packets

VARIABLES
  stage,         \* where the daemon is in its cycle
  who,        \* index into Order
  cycle,
  polled,     \* was poll() called in this listen window?
  best,       \* best_payload of this window
  hasPending, \* does the Bridge object have the attribute _pending yet?
  pending,    \* _pending
  leftover,   \* ping_with_reply's local list
  wire,       \* packets that arrived and were not read
  air,        \* replies and PKT_INFOs still on their way to the host
  unheard,    \* overheard packets that may still occur
  pong,       \* history: the cycle whose ping the PKT_INFO accepted in
              \* this cycle answers, 0 if none was accepted
  due,        \* history: the frames that arrived, except those that a ping
              \* left unread behind PKT_INFO
  delivered,  \* history: the packets poll() handed to the poll loop
  used        \* history: the decode of each inverter, with its cycle

pollVars == <<stage, who, cycle, polled, best, used>>
objVars  == <<hasPending, pending, leftover>>
linkVars == <<wire, air, unheard>>
bridgeVars     == <<pollVars, objVars, linkVars, due, delivered, pong>>

BridgeTypeOK ==
  /\ stage \in {"tx", "listen", "ping", "wait", "sleep"}
  /\ who \in 1..(Len(Order) + 1)
  /\ cycle \in 1..MaxCycles
  /\ polled \in BOOLEAN
  /\ best \in Packets \cup {None}
  /\ hasPending \in BOOLEAN
  /\ pending \in Seq(Packets) /\ leftover \in Seq(Packets) /\ wire \in Seq(Packets)
  /\ ~hasPending => pending = <<>>
  /\ air \subseteq Packets
  /\ unheard \subseteq Foreign
  /\ delivered \in Seq(Packets)
  /\ due \subseteq Frames
  /\ pong \in 0..MaxCycles
  /\ used \in [Polled -> {None} \cup [packet : Packets, cycle : 1..MaxCycles]]

BridgeInit ==
  /\ stage = "tx" /\ who = 1 /\ cycle = 1
  /\ polled = FALSE /\ best = None
  /\ hasPending = FALSE /\ pending = <<>> /\ leftover = <<>>
  /\ wire = <<>> /\ air = {} /\ unheard = Foreign
  /\ due = {} /\ delivered = <<>> /\ pong = 0
  /\ used = [i \in Polled |-> None]

-----------------------------------------------------------------------------
(* Mutant: what was put back comes after what arrived since. *)
BatchPendingLast == wire \o pending

(* poll(): what ping_with_reply() put back, then what arrived. *)
Batch == pending \o wire

IsInfo(p) == p.type = "info"

(* Mutant: poll() keeps PKT_INFO for the next ping to find. *)
EmptiedKeepsInfo ==
  wire' = <<>> /\ pending' = SelectSeq(Batch, IsInfo) /\ UNCHANGED hasPending

(* poll() leaves both empty. *)
Emptied == wire' = <<>> /\ pending' = <<>> /\ UNCHANGED hasPending

(* Mutant: best_payload survives the window it belongs to. *)
TxPollKeepsBest ==
  /\ stage = "tx" /\ who <= Len(Order)
  /\ stage' = "listen" /\ polled' = FALSE
  /\ air' \in {air, air \cup {Reply(Order[who], cycle)}}
  /\ UNCHANGED <<who, cycle, best, used, objVars, wire, unheard, due, delivered, pong>>

(* bridge.tx_frame(build_poll(...)): the inverter answers or it does not. *)
TxPoll ==
  /\ stage = "tx" /\ who <= Len(Order)
  /\ stage' = "listen" /\ polled' = FALSE /\ best' = None
  /\ air' \in {air, air \cup {Reply(Order[who], cycle)}}
  /\ UNCHANGED <<who, cycle, used, objVars, wire, unheard, due, delivered, pong>>

(* The best payload after a batch: the longest of this inverter's in the   *)
(* window, which may be any of them or the one kept so far.                *)
BestOf(b) ==
  LET mine == {b[k] : k \in {j \in 1..Len(b) : b[j].type = "rx" /\ b[j].src = Order[who]}}
  IN  IF mine = {} THEN {best} ELSE mine \cup ({best} \ {None})

(* One turn of the listen loop. *)
Listen ==
  /\ stage = "listen"
  /\ polled' = TRUE
  /\ best' \in BestOf(Batch)
  /\ delivered' = delivered \o Batch
  /\ Emptied
  /\ UNCHANGED <<stage, who, cycle, used, leftover, air, unheard, due, pong>>

(* The deadline of the window: decode the best payload, if any. *)
ListenEnd ==
  /\ stage = "listen" /\ polled
  /\ used' = IF best = None THEN used
             ELSE [used EXCEPT ![Order[who]] = [packet |-> best, cycle |-> cycle]]
  /\ stage' = "tx" /\ who' = who + 1
  /\ UNCHANGED <<cycle, polled, best, objVars, linkVars, due, delivered, pong>>

(* ping_with_reply(): send PKT_PING; the firmware will answer it. *)
SendPing ==
  /\ stage = "tx" /\ who > Len(Order)
  /\ stage' = "wait"
  /\ leftover' = <<>>
  /\ air' \in {air, air \cup {Info(cycle)}}
  /\ UNCHANGED <<who, cycle, polled, best, used, hasPending, pending,
                 wire, unheard, due, delivered, pong>>

(* A turn of its loop that finds no PKT_INFO keeps what it read. *)
PingReads ==
  /\ stage = "wait"
  /\ Batch # <<>> /\ ~\E k \in 1..Len(Batch) : IsInfo(Batch[k])
  /\ leftover' = leftover \o Batch
  /\ Emptied
  /\ UNCHANGED <<pollVars, air, unheard, due, delivered, pong>>

(* Mutant: only the loop puts back. *)
PutBackByLoop(l) == IF hasPending THEN l ELSE <<>>

(* What is put back when PKT_INFO is found: once by the loop, if there is  *)
(* an attribute to append to, and once more by the finally clause.         *)
PutBack(l) == IF hasPending THEN l \o l ELSE l

(* A turn that finds PKT_INFO puts the packets before it back and returns; *)
(* those after it in the same batch were never looked at.                  *)
PingAnswered ==
  /\ stage = "wait"
  /\ \E k \in 1..Len(Batch) :
       /\ IsInfo(Batch[k])
       /\ \A j \in 1..(k - 1) : ~IsInfo(Batch[j])
       /\ LET l == leftover \o SubSeq(Batch, 1, k - 1)
          IN  /\ pending' = PutBack(l)
              /\ hasPending' = (hasPending \/ l # <<>>)
              /\ due' = due \ ({Batch[j] : j \in (k + 1)..Len(Batch)}
                                 \ {l[j] : j \in 1..Len(l)})
       /\ pong' = Batch[k].cycle
  /\ wire' = <<>>
  /\ leftover' = <<>>
  /\ stage' = "sleep"
  /\ UNCHANGED <<who, cycle, polled, best, used, air, unheard, delivered>>

(* Mutant: the attribute is not created before it is extended. *)
PingTimeoutNoAttribute ==
  /\ stage = "wait"
  /\ pending' = pending \o leftover
  /\ leftover' = <<>>
  /\ stage' = "sleep"
  /\ UNCHANGED <<who, cycle, polled, best, used, hasPending, linkVars, due, delivered, pong>>

(* The deadline: everything that was read is put back. *)
PingTimeout ==
  /\ stage = "wait"
  /\ pending' = pending \o leftover
  /\ hasPending' = (hasPending \/ leftover # <<>>)
  /\ leftover' = <<>>
  /\ stage' = "sleep"
  /\ UNCHANGED <<who, cycle, polled, best, used, linkVars, due, delivered, pong>>

(* The next cycle.  No reply takes as long as a cycle lasts: one that has  *)
(* not arrived by now was lost.                                            *)
NextCycle ==
  /\ stage = "sleep" /\ cycle < MaxCycles
  /\ stage' = "tx" /\ who' = 1 /\ cycle' = cycle + 1
  /\ air' = {} /\ pong' = 0
  /\ UNCHANGED <<polled, best, used, objVars, wire, unheard, due, delivered>>

(* The bound on cycles is reached. *)
Done == stage = "sleep" /\ cycle = MaxCycles /\ UNCHANGED bridgeVars

-----------------------------------------------------------------------------
(* A reply or a PKT_INFO reaches the host, or an overheard packet does. *)
Arrive(p) ==
  /\ p \in air
  /\ wire' = Append(wire, p)
  /\ air' = air \ {p}
  /\ due' = due \cup ({p} \cap Frames)
  /\ UNCHANGED <<pollVars, objVars, unheard, delivered, pong>>

Overhear(f) ==
  /\ f \in unheard
  /\ wire' = Append(wire, Other(f))
  /\ unheard' = unheard \ {f}
  /\ due' = due \cup {Other(f)}
  /\ UNCHANGED <<pollVars, objVars, air, delivered, pong>>

BridgeNext ==
  \/ TxPoll \/ Listen \/ ListenEnd
  \/ SendPing \/ PingReads \/ PingAnswered \/ PingTimeout
  \/ NextCycle \/ Done
  \/ \E p \in Packets : Arrive(p)
  \/ \E f \in Foreign : Overhear(f)

BridgeSpec == BridgeInit /\ [][BridgeNext]_bridgeVars

-----------------------------------------------------------------------------
(* Properties. *)

Count(s, p) == Cardinality({k \in 1..Len(s) : s[k] = p})

(* How often a packet that arrived is still to be delivered, was, or both. *)
Copies(p) == Count(pending, p) + Count(leftover, p) + Count(delivered, p)

(* "Frames received while we wait (...) are not lost" (docstring of        *)
(* ping_with_reply): every frame that arrived is on the wire, put back or  *)
(* delivered, those apart that the return at PKT_INFO leaves unread in its *)
(* batch.  And it comes back at most twice: with a poll in every cycle the *)
(* second copy leaves the queue before the next ping can double it again,  *)
(* so _pending cannot grow from ping to ping.                              *)
OnceOrTwice ==
  /\ \A p \in Packets : Copies(p) <= 2
  /\ \A p \in due : Count(wire, p) + Copies(p) >= 1

(* However often packets are put back, the poll loop meets them for the    *)
(* first time in the order in which they arrived: putting back never lets  *)
(* a newer frame overtake an older one.  An inverter's reply to a later    *)
(* poll is therefore never seen before its reply to an earlier one.        *)
FirstSeen(p) == CHOOSE k \in 1..Len(delivered) :
                  delivered[k] = p /\ \A j \in 1..(k - 1) : delivered[j] # p
RepliesInOrder ==
  \A i \in Polled : \A m, n \in 1..MaxCycles :
    (/\ m < n
     /\ Count(delivered, Reply(i, m)) > 0
     /\ Count(delivered, Reply(i, n)) > 0)
      => FirstSeen(Reply(i, m)) < FirstSeen(Reply(i, n))

(* Telemetry the daemon logs under the present time is at most one cycle   *)
(* old: a reply that missed its own window, stayed on the wire or was put  *)
(* back by the ping, is consumed by the very next listen window.           *)
TelemetryAtMostOneCycleOld ==
  \A i \in Polled : used[i] # None => used[i].packet.cycle + 1 >= used[i].cycle

(* A pong is never credited to a later ping: the watchdog's evidence of    *)
(* life is from this cycle, since the listen windows drain any late one.   *)
PongIsFresh == pong \in {0, cycle}
=============================================================================
