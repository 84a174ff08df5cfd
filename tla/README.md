# apsystems-bridge in TLA+

TLA+ models of apsystems-bridge (a USB radio dongle with its own firmware, a
Python daemon that polls APsystems micro-inverters through it, a web dashboard
that shares configuration files with the daemon, a browser flasher), TLC
configurations that check them on small instances, and TLAPS proofs of the
results that hold for every instance.

## The system

| Part | State | Operations | Talks to |
|---|---|---|---|
| **Firmware** `firmware/main.c`, `radio.c`, `uart_bridge.c` | RX command handle, channel, receive ring of the RF core, UART frame under assembly | forward a frame, execute a command packet, answer PING with channel, version and RX status | UART (COBS packets) with the host; radio with the inverters |
| **Host bridge** `host/aps_bridge/bridge.py` | serial port, bytes not yet framed, `_pending` | `open`, `poll`, `tx_frame`, `ping_with_reply`, set channel / TX power / filter | the daemon calls it, one thread |
| **Daemon loop** `host/aps_unified_daemon.py` `main()` | stop flag, watchdog counters, RF-heal counters, per-inverter statistics | open the dongle, startup probe, poll cycle, watchdog, RF self-heal, `return 2` | bridge; supervisor (systemd, docker) by its exit; files in `etc/`, `logs/` |
| **Action queue** `process_pending_actions`, `server.py` `/api/action` | files in `etc/actions/`, records in `logs/actions/`, `features.json` | post, list, transmit, record, unlink | server threads and daemon through the directory |
| **Configuration** `server.py` `/api/inverters`, `/api/radio`, ...; the daemon's loaders | `inverters.json`, `radio.json`, `mqtt.json`, `retention.json`, `polling.json`, `logging.json`; caches keyed by mtime | GET (with seeding), PUT, hot reload | server threads and daemon through the files |
| **MQTT publisher** `MqttPublisher`, `publish_telemetry`, `server.py` `/api/mqtt` | `mqtt.json`, its cache, client, set of discovered entities | PUT with masked password, load, reconcile, publish, discovery | server threads and daemon through the file; broker |
| **Telemetry logs** `log_decoded`, `run_retention_sweep`; `server.py` snapshot, today, history, `/api/retention` | a log per day, `retention.json`, day of the last sweep; cache of decoded logs, shared by request threads | append, sweep, load a day | daemon and request threads through the logs |
| **Set power** `api_action_post`, `process_pending_actions` | command, calibration offset, frames sent | range check, floor, offset, throttle frames, query | web form to inverter |
| **Sessions** `server.py` auth | token dictionary | login, logout, expiry | browser |
| **Dashboard** `host/webui/index.html` | `editInverters`, forms | whole-list saves, toggles | server |
| **Flasher** `flasher/*.js` | buffered reader, flash progress | bootloader entry, sync, erase, program, verify, reset | the dongle's ROM bootloader |
| Frame builders and decoders, event log and status file, `addon/run.sh`, `tools/`, packaging | | | |

Where it gets hard:

* the daemon must tell a stuck dongle from a dark morning with two indirect
  signals, ping answers and silence, and escalate from bounce to restart without
  looping; it can lose the port, fail half way through a re-open and receive
  SIGTERM anywhere;
* `ping_with_reply()` reads from the stream that the poll loop needs, and has to
  put back what is not its own;
* server threads and the daemon share files without locks, and every write is a
  truncation followed by a write;
* one-shot commands must not be lost, repeated or overtaken across a daemon that
  can be killed between transmitting and unlinking;
* firmware and flasher have to resynchronise a byte stream after a loss or a
  timeout.

What makes each part correct: recoveries and restarts only on evidence, and
every curable fault cured (daemon); every frame reaches the poll loop in order
(bridge); each command executed once, in order, with a record, and nothing else
unless a kill or a failing disk explains it (actions); a reader sees the file's
own states and never keeps an old one (configuration); each published value
under the configuration the file had during the call, and the stored password
survives the form that masks it (MQTT); an answer contains the newest readings,
and old logs go while new ones stay (telemetry); what is sent is what was asked
for, within the calibration (set power); a success message only for a verified
image (flasher); no command but one the host sent (firmware).

## Plan

| | Module | Abstract view | Status |
|---|---|---|---|
| 1 | `Daemon`, `MCDaemon` | restarts justified by evidence; faults are cured | done |
| 2 | `DaemonProofs` | types, watchdog, heal and restart theorems | done |
| 3 | `Bridge`, `MCParts`, `BridgeProofs` | an ordered, once-or-twice, at-most-one-cycle-late channel | done, its invariants proved |
| 4 | `ActionQueue`, `MCActionQueue`, `ActionQueueProofs` | an execute-once queue, kills and failures of the disk apart | done, its invariants proved |
| 5 | `FileReads`: what a reader may expect of a file that changes under its hands | (it is one) | done; implemented by `ConfigStore` and `Telemetry` |
| 6 | `ConfigStore`, `MCParts`, `MCConfigStore`, `ConfigStoreProofs` | `FileReads` | done for `inverters.json`; the refinement is proved |
| 7 | `Cobs`, `Firmware`, `MCFirmware`, `FirmwareProofs` | framing resynchronises; PKT_INFO is honest about the RX command; the ring is a queue | done, its invariants proved |
| 8 | `Flasher`, `MCParts`, `FlasherProofs` | "Done" implies the image is on the chip; from the erasure on no reply passes for another | done, its invariants proved |
| 9 | `Telemetry`, `MCServices`, `TelemetryProofs` | `FileReads`; the newest reading is in the answer; old logs go | done; proved but for the liveness |
| 10 | `Mqtt`, `MCServices`, `ServicesProofs` | published as the file asked during the call; passwords survive the mask | done, its invariants proved |
| 11 | `SetPower`, `MCServices`, `ServicesProofs` | what is asked for is what is sent, within one calibration offset | done, its invariant proved |
| 12 | more abstract specifications with refinement | an ideal channel for `Bridge`; a two-counter escalation for `Daemon` | later |

The components share no variables; they meet at the operations one calls of the
other. `Daemon` takes a whole poll window or ping as one step and describes the
dongle by its fault; `Bridge` opens that step up into packets; `ActionQueue`
opens the head of the cycle, `ConfigStore` the load before it, `Firmware` what
the other end of the link makes of the host's bytes. `SetPower` opens up what
`ActionQueue` calls transmitting one command, `Telemetry` and `Mqtt` what
happens to a reading that `Daemon` calls decoded. Their assumptions about each
other are stated in their fairness.

## Daemon

`main()` cut at the places between which the environment can act. `pc` is "open"
(outer loop head), "probe"/"probeOpen" (startup self-heal), "cycle" (inner loop
head), "poll", "stalled" (after the ping), "heal", "healOpen", "crashed" (the
`except` clause), "exited0"/"exited2".

| Action | Code (`aps_unified_daemon.py`) |
|---|---|
| `Open`, `StopAtHead` | loop head and `_open_bridge()` 1093-1097; `return 0` 1327 |
| `Probe`, `ProbeOpen` | `_probe_rf()` 1025-1055; the `for ... else` 1106-1122 |
| `BeginCycle`, `PollInverter`, `Ping` | 1126-1158, 1159-1212, 1214-1246 |
| `Bounce`, `NotStalled` | 1248-1270 |
| `RfHeal`, `HealOpen` | 1272-1287 and 1308-1310; the in-place re-open and the daytime escalation 1288-1307 |
| `Recover` | 1322-1326 |
| `Restart` | `Restart=always` of `aps-unified.service`, `unless-stopped` of docker |

The environment: `Fail`/`Replug` (the dongle is "stuck", answers with RX not
ACTIVE, is "deaf" although ACTIVE, or its port is "gone"), `ClockTurns`,
`SunChanges`, `EditInverters`, `Sigterm`. The sun does not keep to the daytime
window: `AwakeChoices` are the sets of inverters it may have awake, at any hour.
A healthy dongle may lose frames (`ReplyLoss`) and pongs (`PongLossCap`). A
reset on open may or may not cure a fault; the restart of the process cures
every fault but a missing port, which is what the code counts on ("fresh USB
enumeration").

Two history variables judge the RF self-heal. `silent` counts the cycles closed
without telemetry since the last decode, and starts anew at the decode itself
(1190, 1200), not where the code resets `no_reply_cycles` (1308-1310): between
the two a cycle can leave by the watchdog's bounce (break, 1269), a `KeyError`
(1188) or an `OSError`. Then the self-heal never hears of the decode, and its
counters go on from what they were. `unbooked` says that there was such a decode
since the last one it did hear of.

*Checked.* `daemon_faults` (two faults, lost frames and pongs, dark hours, a
family without a decoder): `RecoveriesBehindMisses`, `HealsBehindSilence`,
`RestartJustified`. The last two name the one way round them: heals and, by day,
a restart may rest on cycles from before an `unbooked` decode. After silent
cycles and a heal a YC600 is decoded, a QS1 raises in the same cycle, and the
silence that follows is added to the old; TLC finds it as soon as the exception
is taken out. `daemon_recovery`, with fairness: `PingFaultCured`,
`DeafCuredByDay`, `EveryInverterServed`, `StopTerminates`. It has one fault and
no losses, since the liveness check of the larger instance does not end in time;
the sun rises and sets there for all inverters together, at any hour.

*Violated.* `daemon_qs1`: `EveryInverterServed` fails with one QS1, whose
replies raise `KeyError` (`DECODERS` has two families), in the end in every
startup probe. `daemon_night`: `NoNeedlessRestart` fails without any fault.
README.md:53 of the repository promises recovery that "survives sunset ->
sunrise silent windows without false alarms", but the daytime window is a fixed
pair of hours (`_is_daytime`, used at 1293): inverters that sleep inside it, on
a dark winter morning, have the process of a healthy dongle restarted.

*Left out.* An `OSError` of `write_status()` (1246), on a full disk, leaves the
session before the stall check; `Ping` lets only a port that is gone do so. The
replies of the startup probe are not decodes and reset nothing, in the code
(1049-1052) as in `silent`.

*Bounds.* Thresholds of 2 and 3 instead of 3 to 5: every comparison still has a
value below, at and above it, and the proofs cover all values. Two inverters:
one that answers and one that does not, or cannot be decoded. Two faults where
safety is checked: one during the recovery from another. `SilenceCap` saturates
the history variable above every value a property compares it with.

*Fairness.* `WF(DaemonStep)`: every wait in `main()` has a deadline.
`WF(Restart)`: the supervisor. `WF(Replug)`: a missing port comes back; without
it nothing can be promised. The sun, the clock, faults, edits and signals are
not fair.

*Proved* (`DaemonProofs`), from `DaemonAssumption` alone, that is for every set
of inverters and every positive threshold: `TypeInvariant`, `WatchdogTheorem`,
`HealTheorem`, `RestartTheorem`. Neither counter invariant is inductive: a
bounce needs to know at "stalled" that the pings counted so far cover it, and
"healOpen" has to remember that the threshold of silent cycles was reached
before the counter was raised, while a failed re-open keeps `no_reply_cycles`
above it. `Evidence` adds what each `pc` knows of both pairs of counters;
`EvidenceInvariant` proves it, and the others follow from it. `RestartTheorem`
is an action property: the step into "exited2" is a `Bounce` or a `HealOpen`,
and `Evidence` before it gives the count.

## Bridge

One cycle of the poll loop on a stream of packets. `pending` is `_pending`
(`hasPending`: whether the attribute exists yet, which decides whether the loop
at line 170 has anywhere to append to), `leftover` the local list of
`ping_with_reply()`, `wire` what arrived and was not read, `air` the answers on
their way. `TxPoll`, `Listen`, `ListenEnd` are the poll loop of the daemon
(1159-1206), `SendPing`, `PingReads`, `PingAnswered`, `PingTimeout` are
`ping_with_reply()` (137-192). Reading a batch is one step: `poll()` returns
everything that is there. `BestOf` keeps any of the window's frames of the
inverter, or the one kept before: the code takes the longest payload (1182), and
the model has no lengths. The reads of `_drain()` and `_collect_reply()`
(828-852, commands and startup) and of `_open_bridge()` are not modelled; they
take packets away between two cycles and put none back.

`parts` checks that a frame that arrived is still there or was delivered, once
or twice (`OnceOrTwice`), that first deliveries keep the order of arrival, that
telemetry is at most one cycle old and that a pong answers the ping of its own
cycle. All four lean on the listen window between two pings that empties the
queue; with no enabled inverter there is none, and `_pending` doubles at every
answered ping (the instance therefore has one inverter, which is the least that
has a window; more only add windows). A reply on its way for longer than a cycle
counts as lost. `OnceOrTwice` is the docstring's "not lost" (bridge.py:154) with
the exception the code makes: packets behind `PKT_INFO` in the same batch are
dropped by the return at line 180. The history variable `due` leaves them out,
and nothing else.

Bounds: three cycles, so that a packet of the first can be put back in two
pings; two overheard packets around the reply. A `Done` step stands for the
bound on cycles.

*Proved* (`BridgeProofs`), for any list of inverters, any overheard traffic and
any number of cycles: `TypeInvariant`, `TelemetryTheorem`, `OrderTheorem`, and,
with the hypothesis that some inverter is enabled (`Order # <<>>`),
`PongTheorem` and `OnceOrTwiceTheorem`; without a listen window the last two
fail for the reason above. Three invariants carry them, each proved inductive on
its own: `Ages` (once the stream was read in this cycle, nothing older than the
cycle is anywhere but in what `poll()` already handed out), `Sequenced` (where
replies to two polls can be relative to each other: what was put back is of an
earlier cycle than what is still to come) and `Copied` (a packet that was not
read has one copy, and none put back or delivered; a put-back makes two of it at
most, and the window before the next ping hands out all of them, so that none is
put back again).

## ActionQueue

The directory is a function from names (second and target) to inode and content;
`OpenRequest`/`WriteRequest` are the two halves of `write_text()`. A thread
keeps the inode it opened: if the daemon unlinks the name in between, the
content goes nowhere. The daemon's pass is `BeginPass` (the toggle, 889), then
`ListRequests` (the sorted listing, 890 or 895), then per file `Take`,
`Transmit`, `Record`, then `EndPass`; `Kill` may come between any two of them.

`Record` is `_write_action_result()` (855-870) with its failures. A record that
cannot be written is only logged (`unrecorded`), and an unlink that fails is
passed over (`kept`): the next pass finds the file again. `ReportFails` is the
full disk on which `log_event()` raises too, in the `except` of the record or in
the report of the outcome: the exception leaves the handler before the unlink,
and the session. `failures` counts the last two.

`actions` checks `ReplaysAreExplained`, `LatestCommandWins`, `NothingVanishes`
and `QueueDrains`. What the model taught about the code is in the properties: a
command can go out once more per kill and per failure, so that "bad files are
deleted to avoid replay loops" (the docstring) is not kept for good ones: on a
disk that stays full, every cycle repeats the command; two commands in one
second share a file, and the newer then takes the older one's place in a listing
that already exists; a torn read costs the command but leaves a record; a
command whose file could not be removed can follow a newer one.

Bounds: three commands of two threads in two seconds; one toggle, one kill, one
failure. Two commands meet each of these with every other, three commands meet
one of them (`Alone`), which keeps the run within its time. One target, since
commands for different targets only meet in the sort order (the theorems are
about any number). Fairness: `WF(DaemonStep)` only, that is the daemon's cycles
go on; request threads, users, the clock and kills are not fair. `QueueDrains`
needs `unlink()` to succeed in the end, which the bound on `failures` grants: a
directory that stays read-only is out of its reach.

*Proved* (`ActionQueueProofs`), for any threads, targets, posts, seconds,
kills and failures: `TypeInvariant`, `ReplayTheorem`, `LatestCommandTheorem` and
`NothingVanishesTheorem`, all from `InductiveInvariant`. A bound on the
transmissions of a command is not inductive; `OnTheAir` tells a command that may
still be transmitted (unposted, being written, in its file, or just read) from
one that was and whose file is about to be unlinked, and gives the first one
less. `InOrder` says the same of a pair of commands for one target: once the
newer one is out, or in a listing without the older one, the older one is not to
be found. Both rest on `Directory` (a command is only in the file of its own
name) and `Pass` (the daemon alone removes files, so its listing stays valid).

## ConfigStore

`inverters.json` as a register of lists, numbered by the length of their text,
because the length decides what overlapping writes leave behind: a shorter text
over a longer one leaves a tail, and the file does not parse. `Put`, `Get`
(which seeds what it cannot read), `OpenList`, `WriteList` are the server's
threads; `LoadStat`, `LoadRead`, `LoadReturn` are `load_inverters()`: the stat
and the cache test, the read, the store under the mtime seen before the read.

`parts` checks that `load_inverters()` implements `FileReads` (`LoadsAreReads`):
each answer, from the cache or from the file, is something the file held during
the call, and the placeholder inverters stand for a file that is missing or does
not parse. The refinement mapping shows the daemon as a reader that has turned
to the file between its stat and its return, and that has an answer until the
cycle which works from it ends (`EndCycle`), so that a stale answer counts even
if it repeats the one before; a cache hit is a `ReadAtOnce`. The daemon also
follows the file (`DaemonFollows`). Assumed: every write gives the file a new
mtime. Two writes within one tick of the file system's clock with a read between
them would break the refinement; saves come from people, and the tick is
milliseconds.

*Proved* (`ConfigStoreProofs`), for any threads, lists and restarts:
`TypeInvariant`, `CacheTheorem` and `RefinementTheorem`. The invariant that is
inductive adds to the coherence of the cache that no remembered mtime is ahead
of the file's (so that the next change cannot make a stale entry current), that
what a load read under the mtime the file still has is what the file holds, and
that a load's history contains the present content. `StepMaps` has one step per
action: the two halves of a save are a `Change`, `LoadStat` is a `Turn` or a
`ReadAtOnce`, `LoadReturn` a `Return`, the end of a cycle or a new process a
`Forget`, the rest shows in neither variable of `FileReads`.

`config_seed`: a GET during a PUT replaces the user's list with the seed.

`radio.json` is not modelled. `api_radio_put()` (server.py:656) writes the one
field it knows and drops an ecu_id that was there, which the daemon then
replaces by the placeholder; that can be read off the two functions.

Bounds: two threads, three requests, one restart, the seed and one user list,
which is enough for a torn read, an overlap of a longer with a shorter text, and
a cache of each list.

## Firmware

The main loop of `main.c`: `Forward`, `Release` and `Drained` are
`radio_service()` (325-347 of `radio.c`), `ReceiveByte`, `ReceiveDelimiter` and
`UartIdle` are `uart_bridge_service()`, `OnCommand` is `on_command()` with the
radio functions it calls, written as functions of the record `radio` so that
`radio_set_channel()` followed by `radio_start_rx()` is their composition.
`Reset` is what `Bridge.open()` does to the chip. `Cobs` holds the encoder of
the host and the decoder of the firmware as recursive functions.

`radio.status` is the word that the RF core writes into the RX command and that
PKT_INFO reports; `radio.tuned` is the channel and filter that the RX command
runs with, if one does. `deaf` is the cold-start state that the daemon's
`_probe_rf()` was written for: the command runs, its status is ACTIVE, and the
receiver demodulates nothing. A reset chooses it anew, no code can see it, and
the core stores no frames in it. The core may refuse CMD_FS or the RX command,
end RX by itself (`RxDies`) and store frames at any moment (`CoreReceives`). The
host's bytes may be lost one by one (`ByteLost`): the UART is polled and its
FIFO overruns while the firmware blocks in `UARTCharPut()` or a transmission.
There is no checksum, so a damaged packet can be executed as another; what can
be promised is that one intact packet ends the trouble. An RX command that is
flushed is taken to end at once (`RF_flushCmd()` at 149 and 207 does not wait,
but the commands behind it are queued), and one that is scheduled to be active
at once.

`firmware` checks `NoTailExecuted`, `IntactPacketUnderstood`, `InfoIsHonest`
(the watchdog of `Daemon` rests on it: its "rxOff" is a status other than
ACTIVE), `ReceiverIsKnown`, `SetChannelAnswered` and `RingIsQueue`.
`InfoIsHonest` says that ACTIVE comes with the channel and the filter the RX
command runs with; it does not say that anything is heard. What proto.h:22 says,
"ACTIVE means the receiver is armed and listening", is `ActiveMeansListening`,
and the violated run `firmware_deaf` refutes it: the daemon's own comment
(1028-1033) describes the dongle that reports ACTIVE and hears nothing. The
round trip of COBS, for all data of up to five bytes, is the assumption
`CobsRoundTrip` of `MCFirmware`, which TLC evaluates first.

Bounds: packets of at most two bytes, so that one lost delimiter makes a segment
longer than `MaxEnc` and one whose decoding is longer than `MaxPkt`; two lost
bytes; groups of 3 instead of 255; a ring of two entries, where full, half full
and empty all occur; two channels, one invalid. The filter's data is one byte,
the mode: the addresses behind it are copied.

*Proved* (`FirmwareProofs`), for all packets, buffer sizes, channels and losses:
`ParserTheorem`, `ResyncTheorem`, `InfoTheorem`, `ReceiverTheorem`,
`SetChannelTheorem`, `RingTheorem`, `TypeInvariant`. The parser's invariant
needs the bytes to be numbers other than zero between delimiters, and
`ResyncTheorem` that the decoder inverts the encoder and that an encoded packet
is not longer than the parser allows. `HostPacketsAssumption` says so of the
packets: three facts about recursive functions, which take an induction over
data; TLC evaluates them for the packets of the instance, and `CobsRoundTrip`
for all short ones. What is proved is the rest: that whatever was lost, merged
or discarded before, the parser is back at the beginning when the delimiter is
through (`LinkInv`: received and still to come are the two parts of one encoded
packet). `RingInv` says the core writes behind the frames that are stored, and
the entry being forwarded is the oldest of them, by arithmetic modulo any
`RingSize`. For the radio the invariant `Sane` adds to `InfoIsHonest` that a
status other than ACTIVE means that no RX command runs, without which a start
over a running one could not be excluded; it is preserved by each function of
`radio`, one lemma each.

## Flasher

`onFlash()` after the image is fetched. `Script` is the list of commands behind
`sync()`; `SendCommand`, `ReadAck`, `ReadResponse` are `_sendCommand()`,
`_readAck()` and `_recvResponse()`, `Timeout` any of their deadlines: in the
middle of a read, which stays pending on the stream, or between two reads (140,
221, 249), which leaves none. `SignalsThrow` is a failing `setSignals()`; a
response whose checksum is wrong (260) and a CRC that differs (app.js:242) end
the session. `SerialReader` is `buf` and `orphans`: reads that lost the race
against their timeout and are still pending on the stream, each of which takes
one chunk (`Deliver`) away. The target executes its commands when it likes, may
refuse them, fail, write a wrong byte that its 8-bit checksum misses, or fall
silent.

`parts` checks `InStep`, `DoneMeansFlashed` and `SessionEnds`. `InStep` is not
obvious: an attempt of `sync()` that timed out is answered later, its ACK passes
for the next one's, and so on; such a conversation only ends at GET_CHIP_ID,
whose framed response cannot be mistaken for an ACK. Without that command, whose
result is only logged, the flash would be erased out of step (the mutation shows
it). What does not hold, and is not claimed, is that a healthy chip can always
be flashed: `drain()` leaves a read pending, it swallows the first ACK if both
bytes come in one chunk, the attempt times out and leaves the next read behind,
and so on through all attempts.

Bounds: two chunks, three attempts (late ACKs for two commands behind the
synchronisation), two sessions. The run may stop: nobody has to click again.
Fairness: `WF(HostStep)`, since every wait for the target has a deadline; none
for the target. Three calls of the browser have no deadline of their own and are
taken to return: `writer.write()` (175), `setSignals()` (282-294) and
`reader.cancel()` (163).

*Proved* (`FlasherProofs`), for an image of any size and any number of attempts
and sessions: `TypeInvariant`, `InStepTheorem` and `DoneTheorem`. `Stream` is
what the host has yet to read, buffered or on the wire; a delivery leaves it as
it is or, to an orphaned read, loses its beginning. Before the erasure
(`ChipIdLast`) nothing is claimed of the ACKs in it; GET_CHIP_ID is the last
command sent, and the header of its response, if there is one, is the third byte
from the end of everything. So when the host has read that response, nothing is
left, and since a read is only orphaned while there is nothing to read
(`Session`), no orphan is left either. From there on `OneAtATime` holds: the
command of the step is not sent, or about to be executed, or answered, and its
ACK is followed by its response, or nothing. `AckMeans` adds what an ACK tells:
that of the reset, that the target has booted; a CRC that matches, that all
chunks are good, which no command behind it changes.

## Telemetry

The logs of the days, as the time of their last record: a log only grows, so
that names its content, and it is its mtime. `LogDecoded` is `log_decoded()`;
`SweepBegin`, `SweepFile`, `SweepEnd` are `run_retention_sweep()` with its two
callers in `main()`, the one at start-up (`sweptOn` = 0) and the one in the
first cycle of a day; `SaveOpen`, `SaveWrite` are the two halves of the write in
`api_retention_put()`; `Reboot` ends the process anywhere. The request threads:
`Ask` begins a snapshot, today or history request with the days it loads, and
`LoadLog`, `CheckCache`, `ReadLog`, `StoreLog` are `_load_decoded()` cut where
the lock is released and where the file is touched. A thread that finds the log
deleted between its stat and its open fails with a 500. A log that the file
system refuses to delete (581-582) is `spared`, until the next sweep.

`services` checks `LoadsReadTheLog`, the refinement of `FileReads` by threads
that share one cache (a slower thread may store older records over newer ones,
but under the older mtime, so nobody is answered with them);
`SnapshotKeepsNewest`, an action property about the answer of `/api/snapshot`;
and `OldLogsGo`, refusals excepted. Two limits of the code are written into
them:

* `api_snapshot()` asks for the date twice (server.py:80). If midnight passes in
  between it loads the day before yesterday's end and the new day, not the day
  that just ended: the property, and the theorem, exclude that answer. The next
  request, seconds later, has its readings again;
* a sweep that reads `retention.json` between the halves of a save falls back to
  90 days (`_load_retention_days`), although 0, "keep forever", was stored
  before and after. `SnapshotKeepsNewest` shows that even then nothing less than
  a day old goes; older logs may.

`_decoded_cache` never evicts an entry, which the model shares; it grows by a
day's records per day.

Fairness: `WF(SweepStep)`, that is the daemon's cycles go on and each reaches
the check for a new day (`Daemon` shows under which conditions). No fairness for
logging, the clock or the server.

Bounds: a day of two ticks, two days, a default window of one day (the code's is
90), one save of "keep forever", two processes, two threads with two requests. A
log is then older than the window, or exactly as old, or inside it; a midnight
can fall between any two steps.

*Proved* (`TelemetryProofs`), for any threads, days and windows:
`TypeInvariant`, `LoadsTheorem`, `SnapshotTheorem`. `LoadsTheorem` is the
refinement of `FileReads`, step by step, with the reading that a thread took at
its stat and the records it may be answered with as the mapping. The invariant
says that a cache entry is at least as new as its mtime (`EntriesRead`), that a
thread in the middle of a load may be answered with what the cache holds under
its mtime (`LoadsRead`), and also with what another thread is about to store
there (`SharedReads`), without which the first two are not inductive.
`SnapshotInv` follows the newest reading through a request: it stays in its log,
since a sweep's window is a day or more, and it is in what has been loaded if
its day has been.

## Mqtt

`mqtt.json` between `api_mqtt_put()` (`SaveBegin` reads the stored password for
a masked form, `SaveTruncate` and `SaveFinish` write) and `publish_telemetry()`:
`StatConfig` and `ReadConfig` are `_load_cfg()`, run twice per reading, for the
topics and in `reconcile()`; `Disconnect`, `Connect`, `KeepClient` are
`reconcile()`; `Publish` is discovery and values. Configurations are records of
on/off, host, root and password; a file that is missing, empty or garbled reads
as no configuration. An empty password in the form, like the masked one, keeps
the stored one (server.py:480). Two texts that overlap may leave a garbled file;
the model lets them whatever their lengths. `discovered` is the set of roots
under which discovery ran, where the code keeps one entry per entity, and the
flag ha_discovery is taken to be free.

`services` checks `PublishesAsConfigured` (switch and root come from two loads,
each from a moment of the call, and may be paired as they never were in the
file) and `PasswordKept` (unless saves overlap: two tabs can lose the password).
`mqtt_reconnect` refutes `ReconnectsOnChange`: `reconcile()` never compares the
parameters. Discovery is not repeated under a new root for the same reason. Also
visible in the code and not claimed: a load that meets a half-written file
publishes one reading under the default root `apsbridge`.

Bounds: two savers, two saves, three forms: one with a masked password, one that
changes broker and root and names a password, one that switches off and leaves
the password empty.

*Proved* (`ServicesProofs`), for any savers, saves and forms: `PublishTheorem`
from `CallSoFar` (what the two loads returned is in the history of the call,
which for a hit of the cache takes `Remembered`) and `PasswordTheorem` from
`PasswordsNamed` and `OneByOne` (as long as no saves overlapped, the one that is
under way has the password that was named last).

## SetPower

One command from form to read-back, with the arithmetic of the code: `InRange`
is the check of `api_action_post()`, `Take` the floor of the daemon, `ReadCalib`
the offset (0 if `inverters.json` cannot be read), `Throttle`, `Nonsense`,
`Query` the frames, `Value` the scaling to 16 bits and `Watts` its inverse in
`decode_setpower_query()`. The inverter receives each frame or not, and programs
on the nonsense frame. `PortFails` is an exception of the bridge.

The reply to the query may be another frame of that inverter: `_collect_reply()`
takes the longest it saw (849-850). `own` tells whether it was the query's.

`services` checks `SentAsAsked` of commands the form has checked: all channels
are sent the same value, which takes one reading of the offset; it is off what
was asked for by at most one offset that the file held meanwhile, to that
offset's side, and so not below the floor with an offset of zero or more; and
never below 10 W. "Accepted" means that the inverter is throttled to what was
sent, if the reply was the query's own; for a DS3 it refers to the channel that
is queried. All within the watt the scaling rounds off.

The floor itself is not kept. server.py:669 says "a misuse here can't push the
inverter below the floor even if the file is hand-edited"; the violated run
`power_floor` refutes `FloorKept`: the offset is added behind the floor check,
and a DS3 with a floor of 100 W and an offset of -300 is sent 10 W. A file
written by hand can do the same: its watts have no upper bound, and 2300 W wrap
at 16 bits to 31 W.

Bounds: watts below, at and above each floor and ceiling, offsets at both ends
of the accepted range and one between, two edits, a half-written file between.

*Proved* (`ServicesProofs`), for all watts and any set of offsets within the
accepted range: `SetPowerTheorem`, from `OneOffset` (the watts to send come of
one offset that held since the command was taken) and `ChannelsServed` (every
channel that is not still to be served was sent that value), with the arithmetic
of floor, scaling and wrap at 16 bits; `OffsetShown` turns the watts to send
into what can be seen of the frames.

## MCServices and MCParts

`Telemetry`, `Mqtt` and `SetPower` share no variable, so that a property of one
holds in the product of all three if it holds when it runs alone. `part` is
chosen initially and names the one that runs; `Telemetry` runs twice, with two
requests against a daemon that only logs after its first sweep, and with one
request against sweeps, saves and reboots.

*Proved* (`ServicesProofs`): `TypesTogether` and `PropertiesTogether`, that the
product implements each of the three specifications, so that the theorems about
them, which have no such restriction, hold of what the run checks, each under
its own conditions.

`MCParts` does the same for `Bridge`, `ConfigStore` and `Flasher`, which run in
different processes or on a different computer. Each part has its own fairness
while it runs. `TypeOK` is the conjunction of the parts' type invariants. The
run may stop, where the bounds of a part are used up or nobody clicks again, and
so does not check for deadlock.

## What is only model-checked, and what is not modelled

Model-checked only: the liveness properties (`EveryInverterServed`,
`PingFaultCured`, `DeafCuredByDay`, `StopTerminates`, `QueueDrains`,
`DaemonFollows`, `OldLogsGo`, `SessionEnds`), since liveness under fairness and
ENABLED are beyond the proof system, and the round trip of COBS, whose functions
are recursive. Every invariant and every other action property that a passing
run checks is also a theorem (for `MCParts` of each part). The runs that end in
a violation have none.

Not modelled, with the reason in `PROJECT.json`: the layout of frames and the
decoders (byte arithmetic without control), the event log and status file (their
only influence is that a full disk raises an exception: in the action queue,
where it is modelled, and at line 1246 of the daemon before the stall check),
`radio.json`, `polling.json` and `logging.json` (loaded like the others),
sessions (`_gc_sessions()`, server.py:770, iterates over a dictionary that other
threads change) and HTTP routing, the dashboard page (two toggles in flight,
index.html:1686, can lose one), start-up scripts, tools, packaging, generated
radio tables. Hazards no property covers are listed in `PROJECT.json` with a
note.

## Running

    tlc -config MCDaemon_faults.cfg MCDaemon.tla     # and likewise for each run
    tlapm DaemonProofs.tla
    tlapm FirmwareProofs.tla
    tlapm ConfigStoreProofs.tla                      # ActionQueueProofs, BridgeProofs,
                                                     # TelemetryProofs, ServicesProofs, FlasherProofs

`PROJECT.json` lists the runs, the mutation that each property catches, the
source lines behind each definition, the findings and the hazards.
