------------------------------ MODULE Telemetry ------------------------------
(***************************************************************************)
(* The daily telemetry logs: log_decoded() of host/aps_unified_daemon.py   *)
(* appends to the file of the day, run_retention_sweep() deletes files as  *)
(* retention.json asks, and the request threads of host/webui/server.py    *)
(* read them through a cache keyed by mtime (_load_decoded()) to answer    *)
(* /api/snapshot, /api/today and /api/history.                             *)
(*                                                                         *)
(* Time is a count of ticks with at most one record in each (polls are     *)
(* seconds apart).  A log only grows, so the time of its last record names *)
(* what it holds, and is its mtime; 0 is a log that is not there.          *)
(***************************************************************************)
EXTENDS Integers, Sequences

CONSTANTS
  Viewers,      \* request threads of the web server
  DayLength,    \* ticks in a day
  LastDay,      \* bound: days in a behaviour
  Windows,      \* telemetry_days a user may save; 0 is "keep forever"
  DefaultDays,  \* DEFAULT_RETENTION_DAYS
  MaxSaves,     \* bound: saves of retention.json
  MaxBoots,     \* bound: starts of the daemon
  MaxRequests   \* bound: requests to the web server

ASSUME TelemetryAssumption ==
  /\ DayLength \in Nat \ {0} /\ LastDay \in Nat \ {0, 1}
  /\ Windows \subseteq Nat /\ DefaultDays \in Nat \ {0}
  /\ MaxSaves \in Nat /\ MaxBoots \in Nat \ {0}
  /\ MaxRequests \in Nat

Days  == 0..LastDay
Times == 0..(LastDay * DayLength)
Torn  == -1           \* retention.json while a save has it truncated
Late  == LastDay + 1  \* a date.today() that has not been called yet

VARIABLES
  clock,
  log,        \* per day: the time of the log's last record, 0: no log
  retention,  \* telemetry_days in retention.json, the default without a file
  saving,     \* the values of a save in progress, and the saves so far
  sweep,      \* run_retention_sweep(): files to look at, cutoff, the day it
              \* will be noted under
  sweptOn,    \* retention_last_day; 0 before the sweep at start-up
  boots,
  spared,     \* history: the days whose log a sweep failed to remove
  viewer,     \* per thread: its request, see Asked
  requests,   \* requests so far
  cache,      \* _decoded_mtime and _decoded_cache, per day; 0: no entry
  held        \* history: what the log of a load in progress has held since

logVars       == <<clock, log>>
sweepVars     == <<retention, saving, sweep, sweptOn, boots, spared>>
viewVars      == <<viewer, requests, cache>>
telemetryVars == <<logVars, sweepVars, viewVars, held>>

Day(t) == (t + DayLength - 1) \div DayLength
Today  == Day(clock)

Newest == CHOOSE t \in Times :
            (\E d \in Days : t = log[d]) /\ \A d \in Days : log[d] <= t

NoSweep == [on |-> FALSE, todo |-> {}, cutoff |-> 0, day |-> 0]

(* A request: the loads it has to make, its answer so far (the time of the *)
(* newest record), and what it found when it was made.                     *)
NoRequest == [pc |-> "idle", kind |-> "none", todo |-> <<>>, day |-> 0, mtime |-> 0,
              records |-> 0, got |-> {}, answer |-> 0, askedOn |-> 0, newest |-> 0]

Asked(kind, days) ==
  [NoRequest EXCEPT !.pc = "next", !.kind = kind, !.todo = days,
                    !.askedOn = IF kind = "snapshot" THEN Today ELSE 0,
                    !.newest  = IF kind = "snapshot" THEN Newest ELSE 0]

Requests ==
  [pc : {"next", "check", "read", "store", "idle"},
   kind : {"none", "snapshot", "today", "history"}, todo : Seq(Days \cup {Late}),
   day : Days, mtime : Times, records : Times, got : SUBSET Times, answer : Times,
   askedOn : Days, newest : Times]

TelemetryTypeOK ==
  /\ clock \in Times /\ log \in [Days -> Times]
  /\ retention \in Windows \cup {DefaultDays, Torn}
  /\ saving \in [to : SUBSET Windows, count : 0..MaxSaves]
  /\ sweep \in [on : BOOLEAN, todo : SUBSET Days, cutoff : Int, day : Days]
  /\ sweptOn \in Days /\ boots \in 1..MaxBoots /\ spared \subseteq Days
  /\ requests \in 0..MaxRequests
  /\ viewer \in [Viewers -> Requests]
  /\ cache \in [Days -> [mtime : Times, records : Times]]
  /\ held \in [Viewers -> SUBSET Times]

(* The end of the first day, whose log is there or not. *)
TelemetryInit ==
  /\ clock = DayLength
  /\ log \in {[d \in Days |-> IF d = 1 THEN t ELSE 0] : t \in 0..DayLength}
  /\ retention = DefaultDays /\ saving = [to |-> {}, count |-> 0]
  /\ sweep = NoSweep /\ sweptOn = 0 /\ boots = 1 /\ spared = {}
  /\ viewer = [v \in Viewers |-> NoRequest] /\ requests = 0
  /\ cache = [d \in Days |-> [mtime |-> 0, records |-> 0]]
  /\ held = [v \in Viewers |-> {}]

-----------------------------------------------------------------------------
(* The daemon. *)

(* A log changes: those who are loading it may meet either content. *)
Changed(d, t) ==
  /\ log' = [log EXCEPT ![d] = t]
  /\ held' = [v \in Viewers |->
                IF viewer[v].pc \in {"check", "read", "store"} /\ viewer[v].day = d
                  THEN held[v] \cup {t} ELSE held[v]]

(* log_decoded(): not during a sweep, the daemon has one thread, and not   *)
(* before the first.                                                       *)
LogDecoded ==
  /\ ~sweep.on /\ sweptOn # 0
  /\ log[Today] < clock
  /\ Changed(Today, clock)
  /\ UNCHANGED <<clock, sweepVars, viewVars>>

(* Mutant: the file of the day before the window is kept too. *)
CutoffDayEarlier(days) == clock - (days + 1) * DayLength

Cutoff(days) == clock - days * DayLength

(* At start-up, and in the first cycle of a new day. *)
SweepDue == ~sweep.on /\ sweptOn # Today

(* _load_retention_days(), and the listing of the directory. *)
RetentionDays == IF retention = Torn THEN DefaultDays ELSE retention

SweepBegin ==
  /\ SweepDue
  /\ sweep' = [on |-> TRUE,
               todo |-> IF RetentionDays = 0 THEN {} ELSE {d \in Days : log[d] > 0},
               cutoff |-> Cutoff(RetentionDays),
               day |-> IF sweptOn = 0 THEN 0 ELSE Today]
  /\ UNCHANGED <<logVars, retention, saving, sweptOn, boots, spared, viewVars, held>>

(* A log before the cutoff is removed; an OSError is only logged. *)
SweepFile(d) ==
  /\ d \in sweep.todo
  /\ sweep' = [sweep EXCEPT !.todo = @ \ {d}]
  /\ \/ log[d] >= sweep.cutoff /\ UNCHANGED <<log, held, spared>>
     \/ log[d] < sweep.cutoff /\ Changed(d, 0) /\ UNCHANGED spared
     \/ log[d] < sweep.cutoff /\ spared' = spared \cup {d} /\ UNCHANGED <<log, held>>
  /\ UNCHANGED <<clock, retention, saving, sweptOn, boots, viewVars>>

(* The sweep at start-up is noted under the day on which it ended, a later *)
(* one under the day that was seen before it.                              *)
SweepEnd ==
  /\ sweep.on /\ sweep.todo = {}
  /\ sweptOn' = IF sweep.day = 0 THEN Today ELSE sweep.day
  /\ sweep' = NoSweep
  /\ UNCHANGED <<logVars, retention, saving, boots, spared, viewVars, held>>

(* The process is killed, or gives up, anywhere and started again. *)
Reboot ==
  /\ boots < MaxBoots /\ boots' = boots + 1
  /\ sweep' = NoSweep /\ sweptOn' = 0
  /\ UNCHANGED <<logVars, retention, saving, spared, viewVars, held>>

Tick ==
  /\ clock < LastDay * DayLength /\ clock' = clock + 1
  /\ UNCHANGED <<log, sweepVars, viewVars, held>>

-----------------------------------------------------------------------------
(* The web server.  api_retention_put(): write_text() truncates, then      *)
(* writes.                                                                 *)
SaveOpen(days) ==
  /\ saving.to = {} /\ saving.count < MaxSaves
  /\ saving' = [to |-> {days}, count |-> saving.count + 1]
  /\ retention' = Torn
  /\ UNCHANGED <<logVars, sweep, sweptOn, boots, spared, viewVars, held>>

SaveWrite ==
  /\ retention' \in saving.to
  /\ saving' = [saving EXCEPT !.to = {}]
  /\ UNCHANGED <<logVars, sweep, sweptOn, boots, spared, viewVars, held>>

(* Mutant: only the file of the day. *)
SnapshotTodayOnly == <<Late>>

(* The days whose logs are loaded.  api_snapshot() asks for the date once  *)
(* per load, api_history() once.                                           *)
SnapshotDays == <<Today - 1, Late>>
TodayDays    == <<Late>>
HistoryDays  == <<Today - 1, Today>>

Ask(v, kind, days) ==
  /\ viewer[v].pc = "idle"
  /\ requests < MaxRequests /\ requests' = requests + 1
  /\ viewer' = [viewer EXCEPT ![v] = Asked(kind, days)]
  /\ UNCHANGED <<logVars, sweepVars, cache, held>>

(* The request after a load that returned the records up to t. *)
Loaded(q, t) ==
  IF q.todo = <<>>
    THEN [NoRequest EXCEPT !.got = {t}]
    ELSE [q EXCEPT !.pc = "next", !.got = {t}, !.answer = IF q.kind = "snapshot" THEN t ELSE 0,
                   !.mtime = 0, !.records = 0]

(* _load_decoded(): exists() and stat(). *)
LoadLog(v) ==
  /\ viewer[v].pc = "next"
  /\ LET d == IF Head(viewer[v].todo) = Late THEN Today ELSE Head(viewer[v].todo)
         q == [viewer[v] EXCEPT !.todo = Tail(@), !.day = d]
     IN  IF log[d] = 0
           THEN viewer' = [viewer EXCEPT ![v] = Loaded(q, 0)] /\ UNCHANGED held
           ELSE /\ viewer' = [viewer EXCEPT ![v] = [q EXCEPT !.pc = "check", !.mtime = log[d]]]
                /\ held' = [held EXCEPT ![v] = {log[d]}]
  /\ UNCHANGED <<logVars, sweepVars, requests, cache>>

(* The cache, under _cache_lock. *)
CheckCache(v) ==
  /\ viewer[v].pc = "check"
  /\ LET c == cache[viewer[v].day]
     IN  IF c.mtime = viewer[v].mtime
           THEN /\ viewer' = [viewer EXCEPT ![v] = Loaded(@, c.records)]
                /\ held' = [held EXCEPT ![v] = {}]
           ELSE /\ viewer' = [viewer EXCEPT ![v].pc = "read"]
                /\ UNCHANGED held
  /\ UNCHANGED <<logVars, sweepVars, requests, cache>>

(* open() raises for a log that was deleted meanwhile: a 500. *)
ReadLog(v) ==
  /\ viewer[v].pc = "read"
  /\ IF log[viewer[v].day] = 0
       THEN /\ viewer' = [viewer EXCEPT ![v] = NoRequest]
            /\ held' = [held EXCEPT ![v] = {}]
       ELSE /\ viewer' = [viewer EXCEPT ![v] =
                            [@ EXCEPT !.pc = "store", !.records = log[viewer[v].day]]]
            /\ UNCHANGED held
  /\ UNCHANGED <<logVars, sweepVars, requests, cache>>

(* Mutant: the records are stored under the mtime of the moment. *)
EntryStampedLate(q) == [mtime |-> log[q.day], records |-> q.records]

(* What was read is stored under the mtime seen before, over whatever      *)
(* another thread may have stored since.                                   *)
Entry(q) == [mtime |-> q.mtime, records |-> q.records]

StoreLog(v) ==
  /\ viewer[v].pc = "store"
  /\ cache' = [cache EXCEPT ![viewer[v].day] = Entry(viewer[v])]
  /\ viewer' = [viewer EXCEPT ![v] = Loaded(@, viewer[v].records)]
  /\ held' = [held EXCEPT ![v] = {}]
  /\ UNCHANGED <<logVars, sweepVars, requests>>

-----------------------------------------------------------------------------
SweepStep == SweepBegin \/ SweepEnd \/ \E d \in Days : SweepFile(d)

ViewerStep(v) ==
  \/ Ask(v, "snapshot", SnapshotDays)
  \/ Ask(v, "today", TodayDays)
  \/ Ask(v, "history", HistoryDays)
  \/ LoadLog(v) \/ CheckCache(v) \/ ReadLog(v) \/ StoreLog(v)

TelemetryNext ==
  \/ LogDecoded \/ SweepStep \/ Reboot \/ Tick
  \/ SaveWrite \/ \E days \in Windows : SaveOpen(days)
  \/ \E v \in Viewers : ViewerStep(v)

TelemetrySpec == TelemetryInit /\ [][TelemetryNext]_telemetryVars

(* The daemon's cycles go on. *)
TelemetryFairness == WF_telemetryVars(SweepStep)

-----------------------------------------------------------------------------
(* Properties. *)

(* The request threads seen as readers of the logs. *)
LogReads == INSTANCE FileReads WITH
  Files    <- Days,
  Readers  <- Viewers,
  Contents <- Times,
  content  <- log,
  reader   <- [v \in Viewers |->
                [open |-> IF viewer[v].pc \in {"check", "read", "store"}
                            THEN {viewer[v].day} ELSE {},
                 held |-> held[v],
                 got  |-> viewer[v].got]]

(* _load_decoded() returns what the log held at some moment of the load,   *)
(* whatever the other threads load, the daemon appends and the sweep       *)
(* deletes meanwhile: the cache never answers with an older day.           *)
LoadsReadTheLog == LogReads!Spec

(* "Pull both yesterday + today (...) so nothing disappears at midnight    *)
(* rollover" (docstring of api_snapshot): a reading less than a day old    *)
(* when the request was made is in the answer, or a newer one is, unless   *)
(* midnight passes between the two loads.  This takes the cache, the two   *)
(* days, and a retention sweep that never comes close, even if it reads a  *)
(* truncated retention.json.                                               *)
Answers(v) == viewer[v].pc # "idle" /\ viewer'[v].pc = "idle" /\ viewer'[v].got # {}

SnapshotKeepsNewest ==
  [][\A v \in Viewers :
       LET q == viewer[v]
           d == IF q.pc = "next" THEN Today ELSE q.day
       IN  (/\ Answers(v) /\ q.kind = "snapshot" /\ d = q.askedOn
            /\ clock - q.newest < DayLength)
             => \E t \in viewer'[v].got \cup {q.answer} : t >= q.newest]_telemetryVars

(* A sweep that is due with a window of telemetry_days deletes every log   *)
(* older than that, restarts and midnights notwithstanding, unless the     *)
(* window is changed or the file system refuses.                           *)
OldLogsGo ==
  \A d \in Days, w \in (Windows \ {0}) \cup {DefaultDays} :
    (SweepDue /\ retention = w /\ log[d] > 0 /\ log[d] < clock - w * DayLength)
      ~> (log[d] = 0 \/ retention # w \/ d \in spared)
=============================================================================
