--------------------------- MODULE TelemetryProofs ---------------------------
(***************************************************************************)
(* Proofs about Telemetry, for any number of request threads, days and     *)
(* windows.                                                                *)
(***************************************************************************)
EXTENDS Telemetry, WellFoundedInduction, TLAPS

USE TelemetryAssumption

-----------------------------------------------------------------------------
(* Days and times. *)

LEMMA Length == DayLength \in Nat \ {0} /\ LastDay \in Nat /\ LastDay > 1 /\ DefaultDays \in Nat \ {0}
  BY DEF TelemetryAssumption

LEMMA TimesAreNat == \A t \in Times : t \in Nat /\ t <= LastDay * DayLength
<1>1. LastDay * DayLength \in Nat
  BY Length
<1>. QED  BY <1>1 DEF Times

(* A day begins after the last tick of the day before.                     *)
LEMMA DayFacts ==
  ASSUME NEW t \in Nat
  PROVE  /\ Day(t) \in Nat
         /\ (Day(t) - 1) * DayLength < t /\ t <= Day(t) * DayLength
<1> DEFINE a == t + DayLength - 1
           q == a \div DayLength
<1>1. a \in Nat /\ DayLength \in Nat \ {0}
  BY Length
<1>2. q \in Int /\ DayLength * q <= a /\ a < DayLength * q + DayLength
  <2> HIDE DEF a
  <2>. QED  BY <1>1
<1>3. 0 <= q
  <2> HIDE DEF q
  <2>. QED  BY <1>1, <1>2
<1>4. Day(t) = q
  BY DEF Day
<1> HIDE DEF q
<1>5. (q - 1) * DayLength = DayLength * q - DayLength /\ q * DayLength = DayLength * q
  BY <1>1, <1>2
<1>. QED  BY <1>1, <1>2, <1>3, <1>4, <1>5

LEMMA TimesOrder ==
  /\ \A i, j \in Int : i * DayLength < j * DayLength => i < j
  /\ \A i, j \in Int : i <= j => i * DayLength <= j * DayLength
<1>1. DayLength \in Nat \ {0}
  BY Length
<1>2. ASSUME NEW i \in Int, NEW j \in Int, i <= j PROVE i * DayLength <= j * DayLength
  BY <1>1, <1>2
<1>3. ASSUME NEW i \in Int, NEW j \in Int, i * DayLength < j * DayLength PROVE i < j
  BY <1>1, <1>3
<1>. QED  BY <1>2, <1>3

LEMMA DayMonotone ==
  ASSUME NEW s \in Nat, NEW t \in Nat, s <= t
  PROVE  Day(s) <= Day(t)
<1>1. (Day(s) - 1) * DayLength < Day(t) * DayLength
  <2>1. /\ (Day(s) - 1) * DayLength \in Int /\ Day(t) * DayLength \in Int
        /\ Day(s) \in Nat /\ Day(t) \in Nat
    BY Length, DayFacts
  <2>. QED  BY <2>1, DayFacts
<1>2. Day(s) \in Nat /\ Day(t) \in Nat
  BY DayFacts
<1>3. Day(s) - 1 < Day(t)
  BY <1>1, <1>2, TimesOrder
<1>. QED  BY <1>2, <1>3

(* Within a day's time no more than one midnight passes.                   *)
LEMMA DayBefore ==
  ASSUME NEW s \in Nat, NEW t \in Nat, s <= t, t - s < DayLength
  PROVE  Day(s) \in {Day(t) - 1, Day(t)}
<1>1. Day(s) \in Nat /\ Day(t) \in Nat /\ Day(s) <= Day(t) /\ DayLength \in Nat
  BY DayFacts, DayMonotone, Length
<1>2. (Day(t) - 1) * DayLength < (Day(s) + 1) * DayLength
  <2>1. (Day(t) - 1) * DayLength < t /\ s <= Day(s) * DayLength
    BY DayFacts
  <2>2. (Day(s) + 1) * DayLength = Day(s) * DayLength + DayLength
    BY <1>1
  <2>3. (Day(t) - 1) * DayLength \in Int /\ Day(s) * DayLength \in Int
    BY <1>1
  <2>. QED  BY <1>1, <2>1, <2>2, <2>3
<1>3. Day(t) - 1 < Day(s) + 1
  BY <1>1, <1>2, TimesOrder
<1>. QED  BY <1>1, <1>3

LEMMA DayInRange ==
  ASSUME NEW t \in Times, DayLength <= t
  PROVE  Day(t) \in Days /\ Day(t) # 0
<1>1. t \in Nat /\ t <= LastDay * DayLength /\ LastDay \in Nat /\ DayLength \in Nat \ {0}
  BY TimesAreNat, Length
<1>2. Day(t) \in Nat /\ (Day(t) - 1) * DayLength < LastDay * DayLength
  <2>1. Day(t) \in Nat
    BY <1>1, DayFacts
  <2>2. (Day(t) - 1) * DayLength \in Int /\ LastDay * DayLength \in Int
    BY <1>1, <2>1
  <2>. QED  BY <1>1, <2>1, <2>2, DayFacts
<1>3. Day(t) - 1 < LastDay
  BY <1>1, <1>2, TimesOrder
<1>4. Day(t) # 0
  <2> SUFFICES ASSUME Day(t) = 0 PROVE FALSE
    OBVIOUS
  <2>1. t <= 0 * DayLength
    BY <1>1, DayFacts
  <2>. QED  BY <1>1, <2>1
<1>. QED  BY <1>1, <1>2, <1>3, <1>4 DEF Days

(* The newest record of all logs exists: a bounded set of times has a      *)
(* maximum.                                                                *)
Smaller == {p \in Nat \X Nat : p[1] < p[2]}

LEMMA HasMinimum ==
  ASSUME NEW S \in SUBSET Nat, S # {}
  PROVE  \E x \in S : \A y \in S : x <= y
<1>1. IsWellFoundedOn(Smaller, Nat)
  BY NatLessThanWellFounded DEF OpToRel, Smaller
<1>2. \E x \in S : \A y \in S : <<y, x>> \notin Smaller
  BY <1>1, WFMin, Zenon
<1>3. PICK x \in S : \A y \in S : <<y, x>> \notin Smaller
  BY <1>2
<1>4. \A y \in S : ~(y < x)
  BY <1>3 DEF Smaller
<1>. QED  BY <1>4

LEMMA HasMaximum ==
  ASSUME NEW S \in SUBSET Times, S # {}
  PROVE  \E x \in S : \A y \in S : y <= x
<1> DEFINE N == LastDay * DayLength
           T == {N - x : x \in S}
<1>0. N \in Nat /\ \A x \in S : x \in Nat /\ x <= N
  BY Length, TimesAreNat
<1> HIDE DEF N
<1>1. T \in SUBSET Nat /\ T # {}
  <2>1. \A x \in S : N - x \in Nat
    BY <1>0
  <2>. QED  BY <2>1
<1>2. \E z \in T : \A y \in T : z <= y
  <2> HIDE DEF T
  <2>. QED  BY <1>1, HasMinimum
<1>3. PICK x \in S : \A y \in T : N - x <= y
  BY <1>2
<1>4. \A y \in S : N - x <= N - y
  BY <1>3
<1>. QED  BY <1>0, <1>4

LEMMA NewestFacts ==
  ASSUME log \in [Days -> Times]
  PROVE  /\ Newest \in Times
         /\ \E d \in Days : Newest = log[d]
         /\ \A d \in Days : log[d] <= Newest
<1> DEFINE S == {log[d] : d \in Days}
<1>1. S \in SUBSET Times /\ S # {}
  <2>1. 0 \in Days
    BY Length DEF Days
  <2>. QED  BY <2>1
<1>2. \E t \in S : \A y \in S : y <= t
  <2> HIDE DEF S
  <2>. QED  BY <1>1, HasMaximum
<1>3. \E t \in Times : (\E d \in Days : t = log[d]) /\ \A d \in Days : log[d] <= t
  BY <1>1, <1>2
<1>. QED  BY <1>3 DEF Newest

-----------------------------------------------------------------------------
(* In the middle of a load. *)
Loading(v) == viewer[v].pc \in {"check", "read", "store"}

(* Every record is as old as its log says, or older than now. *)
Clocked ==
  /\ DayLength <= clock
  /\ \A d \in Days : log[d] # 0 => d # 0 /\ Day(log[d]) = d /\ log[d] <= clock
  /\ sweep.todo # {} => sweep.cutoff <= clock - DayLength
  /\ \A v \in Viewers : viewer[v].pc = "next" => viewer[v].todo # <<>>

(* An entry of the cache was read after the mtime that it is stored under, *)
(* and the log has not shrunk since.                                       *)
EntriesRead ==
  \A d \in Days :
    /\ cache[d].mtime <= cache[d].records /\ cache[d].records <= clock
    /\ log[d] # 0 => cache[d].records <= log[d]

LoadsRead ==
  \A v \in Viewers : Loading(v) =>
    LET q == viewer[v]
    IN  /\ q.mtime # 0 /\ q.mtime <= clock
        /\ log[q.day] # 0 => q.mtime <= log[q.day]
        /\ {q.mtime, log[q.day]} \subseteq held[v]
        /\ cache[q.day].mtime = q.mtime => cache[q.day].records \in held[v]
        /\ q.pc = "store" =>
             /\ q.mtime <= q.records /\ q.records <= clock
             /\ log[q.day] # 0 => q.records <= log[q.day]

(* Whoever loads under the same mtime may be answered with what another    *)
(* thread is about to store.                                               *)
SharedReads ==
  \A v, w \in Viewers :
    (/\ Loading(v) /\ viewer[w].pc = "store" /\ viewer[v].day = viewer[w].day
     /\ viewer[v].mtime = viewer[w].mtime)
      => viewer[w].records \in held[v]

NotLoading == \A v \in Viewers : ~Loading(v) => held[v] = {}

LEMMA DaysAndLate == Late \notin Days /\ 0 \in Days /\ Days \subseteq Nat
  BY Length DEF Late, Days

CacheInv == Clocked /\ EntriesRead /\ LoadsRead /\ SharedReads /\ NotLoading

-----------------------------------------------------------------------------
(* A snapshot that was asked for when there was a reading less than a day  *)
(* old: that reading, or a newer one, is in the log of the day before or   *)
(* of the day ...                                                          *)
Recent(q) == q.pc # "idle" /\ q.kind = "snapshot" /\ clock - q.newest < DayLength

StillThere(q) ==
  /\ q.askedOn # 0 /\ q.askedOn <= Today
  /\ q.newest # 0 /\ Day(q.newest) \in {q.askedOn - 1, q.askedOn}
  /\ q.newest <= log[Day(q.newest)]

(* ... and what has been loaded so far has it if it is of that day.        *)
SoFar(q) ==
  \/ /\ q.pc = "next" /\ q.todo = <<q.askedOn - 1, Late>>
  \/ /\ q.pc # "next" /\ q.todo = <<Late>> /\ q.day = q.askedOn - 1
     /\ Day(q.newest) = q.day => q.newest <= q.mtime
  \/ /\ q.pc = "next" /\ q.todo = <<Late>>
     /\ Day(q.newest) = q.askedOn - 1 => q.newest <= q.answer
  \/ /\ q.pc # "next" /\ q.todo = <<>>
     /\ Day(q.newest) = q.askedOn - 1 => q.newest <= q.answer
     /\ Day(q.newest) = q.day => q.newest <= q.mtime

SnapshotInv ==
  \A v \in Viewers : Recent(viewer[v]) => StillThere(viewer[v]) /\ SoFar(viewer[v])

-----------------------------------------------------------------------------
(* Types. *)

LEMMA TodayTyped ==
  ASSUME TelemetryTypeOK, DayLength <= clock
  PROVE  Today \in Days /\ Today # 0 /\ Today - 1 \in Days /\ clock \in Nat
<1>1. clock \in Times /\ clock \in Nat
  BY TimesAreNat DEF TelemetryTypeOK
<1>2. Today \in Days /\ Today # 0
  BY <1>1, DayInRange DEF Today
<1>. QED  BY <1>1, <1>2, Length DEF Days

LEMMA TimeZero == 0 \in Times
  BY Length DEF Times

(* What becomes of a request is a request.                                 *)
LEMMA RequestTypes ==
  /\ NoRequest \in Requests /\ NoRequest.pc = "idle" /\ NoRequest.got = {}
  /\ \A q \in Requests, t \in Times : Loaded(q, t) \in Requests
  /\ TelemetryTypeOK /\ DayLength <= clock =>
       \A kind \in {"snapshot", "today", "history"}, days \in Seq(Days \cup {Late}) :
         Asked(kind, days) \in Requests
<1> HIDE DEF Days, Times, Late
<1>0. 0 \in Days /\ 0 \in Times
  BY DaysAndLate, TimeZero
<1>1. NoRequest \in Requests /\ NoRequest.pc = "idle" /\ NoRequest.got = {}
  <2>1. <<>> \in Seq(Days \cup {Late}) /\ {} \in SUBSET Times
    OBVIOUS
  <2>. QED  BY <1>0, <2>1 DEF NoRequest, Requests
<1>2. ASSUME NEW q \in Requests, NEW t \in Times PROVE Loaded(q, t) \in Requests
  <2>0. {t} \in SUBSET Times /\ (IF q.kind = "snapshot" THEN t ELSE 0) \in Times
    BY <1>0, <1>2
  <2>1. [NoRequest EXCEPT !.got = {t}] \in Requests
    BY <1>1, <2>0, ZenonT(30) DEF Requests
  <2>2. [q EXCEPT !.pc = "next", !.got = {t}, !.answer = IF q.kind = "snapshot" THEN t ELSE 0,
                  !.mtime = 0, !.records = 0] \in Requests
    <3>1. "next" \in {"next", "check", "read", "store", "idle"}
      OBVIOUS
    <3>. QED  BY <1>0, <2>0, <3>1, ZenonT(30) DEF Requests
  <2>. QED  BY <2>1, <2>2 DEF Loaded
<1>3. ASSUME TelemetryTypeOK, DayLength <= clock,
             NEW kind \in {"snapshot", "today", "history"}, NEW days \in Seq(Days \cup {Late})
      PROVE  Asked(kind, days) \in Requests
  <2>1. /\ (IF kind = "snapshot" THEN Today ELSE 0) \in Days
        /\ (IF kind = "snapshot" THEN Newest ELSE 0) \in Times
    BY <1>0, <1>3, TodayTyped, NewestFacts DEF TelemetryTypeOK
  <2>2. /\ "next" \in {"next", "check", "read", "store", "idle"}
        /\ kind \in {"none", "snapshot", "today", "history"}
    BY <1>3
  <2>. QED  BY <1>1, <1>3, <2>1, <2>2, ZenonT(30) DEF Asked, Requests
<1>. QED  BY <1>1, <1>2, <1>3

LEMMA RequestFields ==
  /\ \A q \in Requests, t \in Times :
       /\ q.todo = <<>> => Loaded(q, t).pc = "idle" /\ Loaded(q, t).got = {t}
       /\ q.todo # <<>> =>
            /\ Loaded(q, t).pc = "next" /\ Loaded(q, t).todo = q.todo
            /\ Loaded(q, t).kind = q.kind /\ Loaded(q, t).got = {t}
            /\ Loaded(q, t).answer = IF q.kind = "snapshot" THEN t ELSE 0
            /\ Loaded(q, t).askedOn = q.askedOn /\ Loaded(q, t).newest = q.newest
  /\ \A kind, days :
       /\ Asked(kind, days).pc = "next" /\ Asked(kind, days).todo = days
       /\ Asked(kind, days).kind = kind /\ Asked(kind, days).got = {}
       /\ Asked(kind, days).askedOn = IF kind = "snapshot" THEN Today ELSE 0
       /\ Asked(kind, days).newest = IF kind = "snapshot" THEN Newest ELSE 0
<1> HIDE DEF Days, Times, Late
<1>1. ASSUME NEW q \in Requests, NEW t \in Times, q.todo = <<>>
      PROVE  Loaded(q, t).pc = "idle" /\ Loaded(q, t).got = {t}
  BY <1>1 DEF Loaded, NoRequest
<1>2. ASSUME NEW q \in Requests, NEW t \in Times, q.todo # <<>>
      PROVE  /\ Loaded(q, t).pc = "next" /\ Loaded(q, t).todo = q.todo
             /\ Loaded(q, t).kind = q.kind /\ Loaded(q, t).got = {t}
             /\ Loaded(q, t).answer = IF q.kind = "snapshot" THEN t ELSE 0
             /\ Loaded(q, t).askedOn = q.askedOn /\ Loaded(q, t).newest = q.newest
  <2>1. Loaded(q, t) = [q EXCEPT !.pc = "next", !.got = {t},
                                 !.answer = IF q.kind = "snapshot" THEN t ELSE 0,
                                 !.mtime = 0, !.records = 0]
    BY <1>2 DEF Loaded
  <2>. QED  BY <2>1 DEF Requests
<1>3. ASSUME NEW kind, NEW days
      PROVE  /\ Asked(kind, days).pc = "next" /\ Asked(kind, days).todo = days
             /\ Asked(kind, days).kind = kind /\ Asked(kind, days).got = {}
             /\ Asked(kind, days).askedOn = IF kind = "snapshot" THEN Today ELSE 0
             /\ Asked(kind, days).newest = IF kind = "snapshot" THEN Newest ELSE 0
  BY DEF Asked, NoRequest
<1>. QED  BY <1>1, <1>2, <1>3

-----------------------------------------------------------------------------
TelInv == TelemetryTypeOK /\ CacheInv

LEMMA TelInit == TelemetryInit => TelInv
<1> SUFFICES ASSUME TelemetryInit PROVE TelInv
  OBVIOUS
<1>1. /\ clock = DayLength /\ clock \in Times /\ 0 \in Times
      /\ 1 \in Days /\ 0 \in Days
      /\ \A t \in 0..DayLength : t \in Times /\ t \in Nat /\ t <= DayLength
  <2>1. 1 * DayLength <= LastDay * DayLength
    BY Length, TimesOrder
  <2>2. LastDay * DayLength \in Nat /\ 1 * DayLength = DayLength
    BY Length
  <2>3. \A t \in 0..DayLength : t \in Times /\ t \in Nat /\ t <= DayLength
    <3> HIDE TelemetryAssumption
    <3>. QED  BY <2>1, <2>2, Length DEF Times
  <2>4. DayLength \in 0..DayLength /\ 1 \in Days /\ 0 \in Days
    BY Length DEF Days
  <2>. QED  BY <2>3, <2>4, TimeZero DEF TelemetryInit
<1>2. PICK t \in 0..DayLength : log = [d \in Days |-> IF d = 1 THEN t ELSE 0]
  BY DEF TelemetryInit
<1>3. t # 0 => Day(t) = 1
  <2> SUFFICES ASSUME t # 0 PROVE Day(t) = 1
    OBVIOUS
  <2>1. t \in Nat /\ DayLength \in Nat /\ t <= DayLength
    BY <1>1, Length
  <2>2. Day(t) \in Nat /\ (Day(t) - 1) * DayLength < 1 * DayLength
    <3>1. Day(t) \in Nat
      BY <2>1, DayFacts
    <3>2. (Day(t) - 1) * DayLength \in Int /\ 1 * DayLength = DayLength
      BY <2>1, <3>1
    <3>. QED  BY <2>1, <3>1, <3>2, DayFacts
  <2>3. Day(t) - 1 < 1
    BY <2>2, TimesOrder
  <2>4. Day(t) # 0
    <3> SUFFICES ASSUME Day(t) = 0 PROVE FALSE
      OBVIOUS
    <3>1. t <= 0 * DayLength
      BY <2>1, DayFacts
    <3>. QED  BY <2>1, <3>1
  <2>. QED  BY <2>2, <2>3, <2>4
<1>4. TelemetryTypeOK
  <2> HIDE DEF Times, Days, Requests
  <2>1. log \in [Days -> Times]
    BY <1>1, <1>2
  <2>2. saving \in [to : SUBSET Windows, count : 0..MaxSaves]
    BY DEF TelemetryInit, TelemetryAssumption
  <2>3. sweep \in [on : BOOLEAN, todo : SUBSET Days, cutoff : Int, day : Days]
    BY <1>1 DEF TelemetryInit, NoSweep
  <2>4. viewer \in [Viewers -> Requests]
    BY RequestTypes DEF TelemetryInit
  <2>5. cache \in [Days -> [mtime : Times, records : Times]]
    BY <1>1 DEF TelemetryInit
  <2>6. boots \in 1..MaxBoots /\ requests \in 0..MaxRequests
    BY DEF TelemetryInit, TelemetryAssumption
  <2>7. spared \subseteq Days
    BY DEF TelemetryInit
  <2>. QED  BY <1>1, <2>1, <2>2, <2>3, <2>4, <2>5, <2>6, <2>7 DEF TelemetryInit, TelemetryTypeOK
<1>5. Clocked
  <2>1. DayLength <= clock /\ sweep.todo = {}
    BY <1>1, Length DEF TelemetryInit, NoSweep
  <2>2. \A v \in Viewers : viewer[v].pc # "next"
    BY RequestTypes DEF TelemetryInit
  <2>. QED  BY <1>1, <1>2, <1>3, <2>1, <2>2 DEF Clocked
<1>6. \A v \in Viewers : ~Loading(v) /\ viewer[v].pc # "store" /\ held[v] = {}
  BY RequestTypes DEF TelemetryInit, Loading
<1>7. EntriesRead
  BY <1>1, <1>2 DEF TelemetryInit, EntriesRead
<1>. QED  BY <1>4, <1>5, <1>6, <1>7 DEF TelInv, CacheInv, LoadsRead, SharedReads, NotLoading

(* A log grows or goes: whoever is loading it may meet either content.     *)
LEMMA LogChanges ==
  ASSUME TelInv, NEW d \in Days, NEW t \in Times, Changed(d, t),
         t = 0 \/ (t = clock /\ d = Today /\ log[d] < clock),
         UNCHANGED <<clock, retention, saving, sweptOn, boots, viewVars>>,
         spared' \subseteq Days,
         sweep' \in [on : BOOLEAN, todo : SUBSET Days, cutoff : Int, day : Days],
         sweep'.todo \subseteq sweep.todo, sweep'.cutoff = sweep.cutoff
  PROVE  TelInv'
<1> HIDE DEF Days, Times, Requests
<1> USE DEF TelInv, CacheInv
<1>1. /\ log' = [log EXCEPT ![d] = t] /\ log' \in [Days -> Times] /\ log'[d] = t
      /\ \A e \in Days : e # d => log'[e] = log[e]
  BY DEF Changed, TelemetryTypeOK
<1>2. /\ \A v \in Viewers : held'[v] = IF Loading(v) /\ viewer[v].day = d
                                       THEN held[v] \cup {t} ELSE held[v]
      /\ held' \in [Viewers -> SUBSET Times]
  BY DEF Changed, TelemetryTypeOK, Loading
<1>3. /\ \A v \in Viewers : /\ viewer[v].day \in Days /\ viewer'[v] = viewer[v]
                            /\ viewer[v].mtime \in Nat /\ viewer[v].records \in Nat
      /\ \A e \in Days : /\ cache[e].mtime \in Nat /\ cache[e].records \in Nat
                        /\ log[e] \in Nat
      /\ cache' = cache /\ clock' = clock /\ clock \in Nat /\ t \in Nat
  BY TimesAreNat DEF viewVars, TelemetryTypeOK, Requests
<1>4. TelemetryTypeOK'
  BY <1>1, <1>2 DEF TelemetryTypeOK, viewVars
<1>5. Clocked'
  <2>1. d = Today /\ t = clock => d # 0 /\ Day(t) = d
    BY TodayTyped DEF Clocked, Today
  <2>2. Day(t)' = Day(t) /\ \A e \in Days : Day(log[e])' = Day(log'[e])
    BY DEF Day
  <2>3. \A e \in Days : log'[e] # 0 => e # 0 /\ Day(log'[e]) = e /\ log'[e] <= clock
    BY <1>1, <1>3, <2>1 DEF Clocked
  <2>4. sweep'.todo # {} => sweep'.cutoff <= clock - DayLength
    BY DEF Clocked
  <2>. QED  BY <1>3, <2>2, <2>3, <2>4 DEF Clocked
<1>6. EntriesRead'
  BY <1>1, <1>3 DEF EntriesRead
<1>7. LoadsRead'
  <2> SUFFICES ASSUME NEW v \in Viewers, Loading(v)
               PROVE  LET q == viewer[v]
                      IN  /\ q.mtime # 0 /\ q.mtime <= clock
                          /\ log'[q.day] # 0 => q.mtime <= log'[q.day]
                          /\ {q.mtime, log'[q.day]} \subseteq held'[v]
                          /\ cache[q.day].mtime = q.mtime => cache[q.day].records \in held'[v]
                          /\ q.pc = "store" =>
                               /\ q.mtime <= q.records /\ q.records <= clock
                               /\ log'[q.day] # 0 => q.records <= log'[q.day]
    BY <1>3 DEF LoadsRead, Loading
  <2>1. CASE viewer[v].day = d
    BY <1>1, <1>2, <1>3, <2>1 DEF LoadsRead
  <2>2. CASE viewer[v].day # d
    BY <1>1, <1>2, <1>3, <2>2 DEF LoadsRead
  <2>. QED  BY <2>1, <2>2
<1>8. SharedReads'
  BY <1>2, <1>3 DEF SharedReads, Loading
<1>9. NotLoading'
  BY <1>2, <1>3 DEF NotLoading, Loading
<1>. QED  BY <1>4, <1>5, <1>6, <1>7, <1>8, <1>9

(* A request thread is in no load after its step.                          *)
LEMMA ViewerRests ==
  ASSUME TelInv, NEW v \in Viewers, NEW r \in Requests,
         viewer' = [viewer EXCEPT ![v] = r],
         r.pc \in {"idle", "next"}, r.pc = "next" => r.todo # <<>>,
         held' = [held EXCEPT ![v] = {}],
         requests' \in 0..MaxRequests, UNCHANGED <<logVars, sweepVars>>,
         cache' \in [Days -> [mtime : Times, records : Times]], EntriesRead',
         \A w \in Viewers \ {v} : Loading(w) =>
           LET e == cache'[viewer[w].day]
           IN  e.mtime = viewer[w].mtime => e.records \in held[w]
  PROVE  TelInv'
<1> HIDE DEF Days, Times, Requests
<1> USE DEF TelInv, CacheInv
<1>1. /\ viewer' \in [Viewers -> Requests] /\ viewer'[v] = r
      /\ \A w \in Viewers : w # v => viewer'[w] = viewer[w]
  BY DEF TelemetryTypeOK
<1>2. /\ held' \in [Viewers -> SUBSET Times] /\ held'[v] = {}
      /\ \A w \in Viewers : w # v => held'[w] = held[w]
  BY DEF TelemetryTypeOK
<1>3. UNCHANGED <<clock, log, sweep, retention, saving, sweptOn, boots, spared>>
  BY DEF logVars, sweepVars
<1>4. TelemetryTypeOK'
  BY <1>1, <1>2, <1>3 DEF TelemetryTypeOK
<1>5. Clocked'
  BY <1>1, <1>3 DEF Clocked, Day
<1>6. LoadsRead'
  BY <1>1, <1>2, <1>3 DEF LoadsRead, Loading
<1>7. SharedReads' /\ NotLoading'
  BY <1>1, <1>2 DEF SharedReads, NotLoading, Loading
<1>. QED  BY <1>4, <1>5, <1>6, <1>7

(* A request thread turns to a log, or goes on with the load of it.        *)
Turns(v, r, h) ==
  /\ viewer' = [viewer EXCEPT ![v] = r] /\ UNCHANGED <<logVars, sweepVars, requests, cache>>
  /\ r.pc \in {"check", "read", "store"} /\ (log[r.day] # 0 \/ r.pc # "store")
  /\ held' = [held EXCEPT ![v] = h]
  /\ {r.mtime, log[r.day]} \subseteq h /\ r.mtime # 0 /\ r.mtime <= clock
  /\ log[r.day] # 0 => r.mtime <= log[r.day]
  /\ cache[r.day].mtime = r.mtime => cache[r.day].records \in h
  /\ r.pc = "store" => r.records = log[r.day]
  /\ \A w \in Viewers \ {v} :
       (viewer[w].pc = "store" /\ viewer[w].day = r.day /\ viewer[w].mtime = r.mtime)
         => viewer[w].records \in h

LEMMA ViewerLoads ==
  ASSUME TelInv, NEW v \in Viewers, NEW r \in Requests, NEW h \in SUBSET Times, Turns(v, r, h)
  PROVE  TelInv'
<1> USE DEF Turns
<1> HIDE DEF Days, Times, Requests
<1> USE DEF TelInv, CacheInv
<1>1. /\ viewer' \in [Viewers -> Requests] /\ viewer'[v] = r
      /\ \A w \in Viewers : w # v => viewer'[w] = viewer[w]
  BY DEF TelemetryTypeOK
<1>2. /\ held' \in [Viewers -> SUBSET Times] /\ held'[v] = h
      /\ \A w \in Viewers : w # v => held'[w] = held[w]
  BY DEF TelemetryTypeOK
<1>3. UNCHANGED <<clock, log, sweep, retention, saving, sweptOn, boots, spared, cache>>
  BY DEF logVars, sweepVars
<1>4. TelemetryTypeOK'
  BY <1>1, <1>2, <1>3 DEF TelemetryTypeOK
<1>5. Clocked'
  BY <1>1, <1>3 DEF Clocked, Day
<1>6. r.day \in Days /\ log[r.day] \in Nat /\ clock \in Nat /\ log[r.day] <= clock
  <2>1. r.day \in Days /\ log[r.day] \in Nat /\ clock \in Nat
    BY TimesAreNat DEF TelemetryTypeOK, Requests
  <2>. QED  BY <2>1 DEF Clocked
<1>7. EntriesRead'
  BY <1>3 DEF EntriesRead
<1>8. LoadsRead'
  <2>1. ASSUME NEW w \in Viewers, w # v, Loading(w)'
        PROVE  LET q == viewer'[w]
               IN  /\ q.mtime # 0 /\ q.mtime <= clock
                   /\ log[q.day] # 0 => q.mtime <= log[q.day]
                   /\ {q.mtime, log[q.day]} \subseteq held'[w]
                   /\ cache[q.day].mtime = q.mtime => cache[q.day].records \in held'[w]
                   /\ q.pc = "store" =>
                        /\ q.mtime <= q.records /\ q.records <= clock
                        /\ log[q.day] # 0 => q.records <= log[q.day]
    BY <1>1, <1>2, <2>1 DEF LoadsRead, Loading
  <2>2. /\ r.mtime # 0 /\ r.mtime <= clock
        /\ log[r.day] # 0 => r.mtime <= log[r.day]
        /\ {r.mtime, log[r.day]} \subseteq h
        /\ cache[r.day].mtime = r.mtime => cache[r.day].records \in h
        /\ r.pc = "store" => /\ r.mtime <= r.records /\ r.records <= clock
                             /\ log[r.day] # 0 => r.records <= log[r.day]
    BY <1>6
  <2>. QED  BY <1>1, <1>2, <1>3, <2>1, <2>2 DEF LoadsRead
<1>9. SharedReads'
  <2> SUFFICES ASSUME NEW u \in Viewers, NEW w \in Viewers, Loading(u)', viewer'[w].pc = "store",
                      viewer'[u].day = viewer'[w].day, viewer'[u].mtime = viewer'[w].mtime
               PROVE  viewer'[w].records \in held'[u]
    BY DEF SharedReads
  <2>1. CASE u # v /\ w # v
    BY <1>1, <1>2, <2>1 DEF SharedReads, Loading
  <2>2. CASE u = v /\ w # v
    BY <1>1, <1>2, <2>2
  <2>3. CASE u # v /\ w = v
    <3>1. Loading(u) /\ viewer[u].day = r.day /\ log[r.day] \in held[u]
      BY <1>1, <2>3 DEF Loading, LoadsRead
    <3>. QED  BY <1>1, <1>2, <2>3, <3>1
  <2>4. CASE u = v /\ w = v
    BY <1>1, <1>2, <2>4
  <2>. QED  BY <2>1, <2>2, <2>3, <2>4
<1>10. NotLoading'
  BY <1>1, <1>2 DEF NotLoading, Loading
<1>. QED  BY <1>4, <1>5, <1>7, <1>8, <1>9, <1>10

(* The daemon's steps, and the saves of retention.json.                    *)
LEMMA DaemonSteps ==
  ASSUME TelInv,
         \/ LogDecoded \/ SweepStep \/ Reboot \/ Tick
         \/ SaveWrite \/ \E days \in Windows : SaveOpen(days)
  PROVE  TelInv'
<1> HIDE DEF Days, Times, Requests
<1> USE DEF TelInv, CacheInv
<1>0. /\ DayLength <= clock /\ Today \in Days /\ clock \in Nat /\ clock \in Times /\ 0 \in Times
      /\ 0 \in Days /\ DayLength \in Nat
      /\ \A d \in Days : log[d] \in Nat /\ log[d] <= clock
  <2>1. DayLength <= clock /\ \A d \in Days : log[d] \in Nat
    BY TimesAreNat DEF Clocked, TelemetryTypeOK
  <2>2. Today \in Days /\ clock \in Nat
    BY <2>1, TodayTyped
  <2>. QED  BY <2>1, <2>2, TimeZero, DaysAndLate, Length DEF TelemetryTypeOK, Clocked
<1>1. ASSUME UNCHANGED <<logVars, viewVars, held>>, TelemetryTypeOK',
             sweep'.todo # {} => sweep'.cutoff <= clock - DayLength
      PROVE  TelInv'
  <2>1. Clocked'
    BY <1>1 DEF Clocked, Day, logVars, viewVars
  <2>2. EntriesRead' /\ LoadsRead' /\ SharedReads' /\ NotLoading'
    BY <1>1 DEF EntriesRead, LoadsRead, SharedReads, NotLoading, Loading, logVars, viewVars
  <2>. QED  BY <1>1, <2>1, <2>2
<1>2. CASE LogDecoded
  <2>1. /\ Changed(Today, clock) /\ log[Today] < clock
        /\ UNCHANGED <<clock, sweepVars, viewVars>>
    BY <1>2 DEF LogDecoded
  <2>. QED  BY <1>0, <2>1, LogChanges DEF sweepVars, TelemetryTypeOK
<1>3. CASE SweepBegin
  <2>1. RetentionDays \in Nat
    BY Length DEF RetentionDays, TelemetryTypeOK, Torn, TelemetryAssumption
  <2>2. Cutoff(RetentionDays) \in Int
    BY <1>0, <2>1 DEF Cutoff
  <2>3. RetentionDays # 0 => Cutoff(RetentionDays) <= clock - DayLength
    <3>1. RetentionDays # 0 => 1 * DayLength <= RetentionDays * DayLength
      BY <2>1, TimesOrder
    <3>2. RetentionDays * DayLength \in Int /\ 1 * DayLength = DayLength
      BY <1>0, <2>1
    <3>. QED  BY <1>0, <3>1, <3>2 DEF Cutoff
  <2> HIDE DEF RetentionDays, Cutoff, Today
  <2>4. sweep' = [on |-> TRUE,
                  todo |-> IF RetentionDays = 0 THEN {} ELSE {d \in Days : log[d] > 0},
                  cutoff |-> Cutoff(RetentionDays),
                  day |-> IF sweptOn = 0 THEN 0 ELSE Today]
    BY <1>3 DEF SweepBegin
  <2>5. /\ sweep'.todo = IF RetentionDays = 0 THEN {} ELSE {d \in Days : log[d] > 0}
        /\ sweep'.cutoff = Cutoff(RetentionDays)
    BY <2>4
  <2>6. sweep' \in [on : BOOLEAN, todo : SUBSET Days, cutoff : Int, day : Days]
    BY <1>0, <2>2, <2>4
  <2>7. TelemetryTypeOK'
    BY <1>3, <2>6 DEF SweepBegin, TelemetryTypeOK, logVars, viewVars
  <2>. QED  BY <1>1, <1>3, <2>3, <2>5, <2>7 DEF SweepBegin
<1>4. ASSUME NEW d \in Days, SweepFile(d) PROVE TelInv'
  <2>1. /\ sweep' = [sweep EXCEPT !.todo = @ \ {d}] /\ d \in sweep.todo
        /\ UNCHANGED <<clock, retention, saving, sweptOn, boots, viewVars>>
    BY <1>4 DEF SweepFile
  <2>2. /\ sweep' \in [on : BOOLEAN, todo : SUBSET Days, cutoff : Int, day : Days]
        /\ sweep'.todo \subseteq sweep.todo /\ sweep'.cutoff = sweep.cutoff
    BY <2>1 DEF TelemetryTypeOK
  <2>5. spared' \subseteq Days
    <3>1. spared' = spared \/ spared' = spared \cup {d}
      BY <1>4 DEF SweepFile
    <3>. QED  BY <3>1 DEF TelemetryTypeOK
  <2>3. CASE Changed(d, 0)
    BY <1>0, <2>1, <2>2, <2>3, <2>5, LogChanges
  <2>4. CASE UNCHANGED <<log, held>>
    <3>1. TelemetryTypeOK'
      BY <2>1, <2>2, <2>4, <2>5 DEF TelemetryTypeOK, viewVars
    <3>. QED  BY <1>1, <2>1, <2>2, <2>4, <3>1 DEF logVars, Clocked
  <2>. QED  BY <1>4, <2>3, <2>4 DEF SweepFile
<1>5. NoSweep \in [on : BOOLEAN, todo : SUBSET Days, cutoff : Int, day : Days] /\ NoSweep.todo = {}
  BY <1>0 DEF NoSweep
<1>6. CASE SweepEnd
  <2>1. sweptOn' \in Days
    BY <1>0, <1>6 DEF SweepEnd, TelemetryTypeOK
  <2>. QED  BY <1>1, <1>5, <1>6, <2>1 DEF SweepEnd, TelemetryTypeOK, logVars, viewVars
<1>7. CASE Reboot
  <2>1. boots' \in 1..MaxBoots
    BY <1>7 DEF Reboot, TelemetryTypeOK, TelemetryAssumption
  <2>. QED  BY <1>0, <1>1, <1>5, <1>7, <2>1 DEF Reboot, TelemetryTypeOK, logVars, viewVars
<1>8. CASE Tick
  <2>1. clock' = clock + 1 /\ UNCHANGED <<log, sweepVars, viewVars, held>>
    BY <1>8 DEF Tick
  <2>2. clock' \in Times
    BY <1>0, <1>8, Length DEF Tick, Times
  <2>3. TelemetryTypeOK'
    BY <2>1, <2>2 DEF TelemetryTypeOK, sweepVars, viewVars
  <2>4. Clocked'
    <3>1. \A d \in Days : log[d] # 0 => d # 0 /\ Day(log[d]) = d
      BY DEF Clocked
    <3>2. \A d \in Days : Day(log[d])' = Day(log[d])
      BY <2>1 DEF Day
    <3>3. sweep.cutoff \in Int /\ (sweep.todo # {} => sweep.cutoff <= clock - DayLength)
      BY DEF Clocked, TelemetryTypeOK
    <3>4. \A v \in Viewers : viewer'[v].pc = "next" => viewer'[v].todo # <<>>
      BY <2>1 DEF Clocked, viewVars
    <3>. QED  BY <1>0, <2>1, <3>1, <3>2, <3>3, <3>4 DEF Clocked, sweepVars
  <2>5. \A d \in Days : cache[d].records \in Nat
    BY TimesAreNat DEF TelemetryTypeOK
  <2>6. EntriesRead'
    BY <1>0, <2>1, <2>5 DEF EntriesRead, viewVars
  <2>7. \A v \in Viewers : viewer[v].mtime \in Nat /\ viewer[v].records \in Nat
    BY TimesAreNat DEF TelemetryTypeOK, Requests
  <2>8. LoadsRead'
    BY <1>0, <2>1, <2>7 DEF LoadsRead, Loading, viewVars
  <2>9. SharedReads' /\ NotLoading'
    BY <2>1 DEF SharedReads, NotLoading, Loading, viewVars
  <2>. QED  BY <2>3, <2>4, <2>6, <2>8, <2>9
<1>9. CASE SaveWrite
  <2>1. /\ retention' \in Windows \cup {DefaultDays, Torn}
        /\ saving' \in [to : SUBSET Windows, count : 0..MaxSaves]
    BY <1>9 DEF SaveWrite, TelemetryTypeOK
  <2>. QED  BY <1>1, <1>9, <2>1 DEF SaveWrite, TelemetryTypeOK, logVars, viewVars, Clocked
<1>10. ASSUME NEW days \in Windows, SaveOpen(days) PROVE TelInv'
  <2>1. saving.count + 1 \in 0..MaxSaves
    BY <1>10 DEF SaveOpen, TelemetryTypeOK, TelemetryAssumption
  <2>2. saving' \in [to : SUBSET Windows, count : 0..MaxSaves]
    BY <1>10, <2>1 DEF SaveOpen
  <2>. QED  BY <1>1, <1>10, <2>2 DEF SaveOpen, TelemetryTypeOK, logVars, viewVars, Clocked
<1>. QED  BY <1>2, <1>3, <1>4, <1>6, <1>7, <1>8, <1>9, <1>10 DEF SweepStep

(* The steps of the request threads.                                       *)
LEMMA RestStep ==
  ASSUME TelInv, NEW v \in Viewers, NEW r \in Requests,
         viewer' = [viewer EXCEPT ![v] = r],
         r.pc \in {"idle", "next"}, r.pc = "next" => r.todo # <<>>,
         held' = [held EXCEPT ![v] = {}] \/ (~Loading(v) /\ held' = held),
         requests' \in 0..MaxRequests, UNCHANGED <<logVars, sweepVars, cache>>
  PROVE  TelInv'
<1> HIDE DEF Days, Times, Requests
<1>1. held' = [held EXCEPT ![v] = {}]
  BY DEF TelInv, CacheInv, NotLoading, TelemetryTypeOK
<1>2. EntriesRead' /\ cache' \in [Days -> [mtime : Times, records : Times]]
  BY DEF TelInv, CacheInv, EntriesRead, TelemetryTypeOK, logVars
<1>3. \A w \in Viewers \ {v} : Loading(w) =>
        LET e == cache'[viewer[w].day]
        IN  e.mtime = viewer[w].mtime => e.records \in held[w]
  BY DEF TelInv, CacheInv, LoadsRead
<1>. QED  BY <1>1, <1>2, <1>3, ViewerRests

LEMMA ViewerTyped ==
  ASSUME TelInv, NEW v \in Viewers
  PROVE  /\ viewer[v] \in Requests
         /\ viewer[v].todo \in Seq(Days \cup {Late}) /\ viewer[v].day \in Days
         /\ viewer[v].mtime \in Times /\ viewer[v].records \in Times
         /\ log[viewer[v].day] \in Times
         /\ cache[viewer[v].day].records \in Times
         /\ cache[viewer[v].day].mtime \in Times
         /\ held[v] \in SUBSET Times
<1> HIDE DEF Days, Times
<1>1. viewer[v] \in Requests
  BY DEF TelInv, TelemetryTypeOK
<1>2. /\ viewer[v].todo \in Seq(Days \cup {Late}) /\ viewer[v].day \in Days
      /\ viewer[v].mtime \in Times /\ viewer[v].records \in Times
  BY <1>1 DEF Requests
<1>. QED  BY <1>1, <1>2 DEF TelInv, TelemetryTypeOK

(* What the thread that answered a load turns to.                          *)
LEMMA LoadedRests ==
  ASSUME NEW q \in Requests, NEW t \in Times
  PROVE  /\ Loaded(q, t) \in Requests /\ Loaded(q, t).pc \in {"idle", "next"}
         /\ Loaded(q, t).pc = "next" => Loaded(q, t).todo # <<>>
  BY RequestTypes, RequestFields

LEMMA AskStep ==
  ASSUME TelInv, NEW v \in Viewers, NEW kind \in {"snapshot", "today", "history"},
         NEW days \in Seq(Days \cup {Late}), days # <<>>, Ask(v, kind, days)
  PROVE  TelInv'
<1>1. DayLength <= clock
  BY DEF TelInv, CacheInv, Clocked
<1>2. Asked(kind, days) \in Requests
  BY <1>1, RequestTypes DEF TelInv
<1>3. Asked(kind, days).pc = "next" /\ Asked(kind, days).todo # <<>>
  BY RequestFields
<1>4. ~Loading(v)
  BY DEF Ask, Loading
<1>5. requests' \in 0..MaxRequests
  BY DEF Ask, TelInv, TelemetryTypeOK, TelemetryAssumption
<1>. QED  BY <1>2, <1>3, <1>4, <1>5, RestStep DEF Ask

LEMMA DaysAsked ==
  ASSUME TelInv
  PROVE  /\ SnapshotDays \in Seq(Days \cup {Late}) /\ SnapshotDays # <<>>
         /\ TodayDays \in Seq(Days \cup {Late}) /\ TodayDays # <<>>
         /\ HistoryDays \in Seq(Days \cup {Late}) /\ HistoryDays # <<>>
<1>1. Today \in Days /\ Today - 1 \in Days
  BY TodayTyped DEF TelInv, CacheInv, Clocked
<1> HIDE DEF Days, Late, Today
<1>. QED  BY <1>1 DEF SnapshotDays, TodayDays, HistoryDays

(* The request at the moment when the log of the next day is looked for.   *)
Turned(v) ==
  LET d == IF Head(viewer[v].todo) = Late THEN Today ELSE Head(viewer[v].todo)
  IN  [viewer[v] EXCEPT !.todo = Tail(@), !.day = d]

Statted(v) == [Turned(v) EXCEPT !.pc = "check", !.mtime = log[Turned(v).day]]

LEMMA TurnedFacts ==
  ASSUME TelInv, NEW v \in Viewers, viewer[v].pc = "next"
  PROVE  /\ Turned(v) \in Requests
         /\ Turned(v).day = IF Head(viewer[v].todo) = Late THEN Today ELSE Head(viewer[v].todo)
         /\ Turned(v).todo = Tail(viewer[v].todo) /\ Turned(v).kind = viewer[v].kind
         /\ Turned(v).answer = viewer[v].answer /\ Turned(v).got = viewer[v].got
         /\ Turned(v).askedOn = viewer[v].askedOn /\ Turned(v).newest = viewer[v].newest
<1> HIDE DEF Days, Times, Late
<1>1. /\ viewer[v] \in Requests /\ viewer[v].todo \in Seq(Days \cup {Late})
      /\ viewer[v].todo # <<>> /\ Today \in Days
  BY ViewerTyped, TodayTyped DEF TelInv, CacheInv, Clocked
<1>2. Head(viewer[v].todo) \in Days \cup {Late} /\ Tail(viewer[v].todo) \in Seq(Days \cup {Late})
  BY <1>1
<1>3. (IF Head(viewer[v].todo) = Late THEN Today ELSE Head(viewer[v].todo)) \in Days
  BY <1>1, <1>2
<1> HIDE DEF Today
<1>4. Turned(v) \in Requests
  BY <1>1, <1>2, <1>3, ZenonT(30) DEF Turned, Requests
<1>. QED  BY <1>1, <1>4 DEF Turned, Requests

LEMMA StattedFacts ==
  ASSUME TelInv, NEW v \in Viewers, viewer[v].pc = "next"
  PROVE  /\ Statted(v) \in Requests /\ Statted(v).pc = "check"
         /\ Statted(v).day = Turned(v).day /\ Statted(v).mtime = log[Turned(v).day]
         /\ Statted(v).todo = Turned(v).todo /\ Statted(v).kind = Turned(v).kind
         /\ Statted(v).answer = Turned(v).answer /\ Statted(v).got = Turned(v).got
         /\ Statted(v).askedOn = Turned(v).askedOn /\ Statted(v).newest = Turned(v).newest
<1> HIDE DEF Days, Times, Turned
<1>1. Turned(v) \in Requests
  BY TurnedFacts
<1>2. log[Turned(v).day] \in Times
  BY <1>1 DEF TelInv, TelemetryTypeOK, Requests
<1>3. "check" \in {"next", "check", "read", "store", "idle"}
  OBVIOUS
<1>4. Statted(v) \in Requests
  BY <1>1, <1>2, <1>3, ZenonT(30) DEF Statted, Requests
<1>. QED  BY <1>1, <1>4 DEF Statted, Requests

LEMMA LoadLogIs ==
  ASSUME TelInv, NEW v \in Viewers, LoadLog(v)
  PROVE  /\ viewer[v].pc = "next" /\ UNCHANGED <<logVars, sweepVars, requests, cache>>
         /\ \/ /\ log[Turned(v).day] = 0 /\ held' = held
               /\ viewer' = [viewer EXCEPT ![v] = Loaded(Turned(v), 0)]
            \/ /\ log[Turned(v).day] # 0
               /\ held' = [held EXCEPT ![v] = {log[Turned(v).day]}]
               /\ viewer' = [viewer EXCEPT ![v] = Statted(v)]
<1> DEFINE d == IF Head(viewer[v].todo) = Late THEN Today ELSE Head(viewer[v].todo)
<1>1. viewer[v].pc = "next" /\ Turned(v).day = d
  BY TurnedFacts DEF LoadLog
<1>. QED  BY <1>1 DEF LoadLog, Turned, Statted

LEMMA LoadLogStep ==
  ASSUME TelInv, NEW v \in Viewers, LoadLog(v)
  PROVE  TelInv'
<1> HIDE DEF Days, Times, Requests, Statted, Turned
<1>1. viewer[v].pc = "next" /\ UNCHANGED <<logVars, sweepVars, requests, cache>> /\ ~Loading(v)
  BY LoadLogIs DEF Loading
<1>2. Turned(v) \in Requests /\ Turned(v).day \in Days /\ log[Turned(v).day] \in Times
      /\ log[Turned(v).day] \in Nat /\ log[Turned(v).day] <= clock
      /\ cache[Turned(v).day].records \in Nat /\ cache[Turned(v).day].mtime \in Nat
      /\ clock \in Nat /\ requests \in 0..MaxRequests
  <2>1. Turned(v) \in Requests /\ Turned(v).day \in Days
    BY <1>1, TurnedFacts DEF Requests
  <2>2. /\ log[Turned(v).day] \in Times /\ clock \in Times
        /\ cache[Turned(v).day].records \in Times /\ cache[Turned(v).day].mtime \in Times
        /\ requests \in 0..MaxRequests
    BY <2>1 DEF TelInv, TelemetryTypeOK
  <2>3. log[Turned(v).day] # 0 => log[Turned(v).day] <= clock
    BY <2>1 DEF TelInv, CacheInv, Clocked
  <2>. QED  BY <2>1, <2>2, <2>3, TimesAreNat
<1>3. CASE /\ log[Turned(v).day] = 0 /\ held' = held
           /\ viewer' = [viewer EXCEPT ![v] = Loaded(Turned(v), 0)]
  <2>1. /\ Loaded(Turned(v), 0) \in Requests /\ Loaded(Turned(v), 0).pc \in {"idle", "next"}
        /\ Loaded(Turned(v), 0).pc = "next" => Loaded(Turned(v), 0).todo # <<>>
    BY <1>2, TimeZero, LoadedRests
  <2>. QED  BY <1>1, <1>2, <1>3, <2>1, RestStep
<1>4. CASE /\ log[Turned(v).day] # 0
           /\ held' = [held EXCEPT ![v] = {log[Turned(v).day]}]
           /\ viewer' = [viewer EXCEPT ![v] = Statted(v)]
  <2> SUFFICES ASSUME NEW r \in Requests, r = Statted(v),
                      NEW h \in SUBSET Times, h = {log[Turned(v).day]}
               PROVE  TelInv'
    BY <1>1, <1>2, StattedFacts
  <2>1. /\ r \in Requests /\ r.pc = "check" /\ r.day = Turned(v).day
        /\ r.mtime = log[Turned(v).day]
    BY <1>1, StattedFacts
  <2>2. h \in SUBSET Times /\ {r.mtime, log[r.day]} \subseteq h
    BY <1>2, <2>1
  <2>3. cache[r.day].mtime = r.mtime => cache[r.day].records \in h
    BY <1>2, <1>4, <2>1 DEF TelInv, CacheInv, EntriesRead
  <2>4. \A w \in Viewers \ {v} :
          (viewer[w].pc = "store" /\ viewer[w].day = r.day /\ viewer[w].mtime = r.mtime)
            => viewer[w].records \in h
    <3> SUFFICES ASSUME NEW w \in Viewers, viewer[w].pc = "store", viewer[w].day = r.day,
                        viewer[w].mtime = r.mtime
                 PROVE  viewer[w].records = log[Turned(v).day]
      OBVIOUS
    <3>1. /\ viewer[w].mtime <= viewer[w].records
          /\ log[viewer[w].day] # 0 => viewer[w].records <= log[viewer[w].day]
      BY DEF TelInv, CacheInv, LoadsRead, Loading
    <3>2. viewer[w].records \in Nat
      BY ViewerTyped, TimesAreNat
    <3>. QED  BY <1>2, <1>4, <2>1, <3>1, <3>2
  <2>5. held' = [held EXCEPT ![v] = h] /\ viewer' = [viewer EXCEPT ![v] = r]
    BY <1>4
  <2>6. /\ r.mtime # 0 /\ r.mtime <= clock
        /\ log[r.day] # 0 => r.mtime <= log[r.day]
    BY <1>2, <1>4, <2>1
  <2>7. /\ r.pc \in {"check", "read", "store"}
        /\ log[r.day] # 0 \/ r.pc # "store"
        /\ r.pc = "store" => r.records = log[r.day]
    BY <2>1
  <2>8. Turns(v, r, h)
    BY <1>1, <2>1, <2>2, <2>3, <2>4, <2>5, <2>6, <2>7 DEF Turns
  <2>. QED  BY <2>8, ViewerLoads
<1>. QED  BY <1>3, <1>4, LoadLogIs

LEMMA CheckCacheStep ==
  ASSUME TelInv, NEW v \in Viewers, CheckCache(v)
  PROVE  TelInv'
<1> HIDE DEF Days, Times, Requests
<1>1. /\ viewer[v].pc = "check" /\ UNCHANGED <<logVars, sweepVars, requests, cache>>
      /\ Loading(v) /\ requests \in 0..MaxRequests /\ viewer[v] \in Requests
  BY ViewerTyped DEF CheckCache, Loading, TelInv, TelemetryTypeOK
<1>2. CASE cache[viewer[v].day].mtime = viewer[v].mtime
  <2> DEFINE r == Loaded(viewer[v], cache[viewer[v].day].records)
  <2>1. r \in Requests /\ r.pc \in {"idle", "next"} /\ (r.pc = "next" => r.todo # <<>>)
    BY ViewerTyped, LoadedRests
  <2>2. viewer' = [viewer EXCEPT ![v] = r] /\ held' = [held EXCEPT ![v] = {}]
    BY <1>2 DEF CheckCache
  <2> HIDE DEF r
  <2>. QED  BY <1>1, <2>1, <2>2, RestStep
<1>3. CASE cache[viewer[v].day].mtime # viewer[v].mtime
  <2> DEFINE r == [viewer[v] EXCEPT !.pc = "read"]
  <2>1. /\ r \in Requests /\ r.pc = "read" /\ r.day = viewer[v].day
        /\ r.mtime = viewer[v].mtime
    <3>1. "read" \in {"next", "check", "read", "store", "idle"}
      OBVIOUS
    <3>2. r \in Requests
      BY <1>1, <3>1, ZenonT(30) DEF Requests
    <3>. QED  BY <1>1, <3>2 DEF Requests
  <2>2. viewer' = [viewer EXCEPT ![v] = r] /\ held' = held
    BY <1>3 DEF CheckCache
  <2> HIDE DEF r
  <2>3. held' = [held EXCEPT ![v] = held[v]] /\ held[v] \in SUBSET Times
    BY <2>2 DEF TelInv, TelemetryTypeOK
  <2>4. \A w \in Viewers \ {v} :
          (viewer[w].pc = "store" /\ viewer[w].day = r.day /\ viewer[w].mtime = r.mtime)
            => viewer[w].records \in held[v]
    BY <1>1, <2>1 DEF TelInv, CacheInv, SharedReads
  <2>5. Turns(v, r, held[v])
    BY <1>1, <1>3, <2>1, <2>2, <2>3, <2>4 DEF Turns, TelInv, CacheInv, LoadsRead
  <2>. QED  BY <2>1, <2>3, <2>5, ViewerLoads
<1>. QED  BY <1>2, <1>3

LEMMA ReadLogStep ==
  ASSUME TelInv, NEW v \in Viewers, ReadLog(v)
  PROVE  TelInv'
<1> HIDE DEF Days, Times, Requests
<1>1. /\ viewer[v].pc = "read" /\ UNCHANGED <<logVars, sweepVars, requests, cache>>
      /\ Loading(v) /\ requests \in 0..MaxRequests /\ viewer[v] \in Requests
      /\ log[viewer[v].day] \in Times
  BY ViewerTyped DEF ReadLog, Loading, TelInv, TelemetryTypeOK
<1>2. CASE log[viewer[v].day] = 0
  <2>1. viewer' = [viewer EXCEPT ![v] = NoRequest] /\ held' = [held EXCEPT ![v] = {}]
    BY <1>2 DEF ReadLog
  <2>2. NoRequest \in Requests /\ NoRequest.pc \in {"idle", "next"} /\ NoRequest.pc # "next"
    BY RequestTypes
  <2>. QED  BY <1>1, <2>1, <2>2, RestStep
<1>3. CASE log[viewer[v].day] # 0
  <2> DEFINE r == [viewer[v] EXCEPT !.pc = "store", !.records = log[viewer[v].day]]
  <2>1. /\ r \in Requests /\ r.pc = "store" /\ r.day = viewer[v].day
        /\ r.mtime = viewer[v].mtime /\ r.records = log[viewer[v].day]
    <3>1. "store" \in {"next", "check", "read", "store", "idle"}
      OBVIOUS
    <3>2. r \in Requests
      BY <1>1, <3>1, ZenonT(30) DEF Requests
    <3>. QED  BY <1>1, <3>2 DEF Requests
  <2>2. viewer' = [viewer EXCEPT ![v] = r] /\ held' = held
    BY <1>3 DEF ReadLog
  <2> HIDE DEF r
  <2>3. held' = [held EXCEPT ![v] = held[v]] /\ held[v] \in SUBSET Times
    BY <2>2 DEF TelInv, TelemetryTypeOK
  <2>4. \A w \in Viewers \ {v} :
          (viewer[w].pc = "store" /\ viewer[w].day = r.day /\ viewer[w].mtime = r.mtime)
            => viewer[w].records \in held[v]
    BY <1>1, <2>1 DEF TelInv, CacheInv, SharedReads
  <2>5. Turns(v, r, held[v])
    BY <1>1, <1>3, <2>1, <2>2, <2>3, <2>4 DEF Turns, TelInv, CacheInv, LoadsRead
  <2>. QED  BY <2>1, <2>3, <2>5, ViewerLoads
<1>. QED  BY <1>2, <1>3

LEMMA StoreLogStep ==
  ASSUME TelInv, NEW v \in Viewers, StoreLog(v)
  PROVE  TelInv'
<1> HIDE DEF Days, Times, Requests
<1> DEFINE r == Loaded(viewer[v], viewer[v].records)
           d == viewer[v].day
<1>1. /\ viewer[v].pc = "store" /\ UNCHANGED <<logVars, sweepVars, requests>>
      /\ Loading(v) /\ requests \in 0..MaxRequests
      /\ viewer[v] \in Requests /\ viewer[v].records \in Times /\ viewer[v].mtime \in Times
      /\ d \in Days
  BY ViewerTyped DEF StoreLog, Loading, TelInv, TelemetryTypeOK
<1>2. r \in Requests /\ r.pc \in {"idle", "next"} /\ (r.pc = "next" => r.todo # <<>>)
  BY <1>1, LoadedRests
<1>3. viewer' = [viewer EXCEPT ![v] = r] /\ held' = [held EXCEPT ![v] = {}]
  BY DEF StoreLog
<1>4. /\ cache' = [cache EXCEPT ![d] = Entry(viewer[v])]
      /\ Entry(viewer[v]) \in [mtime : Times, records : Times]
      /\ Entry(viewer[v]).mtime = viewer[v].mtime
      /\ Entry(viewer[v]).records = viewer[v].records
  BY <1>1 DEF StoreLog, Entry
<1> HIDE DEF r, d
<1>5. /\ cache' \in [Days -> [mtime : Times, records : Times]]
      /\ cache'[d].mtime = viewer[v].mtime /\ cache'[d].records = viewer[v].records
      /\ \A e \in Days : e # d => cache'[e] = cache[e]
  BY <1>1, <1>4 DEF TelInv, TelemetryTypeOK
<1>6. EntriesRead'
  <2>1. /\ viewer[v].mtime <= viewer[v].records /\ viewer[v].records <= clock
        /\ log[d] # 0 => viewer[v].records <= log[d]
    BY <1>1 DEF TelInv, CacheInv, LoadsRead, d
  <2>2. log' = log /\ clock' = clock
    BY <1>1 DEF logVars
  <2>. QED  BY <1>5, <2>1, <2>2 DEF TelInv, CacheInv, EntriesRead
<1>7. \A w \in Viewers \ {v} : Loading(w) =>
        LET e == cache'[viewer[w].day]
        IN  e.mtime = viewer[w].mtime => e.records \in held[w]
  <2> SUFFICES ASSUME NEW w \in Viewers, Loading(w),
                      cache'[viewer[w].day].mtime = viewer[w].mtime
               PROVE  cache'[viewer[w].day].records \in held[w]
    OBVIOUS
  <2>1. CASE viewer[w].day = d
    BY <1>1, <1>5, <2>1 DEF TelInv, CacheInv, SharedReads, d
  <2>2. CASE viewer[w].day # d
    <3>1. viewer[w].day \in Days
      BY ViewerTyped
    <3>. QED  BY <1>5, <2>2, <3>1 DEF TelInv, CacheInv, LoadsRead
  <2>. QED  BY <2>1, <2>2
<1>8. requests' \in 0..MaxRequests /\ UNCHANGED <<logVars, sweepVars>>
  BY <1>1
<1>. QED  BY <1>2, <1>3, <1>5, <1>6, <1>7, <1>8, ViewerRests

LEMMA TelNext == TelInv /\ [TelemetryNext]_telemetryVars => TelInv'
<1> SUFFICES ASSUME TelInv, [TelemetryNext]_telemetryVars PROVE TelInv'
  OBVIOUS
<1>1. ASSUME NEW v \in Viewers, ViewerStep(v) PROVE TelInv'
  BY <1>1, DaysAsked, AskStep, LoadLogStep, CheckCacheStep, ReadLogStep, StoreLogStep
  DEF ViewerStep
<1>2. CASE UNCHANGED telemetryVars
  <2> USE <1>2 DEF telemetryVars, logVars, sweepVars, viewVars
  <2>1. TelemetryTypeOK'
    BY DEF TelInv, TelemetryTypeOK
  <2>2. Clocked'
    BY DEF TelInv, CacheInv, Clocked, Day
  <2>3. EntriesRead' /\ LoadsRead' /\ SharedReads' /\ NotLoading'
    BY DEF TelInv, CacheInv, EntriesRead, LoadsRead, SharedReads, NotLoading, Loading
  <2>. QED  BY <2>1, <2>2, <2>3 DEF TelInv, CacheInv
<1>. QED  BY <1>1, <1>2, DaemonSteps DEF TelemetryNext

LEMMA TelInvariant == TelemetrySpec => []TelInv
  BY TelInit, TelNext, PTL DEF TelemetrySpec

(* Every variable of the logs, the sweep, the requests and the cache keeps *)
(* its type.                                                               *)
THEOREM TypeInvariant == TelemetrySpec => []TelemetryTypeOK
<1>1. TelInv => TelemetryTypeOK
  BY DEF TelInv
<1>. QED  BY TelInvariant, <1>1, PTL

-----------------------------------------------------------------------------
(* The refinement.  What the mapping shows of a request and its history.   *)
Shows(q, h) == [open |-> IF q.pc \in {"check", "read", "store"} THEN {q.day} ELSE {},
                held |-> h, got |-> q.got]

Shown == [v \in Viewers |-> Shows(viewer[v], held[v])]

(* The step of one request thread shows in what is mapped of this thread.  *)
LEMMA ShownChanges ==
  ASSUME TelInv, NEW v \in Viewers, NEW r,
         viewer' = [viewer EXCEPT ![v] = r], NEW h, held' = [held EXCEPT ![v] = h]
  PROVE  Shown' = [Shown EXCEPT ![v] = Shows(r, h)]
<1>1. viewer \in [Viewers -> Requests] /\ held \in [Viewers -> SUBSET Times]
  BY DEF TelInv, TelemetryTypeOK
<1> HIDE DEF Requests, Times
<1>2. Shown' = [w \in Viewers |-> Shows(viewer'[w], held'[w])]
  BY DEF Shown, Shows
<1>3. viewer'[v] = r /\ held'[v] = h
      /\ \A w \in Viewers : w # v => viewer'[w] = viewer[w] /\ held'[w] = held[w]
  BY <1>1
<1>4. \A w \in Viewers : Shows(viewer'[w], held'[w]) =
                           IF w = v THEN Shows(r, h) ELSE Shows(viewer[w], held[w])
  BY <1>3
<1> HIDE DEF Shows
<1>5. Shown' = [w \in Viewers |-> IF w = v THEN Shows(r, h) ELSE Shows(viewer[w], held[w])]
  BY <1>2, <1>4
<1>6. [Shown EXCEPT ![v] = Shows(r, h)] =
        [w \in Viewers |-> IF w = v THEN Shows(r, h) ELSE Shows(viewer[w], held[w])]
  BY DEF Shown
<1>. QED  BY <1>5, <1>6

LEMMA LogChangeMaps ==
  ASSUME TelInv, NEW d \in Days, NEW t \in Times, Changed(d, t), viewer' = viewer
  PROVE  LogReads!Next
<1>1. log' = [log EXCEPT ![d] = t]
      /\ \A v \in Viewers : held'[v] = IF viewer[v].pc \in {"check", "read", "store"}
                                          /\ viewer[v].day = d
                                         THEN held[v] \cup {t} ELSE held[v]
  BY DEF Changed
<1>2. \A v \in Viewers :
        Shows(viewer'[v], held'[v]) =
          IF d \in Shows(viewer[v], held[v]).open
            THEN [Shows(viewer[v], held[v]) EXCEPT !.held = @ \cup {t}]
            ELSE Shows(viewer[v], held[v])
  BY <1>1 DEF Shows
<1>3. Shown' = [v \in Viewers |->
                  IF d \in Shown[v].open
                    THEN [Shown[v] EXCEPT !.held = @ \cup {t}]
                    ELSE Shown[v]]
  BY <1>2 DEF Shown, Shows
<1>4. LogReads!Change(d, t)
  BY <1>1, <1>3 DEF LogReads!Change, Shown, Shows
<1>. QED  BY <1>4 DEF LogReads!Next

(* What a thread does to its entry, as a step of FileReads.                *)
LEMMA ReaderMaps ==
  ASSUME NEW v \in Viewers, log' = log, NEW e, Shown' = [Shown EXCEPT ![v] = e],
         NEW d \in Days, NEW t \in Times,
         \/ /\ Shown[v].open = {}
            /\ \/ e = [open |-> {d}, held |-> {log[d]}, got |-> Shown[v].got]
               \/ e = [open |-> {}, held |-> Shown[v].held, got |-> {log[d]}]
         \/ /\ Shown[v].open # {} /\ t \in Shown[v].held
            /\ e = [open |-> {}, held |-> {}, got |-> {t}]
         \/ e = LogReads!Fresh
  PROVE  LogReads!Next
<1>0. Shown[v] = [open |-> Shown[v].open, held |-> Shown[v].held, got |-> Shown[v].got]
  BY DEF Shown, Shows
<1>1. CASE Shown[v].open = {} /\ e = [open |-> {d}, held |-> {log[d]}, got |-> Shown[v].got]
  <2>1. e = [Shown[v] EXCEPT !.open = {d}, !.held = {log[d]}]
    <3>1. DOMAIN Shown[v] = {"open", "held", "got"}
      BY <1>0
    <3>2. [Shown[v] EXCEPT !.open = {d}, !.held = {log[d]}]
            = [f \in {"open", "held", "got"} |-> IF f = "held" THEN {log[d]}
                                                ELSE IF f = "open" THEN {d} ELSE Shown[v][f]]
      BY <3>1
    <3>3. ASSUME NEW open, NEW have, NEW r
          PROVE  [open |-> open, held |-> have, got |-> r.got]
                   = [f \in {"open", "held", "got"} |-> IF f = "held" THEN have
                                                       ELSE IF f = "open" THEN open ELSE r[f]]
      OBVIOUS
    <3>4. [open |-> {d}, held |-> {log[d]}, got |-> Shown[v].got]
            = [f \in {"open", "held", "got"} |-> IF f = "held" THEN {log[d]}
                                                ELSE IF f = "open" THEN {d} ELSE Shown[v][f]]
      BY <3>3
    <3>. QED  BY <1>1, <3>2, <3>4
  <2>2. LogReads!Turn(v, d)
    BY <1>1, <2>1 DEF LogReads!Turn, Shown, Shows
  <2>. QED  BY <2>2 DEF LogReads!Next
<1>2. CASE Shown[v].open = {} /\ e = [open |-> {}, held |-> Shown[v].held, got |-> {log[d]}]
  <2>1. e = [Shown[v] EXCEPT !.got = {log[d]}]
    <3>1. DOMAIN Shown[v] = {"open", "held", "got"}
      BY <1>0
    <3>2. [Shown[v] EXCEPT !.got = {log[d]}]
            = [f \in {"open", "held", "got"} |-> IF f = "got" THEN {log[d]} ELSE Shown[v][f]]
      BY <3>1
    <3>3. ASSUME NEW r, NEW got
          PROVE  [open |-> r.open, held |-> r.held, got |-> got]
                   = [f \in {"open", "held", "got"} |-> IF f = "got" THEN got ELSE r[f]]
      OBVIOUS
    <3>4. e = [open |-> Shown[v].open, held |-> Shown[v].held, got |-> {log[d]}]
      BY <1>2
    <3>5. [open |-> Shown[v].open, held |-> Shown[v].held, got |-> {log[d]}]
            = [f \in {"open", "held", "got"} |-> IF f = "got" THEN {log[d]} ELSE Shown[v][f]]
      BY <3>3
    <3>. QED  BY <3>2, <3>4, <3>5
  <2>2. LogReads!ReadAtOnce(v, d)
    BY <1>2, <2>1 DEF LogReads!ReadAtOnce, Shown, Shows
  <2>. QED  BY <2>2 DEF LogReads!Next
<1>3. CASE /\ Shown[v].open # {} /\ t \in Shown[v].held
           /\ e = [open |-> {}, held |-> {}, got |-> {t}]
  <2>1. LogReads!Return(v, t)
    BY <1>3 DEF LogReads!Return, Shown, Shows
  <2>. QED  BY <2>1 DEF LogReads!Next
<1>4. CASE e = LogReads!Fresh
  <2>1. LogReads!Forget(v)
    BY <1>4 DEF LogReads!Forget, Shown, Shows
  <2>. QED  BY <2>1 DEF LogReads!Next
<1>. QED  BY <1>1, <1>2, <1>3, <1>4

(* A log that is loaded may be answered with what it holds, with what is   *)
(* cached under the mtime of the load, and with what was read.             *)
LEMMA AnswersHeld ==
  ASSUME TelInv, NEW v \in Viewers, Loading(v)
  PROVE  /\ cache[viewer[v].day].mtime = viewer[v].mtime
              => cache[viewer[v].day].records \in held[v]
         /\ viewer[v].pc = "store" => viewer[v].records \in held[v]
  BY DEF TelInv, CacheInv, LoadsRead, SharedReads

LEMMA ViewerMaps ==
  ASSUME TelInv, NEW v \in Viewers, ViewerStep(v)
  PROVE  LogReads!Next \/ UNCHANGED <<log, Shown>>
<1> HIDE DEF Days, Times, Requests
<1>1. log' = log /\ viewer[v] \in Requests /\ viewer[v].day \in Days /\ 0 \in Times
      /\ Shown[v] = Shows(viewer[v], held[v]) /\ 0 \in Days
  BY ViewerTyped, TimeZero, DaysAndLate
  DEF ViewerStep, Ask, LoadLog, CheckCache, ReadLog, StoreLog, logVars, Shown
<1>2. ASSUME NEW r, NEW h, viewer' = [viewer EXCEPT ![v] = r],
             held' = [held EXCEPT ![v] = h] \/ (h = held[v] /\ held' = held)
      PROVE  Shown' = [Shown EXCEPT ![v] = Shows(r, h)]
  <2>1. held' = [held EXCEPT ![v] = h]
    BY <1>2 DEF TelInv, TelemetryTypeOK
  <2>. QED  BY <1>2, <2>1, ShownChanges
<1>3. ASSUME ~Loading(v) PROVE Shown[v].open = {} /\ held[v] = {}
  BY <1>1, <1>3 DEF Loading, Shows, TelInv, CacheInv, NotLoading
<1>4. ASSUME Loading(v) PROVE Shown[v].open # {} /\ Shown[v].held = held[v]
  BY <1>1, <1>4 DEF Loading, Shows
<1>5. ASSUME NEW kind, NEW days, Ask(v, kind, days) PROVE LogReads!Next
  <2>1. Shown' = [Shown EXCEPT ![v] = Shows(Asked(kind, days), held[v])]
    BY <1>2, <1>5 DEF Ask
  <2>2. ~Loading(v)
    BY <1>5 DEF Ask, Loading
  <2>3. Shows(Asked(kind, days), held[v]) = LogReads!Fresh
    BY <1>3, <2>2, RequestFields DEF Shows, LogReads!Fresh
  <2>. QED  BY <1>1, <2>1, <2>3, ReaderMaps
<1>6. CASE LoadLog(v)
  <2> HIDE DEF Turned, Statted
  <2>0. /\ viewer[v].pc = "next" /\ Turned(v) \in Requests /\ Turned(v).day \in Days
        /\ Shown[v].open = {} /\ Shown[v].held = held[v] /\ Shown[v].got = viewer[v].got
        /\ Turned(v).got = viewer[v].got
    BY <1>1, <1>3, <1>6, LoadLogIs, TurnedFacts DEF Loading, Requests, Shows
  <2>1. CASE /\ log[Turned(v).day] = 0 /\ held' = held
             /\ viewer' = [viewer EXCEPT ![v] = Loaded(Turned(v), 0)]
    <3>1. Shown' = [Shown EXCEPT ![v] = Shows(Loaded(Turned(v), 0), held[v])]
      BY <1>2, <2>1
    <3>2. Shows(Loaded(Turned(v), 0), held[v]) =
            [open |-> {}, held |-> held[v], got |-> {0}]
      <4>1. Loaded(Turned(v), 0).pc \in {"idle", "next"} /\ Loaded(Turned(v), 0).got = {0}
        BY <1>1, <2>0, RequestFields
      <4>. QED  BY <4>1 DEF Shows
    <3>. QED  BY <1>1, <2>0, <2>1, <3>1, <3>2, ReaderMaps
  <2>2. CASE /\ log[Turned(v).day] # 0
             /\ held' = [held EXCEPT ![v] = {log[Turned(v).day]}]
             /\ viewer' = [viewer EXCEPT ![v] = Statted(v)]
    <3>1. Shown' = [Shown EXCEPT ![v] = Shows(Statted(v), {log[Turned(v).day]})]
      BY <1>2, <2>2
    <3>2. Shows(Statted(v), {log[Turned(v).day]}) =
            [open |-> {Turned(v).day}, held |-> {log[Turned(v).day]}, got |-> Shown[v].got]
      BY <2>0, StattedFacts DEF Shows
    <3>. QED  BY <1>1, <2>0, <3>1, <3>2, ReaderMaps
  <2>. QED  BY <1>6, <2>1, <2>2, LoadLogIs
<1>7. ASSUME NEW t \in Times, t \in held[v], Loading(v),
             viewer' = [viewer EXCEPT ![v] = Loaded(viewer[v], t)],
             held' = [held EXCEPT ![v] = {}]
      PROVE  LogReads!Next
  <2>1. Shown' = [Shown EXCEPT ![v] = Shows(Loaded(viewer[v], t), {})]
    BY <1>2, <1>7
  <2>2. Shows(Loaded(viewer[v], t), {}) = [open |-> {}, held |-> {}, got |-> {t}]
    BY <1>1, RequestFields DEF Shows
  <2>. QED  BY <1>1, <1>4, <1>7, <2>1, <2>2, ReaderMaps
<1>8. ASSUME NEW r, viewer' = [viewer EXCEPT ![v] = r], held' = held,
             Shows(r, held[v]) = Shows(viewer[v], held[v])
      PROVE  UNCHANGED <<log, Shown>>
  <2>1. Shown' = [Shown EXCEPT ![v] = Shown[v]]
    BY <1>1, <1>2, <1>8
  <2>. QED  BY <1>1, <2>1 DEF Shown
<1>9. CASE CheckCache(v)
  <2>1. viewer[v].pc = "check" /\ Loading(v)
    BY <1>9 DEF CheckCache, Loading
  <2>2. CASE cache[viewer[v].day].mtime = viewer[v].mtime
    <3>1. cache[viewer[v].day].records \in held[v] /\ cache[viewer[v].day].records \in Times
      BY <2>1, <2>2, AnswersHeld, ViewerTyped
    <3>. QED  BY <1>7, <1>9, <2>1, <2>2, <3>1 DEF CheckCache
  <2>3. CASE cache[viewer[v].day].mtime # viewer[v].mtime
    <3>1. viewer' = [viewer EXCEPT ![v] = [viewer[v] EXCEPT !.pc = "read"]] /\ held' = held
      BY <1>9, <2>3 DEF CheckCache
    <3>2. Shows([viewer[v] EXCEPT !.pc = "read"], held[v]) = Shows(viewer[v], held[v])
      BY <1>1, <2>1 DEF Shows, Requests
    <3>. QED  BY <1>8, <3>1, <3>2
  <2>. QED  BY <2>2, <2>3
<1>10. CASE ReadLog(v)
  <2>1. viewer[v].pc = "read"
    BY <1>10 DEF ReadLog
  <2>2. CASE log[viewer[v].day] = 0
    <3>1. Shown' = [Shown EXCEPT ![v] = Shows(NoRequest, {})]
      BY <1>2, <1>10, <2>2 DEF ReadLog
    <3>2. Shows(NoRequest, {}) = LogReads!Fresh
      BY RequestTypes DEF Shows, LogReads!Fresh
    <3>. QED  BY <1>1, <3>1, <3>2, ReaderMaps
  <2>3. CASE log[viewer[v].day] # 0
    <3> DEFINE r == [viewer[v] EXCEPT !.pc = "store", !.records = log[viewer[v].day]]
    <3>1. viewer' = [viewer EXCEPT ![v] = r] /\ held' = held
      BY <1>10, <2>3 DEF ReadLog
    <3>2. Shows(r, held[v]) = Shows(viewer[v], held[v])
      BY <1>1, <2>1 DEF Shows, Requests
    <3> HIDE DEF r
    <3>. QED  BY <1>8, <3>1, <3>2
  <2>. QED  BY <2>2, <2>3
<1>11. CASE StoreLog(v)
  <2>1. viewer[v].pc = "store" /\ Loading(v)
    BY <1>11 DEF StoreLog, Loading
  <2>2. viewer[v].records \in held[v] /\ viewer[v].records \in Times
    BY <2>1, AnswersHeld, ViewerTyped
  <2>. QED  BY <1>7, <1>11, <2>1, <2>2 DEF StoreLog
<1>. QED  BY <1>5, <1>6, <1>9, <1>10, <1>11 DEF ViewerStep

LEMMA TelemetryMaps ==
  TelInv /\ TelInv' /\ [TelemetryNext]_telemetryVars => LogReads!Next \/ UNCHANGED <<log, Shown>>
<1> SUFFICES ASSUME TelInv, TelInv', [TelemetryNext]_telemetryVars
             PROVE  LogReads!Next \/ UNCHANGED <<log, Shown>>
  OBVIOUS
<1> HIDE DEF Days, Times, Requests
<1>1. CASE UNCHANGED <<log, viewVars, held>>
  BY <1>1 DEF Shown, Shows, viewVars
<1>2. CASE LogDecoded
  <2>1. Today \in Days /\ clock \in Times
    BY TodayTyped DEF TelInv, TelemetryTypeOK, CacheInv, Clocked
  <2>. QED  BY <1>2, <2>1, LogChangeMaps DEF LogDecoded, viewVars
<1>3. ASSUME NEW d \in Days, SweepFile(d) PROVE LogReads!Next \/ UNCHANGED <<log, Shown>>
  BY <1>1, <1>3, LogChangeMaps, TimeZero DEF SweepFile, viewVars
<1>4. CASE SweepBegin \/ SweepEnd \/ Reboot \/ Tick \/ SaveWrite
           \/ (\E days \in Windows : SaveOpen(days)) \/ UNCHANGED telemetryVars
  <2>1. UNCHANGED <<log, viewVars, held>>
    BY <1>4 DEF SweepBegin, SweepEnd, Reboot, Tick, SaveWrite, SaveOpen, telemetryVars, logVars
  <2>. QED  BY <1>1, <2>1
<1>. QED  BY <1>2, <1>3, <1>4, ViewerMaps DEF TelemetryNext, SweepStep

(* _load_decoded() implements FileReads: for any number of request threads *)
(* and days the cache cannot be told from reading the log every time.      *)
THEOREM LoadsTheorem == TelemetrySpec => LoadsReadTheLog
<1> DEFINE R == [v \in Viewers |->
                  [open |-> IF viewer[v].pc \in {"check", "read", "store"}
                              THEN {viewer[v].day} ELSE {},
                   held |-> held[v],
                   got  |-> viewer[v].got]]
<1>1. TelemetryInit => LogReads!Init
  <2> SUFFICES ASSUME TelemetryInit PROVE LogReads!Init
    OBVIOUS
  <2>1. log \in [Days -> Times]
    BY TelInit DEF TelInv, TelemetryTypeOK
  <2>2. \A v \in Viewers : viewer[v].pc = "idle" /\ viewer[v].got = {} /\ held[v] = {}
    BY RequestTypes DEF TelemetryInit
  <2>. QED  BY <2>1, <2>2 DEF LogReads!Init, LogReads!Fresh
<1>2. TelInv /\ TelInv' /\ [TelemetryNext]_telemetryVars => [LogReads!Next]_<<log, R>>
  <2>1. R = Shown /\ R' = Shown'
    BY DEF Shown, Shows
  <2>. QED  BY <2>1, TelemetryMaps
<1>. QED  BY TelInit, TelNext, <1>1, <1>2, PTL DEF TelemetrySpec, LoadsReadTheLog, LogReads!Spec

-----------------------------------------------------------------------------
(* Snapshots. *)

LEMMA SnapInit == TelemetryInit => SnapshotInv
  BY RequestTypes DEF TelemetryInit, SnapshotInv, Recent

LEMMA RequestNumbers ==
  ASSUME NEW q \in Requests
  PROVE  /\ q.mtime \in Nat /\ q.records \in Nat /\ q.answer \in Nat /\ q.newest \in Nat
         /\ q.askedOn \in Days /\ q.askedOn \in Nat /\ q.day \in Days /\ q.day \in Nat
         /\ q.todo \in Seq(Days \cup {Late})
<1>1. /\ q.mtime \in Times /\ q.records \in Times /\ q.answer \in Times /\ q.newest \in Times
      /\ q.askedOn \in Days /\ q.day \in Days /\ q.todo \in Seq(Days \cup {Late})
  BY DEF Requests
<1>. QED  BY <1>1, TimesAreNat, DaysAndLate

(* The daemon appends to the log of the day, and deletes only logs whose   *)
(* newest record is a day old.                                             *)
LEMMA SnapDaemon ==
  ASSUME TelInv, SnapshotInv, viewer' = viewer,
         clock' = clock \/ clock' = clock + 1,
         \A d \in Days : \/ log'[d] = log[d]
                         \/ log'[d] \in Nat /\ log[d] <= log'[d]
                         \/ log[d] <= clock - DayLength
  PROVE  SnapshotInv'
<1> HIDE DEF Days, Times, Requests
<1> SUFFICES ASSUME NEW v \in Viewers, Recent(viewer[v])'
             PROVE  StillThere(viewer[v])' /\ SoFar(viewer[v])'
  BY DEF SnapshotInv
<1> DEFINE q == viewer[v]
<1>1. /\ q.newest \in Nat /\ q.askedOn \in Nat /\ clock \in Nat /\ clock' \in Nat
      /\ DayLength \in Nat /\ clock <= clock' /\ q \in Requests /\ q' = q
      /\ q.askedOn - 1 \in Days \cup {-1} /\ q.askedOn \in Days
  <2>1. clock \in Nat /\ q \in Requests
    BY TimesAreNat, ViewerTyped DEF TelInv, TelemetryTypeOK
  <2>2. q.askedOn - 1 \in Days \cup {-1}
    BY <2>1, RequestNumbers DEF Days
  <2>. QED  BY <2>1, <2>2, RequestNumbers, Length
<1> HIDE DEF q
<1>2. Recent(q)
  BY <1>1 DEF Recent, q
<1>3. StillThere(q) /\ SoFar(q)
  BY <1>2 DEF SnapshotInv, q
<1>4. SoFar(q)'
  BY <1>1, <1>3 DEF SoFar, Day
<1>5. Day(q.newest) \in Days /\ Day(q.newest)' = Day(q.newest)
  <2>1. Day(q.newest) \in Nat
    BY <1>1, DayFacts
  <2>2. Day(q.newest) \in Days
    BY <1>1, <1>3, <2>1 DEF StillThere
  <2>. QED  BY <1>1, <2>2 DEF Day
<1>6. q.newest <= log'[Day(q.newest)]
  <2>1. q.newest <= log[Day(q.newest)] /\ clock - q.newest < DayLength
    BY <1>2, <1>3 DEF StillThere, Recent
  <2>2. log[Day(q.newest)] \in Nat
    BY <1>5, TimesAreNat DEF TelInv, TelemetryTypeOK
  <2>. QED  BY <1>1, <1>5, <2>1, <2>2
<1>7. q.askedOn <= Today'
  <2>1. Today <= Today' /\ Today \in Nat /\ Today' \in Nat
    <3>1. Today' = Day(clock')
      BY DEF Today, Day
    <3>. QED  BY <1>1, <3>1, DayMonotone, DayFacts DEF Today
  <2>. QED  BY <1>1, <1>3, <2>1 DEF StillThere
<1>8. StillThere(q)'
  BY <1>1, <1>3, <1>5, <1>6, <1>7 DEF StillThere
<1>. QED  BY <1>4, <1>8 DEF q

(* A request thread moves and the logs do not.                             *)
LEMMA SnapViewer ==
  ASSUME TelInv, SnapshotInv, NEW v \in Viewers, NEW r,
         viewer' = [viewer EXCEPT ![v] = r], UNCHANGED logVars,
         Recent(r) => StillThere(r) /\ SoFar(r)
  PROVE  SnapshotInv'
<1> HIDE DEF Days, Times, Requests
<1>1. clock' = clock /\ log' = log
  BY DEF logVars
<1>2. /\ viewer'[v] = r
      /\ \A w \in Viewers : w # v => viewer'[w] = viewer[w]
  BY DEF TelInv, TelemetryTypeOK
<1>3. \A w \in Viewers :
        /\ Recent(viewer[w])' = Recent(viewer'[w])
        /\ StillThere(viewer[w])' = StillThere(viewer'[w])
        /\ SoFar(viewer[w])' = SoFar(viewer'[w])
  BY <1>1 DEF Recent, StillThere, SoFar, Day, Today
<1>. QED  BY <1>2, <1>3 DEF SnapshotInv

(* A load that returns nothing older than the mtime it began with.         *)
LEMMA SnapLoaded ==
  ASSUME NEW q \in Requests, Recent(q) => StillThere(q) /\ SoFar(q),
         NEW t \in Times, q.mtime <= t, q.pc # "next", q.pc # "idle",
         Recent(Loaded(q, t))
  PROVE  StillThere(Loaded(q, t)) /\ SoFar(Loaded(q, t))
<1> DEFINE r == Loaded(q, t)
<1>1. q.todo # <<>>
  BY RequestFields DEF Recent
<1>2. /\ r.pc = "next" /\ r.todo = q.todo /\ r.kind = q.kind
      /\ r.answer = IF q.kind = "snapshot" THEN t ELSE 0
      /\ r.askedOn = q.askedOn /\ r.newest = q.newest
  BY <1>1, RequestFields
<1> HIDE DEF r
<1>3. Recent(q) /\ q.kind = "snapshot"
  BY <1>2 DEF Recent, r
<1>4. StillThere(r)
  BY <1>2, <1>3 DEF StillThere
<1>5. q.todo = <<Late>> /\ q.day = q.askedOn - 1 /\ (Day(q.newest) = q.day => q.newest <= q.mtime)
  BY <1>1, <1>3 DEF SoFar
<1>6. q.mtime \in Nat /\ q.newest \in Nat /\ t \in Nat
  BY RequestNumbers, TimesAreNat
<1>7. SoFar(r)
  BY <1>2, <1>3, <1>5, <1>6 DEF SoFar
<1>. QED  BY <1>4, <1>7 DEF r

(* The newest reading when a snapshot is asked for.                        *)
LEMMA SnapAsk ==
  ASSUME TelInv, NEW kind, NEW days, kind = "snapshot" => days = SnapshotDays,
         Recent(Asked(kind, days))
  PROVE  StillThere(Asked(kind, days)) /\ SoFar(Asked(kind, days))
<1> DEFINE r == Asked(kind, days)
<1> HIDE DEF Days, Times
<1>1. kind = "snapshot"
  BY RequestFields DEF Recent
<1>2. /\ r.pc = "next" /\ r.todo = <<Today - 1, Late>>
      /\ r.askedOn = Today /\ r.newest = Newest /\ clock - Newest < DayLength
  <2>1. /\ r.pc = "next" /\ r.todo = days /\ r.askedOn = Today /\ r.newest = Newest
    BY <1>1, RequestFields
  <2>. QED  BY <1>1, <2>1 DEF SnapshotDays, Recent
<1> HIDE DEF r
<1>3. DayLength <= clock /\ clock \in Nat /\ Today \in Days /\ Today # 0 /\ Today \in Nat
  BY TodayTyped, DaysAndLate DEF TelInv, CacheInv, Clocked
<1>4. PICK d \in Days : Newest = log[d]
  BY NewestFacts DEF TelInv, TelemetryTypeOK
<1>5. Newest \in Nat /\ Newest # 0
  <2>1. Newest \in Nat
    BY NewestFacts, TimesAreNat DEF TelInv, TelemetryTypeOK
  <2>. QED  BY <1>2, <1>3, <2>1, Length
<1>6. Day(Newest) = d /\ Newest <= clock
  BY <1>4, <1>5 DEF TelInv, CacheInv, Clocked
<1>7. Day(Newest) \in {Today - 1, Today}
  BY <1>2, <1>3, <1>5, <1>6, DayBefore DEF Today
<1>8. StillThere(r)
  BY <1>2, <1>3, <1>4, <1>5, <1>6, <1>7 DEF StillThere
<1>9. SoFar(r)
  BY <1>2 DEF SoFar
<1>. QED  BY <1>8, <1>9 DEF r

(* The next day that a snapshot turns to.                                  *)
LEMMA SnapTurned ==
  ASSUME TelInv, NEW v \in Viewers, viewer[v].pc = "next",
         Recent(viewer[v]) => StillThere(viewer[v]) /\ SoFar(viewer[v]), Recent(viewer[v])
  PROVE  LET q == viewer[v]
             e == Turned(v)
         IN  \/ /\ q.todo = <<q.askedOn - 1, Late>>
                /\ e.todo = <<Late>> /\ e.day = q.askedOn - 1
             \/ /\ q.todo = <<Late>> /\ e.todo = <<>> /\ e.day = Today
                /\ Day(q.newest) = q.askedOn - 1 => q.newest <= q.answer
<1> HIDE DEF Days, Times, Turned
<1>1. viewer[v] \in Requests
  BY ViewerTyped
<1>2. /\ Turned(v).day = IF Head(viewer[v].todo) = Late THEN Today ELSE Head(viewer[v].todo)
      /\ Turned(v).todo = Tail(viewer[v].todo)
  BY TurnedFacts
<1>3. CASE viewer[v].todo = <<viewer[v].askedOn - 1, Late>>
  <2>1. viewer[v].askedOn \in Days /\ viewer[v].askedOn \in Nat /\ viewer[v].askedOn - 1 # Late
    <3>1. viewer[v].askedOn \in Days /\ viewer[v].askedOn \in Nat
      BY <1>1, RequestNumbers
    <3>. QED  BY <3>1, Length DEF Days, Late
  <2>2. Head(viewer[v].todo) = viewer[v].askedOn - 1 /\ Tail(viewer[v].todo) = <<Late>>
    BY <1>3
  <2>. QED  BY <1>2, <1>3, <2>1, <2>2
<1>4. CASE /\ viewer[v].todo = <<Late>>
           /\ Day(viewer[v].newest) = viewer[v].askedOn - 1 => viewer[v].newest <= viewer[v].answer
  <2>1. Head(viewer[v].todo) = Late /\ Tail(viewer[v].todo) = <<>>
    BY <1>4
  <2>. QED  BY <1>2, <1>4, <2>1
<1>. QED  BY <1>3, <1>4 DEF SoFar

LEMMA SnapLoadLog ==
  ASSUME TelInv, SnapshotInv, NEW v \in Viewers, LoadLog(v)
  PROVE  SnapshotInv'
<1> HIDE DEF Days, Times, Requests, Turned, Statted
<1> DEFINE q == viewer[v]
           e == Turned(v)
<1>1. /\ q.pc = "next" /\ UNCHANGED logVars /\ q \in Requests /\ e \in Requests
      /\ e.kind = q.kind /\ e.askedOn = q.askedOn /\ e.newest = q.newest /\ e.answer = q.answer
      /\ log[e.day] \in Times /\ log[e.day] \in Nat /\ q.newest \in Nat /\ 0 \in Times
  <2>1. q.pc = "next" /\ e \in Requests /\ q \in Requests
    BY LoadLogIs, TurnedFacts, ViewerTyped
  <2>2. log[e.day] \in Times
    BY <2>1 DEF Requests, TelInv, TelemetryTypeOK
  <2>. QED  BY <2>1, <2>2, LoadLogIs, TurnedFacts, RequestNumbers, TimesAreNat, TimeZero
<1>2. Recent(q) => StillThere(q) /\ SoFar(q)
  BY DEF SnapshotInv
<1>3. CASE log[e.day] = 0 /\ viewer' = [viewer EXCEPT ![v] = Loaded(e, 0)]
  <2> DEFINE r == Loaded(e, 0)
  <2>1. ASSUME Recent(r) PROVE StillThere(r) /\ SoFar(r)
    <3>1. e.todo # <<>>
      BY <1>1, <2>1, RequestFields DEF Recent
    <3>2. /\ r.pc = "next" /\ r.todo = e.todo /\ r.kind = q.kind
          /\ r.answer = IF q.kind = "snapshot" THEN 0 ELSE 0
          /\ r.askedOn = q.askedOn /\ r.newest = q.newest
      BY <1>1, <3>1, RequestFields
    <3> HIDE DEF r
    <3>3. Recent(q)
      BY <1>1, <2>1, <3>2 DEF Recent
    <3>4. StillThere(q) /\ e.todo = <<Late>> /\ e.day = q.askedOn - 1
      BY <1>1, <1>2, <3>1, <3>3, SnapTurned
    <3>5. StillThere(r)
      BY <3>2, <3>4 DEF StillThere
    <3>6. Day(r.newest) = r.askedOn - 1 => r.newest <= r.answer
      BY <1>1, <1>3, <3>2, <3>4 DEF StillThere
    <3>. QED  BY <3>2, <3>4, <3>5, <3>6 DEF SoFar
  <2> HIDE DEF r
  <2>2. viewer' = [viewer EXCEPT ![v] = r]
    BY <1>3 DEF r
  <2>. QED  BY <1>1, <2>1, <2>2, SnapViewer
<1>4. CASE log[e.day] # 0 /\ viewer' = [viewer EXCEPT ![v] = Statted(v)]
  <2> DEFINE r == Statted(v)
  <2>1. ASSUME Recent(r) PROVE StillThere(r) /\ SoFar(r)
    <3>1. /\ r.pc = "check" /\ r.todo = e.todo /\ r.kind = q.kind /\ r.mtime = log[e.day]
          /\ r.answer = q.answer /\ r.askedOn = q.askedOn /\ r.newest = q.newest
          /\ r.day = e.day
      BY <1>1, StattedFacts
    <3> HIDE DEF r
    <3>2. Recent(q)
      BY <1>1, <2>1, <3>1 DEF Recent
    <3>3. StillThere(q)
      BY <1>2, <3>2
    <3>4. StillThere(r)
      BY <3>1, <3>3 DEF StillThere
    <3>5. Day(r.newest) = r.day => r.newest <= r.mtime
      BY <3>1, <3>3 DEF StillThere
    <3>6. \/ e.todo = <<Late>> /\ e.day = q.askedOn - 1
          \/ e.todo = <<>> /\ (Day(q.newest) = q.askedOn - 1 => q.newest <= q.answer)
      BY <1>1, <1>2, <3>2, SnapTurned
    <3>7. SoFar(r)
      BY <3>1, <3>5, <3>6 DEF SoFar
    <3>. QED  BY <3>4, <3>7
  <2> HIDE DEF r
  <2>2. viewer' = [viewer EXCEPT ![v] = r]
    BY <1>4 DEF r
  <2>. QED  BY <1>1, <2>1, <2>2, SnapViewer
<1>. QED  BY <1>3, <1>4, LoadLogIs

(* What a load returns is no older than the mtime it began with.           *)
LEMMA AnswersFresh ==
  ASSUME TelInv, NEW v \in Viewers, Loading(v)
  PROVE  /\ cache[viewer[v].day].mtime = viewer[v].mtime
              => viewer[v].mtime <= cache[viewer[v].day].records
         /\ viewer[v].pc = "store" => viewer[v].mtime <= viewer[v].records
<1>1. viewer[v].day \in Days
  BY ViewerTyped
<1>2. cache[viewer[v].day].mtime <= cache[viewer[v].day].records
  BY <1>1 DEF TelInv, CacheInv, EntriesRead
<1>3. viewer[v].pc = "store" => viewer[v].mtime <= viewer[v].records
  BY DEF TelInv, CacheInv, LoadsRead
<1>. QED  BY <1>2, <1>3

LEMMA SnapOthers ==
  ASSUME TelInv, SnapshotInv, NEW v \in Viewers, CheckCache(v) \/ ReadLog(v) \/ StoreLog(v)
  PROVE  SnapshotInv'
<1> HIDE DEF Days, Times, Requests
<1> DEFINE q == viewer[v]
<1>1. /\ UNCHANGED logVars /\ q \in Requests /\ q.pc \in {"check", "read", "store"} /\ Loading(v)
      /\ q.pc # "next" /\ q.pc # "idle"
  BY ViewerTyped DEF CheckCache, ReadLog, StoreLog, Loading
<1>2. Recent(q) => StillThere(q) /\ SoFar(q)
  BY DEF SnapshotInv
<1>3. ASSUME NEW t \in Times, q.mtime <= t, viewer' = [viewer EXCEPT ![v] = Loaded(q, t)]
      PROVE  SnapshotInv'
  <2>1. Recent(Loaded(q, t)) => StillThere(Loaded(q, t)) /\ SoFar(Loaded(q, t))
    BY <1>1, <1>2, <1>3, SnapLoaded
  <2>. QED  BY <1>1, <1>3, <2>1, SnapViewer
<1>4. ASSUME NEW r, viewer' = [viewer EXCEPT ![v] = r], r.pc # "next", r.pc # "idle",
             r.kind = q.kind, r.todo = q.todo, r.day = q.day, r.mtime = q.mtime,
             r.answer = q.answer, r.askedOn = q.askedOn, r.newest = q.newest
      PROVE  SnapshotInv'
  <2>1. Recent(r) => Recent(q)
    BY <1>1, <1>4 DEF Recent
  <2>2. StillThere(q) => StillThere(r)
    BY <1>4 DEF StillThere
  <2>3. SoFar(q) => SoFar(r)
    BY <1>1, <1>4 DEF SoFar
  <2>. QED  BY <1>1, <1>2, <1>4, <2>1, <2>2, <2>3, SnapViewer
<1>5. CASE CheckCache(v)
  <2>1. CASE cache[q.day].mtime = q.mtime
    BY <1>1, <1>3, <1>5, <2>1, AnswersFresh, ViewerTyped DEF CheckCache
  <2>2. CASE cache[q.day].mtime # q.mtime
    <3> DEFINE r == [q EXCEPT !.pc = "read"]
    <3>1. viewer' = [viewer EXCEPT ![v] = r]
      BY <1>5, <2>2 DEF CheckCache
    <3>2. /\ r.pc # "next" /\ r.pc # "idle"
          /\ r.kind = q.kind /\ r.todo = q.todo /\ r.day = q.day /\ r.mtime = q.mtime
          /\ r.answer = q.answer /\ r.askedOn = q.askedOn /\ r.newest = q.newest
      BY <1>1 DEF Requests
    <3> HIDE DEF r
    <3>. QED  BY <1>4, <3>1, <3>2
  <2>. QED  BY <2>1, <2>2
<1>6. CASE ReadLog(v)
  <2>1. CASE log[q.day] = 0
    <3>1. viewer' = [viewer EXCEPT ![v] = NoRequest] /\ ~Recent(NoRequest)
      BY <1>6, <2>1, RequestTypes DEF ReadLog, Recent
    <3>. QED  BY <1>1, <3>1, SnapViewer
  <2>2. CASE log[q.day] # 0
    <3> DEFINE r == [q EXCEPT !.pc = "store", !.records = log[q.day]]
    <3>1. viewer' = [viewer EXCEPT ![v] = r]
      BY <1>6, <2>2 DEF ReadLog
    <3>2. /\ r.pc # "next" /\ r.pc # "idle"
          /\ r.kind = q.kind /\ r.todo = q.todo /\ r.day = q.day /\ r.mtime = q.mtime
          /\ r.answer = q.answer /\ r.askedOn = q.askedOn /\ r.newest = q.newest
      BY <1>1 DEF Requests
    <3> HIDE DEF r
    <3>. QED  BY <1>4, <3>1, <3>2
  <2>. QED  BY <2>1, <2>2
<1>7. CASE StoreLog(v)
  BY <1>1, <1>3, <1>7, AnswersFresh, ViewerTyped DEF StoreLog
<1>. QED  BY <1>5, <1>6, <1>7

LEMMA SnapNext == TelInv /\ SnapshotInv /\ [TelemetryNext]_telemetryVars => SnapshotInv'
<1> SUFFICES ASSUME TelInv, SnapshotInv, [TelemetryNext]_telemetryVars PROVE SnapshotInv'
  OBVIOUS
<1> HIDE DEF Days, Times, Requests
<1>1. CASE UNCHANGED <<log, viewer>> /\ (clock' = clock \/ clock' = clock + 1)
  BY <1>1, SnapDaemon
<1>2. CASE LogDecoded
  <2>1. viewer' = viewer /\ clock' = clock /\ log' = [log EXCEPT ![Today] = clock] /\ log[Today] < clock
    BY <1>2 DEF LogDecoded, Changed, viewVars
  <2>2. clock \in Nat /\ Today \in Days /\ \A d \in Days : log[d] \in Nat
    BY TodayTyped, TimesAreNat DEF TelInv, CacheInv, Clocked, TelemetryTypeOK
  <2>3. \A d \in Days : log'[d] = log[d] \/ (log'[d] \in Nat /\ log[d] <= log'[d])
    BY <2>1, <2>2 DEF TelInv, TelemetryTypeOK
  <2>. QED  BY <2>1, <2>3, SnapDaemon
<1>3. ASSUME NEW d \in Days, SweepFile(d) PROVE SnapshotInv'
  <2>1. viewer' = viewer /\ clock' = clock /\ d \in sweep.todo
    BY <1>3 DEF SweepFile, viewVars
  <2>2. sweep.cutoff \in Int /\ sweep.cutoff <= clock - DayLength /\ clock \in Nat
        /\ DayLength \in Nat /\ \A e \in Days : log[e] \in Nat
    BY <2>1, TimesAreNat, Length DEF TelInv, CacheInv, Clocked, TelemetryTypeOK
  <2>3. CASE log[d] < sweep.cutoff /\ Changed(d, 0)
    <3>1. \A e \in Days : log'[e] = log[e] \/ log[e] <= clock - DayLength
      BY <2>2, <2>3 DEF Changed, TelInv, TelemetryTypeOK
    <3>. QED  BY <2>1, <3>1, SnapDaemon
  <2>4. CASE log' = log
    BY <1>1, <2>1, <2>4
  <2>. QED  BY <1>3, <2>3, <2>4 DEF SweepFile
<1>4. CASE SweepBegin \/ SweepEnd \/ Reboot \/ Tick \/ SaveWrite
           \/ (\E days \in Windows : SaveOpen(days)) \/ UNCHANGED telemetryVars
  <2>1. UNCHANGED <<log, viewer>> /\ (clock' = clock \/ clock' = clock + 1)
    BY <1>4 DEF SweepBegin, SweepEnd, Reboot, Tick, SaveWrite, SaveOpen, telemetryVars, logVars, viewVars
  <2>. QED  BY <1>1, <2>1
<1>5. ASSUME NEW v \in Viewers, NEW kind, NEW days, Ask(v, kind, days),
             kind = "snapshot" => days = SnapshotDays
      PROVE  SnapshotInv'
  <2>1. viewer' = [viewer EXCEPT ![v] = Asked(kind, days)] /\ UNCHANGED logVars
    BY <1>5 DEF Ask
  <2>2. Recent(Asked(kind, days)) => StillThere(Asked(kind, days)) /\ SoFar(Asked(kind, days))
    BY <1>5, SnapAsk
  <2>. QED  BY <2>1, <2>2, SnapViewer
<1>6. ASSUME NEW v \in Viewers, ViewerStep(v) PROVE SnapshotInv'
  BY <1>5, <1>6, SnapLoadLog, SnapOthers DEF ViewerStep
<1>. QED  BY <1>2, <1>3, <1>4, <1>6 DEF TelemetryNext, SweepStep

(* The answer to a snapshot, when the last of its logs has been loaded.    *)
LEMMA SnapAnswer ==
  ASSUME TelInv, SnapshotInv, NEW v \in Viewers, [TelemetryNext]_telemetryVars,
         Answers(v), viewer[v].kind = "snapshot",
         (IF viewer[v].pc = "next" THEN Today ELSE viewer[v].day) = viewer[v].askedOn,
         clock - viewer[v].newest < DayLength
  PROVE  \E t \in viewer'[v].got \cup {viewer[v].answer} : t >= viewer[v].newest
<1> HIDE DEF Days, Times, Requests, Turned, Statted
<1> DEFINE q == viewer[v]
<1>1. /\ q \in Requests /\ q.pc # "idle" /\ viewer'[v].pc = "idle" /\ viewer'[v].got # {}
      /\ StillThere(q) /\ SoFar(q)
      /\ q.newest \in Nat /\ q.answer \in Nat /\ q.mtime \in Nat
      /\ Recent(q)
  BY ViewerTyped, RequestNumbers DEF Answers, SnapshotInv, Recent
<1>2. Day(q.newest) = q.askedOn - 1 \/ Day(q.newest) = q.askedOn
  BY <1>1 DEF StillThere
<1>3. viewer' # viewer
  BY <1>1
<1>4. \E w \in Viewers : ViewerStep(w)
  BY <1>3 DEF TelemetryNext, LogDecoded, SweepStep, SweepBegin, SweepEnd, SweepFile, Reboot, Tick,
              SaveWrite, SaveOpen, viewVars, telemetryVars
<1>5. ViewerStep(v)
  <2>1. PICK w \in Viewers : ViewerStep(w)
    BY <1>4
  <2>2. w # v => viewer'[v] = viewer[v]
    BY <2>1 DEF ViewerStep, Ask, LoadLog, CheckCache, ReadLog, StoreLog, TelInv, TelemetryTypeOK
  <2>. QED  BY <1>1, <2>1, <2>2
<1>6. \A r : viewer' = [viewer EXCEPT ![v] = r] => viewer'[v] = r
  BY DEF TelInv, TelemetryTypeOK
<1>7. ASSUME NEW t \in Times, q.mtime <= t, q.pc # "next",
             viewer' = [viewer EXCEPT ![v] = Loaded(q, t)]
      PROVE  \E u \in viewer'[v].got \cup {q.answer} : u >= q.newest
  <2>1. viewer'[v] = Loaded(q, t) /\ t \in Nat
    BY <1>6, <1>7, TimesAreNat
  <2>2. q.todo = <<>>
    BY <1>1, <1>7, <2>1, RequestFields
  <2>3. viewer'[v].got = {t}
    BY <1>1, <1>7, <2>1, <2>2, RequestFields
  <2>4. q.day = q.askedOn /\ <<Late>> # <<>>
    BY <1>7
  <2>5. /\ Day(q.newest) = q.askedOn - 1 => q.newest <= q.answer
        /\ Day(q.newest) = q.askedOn => q.newest <= q.mtime
    BY <1>1, <1>7, <2>2, <2>4 DEF SoFar
  <2>. QED  BY <1>1, <1>2, <1>7, <2>1, <2>3, <2>5
<1>8. CASE \E kind, days : Ask(v, kind, days)
  BY <1>1, <1>8 DEF Ask
<1>9. CASE LoadLog(v)
  <2>1. q.pc = "next" /\ Turned(v) \in Requests
    BY <1>9, LoadLogIs, TurnedFacts
  <2>2. CASE viewer' = [viewer EXCEPT ![v] = Statted(v)]
    BY <1>1, <1>6, <2>1, <2>2, StattedFacts
  <2>3. CASE log[Turned(v).day] = 0 /\ viewer' = [viewer EXCEPT ![v] = Loaded(Turned(v), 0)]
    <3>1. viewer'[v] = Loaded(Turned(v), 0)
      BY <1>6, <2>3
    <3>2. Turned(v).todo = <<>>
      BY <1>1, <2>1, <3>1, TimeZero, RequestFields
    <3>3. viewer'[v].got = {0}
      BY <2>1, <3>1, <3>2, TimeZero, RequestFields
    <3>4. /\ Turned(v).day = Today
          /\ Day(q.newest) = q.askedOn - 1 => q.newest <= q.answer
      <4>1. Recent(viewer[v]) => StillThere(viewer[v]) /\ SoFar(viewer[v])
        BY <1>1
      <4>2. \/ Turned(v).todo = <<Late>>
            \/ Turned(v).day = Today /\ (Day(q.newest) = q.askedOn - 1 => q.newest <= q.answer)
        BY <1>1, <2>1, <4>1, SnapTurned
      <4>3. <<Late>> # <<>>
        OBVIOUS
      <4>. QED  BY <3>2, <4>2, <4>3
    <3>5. Day(q.newest) = q.askedOn => q.newest <= 0
      BY <1>1, <2>1, <2>3, <3>4 DEF StillThere
    <3>. QED  BY <1>1, <1>2, <3>3, <3>4, <3>5
  <2>. QED  BY <1>9, <2>2, <2>3, LoadLogIs
<1>10. CASE CheckCache(v)
  <2>1. q.pc = "check" /\ Loading(v)
    BY <1>10 DEF CheckCache, Loading
  <2>2. CASE cache[q.day].mtime = q.mtime
    BY <1>7, <1>10, <2>1, <2>2, AnswersFresh, ViewerTyped DEF CheckCache
  <2>3. CASE cache[q.day].mtime # q.mtime
    <3>1. viewer'[v] = [q EXCEPT !.pc = "read"]
      BY <1>6, <1>10, <2>3 DEF CheckCache
    <3>. QED  BY <1>1, <3>1 DEF Requests
  <2>. QED  BY <2>2, <2>3
<1>11. CASE ReadLog(v)
  <2>1. CASE log[q.day] = 0
    <3>1. viewer'[v] = NoRequest
      BY <1>6, <1>11, <2>1 DEF ReadLog
    <3>. QED  BY <1>1, <3>1, RequestTypes
  <2>2. CASE log[q.day] # 0
    <3>1. viewer'[v] = [q EXCEPT !.pc = "store", !.records = log[q.day]]
      BY <1>6, <1>11, <2>2 DEF ReadLog
    <3>. QED  BY <1>1, <3>1 DEF Requests
  <2>. QED  BY <2>1, <2>2
<1>12. CASE StoreLog(v)
  <2>1. q.pc = "store" /\ Loading(v)
    BY <1>12 DEF StoreLog, Loading
  <2>. QED  BY <1>7, <1>12, <2>1, AnswersFresh, ViewerTyped DEF StoreLog
<1>. QED  BY <1>5, <1>8, <1>9, <1>10, <1>11, <1>12 DEF ViewerStep

(* A snapshot whose two loads are of the day it was asked on and the day   *)
(* before holds every inverter's newest reading, if less than a day old,   *)
(* or a newer one, for any number of threads, saves and sweeps, and any    *)
(* length of the day.  It says nothing of a snapshot with a midnight       *)
(* between its two calls of date.today(): that one can miss the reading.   *)
THEOREM SnapshotTheorem == TelemetrySpec => SnapshotKeepsNewest
<1>1. ASSUME TelInv, SnapshotInv, [TelemetryNext]_telemetryVars
      PROVE  [\A v \in Viewers :
                LET q == viewer[v]
                    d == IF q.pc = "next" THEN Today ELSE q.day
                IN  (/\ Answers(v) /\ q.kind = "snapshot" /\ d = q.askedOn
                     /\ clock - q.newest < DayLength)
                      => \E t \in viewer'[v].got \cup {q.answer} : t >= q.newest]_telemetryVars
  BY <1>1, SnapAnswer
<1>. QED  BY TelInit, TelNext, SnapInit, SnapNext, <1>1, PTL DEF TelemetrySpec, SnapshotKeepsNewest
=============================================================================
