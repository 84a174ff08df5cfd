--------------------------- MODULE ServicesProofs ---------------------------
(***************************************************************************)
(* Proofs about Mqtt and SetPower, for any number of threads, forms,       *)
(* commands and edits, and that what holds of these two and of Telemetry   *)
(* (TelemetryProofs) when each runs alone holds when they run together.    *)
(***************************************************************************)
EXTENDS MCServices, TelemetryProofs, FiniteSetTheorems, TLAPS

USE MqttAssumption, SetPowerAssumption

Roots == {DefaultRoot} \cup {f.root : f \in Forms}
Hosts == {NoHost} \cup {f.host : f \in Forms}

(* mqtt.json is remembered under an mtime it has had; under its present    *)
(* one, what is remembered is what it holds.                               *)
Remembered ==
  /\ known.mtime <= mqttFile.mtime
  /\ (IsConfig(known.cfg) /\ known.mtime = mqttFile.mtime) => known.cfg = mqttFile.cfg
  /\ publisher.mtime <= mqttFile.mtime

(* What the two loads of a call returned is in the history of the call.    *)
CallSoFar ==
  /\ publisher.pc # "idle" => mqttFile.cfg \in heldCfg
  /\ (publisher.pc # "idle" /\ publisher.load = 2) => publisher.first \in heldCfg
  /\ publisher.pc \in {"decide", "send"} => /\ publisher.load = 2
                                            /\ publisher.second \in heldCfg
  /\ publisher.pc = "send" => publisher.second.on

(* A configuration that waits to be written holds a password that somebody *)
(* named, or will have.  Saves that do not overlap find the password that  *)
(* was named last, and write into the empty file.                          *)
Saving(s) == saver[s].pc # "idle"

PasswordsNamed ==
  /\ NoPassword \in named.all /\ named.last \in named.all
  /\ mqttFile.cfg.pw \in named.all
  /\ \A s \in Savers : Saving(s) => saver[s].cfg.pw \in named.all \cup saver[s].names

OneByOne ==
  ~overlapped =>
    /\ \A s, t \in Savers : Saving(s) /\ Saving(t) => s = t
    /\ (\A s \in Savers : ~Saving(s)) => mqttFile.cfg.pw = named.last
    /\ \A s \in Savers : (Saving(s) /\ saver[s].names = {}) => saver[s].cfg.pw = named.last
    /\ \A s \in Savers : saver[s].pc = "write" => mqttFile.cfg = Empty

MqttInv == MqttTypeOK /\ Remembered /\ CallSoFar /\ PasswordsNamed /\ OneByOne

(* What a file may hold, by its fields. *)
LEMMA ContentFields ==
  /\ \A c \in Contents : c.on \in BOOLEAN /\ c.host \in Hosts /\ c.root \in Roots /\ c.pw \in Passwords
  /\ Missing \in Contents /\ Empty \in Contents /\ Garbled \in Contents /\ Defaults \in Contents
<1>1. NoPassword \in Passwords /\ NoHost \in Hosts /\ DefaultRoot \in Roots
  BY DEF Passwords, Hosts, Roots
<1>2. \A c \in Contents :
        \/ c \in [kind : {"config"}, on : BOOLEAN, host : {f.host : f \in Forms},
                 root : {f.root : f \in Forms}, pw : Passwords]
        \/ \E k : c = NoConfig(k)
  BY DEF Contents, Configs, Missing, Empty, Garbled, Defaults
<1>3. ASSUME NEW c \in Contents
      PROVE  c.on \in BOOLEAN /\ c.host \in Hosts /\ c.root \in Roots /\ c.pw \in Passwords
  <2>1. CASE \E k : c = NoConfig(k)
    BY <1>1, <2>1 DEF NoConfig
  <2>2. CASE c \in [kind : {"config"}, on : BOOLEAN, host : {f.host : f \in Forms},
                   root : {f.root : f \in Forms}, pw : Passwords]
    BY <2>2 DEF Hosts, Roots
  <2>. QED  BY <1>2, <2>1, <2>2
<1>4. /\ Missing \in Contents /\ Empty \in Contents
      /\ Garbled \in Contents /\ Defaults \in Contents
  BY DEF Contents, Configs
<1>. QED  BY <1>3, <1>4

(* What a user may save. *)
LEMMA MergedIsContent ==
  ASSUME NEW f \in Forms, NEW c \in Contents
  PROVE  /\ Merged(f, c) \in Contents
         /\ Merged(f, c).pw = IF f.pw \in NotNamed THEN c.pw ELSE f.pw
<1>1. (IF f.pw \in NotNamed THEN c.pw ELSE f.pw) \in Passwords
  BY ContentFields DEF Passwords, NotNamed
<1>2. f.on \in BOOLEAN
  BY DEF MqttAssumption
<1> HIDE DEF Passwords
<1>. QED  BY <1>1, <1>2 DEF Merged, Contents, Configs

LEMMA MqttInitInv == MqttInit => MqttInv
<1> SUFFICES ASSUME MqttInit PROVE MqttInv
  OBVIOUS
<1>0. /\ NoPassword \in Passwords /\ 1 \in 1..2 /\ Unknown.cfg = Missing /\ Unknown.mtime = 0
      /\ Defaults.pw = NoPassword /\ NoHost \in Hosts /\ 0 \in 0..MaxSaved
  BY DEF Passwords, Unknown, Defaults, NoConfig, MqttAssumption, Hosts
<1>1. MqttTypeOK
  <2> HIDE DEF Contents, Passwords, Missing, Empty, Garbled, Defaults
  <2>1. mqttFile \in [cfg : Contents, mtime : Nat]
    BY ContentFields DEF MqttInit
  <2>2. saver \in [Savers -> [pc : {"idle", "open", "write"}, cfg : Contents, names : SUBSET Passwords]]
    BY ContentFields DEF MqttInit, NotSaving
  <2>3. publisher \in [pc : {"idle", "stat", "read", "decide", "send"}, load : 1..2,
                      mtime : Nat, first : Contents, second : Contents]
    BY <1>0, ContentFields DEF MqttInit, NotRunning
  <2>4. known \in [cfg : Contents, mtime : Nat]
    BY ContentFields DEF MqttInit, Unknown
  <2>5. named \in [last : Passwords, all : SUBSET Passwords]
    BY <1>0 DEF MqttInit
  <2>. QED  BY <1>0, <2>1, <2>2, <2>3, <2>4, <2>5 DEF MqttInit, MqttTypeOK, Hosts
<1>2. Remembered
  BY <1>0 DEF MqttInit, Remembered, NotRunning, IsConfig, Missing, NoConfig
<1>3. CallSoFar
  BY DEF MqttInit, CallSoFar, NotRunning
<1>4. PasswordsNamed /\ OneByOne
  BY <1>0 DEF MqttInit, PasswordsNamed, OneByOne, Saving, NotSaving
<1>. QED  BY <1>1, <1>2, <1>3, <1>4 DEF MqttInv

PublisherStates == [pc : {"idle", "stat", "read", "decide", "send"}, load : 1..2,
                    mtime : Nat, first : Contents, second : Contents]

LEMMA RestingTypes ==
  /\ NotRunning \in PublisherStates /\ NotRunning.pc = "idle" /\ NotRunning.mtime = 0
  /\ NotSaving \in [pc : {"idle", "open", "write"}, cfg : Contents, names : SUBSET Passwords]
  /\ NotSaving.pc = "idle"
  /\ Unknown \in [cfg : Contents, mtime : Nat] /\ Unknown.mtime = 0 /\ ~IsConfig(Unknown.cfg)
<1> HIDE DEF Contents, Missing
<1>1. Missing.kind # "config"
  BY DEF Missing, NoConfig
<1>2. 1 \in 1..2
  OBVIOUS
<1>. QED  BY <1>1, <1>2, ContentFields DEF NotRunning, NotSaving, Unknown, PublisherStates, IsConfig

(* A save of one thread: all but the file it writes to. *)
LEMMA SaverStep ==
  ASSUME MqttInv, NEW s \in Savers,
         (\E f \in Forms : SaveBegin(s, f)) \/ SaveTruncate(s) \/ SaveFinish(s)
  PROVE  MqttInv'
<1> HIDE DEF Contents, Passwords, Empty, Garbled, Roots, Hosts
<1> USE DEF saveVars, publishVars
<1>1. ASSUME NEW f \in Forms, SaveBegin(s, f) PROVE MqttInv'
  <2> DEFINE m == Merged(f, mqttFile.cfg)
  <2>1. /\ mqttFile.cfg \in Contents /\ m \in Contents
        /\ m.pw = IF f.pw \in NotNamed THEN mqttFile.cfg.pw ELSE f.pw
    BY MergedIsContent DEF MqttInv, MqttTypeOK
  <2> HIDE DEF m
  <2>2. /\ saver' = [saver EXCEPT ![s] = [pc |-> "open", cfg |-> m, names |-> {f.pw} \ NotNamed]]
        /\ saver[s] = NotSaving /\ ~Saving(s)
    BY <1>1, RestingTypes DEF SaveBegin, m, Saving
  <2>3. saver' \in [Savers -> [pc : {"idle", "open", "write"}, cfg : Contents, names : SUBSET Passwords]]
    <3>1. {f.pw} \ NotNamed \in SUBSET Passwords
      BY DEF Passwords, NotNamed
    <3>. QED  BY <2>1, <2>2, <3>1 DEF MqttInv, MqttTypeOK
  <2>4. MqttTypeOK'
    <3>1. saves + 1 \in 0..MaxSaved /\ saves' = saves + 1
      BY <1>1 DEF SaveBegin, MqttInv, MqttTypeOK, MqttAssumption
    <3>2. overlapped' \in BOOLEAN
      BY <1>1, Zenon DEF SaveBegin
    <3>. QED  BY <1>1, <2>3, <3>1, <3>2 DEF SaveBegin, MqttInv, MqttTypeOK
  <2>5. Remembered' /\ CallSoFar'
    BY <1>1 DEF SaveBegin, MqttInv, Remembered, CallSoFar
  <2>6. /\ saver'[s] = [pc |-> "open", cfg |-> m, names |-> {f.pw} \ NotNamed]
        /\ \A t \in Savers : t # s => saver'[t] = saver[t]
    BY <2>2 DEF MqttInv, MqttTypeOK
  <2>10. saver'[s].cfg = m /\ saver'[s].pc = "open"
    BY <2>6
  <2>11. saver'[s].names = {f.pw} \ NotNamed
    BY <2>6
  <2>12. /\ saver'[s].names = {} => m.pw = mqttFile.cfg.pw
         /\ m.pw \in {mqttFile.cfg.pw} \cup saver'[s].names
    BY <2>1, <2>11
  <2>7. PasswordsNamed'
    BY <1>1, <2>6, <2>10, <2>12 DEF SaveBegin, MqttInv, PasswordsNamed, Saving
  <2>8. ~overlapped' => ~overlapped /\ \A t \in Savers : ~Saving(t)
    <3>1. ~overlapped' => ~overlapped /\ \A t \in Savers \ {s} : saver[t] = NotSaving
      BY <1>1, Zenon DEF SaveBegin
    <3>. QED  BY <3>1, <2>2, RestingTypes DEF Saving
  <2>9. OneByOne'
    <3>1. ~overlapped' => mqttFile.cfg.pw = named.last
      BY <2>8 DEF MqttInv, OneByOne
    <3>2. UNCHANGED <<mqttFile, named>>
      BY <1>1 DEF SaveBegin
    <3>. QED  BY <2>6, <2>8, <2>10, <2>12, <3>1, <3>2 DEF OneByOne, Saving
  <2>. QED  BY <2>4, <2>5, <2>7, <2>9 DEF MqttInv
<1>2. ASSUME NEW c \in Contents, FileBecomes(c), UNCHANGED <<publisher, known>>
      PROVE  /\ mqttFile' \in [cfg : Contents, mtime : Nat] /\ mqttFile'.cfg = c
             /\ heldCfg' \subseteq Contents /\ Remembered' /\ CallSoFar'
  <2>1. /\ mqttFile' = [cfg |-> c, mtime |-> mqttFile.mtime + 1]
        /\ mqttFile.mtime \in Nat /\ mqttFile.mtime + 1 \in Nat
        /\ known.mtime \in Nat /\ publisher.mtime \in Nat
    BY <1>2 DEF FileBecomes, MqttInv, MqttTypeOK
  <2>2. Remembered'
    BY <1>2, <2>1 DEF MqttInv, Remembered
  <2>3. heldCfg' = IF publisher.pc = "idle" THEN {} ELSE heldCfg \cup {c}
    BY <1>2 DEF FileBecomes
  <2>4. CallSoFar'
    BY <1>2, <2>1, <2>3 DEF MqttInv, CallSoFar
  <2>. QED  BY <2>1, <2>2, <2>3, <2>4 DEF MqttInv, MqttTypeOK
<1>3. CASE SaveTruncate(s)
  <2>1. /\ saver' = [saver EXCEPT ![s].pc = "write"] /\ saver[s].pc = "open"
        /\ FileBecomes(Empty) /\ UNCHANGED <<saves, named, overlapped, publishVars>>
    BY <1>3 DEF SaveTruncate
  <2>2. saver' \in [Savers -> [pc : {"idle", "open", "write"}, cfg : Contents, names : SUBSET Passwords]]
    BY <2>1 DEF MqttInv, MqttTypeOK
  <2>3. \A t \in Savers : /\ saver'[t].cfg = saver[t].cfg /\ saver'[t].names = saver[t].names
                          /\ (saver'[t].pc # "idle") <=> (saver[t].pc # "idle")
                          /\ t # s => saver'[t] = saver[t]
    BY <2>1 DEF MqttInv, MqttTypeOK
  <2>4. /\ mqttFile' \in [cfg : Contents, mtime : Nat] /\ mqttFile'.cfg = Empty
        /\ heldCfg' \subseteq Contents /\ Remembered' /\ CallSoFar'
    BY <1>2, <2>1, ContentFields
  <2>5. MqttTypeOK'
    BY <2>1, <2>2, <2>4 DEF MqttInv, MqttTypeOK
  <2>6. Empty.pw = NoPassword
    BY DEF Empty, NoConfig
  <2>7. PasswordsNamed'
    BY <2>1, <2>3, <2>4, <2>6 DEF MqttInv, PasswordsNamed, Saving
  <2>8. OneByOne'
    BY <2>1, <2>3, <2>4 DEF MqttInv, OneByOne, Saving
  <2>. QED  BY <2>4, <2>5, <2>7, <2>8 DEF MqttInv
<1>4. CASE SaveFinish(s)
  <2>1. /\ saver' = [saver EXCEPT ![s] = NotSaving] /\ saver[s].pc = "write"
        /\ UNCHANGED <<saves, overlapped, publishVars>>
        /\ named' = IF saver[s].names = {} THEN named
                      ELSE [last |-> saver[s].cfg.pw, all |-> named.all \cup saver[s].names]
    BY <1>4 DEF SaveFinish
  <2>2. saver' \in [Savers -> [pc : {"idle", "open", "write"}, cfg : Contents, names : SUBSET Passwords]]
    BY <2>1, RestingTypes DEF MqttInv, MqttTypeOK
  <2>3. /\ saver[s].cfg \in Contents /\ saver[s].cfg.pw \in Passwords /\ Saving(s)
        /\ \A t \in Savers : t # s => saver'[t] = saver[t]
        /\ saver'[s].pc = "idle"
    BY <2>1, ContentFields, RestingTypes DEF MqttInv, MqttTypeOK, Saving
  <2>4. \E c \in {saver[s].cfg, Garbled} : FileBecomes(c) /\ (c # saver[s].cfg => mqttFile.cfg # Empty)
    BY <1>4 DEF SaveFinish
  <2>5. PICK c \in {saver[s].cfg, Garbled} :
           FileBecomes(c) /\ (c # saver[s].cfg => mqttFile.cfg # Empty)
    BY <2>4
  <2>6. /\ mqttFile' \in [cfg : Contents, mtime : Nat] /\ mqttFile'.cfg = c
        /\ heldCfg' \subseteq Contents /\ Remembered' /\ CallSoFar'
    BY <1>2, <2>1, <2>3, <2>5, ContentFields
  <2>7. /\ named.last \in Passwords /\ named.all \in SUBSET Passwords
        /\ named' \in [last : Passwords, all : SUBSET Passwords]
    BY <2>1, <2>3 DEF MqttInv, MqttTypeOK
  <2>8. MqttTypeOK'
    BY <2>1, <2>2, <2>6, <2>7 DEF MqttInv, MqttTypeOK
  <2>9. /\ saver[s].names # {} => named'.last = saver[s].cfg.pw
        /\ saver[s].names # {} => named'.all = named.all \cup saver[s].names
        /\ saver[s].names = {} => named' = named
    BY <2>1
  <2>10. Garbled.pw = NoPassword
    BY DEF Garbled, NoConfig
  <2>11. PasswordsNamed'
    <3>1. saver[s].cfg.pw \in named'.all /\ named.all \subseteq named'.all
      BY <2>3, <2>9 DEF MqttInv, PasswordsNamed
    <3>2. named'.last \in named'.all
      BY <2>9, <3>1 DEF MqttInv, PasswordsNamed
    <3>. QED  BY <2>3, <2>5, <2>6, <2>10, <3>1, <3>2 DEF MqttInv, PasswordsNamed, Saving
  <2>12. OneByOne'
    <3>1. ~overlapped => \A t \in Savers : t # s => ~Saving(t)
      BY <2>3 DEF MqttInv, OneByOne
    <3>2. ~overlapped => c = saver[s].cfg
      BY <2>1, <2>5 DEF MqttInv, OneByOne
    <3>3. ~overlapped => saver[s].cfg.pw = named'.last
      BY <2>3, <2>9 DEF MqttInv, OneByOne
    <3>. QED  BY <2>1, <2>3, <2>6, <3>1, <3>2, <3>3 DEF OneByOne, Saving
  <2>. QED  BY <2>6, <2>8, <2>11, <2>12 DEF MqttInv
<1>. QED  BY <1>1, <1>3, <1>4

(* The daemon's steps: they leave the file and the savers alone. *)
LEMMA PublisherStep ==
  ASSUME MqttInv,
         \/ PublishBegin \/ StatConfig \/ ReadConfig
         \/ Disconnect \/ Connect \/ KeepClient \/ Publish
         \/ RestartPublisher
  PROVE  MqttInv'
<1> HIDE DEF Contents, Passwords, Roots, Hosts, NotRunning
<1> USE DEF saveVars, publishVars
<1>1. UNCHANGED <<mqttFile, saveVars>>
  BY DEF PublishBegin, StatConfig, ReadConfig, Disconnect, Connect, KeepClient, Publish,
         RestartPublisher
<1>2. /\ PasswordsNamed' /\ OneByOne'
  BY <1>1 DEF MqttInv, PasswordsNamed, OneByOne, Saving
<1>3. /\ mqttFile.cfg \in Contents /\ mqttFile.mtime \in Nat
      /\ publisher \in PublisherStates /\ heldCfg \subseteq Contents
      /\ known.cfg \in Contents /\ known.mtime \in Nat
  BY DEF MqttInv, MqttTypeOK, PublisherStates
<1>4. /\ NotRunning \in PublisherStates /\ NotRunning.pc = "idle" /\ NotRunning.mtime = 0
      /\ Unknown \in [cfg : Contents, mtime : Nat] /\ Unknown.mtime = 0
      /\ ~IsConfig(Unknown.cfg)
  BY RestingTypes
(* The call ends, or the daemon restarts. *)
<1>5. ASSUME publisher' = NotRunning, known' \in {known, Unknown},
             client' \in Hosts, discovered' \subseteq Roots,
             heldCfg' = {}
      PROVE  MqttInv'
  <2>1. MqttTypeOK'
    BY <1>1, <1>3, <1>4, <1>5 DEF MqttInv, MqttTypeOK, PublisherStates, Roots, Hosts
  <2>2. Remembered' /\ CallSoFar'
    BY <1>1, <1>3, <1>4, <1>5 DEF MqttInv, Remembered, CallSoFar
  <2>. QED  BY <1>2, <2>1, <2>2 DEF MqttInv
(* The call goes on. *)
<1>6. ASSUME publisher.pc # "idle", publisher' \in PublisherStates, UNCHANGED heldCfg,
             publisher'.mtime <= mqttFile.mtime,
             known' \in [cfg : Contents, mtime : Nat], known'.mtime <= mqttFile.mtime,
             (IsConfig(known'.cfg) /\ known'.mtime = mqttFile.mtime) => known'.cfg = mqttFile.cfg,
             client' \in Hosts, UNCHANGED discovered,
             publisher'.load = 2 => publisher'.first \in heldCfg,
             publisher'.pc \in {"decide", "send"} => /\ publisher'.load = 2
                                                    /\ publisher'.second \in heldCfg,
             publisher'.pc = "send" => publisher'.second.on
      PROVE  MqttInv'
  <2>1. MqttTypeOK'
    BY <1>1, <1>3, <1>6 DEF MqttInv, MqttTypeOK, PublisherStates, Roots, Hosts
  <2>2. Remembered' /\ CallSoFar'
    BY <1>1, <1>3, <1>6 DEF MqttInv, Remembered, CallSoFar
  <2>. QED  BY <1>2, <2>1, <2>2 DEF MqttInv
<1>7. /\ client \in Hosts /\ discovered \subseteq Roots
      /\ known \in [cfg : Contents, mtime : Nat]
  BY DEF MqttInv, MqttTypeOK, Hosts, Roots
(* A load returns something the file held during the call. *)
<1>8. ASSUME NEW c \in heldCfg, Return(c), publisher.pc \in {"stat", "read"}
      PROVE  /\ publisher' \in PublisherStates /\ publisher'.mtime = 0
             /\ publisher'.load = 2 /\ publisher'.first \in heldCfg
             /\ publisher'.pc \in {"stat", "decide"}
             /\ publisher'.pc = "decide" => publisher'.second \in heldCfg
  <2>1. c \in Contents /\ publisher.load \in 1..2 /\ 0 \in Nat /\ 2 \in 1..2
    BY <1>3 DEF PublisherStates
  <2>2. CASE publisher.load = 1
    <3>1. publisher' = [publisher EXCEPT !.pc = "stat", !.load = 2, !.first = c, !.mtime = 0]
      BY <1>8, <2>2 DEF Return
    <3>2. publisher' \in PublisherStates
      BY <1>3, <2>1, <3>1, ZenonT(30) DEF PublisherStates
    <3>3. publisher'.mtime = 0 /\ publisher'.load = 2 /\ publisher'.first = c
      BY <1>3, <3>1 DEF PublisherStates
    <3>4. publisher'.pc = "stat"
      BY <1>3, <3>1 DEF PublisherStates
    <3>. QED  BY <3>2, <3>3, <3>4
  <2>3. CASE publisher.load = 2
    <3>1. publisher.first \in heldCfg
      BY <1>8, <2>3 DEF MqttInv, CallSoFar
    <3>2. publisher' = [publisher EXCEPT !.pc = "decide", !.second = c, !.mtime = 0]
      BY <1>8, <2>3 DEF Return
    <3>3. publisher' \in PublisherStates
      BY <1>3, <2>1, <3>2, ZenonT(30) DEF PublisherStates
    <3>4. publisher'.load = publisher.load /\ publisher'.first = publisher.first
      BY <1>3, <3>2 DEF PublisherStates
    <3>5. publisher'.mtime = 0 /\ publisher'.pc = "decide" /\ publisher'.second = c
      BY <1>3, <3>2 DEF PublisherStates
    <3>. QED  BY <2>3, <3>1, <3>3, <3>4, <3>5
  <2>. QED  BY <2>1, <2>2, <2>3
<1>10. CASE PublishBegin
  <2>1. /\ publisher' = [NotRunning EXCEPT !.pc = "stat"] /\ heldCfg' = {mqttFile.cfg}
        /\ UNCHANGED <<known, client, discovered>>
    BY <1>10 DEF PublishBegin
  <2>2. /\ publisher' \in PublisherStates /\ publisher'.mtime = 0 /\ publisher'.pc = "stat"
        /\ publisher'.load = 1
    <3>1. NotRunning.load = 1
      BY DEF NotRunning
    <3>. QED  BY <1>4, <2>1, <3>1 DEF PublisherStates
  <2>3. MqttTypeOK'
    BY <1>1, <1>3, <2>1, <2>2 DEF MqttInv, MqttTypeOK, PublisherStates
  <2>4. Remembered' /\ CallSoFar'
    BY <1>1, <1>3, <2>1, <2>2 DEF MqttInv, Remembered, CallSoFar
  <2>. QED  BY <1>2, <2>3, <2>4 DEF MqttInv
<1>11. CASE StatConfig
  <2>1. /\ publisher.pc = "stat" /\ mqttFile.cfg \in heldCfg
        /\ UNCHANGED <<known, client, discovered, heldCfg>>
    BY <1>11 DEF StatConfig, MqttInv, CallSoFar
  <2>2. \/ \E c \in heldCfg : Return(c)
        \/ publisher' = [publisher EXCEPT !.pc = "read", !.mtime = mqttFile.mtime]
    BY <1>11, <2>1 DEF StatConfig, Unchanged, MqttInv, Remembered
  <2>3. CASE \E c \in heldCfg : Return(c)
    <3>1. PICK c \in heldCfg : Return(c)
      BY <2>3
    <3>. QED  BY <1>3, <1>6, <1>7, <1>8, <2>1, <3>1 DEF MqttInv, Remembered
  <2>4. CASE publisher' = [publisher EXCEPT !.pc = "read", !.mtime = mqttFile.mtime]
    <3>1. publisher' \in PublisherStates
      BY <1>3, <2>4, ZenonT(30) DEF PublisherStates
    <3>2. publisher'.mtime = mqttFile.mtime /\ publisher'.pc = "read"
      BY <1>3, <2>4 DEF PublisherStates
    <3>3. publisher'.load = publisher.load /\ publisher'.first = publisher.first
      BY <1>3, <2>4 DEF PublisherStates
    <3>. QED  BY <1>3, <1>6, <1>7, <2>1, <3>1, <3>2, <3>3 DEF MqttInv, Remembered, CallSoFar
  <2>. QED  BY <2>2, <2>3, <2>4
<1>12. CASE ReadConfig
  <2>1. /\ publisher.pc = "read" /\ mqttFile.cfg \in heldCfg /\ Return(mqttFile.cfg)
        /\ UNCHANGED <<client, discovered, heldCfg>>
    BY <1>12 DEF ReadConfig, MqttInv, CallSoFar
  <2>2. \/ known' = known
        \/ known' = [cfg |-> mqttFile.cfg, mtime |-> publisher.mtime]
    BY <1>12 DEF ReadConfig
  <2>3. publisher.mtime \in Nat /\ publisher.mtime <= mqttFile.mtime
    BY <1>3 DEF PublisherStates, MqttInv, Remembered
  <2>4. /\ known' \in [cfg : Contents, mtime : Nat] /\ known'.mtime <= mqttFile.mtime
        /\ (IsConfig(known'.cfg) /\ known'.mtime = mqttFile.mtime) => known'.cfg = mqttFile.cfg
    BY <1>3, <1>7, <2>2, <2>3 DEF MqttInv, Remembered
  <2>. QED  BY <1>3, <1>6, <1>7, <1>8, <2>1, <2>4
<1>13. CASE Disconnect
  BY <1>5, <1>7, <1>13 DEF Disconnect, Hosts
<1>14. CASE Connect
  <2>1. /\ publisher.pc = "decide" /\ publisher.second.on /\ publisher.load = 2
        /\ publisher.second \in heldCfg /\ publisher.first \in heldCfg
        /\ UNCHANGED <<known, discovered>> /\ NoHost \in Hosts /\ client = NoHost
    BY <1>14 DEF Connect, MqttInv, CallSoFar, Hosts
  <2>2. publisher.second.host \in Hosts
    BY <1>3, <2>1, ContentFields
  <2>3. CASE publisher' = NotRunning /\ heldCfg' = {} /\ UNCHANGED client
    BY <1>5, <1>7, <2>1, <2>3
  <2>4. CASE /\ client' = publisher.second.host /\ UNCHANGED heldCfg
             /\ publisher' = [publisher EXCEPT !.pc = "send"]
    <3>1. /\ publisher' \in PublisherStates /\ publisher'.mtime = publisher.mtime
          /\ publisher'.pc = "send" /\ publisher'.load = publisher.load
          /\ publisher'.first = publisher.first /\ publisher'.second = publisher.second
      BY <1>3, <2>4 DEF PublisherStates
    <3>. QED  BY <1>3, <1>6, <1>7, <2>1, <2>2, <2>4, <3>1 DEF MqttInv, Remembered
  <2>. QED  BY <1>14, <2>3, <2>4 DEF Connect
<1>15. CASE KeepClient
  <2>1. /\ publisher.pc = "decide" /\ publisher.second.on /\ publisher.load = 2
        /\ publisher.second \in heldCfg /\ publisher.first \in heldCfg
        /\ publisher' = [publisher EXCEPT !.pc = "send"]
        /\ UNCHANGED <<known, client, discovered, heldCfg>>
    BY <1>15 DEF KeepClient, MqttInv, CallSoFar
  <2>2. /\ publisher' \in PublisherStates /\ publisher'.mtime = publisher.mtime
        /\ publisher'.pc = "send" /\ publisher'.load = publisher.load
        /\ publisher'.first = publisher.first /\ publisher'.second = publisher.second
    BY <1>3, <2>1 DEF PublisherStates
  <2>. QED  BY <1>3, <1>6, <1>7, <2>1, <2>2 DEF MqttInv, Remembered
<1>16. CASE Publish
  <2>1. publisher.first \in Contents
    BY <1>3 DEF PublisherStates
  <2>2. publisher.first.root \in Roots
    BY <2>1, ContentFields
  <2>3. discovered' \subseteq Roots
    BY <1>7, <1>16, <2>2 DEF Publish
  <2>. QED  BY <1>5, <1>7, <1>16, <2>3 DEF Publish
<1>17. CASE RestartPublisher
  BY <1>5, <1>7, <1>17 DEF RestartPublisher, Hosts
<1>. QED  BY <1>10, <1>11, <1>12, <1>13, <1>14, <1>15, <1>16, <1>17

LEMMA MqttNextInv == MqttInv /\ [MqttNext]_mqttVars => MqttInv'
<1> SUFFICES ASSUME MqttInv, [MqttNext]_mqttVars PROVE MqttInv'
  OBVIOUS
<1>1. CASE UNCHANGED mqttVars
  BY <1>1 DEF mqttVars, saveVars, publishVars, MqttInv, MqttTypeOK, Remembered, CallSoFar,
              PasswordsNamed, OneByOne, Saving
<1>2. CASE MqttNext
  BY <1>2, SaverStep, PublisherStep DEF MqttNext
<1>. QED  BY <1>1, <1>2

LEMMA MqttInvariant == MqttSpec => []MqttInv
  BY MqttInitInv, MqttNextInv, PTL DEF MqttSpec

LEMMA MqttInvImplies == MqttInv => PublishesAsConfigured /\ PasswordKept
<1> SUFFICES ASSUME MqttInv PROVE PublishesAsConfigured /\ PasswordKept
  OBVIOUS
<1>1. PublishesAsConfigured
  BY DEF MqttInv, CallSoFar, PublishesAsConfigured
<1>2. PasswordKept
  BY RestingTypes DEF MqttInv, PasswordsNamed, OneByOne, Saving, PasswordKept
<1>. QED  BY <1>1, <1>2

-----------------------------------------------------------------------------
(* A command that the form checked is in range. *)
Checked == command.checked => InRange(command.family, command.watts)

(* From the calibration on, the watts to send come of one offset that held *)
(* since the command was taken ...                                         *)
Working == stage \in {"throttle", "nonsense", "query"}

OneOffset ==
  /\ stage \in {"queued", "calib"} => sent = {} /\ ~result.ok
  /\ stage = "calib" => calib \in heldCalib
  /\ (Working \/ sent # {} \/ result.ok) =>
       \E c \in heldCalib : effective = Effective(command.watts, c)

(* ... and every channel that is not still to be served was sent them.     *)
AllChannels == IF command.family = "DS3" THEN {1, 2} ELSE {1}

Frames(chs) == {[channel |-> ch, value |-> Value(command.family, effective)] : ch \in chs}

ChannelsServed ==
  /\ channels \subseteq AllChannels
  /\ sent \subseteq Frames(AllChannels)
  /\ stage = "throttle" => channels # {}
  /\ Working => sent = Frames(AllChannels \ channels)
  /\ stage \in {"nonsense", "query"} => channels = {}
  /\ result.ok => stage = "done" /\ sent = Frames(AllChannels)
  /\ result.accepted => result.ok
  /\ (result.accepted /\ result.own) =>
       Distance(Watts(command.family, programmed), effective) <= 10

SetPowerInv == SetPowerTypeOK /\ Checked /\ OneOffset /\ ChannelsServed

-----------------------------------------------------------------------------
(* Arithmetic of the command. *)

LEMMA MaxOfTwo ==
  ASSUME NEW a \in Int, NEW b \in Int
  PROVE  Max({a, b}) = IF a < b THEN b ELSE a
<1>1. \A m \in {a, b} : (\A y \in {a, b} : m >= y) => m = IF a < b THEN b ELSE a
  OBVIOUS
<1>2. \E m \in {a, b} : \A y \in {a, b} : m >= y
  <2>1. CASE a < b
    <3>1. b \in {a, b} /\ \A y \in {a, b} : b >= y
      BY <2>1
    <3>. QED  BY <3>1
  <2>2. CASE ~(a < b)
    <3>1. a \in {a, b} /\ \A y \in {a, b} : a >= y
      BY <2>2
    <3>. QED  BY <3>1
  <2>. QED  BY <2>1, <2>2
<1>. QED  BY <1>1, <1>2 DEF Max

(* The channels are served in order. *)
LEMMA MinChannel ==
  ASSUME NEW S \in SUBSET {1, 2}, S # {}
  PROVE  Min(S) \in S
<1>1. \E m \in S : \A y \in S : m <= y
  <2>1. CASE 1 \in S
    BY <2>1
  <2>2. CASE 1 \notin S
    <3>1. 2 \in S
      BY <2>2, Zenon
    <3>2. \A y \in S : y = 2
      BY <2>2
    <3>. QED  BY <3>1, <3>2
  <2>. QED  BY <2>1, <2>2
<1>. QED  BY <1>1 DEF Min

LEMMA LastWord == Word - 1 = 65535
  BY DEF Word

(* A value always fits the two bytes of the frame. *)
LEMMA ValueFits ==
  ASSUME NEW f \in Families, NEW w \in Int
  PROVE  Value(f, w) \in 0..(Word - 1)
<1>1. ASSUME NEW n \in Int
      PROVE  n % 65536 \in Int /\ 0 <= n % 65536 /\ n % 65536 <= 65535
  OBVIOUS
<1>2. (w * Factor(f)) \div 100 \in Int
  <2>1. CASE f = "DS3"
    BY <2>1 DEF Factor
  <2>2. CASE f # "DS3"
    BY <2>2 DEF Factor
  <2>. QED  BY <2>1, <2>2
<1> DEFINE n == (w * Factor(f)) \div 100
<1>3. ASSUME NEW v \in Int, 0 <= v, v <= 65535 PROVE v \in 0..(Word - 1)
  BY <1>3, LastWord
<1>4. Value(f, w) = n % 65536
  BY DEF Value, Word
<1> HIDE DEF n
<1>5. n % 65536 \in Int /\ 0 <= n % 65536 /\ n % 65536 <= 65535
  BY <1>1, <1>2 DEF n
<1>. QED  BY <1>3, <1>4, <1>5

(* Within the range that a checked command and the largest offset leave,   *)
(* the value is not cut, and stands for the watts or for one less.         *)
LEMMA WithinAWatt ==
  ASSUME NEW f, NEW w \in Int, 10 <= w, w <= 1100
  PROVE  Watts(f, Value(f, w)) = w \/ Watts(f, Value(f, w)) = w - 1
<1>0. w \in Int /\ 10 <= w /\ w <= 1100
  OBVIOUS
<1>1. CASE f = "DS3"
  <2>1. PICK q \in Int : q = (w * 1659) \div 100
    OBVIOUS
  <2>2. 100 * q <= w * 1659 /\ w * 1659 < 100 * q + 100
    BY <2>1
  <2>3. 0 <= q /\ q <= 65535
    BY <1>0, <2>2
  <2>4. q % 65536 = q
    BY <2>1, <2>3
  <2>5. PICK v \in Int : v = (q * 100) \div 1659
    BY <2>1
  <2>6. 1659 * v <= q * 100 /\ q * 100 < 1659 * v + 1659
    BY <2>5
  <2>7. v = w \/ v = w - 1
    BY <1>0, <2>2, <2>6
  <2>8. Watts(f, Value(f, w)) = v
    BY <1>1, <2>1, <2>4, <2>5 DEF Watts, Value, Factor, Word
  <2>. QED  BY <2>7, <2>8
<1>2. CASE f # "DS3"
  <2>1. PICK q \in Int : q = (w * 2889) \div 100
    OBVIOUS
  <2>2. 100 * q <= w * 2889 /\ w * 2889 < 100 * q + 100
    BY <2>1
  <2>3. 0 <= q /\ q <= 65535
    BY <1>0, <2>2
  <2>4. q % 65536 = q
    BY <2>1, <2>3
  <2>5. PICK v \in Int : v = (q * 100) \div 2889
    BY <2>1
  <2>6. 2889 * v <= q * 100 /\ q * 100 < 2889 * v + 2889
    BY <2>5
  <2>7. v = w \/ v = w - 1
    BY <1>0, <2>2, <2>6
  <2>8. Watts(f, Value(f, w)) = v
    BY <1>2, <2>1, <2>4, <2>5 DEF Watts, Value, Factor, Word
  <2>. QED  BY <2>7, <2>8
<1>. QED  BY <1>1, <1>2

(* An offset, and the watts that it makes of those asked for. *)
LEMMA OffsetShown ==
  ASSUME NEW w \in Nat, NEW c \in Offsets \cup {0, Unreadable}
  PROVE  /\ Offset(c) \in Int /\ -300 <= Offset(c) /\ Offset(c) <= 300
         /\ Effective(w, c) = IF 10 < w + Offset(c) THEN w + Offset(c) ELSE 10
<1>1. Offset(c) \in Int /\ -300 <= Offset(c) /\ Offset(c) <= 300
  <2>1. CASE c \in Offsets
    <3>1. c \in -300..300
      BY <2>1 DEF SetPowerAssumption
    <3>. QED  BY <3>1 DEF Offset
  <2>2. CASE c \in {0, Unreadable}
    BY <2>2 DEF Offset
  <2>. QED  BY <2>1, <2>2
<1>2. w + Offset(c) \in Int /\ 10 \in Int
  BY <1>1
<1>. QED  BY <1>1, <1>2, MaxOfTwo DEF Effective

(* A checked command with any offset stays within that range. *)
LEMMA EffectiveInRange ==
  ASSUME NEW w \in Nat, NEW c \in Offsets \cup {0, Unreadable}
  PROVE  /\ Effective(w, c) \in Int
         /\ 10 <= Effective(w, c)
         /\ w <= 800 => Effective(w, c) <= 1100
<1>1. /\ Offset(c) \in Int /\ -300 <= Offset(c) /\ Offset(c) <= 300
      /\ Effective(w, c) = IF 10 < w + Offset(c) THEN w + Offset(c) ELSE 10
  BY OffsetShown
<1>. QED  BY <1>1

-----------------------------------------------------------------------------
(* The command. *)

LEMMA SetPowerInitInv == SetPowerInit => SetPowerInv
<1> SUFFICES ASSUME SetPowerInit PROVE SetPowerInv
  OBVIOUS
<1>1. /\ command \in [family : Families, watts : Requested, checked : BOOLEAN]
      /\ Checked /\ command.family \in Families
  BY DEF SetPowerInit, Checked
<1>2. Ceiling[command.family] \in Int
  BY <1>1 DEF Families, Ceiling
<1>3. programmed \in 0..(Word - 1)
  BY <1>1, <1>2, ValueFits DEF SetPowerInit
<1>4. SetPowerTypeOK
  BY <1>1, <1>3 DEF SetPowerInit, SetPowerTypeOK, NoResult, SetPowerAssumption
<1>5. OneOffset /\ ChannelsServed
  BY DEF SetPowerInit, OneOffset, ChannelsServed, Working, NoResult
<1>. QED  BY <1>1, <1>4, <1>5 DEF SetPowerInv

(* The frames of one value: one for each channel. *)
LEMMA FrameSets ==
  /\ \A ch : Frames({ch}) = {[channel |-> ch, value |-> Value(command.family, effective)]}
  /\ Frames({}) = {}
  /\ \A S, T : S \subseteq T => Frames(S) \subseteq Frames(T)
  /\ \A S, T : Frames(S \cup T) = Frames(S) \cup Frames(T)
  BY DEF Frames

LEMMA SetPowerNextInv == SetPowerInv /\ [SetPowerNext]_setPowerVars => SetPowerInv'
<1> SUFFICES ASSUME SetPowerInv, [SetPowerNext]_setPowerVars PROVE SetPowerInv'
  OBVIOUS
<1> USE DEF SetPowerInv
<1> HIDE DEF Word, Families
<1>0. /\ command.family \in Families /\ command.watts \in Nat /\ effective \in Int
      /\ Checked
  BY DEF SetPowerTypeOK, SetPowerAssumption
<1>1. ASSUME UNCHANGED <<command, stage, effective, channels, sent, pending, programmed, result>>,
             calib' \in Offsets \cup {0, Unreadable}, edits' \in 0..MaxEdits,
             CalibBecomes(calib')
      PROVE  SetPowerInv'
  <2>1. /\ heldCalib \subseteq heldCalib' /\ heldCalib' \subseteq Offsets \cup {0, Unreadable}
        /\ stage = "calib" => calib' \in heldCalib'
    BY <1>1 DEF CalibBecomes, SetPowerTypeOK
  <2>2. SetPowerTypeOK'
    BY <1>1, <2>1 DEF SetPowerTypeOK
  <2>3. OneOffset'
    BY <1>1, <2>1 DEF OneOffset, Working
  <2>4. Checked' /\ ChannelsServed'
    BY <1>1 DEF Checked, ChannelsServed, Working, AllChannels, Frames
  <2>. QED  BY <2>2, <2>3, <2>4
<1>2. CASE EditOpen
  <2>1. edits' \in 0..MaxEdits
    BY <1>2 DEF EditOpen, SetPowerTypeOK, SetPowerAssumption
  <2>2. CalibBecomes(calib') /\ calib' = Unreadable
    BY <1>2 DEF EditOpen, CalibBecomes
  <2>. QED  BY <1>1, <2>1, <2>2 DEF CalibBecomes
<1>3. CASE EditWrite
  <2>1. edits' \in 0..MaxEdits
    BY <1>3 DEF EditWrite, SetPowerTypeOK
  <2>2. CalibBecomes(calib') /\ calib' \in Offsets
    BY <1>3 DEF EditWrite, CalibBecomes
  <2>. QED  BY <1>1, <2>1, <2>2 DEF CalibBecomes
<1>4. CASE Take
  <2>1. SetPowerTypeOK'
    BY <1>4 DEF Take, SetPowerTypeOK
  <2>2. OneOffset'
    BY <1>4 DEF Take, OneOffset, Working
  <2>3. Checked' /\ ChannelsServed'
    <3>1. sent = {} /\ ~result.ok
      BY <1>4 DEF Take, OneOffset
    <3>. QED  BY <1>4, <3>1 DEF Take, Checked, ChannelsServed, Working, AllChannels, Frames
  <2>. QED  BY <2>1, <2>2, <2>3
<1>5. CASE ReadCalib
  <2>1. /\ effective' = Effective(command.watts, calib) /\ channels' = AllChannels
        /\ stage' = "throttle" /\ stage = "calib"
        /\ UNCHANGED <<calib, edits, command, sent, pending, programmed, result, heldCalib>>
    BY <1>5 DEF ReadCalib, AllChannels
  <2>2. effective' \in Int
    BY <1>0, <2>1, EffectiveInRange DEF SetPowerTypeOK
  <2>3. SetPowerTypeOK'
    BY <2>1, <2>2 DEF SetPowerTypeOK, AllChannels
  <2>4. /\ sent = {} /\ ~result.ok /\ calib \in heldCalib
    BY <2>1 DEF OneOffset
  <2>5. OneOffset'
    BY <2>1, <2>4 DEF OneOffset
  <2>6. ~result.accepted
    BY <2>4 DEF ChannelsServed
  <2>7. Checked' /\ ChannelsServed'
    <3>1. AllChannels' = AllChannels /\ AllChannels # {}
      BY <2>1 DEF AllChannels
    <3>2. Frames(AllChannels \ channels)' = {}
      BY <2>1, <3>1 DEF Frames
    <3>. QED  BY <2>1, <2>4, <2>6, <3>1, <3>2 DEF Checked, ChannelsServed, Working
  <2>. QED  BY <2>3, <2>5, <2>7
<1>6. CASE Throttle
  <2> DEFINE ch == Min(channels)
             v  == Value(command.family, effective)
  <2>1. /\ stage = "throttle" /\ sent' = sent \cup {[channel |-> ch, value |-> v]}
        /\ pending' \in {pending, pending \cup {v}}
        /\ channels' = channels \ {ch}
        /\ stage' = IF channels' = {} THEN "nonsense" ELSE "throttle"
        /\ UNCHANGED <<calib, edits, command, effective, programmed, result, heldCalib>>
    BY <1>6 DEF Throttle
  <2>2. ch \in channels /\ channels \subseteq {1, 2} /\ channels \subseteq AllChannels
    BY <2>1, MinChannel DEF SetPowerTypeOK, ChannelsServed
  <2>3. v \in 0..(Word - 1)
    BY <1>0, ValueFits
  <2>4. sent' = sent \cup Frames({ch})
    BY <2>1, FrameSets
  <2> HIDE DEF ch, v
  <2>5. SetPowerTypeOK'
    BY <2>1, <2>2, <2>3 DEF SetPowerTypeOK
  <2>6. OneOffset'
    BY <2>1 DEF OneOffset, Working
  <2>7. AllChannels' = AllChannels /\ \A S : Frames(S)' = Frames(S)
    BY <2>1 DEF AllChannels, Frames
  <2>8. sent = Frames(AllChannels \ channels)
    BY <2>1 DEF ChannelsServed, Working
  <2>9. AllChannels \ channels' = (AllChannels \ channels) \cup {ch}
    BY <2>1, <2>2
  <2>10. sent' = Frames(AllChannels \ channels')
    BY <2>4, <2>8, <2>9, FrameSets
  <2>11. sent' \subseteq Frames(AllChannels)
    BY <2>10, FrameSets
  <2>12. ~result.ok /\ ~result.accepted
    BY <2>1 DEF ChannelsServed
  <2>13. Checked' /\ ChannelsServed'
    BY <2>1, <2>2, <2>7, <2>10, <2>11, <2>12 DEF Checked, ChannelsServed, Working
  <2>. QED  BY <2>5, <2>6, <2>13
<1>7. ASSUME stage \in {"nonsense", "query"}, stage' \in {"query", "done"},
             programmed' \in 0..(Word - 1),
             result' \in [ok : BOOLEAN, accepted : BOOLEAN, own : BOOLEAN],
             result'.ok => stage' = "done", result'.accepted => result'.ok,
             (result'.accepted /\ result'.own) =>
               Distance(Watts(command.family, programmed'), effective) <= 10,
             UNCHANGED <<calib, edits, command, effective, channels, sent, pending, heldCalib>>
      PROVE  SetPowerInv'
  <2>1. SetPowerTypeOK'
    BY <1>7 DEF SetPowerTypeOK
  <2>2. OneOffset'
    BY <1>7 DEF OneOffset, Working
  <2>3. /\ channels = {} /\ sent = Frames(AllChannels) /\ ~result.ok /\ ~result.accepted
    <3>1. channels = {} /\ AllChannels \ channels = AllChannels
      BY <1>7 DEF ChannelsServed
    <3>. QED  BY <1>7, <3>1 DEF ChannelsServed, Working
  <2>4. AllChannels' = AllChannels /\ \A S : Frames(S)' = Frames(S)
    BY <1>7 DEF AllChannels, Frames
  <2>5. AllChannels \ {} = AllChannels
    OBVIOUS
  <2>6. Checked' /\ ChannelsServed'
    BY <1>7, <2>3, <2>4, <2>5 DEF Checked, ChannelsServed, Working
  <2>. QED  BY <2>1, <2>2, <2>6
<1>8. CASE Nonsense
  <2>1. ~result.ok /\ ~result.accepted
    BY <1>8 DEF Nonsense, ChannelsServed
  <2>. QED  BY <1>7, <1>8, <2>1 DEF Nonsense, SetPowerTypeOK
<1>9. CASE Query
  <2>1. /\ result' \in [ok : BOOLEAN, accepted : BOOLEAN, own : BOOLEAN] /\ result'.ok
        /\ (result'.accepted /\ result'.own) =>
             Distance(Watts(command.family, programmed), effective) <= 10
    BY <1>9 DEF Query
  <2>. QED  BY <1>7, <1>9, <2>1 DEF Query, SetPowerTypeOK
<1>10. CASE PortFails
  <2>1. OneOffset' /\ SetPowerTypeOK'
    BY <1>10 DEF PortFails, OneOffset, Working, SetPowerTypeOK
  <2>2. /\ AllChannels' = AllChannels /\ \A S : Frames(S)' = Frames(S)
        /\ UNCHANGED <<command, channels, sent, effective, programmed, result>>
        /\ ~result.ok /\ ~result.accepted /\ stage' = "done"
    BY <1>10 DEF PortFails, AllChannels, Frames, ChannelsServed
  <2>3. Checked' /\ ChannelsServed'
    BY <2>2 DEF Checked, ChannelsServed, Working
  <2>. QED  BY <2>1, <2>3
<1>11. CASE UNCHANGED setPowerVars
  BY <1>11 DEF setPowerVars, SetPowerTypeOK, Checked, OneOffset, ChannelsServed, Working,
               AllChannels, Frames
<1>. QED  BY <1>2, <1>3, <1>4, <1>5, <1>6, <1>8, <1>9, <1>10, <1>11 DEF SetPowerNext

LEMMA WattsTyped ==
  ASSUME NEW f, NEW x \in 0..(Word - 1)
  PROVE  Watts(f, x) \in Int
<1>1. x \in Int
  BY LastWord
<1>2. CASE f = "DS3"
  <2>1. Watts(f, x) = (x * 100) \div 1659
    BY <1>2 DEF Watts, Factor
  <2>. QED  BY <1>1, <2>1
<1>3. CASE f # "DS3"
  <2>1. Watts(f, x) = (x * 100) \div 2889
    BY <1>3 DEF Watts, Factor
  <2>. QED  BY <1>1, <2>1
<1>. QED  BY <1>2, <1>3

LEMMA FramesCounted ==
  Cardinality(Frames(AllChannels)) = IF command.family = "DS3" THEN 2 ELSE 1
<1> DEFINE F(ch) == [channel |-> ch, value |-> Value(command.family, effective)]
<1>1. Frames({1}) = {F(1)} /\ Frames({2}) = {F(2)}
  BY FrameSets
<1>2. IsFiniteSet({F(1)}) /\ Cardinality({F(1)}) = 1
  BY FS_Singleton
<1>3. CASE command.family = "DS3"
  <2>1. Frames(AllChannels) = {F(1)} \cup {F(2)}
    <3>1. {1, 2} = {1} \cup {2}
      OBVIOUS
    <3>2. AllChannels = {1} \cup {2}
      BY <1>3, <3>1 DEF AllChannels
    <3>. QED  BY <1>1, <3>2, FrameSets
  <2>2. F(2) \notin {F(1)}
    <3>1. F(1).channel = 1 /\ F(2).channel = 2
      OBVIOUS
    <3>. QED  BY <3>1
  <2> HIDE DEF F
  <2>3. Cardinality({F(1)} \cup {F(2)}) = 2
    BY <1>2, <2>2, FS_AddElement
  <2>. QED  BY <1>3, <2>1, <2>3
<1>4. CASE command.family # "DS3"
  <2>1. AllChannels = {1}
    BY <1>4 DEF AllChannels
  <2>. QED  BY <1>1, <1>2, <1>4, <2>1
<1>. QED  BY <1>3, <1>4

LEMMA SetPowerInvImplies == SetPowerInv => SentAsAsked
<1> SUFFICES ASSUME SetPowerInv, command.checked PROVE SentAsAsked
  BY DEF SentAsAsked
<1> DEFINE v == Value(command.family, effective)
           w == Watts(command.family, v)
<1>1. /\ command.family \in Families /\ command.watts \in Nat
      /\ 50 <= command.watts /\ command.watts <= 800
  <2>1. /\ command.family \in Families /\ command.watts \in Nat
        /\ InRange(command.family, command.watts)
    BY DEF SetPowerInv, SetPowerTypeOK, Checked, SetPowerAssumption
  <2>2. \A f \in Families : /\ Floor[f] \in Int /\ 50 <= Floor[f]
                             /\ Ceiling[f] \in Int /\ Ceiling[f] <= 800
    BY DEF Families, Floor, Ceiling
  <2>. QED  BY <2>1, <2>2 DEF InRange
<1>2. \A frame \in sent : frame.value = v
  BY DEF SetPowerInv, ChannelsServed, Frames
<1>3. \A frame \in sent : SentWatts(frame) = w
  BY <1>2 DEF SentWatts
<1>4. ASSUME sent # {} \/ result.ok
      PROVE  \E c \in heldCalib :
               /\ c \in Offsets \cup {0, Unreadable}
               /\ effective = Effective(command.watts, c)
  BY <1>4 DEF SetPowerInv, OneOffset, SetPowerTypeOK
<1>5. ASSUME sent # {} \/ result.ok
      PROVE  effective \in Int /\ w \in Int /\ (w = effective \/ w = effective - 1)
  <2>1. effective \in Int /\ 10 <= effective /\ effective <= 1100
    <3>1. PICK c \in Offsets \cup {0, Unreadable} : effective = Effective(command.watts, c)
      BY <1>4, <1>5
    <3>2. command.watts \in Nat /\ command.watts <= 800
      BY <1>1
    <3>. QED  BY <3>1, <3>2, EffectiveInRange
  <2>. QED  BY <2>1, WithinAWatt
<1> HIDE DEF v, w
<1>6. result.ok => Cardinality(sent) = (IF command.family = "DS3" THEN 2 ELSE 1)
  BY FramesCounted DEF SetPowerInv, ChannelsServed
<1>7. \A f, g \in sent : f.value = g.value
  BY <1>2
<1>8. ASSUME sent # {}
      PROVE  \E c \in heldCalib : \A frame \in sent :
               /\ SentWatts(frame) >= 9
               /\ Distance(SentWatts(frame), command.watts) <= Distance(Offset(c), 0) + 1
               /\ Offset(c) >= 0 => SentWatts(frame) + 1 >= command.watts
               /\ Offset(c) <= 0 => SentWatts(frame) <= command.watts
  <2>1. PICK c \in heldCalib : /\ c \in Offsets \cup {0, Unreadable}
                               /\ effective = Effective(command.watts, c)
    BY <1>4, <1>8
  <2>2. /\ Offset(c) \in Int /\ -300 <= Offset(c) /\ Offset(c) <= 300
        /\ effective = IF 10 < command.watts + Offset(c) THEN command.watts + Offset(c) ELSE 10
    BY <1>1, <2>1, OffsetShown
  <2>3. /\ w >= 9
        /\ Distance(w, command.watts) <= Distance(Offset(c), 0) + 1
        /\ Offset(c) >= 0 => w + 1 >= command.watts
        /\ Offset(c) <= 0 => w <= command.watts
    <3>1. /\ command.watts \in Nat /\ 50 <= command.watts
          /\ effective \in Int /\ w \in Int /\ (w = effective \/ w = effective - 1)
      BY <1>1, <1>5, <1>8
    <3>. QED  BY <2>2, <3>1 DEF Distance
  <2>. QED  BY <1>3, <2>3
<1>9. ASSUME result.accepted, result.own
      PROVE  \E frame \in sent :
               Distance(Watts(command.family, programmed), SentWatts(frame)) <= 11
  <2>1. /\ result.ok /\ sent = Frames(AllChannels)
        /\ Distance(Watts(command.family, programmed), effective) <= 10
    BY <1>9 DEF SetPowerInv, ChannelsServed
  <2>2. PICK frame \in sent : TRUE
    <3>1. 1 \in AllChannels
      BY DEF AllChannels
    <3>. QED  BY <2>1, <3>1 DEF Frames
  <2>3. SentWatts(frame) = w
    BY <1>3, <2>2
  <2>4. Watts(command.family, programmed) \in Int
    <3>1. programmed \in 0..(Word - 1)
      BY DEF SetPowerInv, SetPowerTypeOK
    <3>. QED  BY <3>1, WattsTyped
  <2>5. Distance(Watts(command.family, programmed), w) <= 11
    BY <1>5, <2>1, <2>4 DEF Distance
  <2>. QED  BY <2>3, <2>5
<1>. QED  BY <1>6, <1>7, <1>8, <1>9 DEF SentAsAsked

LEMMA SetPowerInvariant == SetPowerSpec => []SetPowerInv
  BY SetPowerInitInv, SetPowerNextInv, PTL DEF SetPowerSpec

-----------------------------------------------------------------------------
(* Alone ... *)

(* What the daemon publishes, and where, was in mqtt.json during the call. *)
THEOREM PublishTheorem == MqttSpec => []PublishesAsConfigured
  BY MqttInvariant, MqttInvImplies, PTL

(* mqtt.json never holds a password that nobody named, and, unless saves   *)
(* overlap, the one that was named last, however often it was masked.      *)
THEOREM PasswordTheorem == MqttSpec => []PasswordKept
  BY MqttInvariant, MqttInvImplies, PTL

(* For every family, every power that the form lets through and every      *)
(* offset in -300..300, edited and truncated at any time: all channels are *)
(* sent the same, off what was asked for by no more than an offset that    *)
(* the file held meanwhile, to its side, and never less than 10 W; and     *)
(* acceptance by the query's own reply tells what the inverter is set to.  *)
(* It does not say that the floor of the family is kept: that fails.       *)
THEOREM SetPowerTheorem == SetPowerSpec => []SentAsAsked
  BY SetPowerInvariant, SetPowerInvImplies, PTL

-----------------------------------------------------------------------------
(* ... and together.  A step of one part is a step of it alone, or leaves  *)
(* its variables as they are.                                              *)
LEMMA PartsTakeTurns ==
  /\ Init => TelemetryInit /\ MqttInit /\ SetPowerInit
  /\ [Next]_vars => /\ [TelemetryNext]_telemetryVars
                    /\ [MqttNext]_mqttVars
                    /\ [SetPowerNext]_setPowerVars
<1>1. Init => TelemetryInit /\ MqttInit /\ SetPowerInit
  BY DEF Init
<1>2. ASSUME [Next]_vars
      PROVE  /\ [TelemetryNext]_telemetryVars
             /\ [MqttNext]_mqttVars
             /\ [SetPowerNext]_setPowerVars
  <2>1. CASE TelemetryPart
    BY <2>1 DEF TelemetryPart
  <2>2. CASE MqttPart
    BY <2>2 DEF MqttPart
  <2>3. CASE SetPowerPart
    BY <2>3 DEF SetPowerPart
  <2>4. CASE UNCHANGED vars
    BY <2>4 DEF vars
  <2>. QED  BY <1>2, <2>1, <2>2, <2>3, <2>4 DEF Next
<1>. QED  BY <1>1, <1>2

LEMMA Together == Spec => TelemetrySpec /\ MqttSpec /\ SetPowerSpec
  BY PartsTakeTurns, PTL DEF Spec, TelemetrySpec, MqttSpec, SetPowerSpec

(* Every variable of the three keeps its type.                             *)
THEOREM TypesTogether == Spec => []TypeOK
<1>1. MqttInv => MqttTypeOK
  BY DEF MqttInv
<1>2. SetPowerInv => SetPowerTypeOK
  BY DEF SetPowerInv
<1>3. TelemetryTypeOK /\ MqttTypeOK /\ SetPowerTypeOK => TypeOK
  BY DEF TypeOK
<1>. QED  BY Together, TypeInvariant, MqttInvariant, SetPowerInvariant, <1>1, <1>2, <1>3, PTL

(* The properties of each part hold of the whole, each under its own       *)
(* conditions: SentAsAsked is about commands that the form checked,        *)
(* PasswordKept about saves that do not overlap, SnapshotKeepsNewest about *)
(* answers with no midnight between their two loads.                       *)
THEOREM PropertiesTogether ==
  Spec => /\ [](PublishesAsConfigured /\ PasswordKept /\ SentAsAsked)
          /\ LoadsReadTheLog
          /\ SnapshotKeepsNewest
  BY Together, PublishTheorem, PasswordTheorem, SetPowerTheorem, LoadsTheorem, SnapshotTheorem, PTL
=============================================================================
