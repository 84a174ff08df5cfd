-------------------------------- MODULE Mqtt --------------------------------
(***************************************************************************)
(* mqtt.json between the web server that writes it (api_mqtt_put() of      *)
(* host/webui/server.py, a thread per request, no lock) and the daemon's   *)
(* MqttPublisher (host/aps_unified_daemon.py), which loads it twice per    *)
(* reading it publishes: for the topics, and, in reconcile(), for the      *)
(* connection.                                                             *)
(***************************************************************************)
EXTENDS Naturals

CONSTANTS
  Savers,       \* request threads
  Forms,        \* what a user may save: [on, host, root, pw], pw may be Masked or ""
  DefaultRoot,  \* "apsbridge"
  NoHost,       \* not connected; the host of DEFAULT_MQTT
  NoPassword,   \* ""
  Masked,       \* the "***" that the server shows instead of a password
  MaxSaved      \* bound: saves

ASSUME MqttAssumption == MaxSaved \in Nat /\ \A f \in Forms : f.on \in BOOLEAN

(* What the file may be.  Missing, truncated or garbled, it reads as {},   *)
(* and an absent field has the same value here as in DEFAULT_MQTT.         *)
NoConfig(kind) == [kind |-> kind, on |-> FALSE, host |-> NoHost,
                   root |-> DefaultRoot, pw |-> NoPassword]
Missing  == NoConfig("missing")
Empty    == NoConfig("empty")
Garbled  == NoConfig("garbled")
Defaults == NoConfig("config")
IsConfig(c) == c.kind = "config"

Passwords == {NoPassword} \cup ({f.pw : f \in Forms} \ {Masked})
Configs   == {Defaults} \cup
             [kind : {"config"}, on : BOOLEAN, host : {f.host : f \in Forms},
              root : {f.root : f \in Forms}, pw : Passwords]
Contents  == Configs \cup {Missing, Empty, Garbled}

VARIABLES
  mqttFile,    \* its content and its mtime
  saver,       \* per thread: what it is doing, the configuration to write, and
               \* the password its form names, if any
  saves,
  publisher,   \* publish_telemetry(): where it is, the mtime it saw, what its
               \* first and its second load returned
  known,       \* self.cfg and self.cfg_mtime
  client,      \* the host self.client is connected to
  discovered,  \* the roots that discovered entities were told to use
  heldCfg,     \* history: what the file was since the call began
  named,       \* history: the last password a save named, and all of them
  overlapped   \* history: were two saves in progress at once?

saveVars    == <<saver, saves, named, overlapped>>
publishVars == <<publisher, known, client, discovered>>
mqttVars    == <<mqttFile, saveVars, publishVars, heldCfg>>

NotSaving  == [pc |-> "idle", cfg |-> Missing, names |-> {}]
NotRunning == [pc |-> "idle", load |-> 1, mtime |-> 0, first |-> Missing, second |-> Missing]
Unknown    == [cfg |-> Missing, mtime |-> 0]

MqttTypeOK ==
  /\ mqttFile \in [cfg : Contents, mtime : Nat]
  /\ saver \in [Savers -> [pc : {"idle", "open", "write"}, cfg : Contents, names : SUBSET Passwords]]
  /\ saves \in 0..MaxSaved
  /\ publisher \in [pc : {"idle", "stat", "read", "decide", "send"}, load : 1..2,
                    mtime : Nat, first : Contents, second : Contents]
  /\ known \in [cfg : Contents, mtime : Nat]
  /\ client \in {NoHost} \cup {f.host : f \in Forms}
  /\ discovered \subseteq {DefaultRoot} \cup {f.root : f \in Forms}
  /\ heldCfg \subseteq Contents
  /\ named \in [last : Passwords, all : SUBSET Passwords]
  /\ overlapped \in BOOLEAN

(* main() of the server writes the defaults where there is no file. *)
MqttInit ==
  /\ mqttFile = [cfg |-> Defaults, mtime |-> 1]
  /\ saver = [s \in Savers |-> NotSaving] /\ saves = 0
  /\ publisher = NotRunning /\ known = Unknown
  /\ client = NoHost /\ discovered = {}
  /\ heldCfg = {}
  /\ named = [last |-> NoPassword, all |-> {NoPassword}] /\ overlapped = FALSE

-----------------------------------------------------------------------------
(* The web server. *)

FileBecomes(c) ==
  /\ mqttFile' = [cfg |-> c, mtime |-> mqttFile.mtime + 1]
  /\ heldCfg' = IF publisher.pc = "idle" THEN {} ELSE heldCfg \cup {c}

(* Mutant: a masked password is taken for none. *)
MergedMasked(f, existing) ==
  [kind |-> "config", on |-> f.on, host |-> f.host, root |-> f.root,
   pw |-> IF f.pw = Masked THEN NoPassword ELSE f.pw]

(* A masked password, and an empty one, stands for the one stored already. *)
NotNamed == {Masked, NoPassword}

Merged(f, existing) ==
  [kind |-> "config", on |-> f.on, host |-> f.host, root |-> f.root,
   pw |-> IF f.pw \in NotNamed THEN existing.pw ELSE f.pw]

(* api_mqtt_put() reads what is stored ... *)
SaveBegin(s, f) ==
  /\ saver[s] = NotSaving /\ saves < MaxSaved
  /\ saves' = saves + 1
  /\ saver' = [saver EXCEPT ![s] = [pc |-> "open", cfg |-> Merged(f, mqttFile.cfg),
                                    names |-> {f.pw} \ NotNamed]]
  /\ overlapped' = (overlapped \/ \E t \in Savers \ {s} : saver[t] # NotSaving)
  /\ UNCHANGED <<mqttFile, named, publishVars, heldCfg>>

(* ... truncates the file ... *)
SaveTruncate(s) ==
  /\ saver[s].pc = "open"
  /\ saver' = [saver EXCEPT ![s].pc = "write"]
  /\ FileBecomes(Empty)
  /\ UNCHANGED <<saves, named, overlapped, publishVars>>

(* ... and writes it.  A shorter text over one that another thread wrote   *)
(* since the truncation leaves the tail of that behind.                    *)
SaveFinish(s) ==
  /\ saver[s].pc = "write"
  /\ \/ FileBecomes(saver[s].cfg)
     \/ mqttFile.cfg # Empty /\ FileBecomes(Garbled)
  /\ saver' = [saver EXCEPT ![s] = NotSaving]
  /\ named' = IF saver[s].names = {} THEN named
                ELSE [last |-> saver[s].cfg.pw, all |-> named.all \cup saver[s].names]
  /\ UNCHANGED <<saves, overlapped, publishVars>>

-----------------------------------------------------------------------------
(* The daemon: publish_telemetry(), once per decoded reply. *)

PublishBegin ==
  /\ publisher.pc = "idle"
  /\ publisher' = [NotRunning EXCEPT !.pc = "stat"]
  /\ heldCfg' = {mqttFile.cfg}
  /\ UNCHANGED <<mqttFile, saveVars, known, client, discovered>>

(* What a load returned: the first for the topics, the second for          *)
(* reconcile().                                                            *)
Return(c) ==
  publisher' = IF publisher.load = 1
                 THEN [publisher EXCEPT !.pc = "stat", !.load = 2, !.first = c, !.mtime = 0]
                 ELSE [publisher EXCEPT !.pc = "decide", !.second = c, !.mtime = 0]

(* Mutant: a configuration once read is good for ever. *)
UnchangedEver == IsConfig(known.cfg)

Unchanged == mqttFile.mtime = known.mtime /\ IsConfig(known.cfg)

(* _load_cfg(): exists(), stat(), and the test of the mtime. *)
StatConfig ==
  /\ publisher.pc = "stat"
  /\ IF mqttFile.cfg = Missing THEN Return(Missing)
     ELSE IF Unchanged THEN Return(known.cfg)
     ELSE publisher' = [publisher EXCEPT !.pc = "read", !.mtime = mqttFile.mtime]
  /\ UNCHANGED <<mqttFile, saveVars, known, client, discovered, heldCfg>>

(* What does not parse is not remembered. *)
ReadConfig ==
  /\ publisher.pc = "read"
  /\ Return(mqttFile.cfg)
  /\ known' = IF IsConfig(mqttFile.cfg)
                THEN [cfg |-> mqttFile.cfg, mtime |-> publisher.mtime] ELSE known
  /\ UNCHANGED <<mqttFile, saveVars, client, discovered, heldCfg>>

(* reconcile(): close what is switched off ... *)
Disconnect ==
  /\ publisher.pc = "decide" /\ ~publisher.second.on
  /\ client' = NoHost
  /\ discovered' = IF client = NoHost THEN discovered ELSE {}
  /\ publisher' = NotRunning /\ heldCfg' = {}
  /\ UNCHANGED <<mqttFile, saveVars, known>>

(* ... connect if there is no client, in vain or not ... *)
Connect ==
  /\ publisher.pc = "decide" /\ publisher.second.on /\ client = NoHost
  /\ \/ /\ client' = publisher.second.host
        /\ publisher' = [publisher EXCEPT !.pc = "send"]
        /\ UNCHANGED heldCfg
     \/ /\ publisher' = NotRunning /\ heldCfg' = {}
        /\ UNCHANGED client
  /\ UNCHANGED <<mqttFile, saveVars, known, discovered>>

(* ... and keep the client there is. *)
KeepClient ==
  /\ publisher.pc = "decide" /\ publisher.second.on /\ client # NoHost
  /\ publisher' = [publisher EXCEPT !.pc = "send"]
  /\ UNCHANGED <<mqttFile, saveVars, known, client, discovered, heldCfg>>

(* The values go out under publisher.first.root, and so does the discovery *)
(* of entities that were not discovered before, if the first load says so: *)
(* the flag ha_discovery is on by default and absent from a load that      *)
(* failed.                                                                 *)
Publish ==
  /\ publisher.pc = "send"
  /\ \/ UNCHANGED discovered
     \/ IsConfig(publisher.first) /\ discovered' = discovered \cup {publisher.first.root}
  /\ publisher' = NotRunning /\ heldCfg' = {}
  /\ UNCHANGED <<mqttFile, saveVars, known, client>>

(* A new daemon process. *)
RestartPublisher ==
  /\ publisher' = NotRunning /\ known' = Unknown
  /\ client' = NoHost /\ discovered' = {} /\ heldCfg' = {}
  /\ UNCHANGED <<mqttFile, saveVars>>

MqttNext ==
  \/ \E s \in Savers : SaveTruncate(s) \/ SaveFinish(s) \/ \E f \in Forms : SaveBegin(s, f)
  \/ PublishBegin \/ StatConfig \/ ReadConfig
  \/ Disconnect \/ Connect \/ KeepClient \/ Publish
  \/ RestartPublisher

MqttSpec == MqttInit /\ [][MqttNext]_mqttVars

-----------------------------------------------------------------------------
(* Properties. *)

(* A reading is only published if publishing was switched on at some       *)
(* moment of the call, and under the root that the file named at such a    *)
(* moment; under the default root only if it named that, or if a load met  *)
(* it half written.                                                        *)
PublishesAsConfigured ==
  publisher.pc = "send" =>
    /\ \E c \in heldCfg : c.on
    /\ \E c \in heldCfg : c.root = publisher.first.root

(* "If incoming password is masked, keep previously stored one" (comment   *)
(* in api_mqtt_put): as long as saves do not overlap the file holds the    *)
(* password that was named last, and never one that nobody named.          *)
PasswordKept ==
  /\ mqttFile.cfg.pw \in named.all
  /\ (~overlapped /\ \A s \in Savers : saver[s] = NotSaving)
       => mqttFile.cfg.pw = named.last

(* "Reloads config from disk on demand; reconnects on parameter change"    *)
(* (docstring of MqttPublisher): a reading goes to the broker that the     *)
(* file named at some moment of the call.                                  *)
ReconnectsOnChange ==
  publisher.pc = "send" => \E c \in heldCfg : c.host = client
=============================================================================
