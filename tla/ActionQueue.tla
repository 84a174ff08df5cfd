---------------------------- MODULE ActionQueue ----------------------------
(***************************************************************************)
(* One-shot inverter commands (set_max_power, reboot).  A handler thread   *)
(* of host/webui/server.py drops a JSON file into etc/actions/; at the     *)
(* head of each poll cycle process_pending_actions() of                    *)
(* host/aps_unified_daemon.py lists the directory, transmits each command, *)
(* writes a result record and unlinks the file.  The two processes share   *)
(* nothing but the file system, and no write in it is atomic: write_text() *)
(* first truncates the file and then fills it.                             *)
(***************************************************************************)
EXTENDS Naturals, Sequences, FiniteSets

CONSTANTS
  Threads,     \* handler threads of the web server
  Targets,     \* "<action>-<inverter>" parts of a file name, as ranks in sort order
  MaxPosts,    \* bound: commands posted
  MaxSec,      \* bound: seconds the clock advances
  MaxToggles,  \* bound: times the UI toggle is saved
  MaxKills,    \* bound: times the daemon process is killed
  MaxFailures, \* bound: times a handled request file stays in the directory
  None

ASSUME ActionQueueAssumption ==
  /\ Targets \subseteq Nat /\ None \notin Nat
  /\ MaxPosts \in Nat /\ MaxSec \in Nat /\ MaxToggles \in Nat /\ MaxKills \in Nat
  /\ MaxFailures \in Nat

Ids   == 1..MaxPosts
Names == (0..MaxSec) \X Targets      \* f"{int(time.time())}-{action}-{inv}.json"

VARIABLES
  sec,        \* int(time.time())
  features,   \* features.json: commands_enabled on, off, or half written
  toggles,    \* times it was saved
  posted,     \* commands that passed the checks of api_action_post so far
  nameOf,     \* the file name each of them got
  after,      \* history: the commands acknowledged before each was posted
  acked,      \* history: the commands answered with "queued": true
  thread,     \* the command a thread is writing, its step and its open file
  files,      \* etc/actions: name -> inode and content (a command, or torn)
  dpc,        \* where the daemon is: idle, list, pass, transmit, record
  todo,       \* the listing of this pass
  armed,      \* commands_enabled() at the start of this pass
  listed,     \* does this cycle's inverter list know the inverters concerned?
  taken,      \* the content of the file being handled
  results,    \* names with a record in logs/actions/
  executed,   \* history: the commands transmitted, in order
  kills,
  failures,   \* how often a handled request file stayed in the directory
  kept,       \* history: names whose unlink() failed
  unrecorded  \* history: names whose result record could not be written

fsVars     == <<files, results>>
serverVars == <<posted, nameOf, after, acked, thread>>
daemonVars == <<dpc, todo, armed, listed, taken>>
envVars    == <<sec, features, toggles, kills>>
failVars   == <<failures, kept, unrecorded>>
vars       == <<fsVars, serverVars, daemonVars, envVars, failVars, executed>>

Torn == 0
File == [ino : Ids, content : Ids \cup {Torn}]
Idle == [id |-> None, ino |-> None]

TypeOK ==
  /\ sec \in 0..MaxSec /\ features \in {"on", "off", "torn"}
  /\ toggles \in 0..MaxToggles /\ kills \in 0..MaxKills
  /\ posted \in 0..MaxPosts /\ acked \subseteq 1..posted
  /\ nameOf \in [Ids -> Names \cup {None}] /\ after \in [Ids -> SUBSET Ids]
  /\ thread \in [Threads -> {Idle} \cup [id : Ids, ino : Ids \cup {None}]]
  /\ DOMAIN files \subseteq Names /\ files \in [DOMAIN files -> File]
  /\ results \subseteq Names
  /\ dpc \in {"idle", "list", "pass", "transmit", "record"}
  /\ armed \in BOOLEAN /\ listed \in BOOLEAN
  /\ todo \in Seq(Names) /\ taken \in Ids \cup {Torn}
  /\ executed \in Seq(1..posted)
  /\ failures \in 0..MaxFailures /\ kept \subseteq Names /\ unrecorded \subseteq Names

Init ==
  /\ sec = 0
  /\ features \in {"on", "off"}
  /\ toggles = 0
  /\ posted = 0
  /\ nameOf = [c \in Ids |-> None]
  /\ after = [c \in Ids |-> {}]
  /\ acked = {}
  /\ thread = [t \in Threads |-> Idle]
  /\ files = <<>>
  /\ dpc = "idle" /\ todo = <<>> /\ armed = FALSE /\ listed = FALSE /\ taken = Torn
  /\ results = {}
  /\ executed = <<>>
  /\ kills = 0
  /\ failures = 0 /\ kept = {} /\ unrecorded = {}

-----------------------------------------------------------------------------
(* The web server. *)

(* The file name _queue_action() chooses. *)
RequestName(tgt) == <<sec, tgt>>

(* api_action_post(): the checks pass and the file name is chosen.  The    *)
(* rejected posts change nothing.                                          *)
Post(t, tgt) ==
  /\ thread[t] = Idle /\ posted < MaxPosts
  /\ features = "on"
  /\ posted' = posted + 1
  /\ nameOf' = [nameOf EXCEPT ![posted'] = RequestName(tgt)]
  /\ after' = [after EXCEPT ![posted'] = acked]
  /\ thread' = [thread EXCEPT ![t] = [id |-> posted', ino |-> None]]
  /\ UNCHANGED <<fsVars, acked, daemonVars, envVars, failVars, executed>>

(* write_text() opens the file: created, or truncated if it exists. *)
OpenRequest(t) ==
  /\ thread[t] # Idle /\ thread[t].ino = None
  /\ LET n   == nameOf[thread[t].id]
         ino == IF n \in DOMAIN files THEN files[n].ino ELSE thread[t].id
     IN  /\ files' = [m \in DOMAIN files \cup {n} |->
                        IF m = n THEN [ino |-> ino, content |-> Torn] ELSE files[m]]
         /\ thread' = [thread EXCEPT ![t].ino = ino]
  /\ UNCHANGED <<results, posted, nameOf, after, acked, daemonVars, envVars, failVars, executed>>

(* ... and fills it: into the inode it opened, which the daemon may have   *)
(* unlinked meanwhile.  Then the response says "queued".                   *)
WriteRequest(t) ==
  /\ thread[t] # Idle /\ thread[t].ino # None
  /\ LET c == thread[t].id
         n == nameOf[c]
     IN  /\ files' = IF n \in DOMAIN files /\ files[n].ino = thread[t].ino
                       THEN [files EXCEPT ![n].content = c] ELSE files
         /\ acked' = acked \cup {c}
  /\ thread' = [thread EXCEPT ![t] = Idle]
  /\ UNCHANGED <<results, posted, nameOf, after, daemonVars, envVars, failVars, executed>>

(* api_features_put(): the toggle is saved, again in two steps. *)
ToggleOpen ==
  /\ features # "torn" /\ toggles < MaxToggles
  /\ features' = "torn"
  /\ toggles' = toggles + 1
  /\ UNCHANGED <<fsVars, serverVars, daemonVars, sec, kills, failVars, executed>>

ToggleWrite ==
  /\ features = "torn"
  /\ features' \in {"on", "off"}
  /\ UNCHANGED <<fsVars, serverVars, daemonVars, sec, toggles, kills,
                 failVars, executed>>

-----------------------------------------------------------------------------
(* The daemon: process_pending_actions(). *)

(* Mutant: newest first. *)
BeforeReversed(m, n) == m[1] > n[1] \/ (m[1] = n[1] /\ m[2] < n[2])

(* The order of sorted(): by second, then by the rest of the name. *)
Before(m, n) == m[1] < n[1] \/ (m[1] = n[1] /\ m[2] < n[2])

(* The directory, sorted. *)
Listings ==
  {s \in [1..Cardinality(DOMAIN files) -> DOMAIN files] :
     \A i, j \in DOMAIN s : i < j => Before(s[i], s[j])}

(* commands_enabled(), False if the file cannot be parsed.  The inverter   *)
(* list of this cycle was read before.                                     *)
BeginPass ==
  /\ dpc = "idle"
  /\ armed' = (features = "on")
  /\ listed' \in BOOLEAN
  /\ dpc' = "list"
  /\ UNCHANGED <<fsVars, serverVars, todo, taken, envVars, failVars, executed>>

(* Then, in either branch, the directory is listed. *)
ListRequests ==
  /\ dpc = "list"
  /\ todo' \in Listings
  /\ dpc' = "pass"
  /\ UNCHANGED <<fsVars, serverVars, armed, listed, taken, envVars, failVars, executed>>

(* Mutant: whatever the file holds is transmitted. *)
TakeUnparsed ==
  /\ dpc = "pass" /\ todo # <<>>
  /\ taken' = files[Head(todo)].content
  /\ dpc' = IF armed THEN "transmit" ELSE "record"
  /\ UNCHANGED <<fsVars, serverVars, todo, armed, listed, envVars, failVars, executed>>

(* The next file of the listing.  Disarmed, it is refused unread; armed,   *)
(* its content is parsed: a torn file or an unknown inverter is an error,  *)
(* any other command is transmitted.                                       *)
Take ==
  /\ dpc = "pass" /\ todo # <<>>
  /\ taken' = IF armed THEN files[Head(todo)].content ELSE Torn
  /\ dpc' = IF armed /\ listed /\ taken' # Torn THEN "transmit" ELSE "record"
  /\ UNCHANGED <<fsVars, serverVars, todo, armed, listed, envVars, failVars, executed>>

(* The frames of the command go out.  If the port raises on the way the    *)
(* result says so, but what was sent was sent.                             *)
Transmit ==
  /\ dpc = "transmit"
  /\ executed' = Append(executed, taken)
  /\ dpc' = "record"
  /\ UNCHANGED <<fsVars, serverVars, todo, armed, listed, taken, envVars, failVars>>

(* Mutant: refused commands leave no record. *)
RecordedIfArmed == IF armed THEN results \cup {Head(todo)} ELSE results

Recorded == results \cup {Head(todo)}

(* Mutant: only files that were parsed are removed. *)
RemainingKeepsBad ==
  IF taken = Torn THEN files
  ELSE [n \in DOMAIN files \ {Head(todo)} |-> files[n]]

(* Mutant: the file stays until the next daemon start. *)
RemainingKeepsAll == files

(* unlink() removes the name, whichever command is behind it by now. *)
Remaining == [n \in DOMAIN files \ {Head(todo)} |-> files[n]]

(* _write_action_result(): the record, then the unlink.  A record that     *)
(* cannot be written is only logged, and an unlink that fails is passed    *)
(* over: the next pass then finds the file again.                          *)
Record ==
  /\ dpc = "record"
  /\ \/ results' = Recorded /\ UNCHANGED unrecorded
     \/ UNCHANGED results /\ unrecorded' = unrecorded \cup {Head(todo)}
  /\ \/ files' = Remaining /\ UNCHANGED <<failures, kept>>
     \/ /\ failures < MaxFailures
        /\ failures' = failures + 1
        /\ kept' = kept \cup {Head(todo)}
        /\ UNCHANGED files
  /\ todo' = Tail(todo)
  /\ taken' = Torn
  /\ dpc' = "pass"
  /\ UNCHANGED <<serverVars, armed, listed, envVars, executed>>

(* log_event() raises on a full disk, in the report of the outcome, of the *)
(* error or of the record that could not be written: the exception leaves  *)
(* the pass before the unlink, and the session after it.                   *)
ReportFails ==
  /\ dpc = "record" /\ failures < MaxFailures
  /\ failures' = failures + 1
  /\ dpc' = "idle" /\ todo' = <<>>
  /\ armed' = FALSE /\ listed' = FALSE /\ taken' = Torn
  /\ UNCHANGED <<fsVars, serverVars, envVars, kept, unrecorded, executed>>

EndPass ==
  /\ dpc = "pass" /\ todo = <<>>
  /\ dpc' = "idle"
  /\ armed' = FALSE /\ listed' = FALSE
  /\ UNCHANGED <<fsVars, serverVars, todo, taken, envVars, failVars, executed>>

-----------------------------------------------------------------------------
(* The environment. *)

Tick ==
  /\ sec < MaxSec
  /\ sec' = sec + 1
  /\ UNCHANGED <<fsVars, serverVars, daemonVars, features, toggles, kills,
                 failVars, executed>>

(* The process is killed (power loss, SIGKILL after docker's grace time)   *)
(* and restarted.  SIGTERM does not interrupt a pass.                      *)
Kill ==
  /\ dpc # "idle" /\ kills < MaxKills
  /\ kills' = kills + 1
  /\ dpc' = "idle" /\ todo' = <<>>
  /\ armed' = FALSE /\ listed' = FALSE /\ taken' = Torn
  /\ UNCHANGED <<fsVars, serverVars, sec, features, toggles, failVars, executed>>

-----------------------------------------------------------------------------
ServerStep(t) == OpenRequest(t) \/ WriteRequest(t)
DaemonStep    ==
  BeginPass \/ ListRequests \/ Take \/ Transmit \/ Record \/ ReportFails \/ EndPass

Next ==
  \/ \E t \in Threads : ServerStep(t) \/ \E tgt \in Targets : Post(t, tgt)
  \/ ToggleOpen \/ ToggleWrite
  \/ DaemonStep
  \/ Tick \/ Kill

Spec == Init /\ [][Next]_vars

(* The poll cycle, whose head runs a pass, comes round again (Daemon,      *)
(* StopTerminates apart).  Handler threads, users, the clock and kills are *)
(* not fair.  A file system that refuses to remove a file does so          *)
(* MaxFailures times at most, so that a disk that stays full or read-only  *)
(* is out of QueueDrains' reach.                                           *)
FairSpec == Spec /\ WF_vars(DaemonStep)

-----------------------------------------------------------------------------
(* Properties. *)

Count(s, c) == Cardinality({k \in 1..Len(s) : s[k] = c})

(* A command goes on the air once, and once more for each time the process *)
(* was killed, or the file system failed, between transmitting it and      *)
(* removing its file: "bad files are deleted to avoid replay loops"        *)
(* (process_pending_actions) holds for the good ones too.                  *)
ReplaysAreExplained == \A c \in Ids : Count(executed, c) <= 1 + kills + failures

(* Two posts for one action and inverter within one second share a file.   *)
OwnName(c) == \A d \in 1..posted : d # c => nameOf[d] # nameOf[c]

(* The newest command wins: one that was acknowledged before a second one  *)
(* for the same action and inverter was even posted is never transmitted   *)
(* after it, whatever the interleaving with passes and kills - as long as  *)
(* the newer one has its file to itself and the older one's file could be  *)
(* removed.  If the newer one shares the name of a file that a pass had    *)
(* already listed, it jumps the queue with that listing.                   *)
LatestCommandWins ==
  \A j \in 1..Len(executed) : \A i \in 1..(j - 1) :
    /\ nameOf[executed[i]][2] = nameOf[executed[j]][2]
    /\ OwnName(executed[i]) /\ nameOf[executed[j]] \notin kept
    => executed[j] \notin after[executed[i]]

(* No acknowledged command vanishes without a trace: its file is still     *)
(* there, or there is a result record under its name - the outcome, a      *)
(* refusal, or the error of a read that came between the two halves of the *)
(* write, which costs the command but not the record -, or the record      *)
(* could not be written, which the event log says.                         *)
NothingVanishes ==
  \A c \in acked : nameOf[c] \in DOMAIN files \cup results \cup unrecorded

(* Every request file is taken out of the directory sooner or later, torn  *)
(* ones and those of an unknown inverter included.  Stated of the files of *)
(* the first second, which stand for all: later ones only run in fewer     *)
(* interleavings.  It needs unlink() to succeed in the end.                *)
QueueDrains ==
  \A tgt \in Targets :
    LET n == <<0, tgt>> IN n \in DOMAIN files ~> n \notin DOMAIN files
=============================================================================
