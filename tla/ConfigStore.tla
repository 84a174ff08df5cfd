---------------------------- MODULE ConfigStore ----------------------------
(***************************************************************************)
(* inverters.json, which the web server writes and the daemon reads:       *)
(* api_inverters_get() and api_inverters_put() of host/webui/server.py,    *)
(* load_inverters() of the daemon, with its cache keyed by mtime.  The     *)
(* server runs a thread per request; nothing locks the file, and           *)
(* write_text() truncates first and writes afterwards.                     *)
(*                                                                         *)
(* An inverter list is abstracted to a number: 1 is `[]', the rest are     *)
(* lists a user may save, ordered by the length of their JSON text.        *)
(***************************************************************************)
EXTENDS Naturals

CONSTANTS
  Handlers,     \* request threads of the web server
  Longest,      \* the longest list a user may save
  Installs,     \* is inverters.json there to begin with: subset of BOOLEAN
  MaxRequests,  \* bound: requests on inverters.json
  MaxRestarts   \* bound: restarts of the daemon process

ASSUME ConfigStoreAssumption ==
  /\ Longest \in Nat \ {0, 1}
  /\ Installs \subseteq BOOLEAN /\ Installs # {}
  /\ MaxRequests \in Nat /\ MaxRestarts \in Nat

Unparsable  == 0              \* truncated, or a mixture of two writes
Seed        == 1              \* `[]'
UserLists   == 2..Longest
Lists       == {Seed} \cup UserLists
Placeholder == Longest + 1    \* the built-in INVERTERS of the daemon
NoList      == Longest + 2    \* None

VARIABLES
  file,      \* inverters.json: does it exist, what it parses as, its length, its mtime
  handler,   \* per thread: what it is doing and the list it will write
  requests,  \* requests so far
  saved,     \* history: the lists for which a PUT answered "saved"
  dpc,       \* the daemon: before a cycle, in load_inverters() before or
             \* after its read, in the cycle that works from the list
  data,      \* load_inverters' local: what it read
  mt,        \* load_inverters' local: the mtime it saw
  inv_mtime, inv_cache,  \* _inv_mtime, _inv_cache
  current,   \* the list load_inverters() returned last
  held,      \* history: what the file was since the stat of a load in progress
  restarts

serverVars == <<handler, requests, saved>>
loadVars   == <<dpc, data, mt, inv_mtime, inv_cache, current>>
configVars       == <<file, serverVars, loadVars, held, restarts>>

Resting == [pc |-> "idle", list |-> NoList]

ConfigTypeOK ==
  /\ file \in [exists : BOOLEAN, val : {Unparsable} \cup Lists,
               len : 0..Longest, mtime : Nat]
  /\ handler \in [Handlers -> [pc : {"idle", "open", "write"},
                               list : Lists \cup {NoList}]]
  /\ requests \in 0..MaxRequests
  /\ saved \subseteq UserLists
  /\ dpc \in {"idle", "read", "parsed", "cycle"}
  /\ data \in {Unparsable, NoList} \cup Lists
  /\ mt \in Nat /\ inv_mtime \in Nat
  /\ inv_cache \in Lists \cup {NoList}
  /\ current \in Lists \cup {Placeholder, NoList}
  /\ held \subseteq {Unparsable} \cup Lists
  /\ restarts \in 0..MaxRestarts

(* An installation whose inverters were never configured, or one with a    *)
(* list that was saved before.                                             *)
ConfigInit ==
  /\ \E configured \in Installs :
       IF configured
         THEN /\ file = [exists |-> TRUE, val |-> Longest, len |-> Longest, mtime |-> 1]
              /\ saved = {Longest}
         ELSE /\ file = [exists |-> FALSE, val |-> Unparsable, len |-> 0, mtime |-> 0]
              /\ saved = {}
  /\ handler = [t \in Handlers |-> Resting]
  /\ requests = 0
  /\ dpc = "idle" /\ data = NoList /\ mt = 0 /\ inv_mtime = 0 /\ inv_cache = NoList
  /\ current = NoList /\ held = {}
  /\ restarts = 0

-----------------------------------------------------------------------------
(* The web server. *)

InLoad == dpc \in {"read", "parsed"}

(* Every change of the file changes its mtime. *)
ListChanged(f) ==
  /\ file' = [f EXCEPT !.mtime = file.mtime + 1]
  /\ held' = IF InLoad THEN held \cup {f.val} ELSE held

(* api_inverters_put(): a list that passes the validation. *)
Put(t, l) ==
  /\ handler[t] = Resting /\ requests < MaxRequests
  /\ requests' = requests + 1
  /\ handler' = [handler EXCEPT ![t] = [pc |-> "open", list |-> l]]
  /\ UNCHANGED <<file, saved, loadVars, held, restarts>>

(* api_inverters_get() seeds a file it cannot read. *)
NeedsSeed == ~file.exists \/ file.val = Unparsable

(* The GET that finds a list only returns it.  api_action_post() reads the *)
(* list the same way.                                                      *)
Get(t) ==
  /\ handler[t] = Resting /\ requests < MaxRequests
  /\ NeedsSeed
  /\ requests' = requests + 1
  /\ handler' = [handler EXCEPT ![t] = [pc |-> "open", list |-> Seed]]
  /\ UNCHANGED <<file, saved, loadVars, held, restarts>>

(* write_text() opens and truncates. *)
OpenList(t) ==
  /\ handler[t].pc = "open"
  /\ ListChanged([file EXCEPT !.exists = TRUE, !.val = Unparsable, !.len = 0])
  /\ handler' = [handler EXCEPT ![t].pc = "write"]
  /\ UNCHANGED <<requests, saved, loadVars, restarts>>

(* What the file is after text l was written at its start: if another      *)
(* thread has written a longer text since the truncation, the rest of that *)
(* text stays behind l, and the file does not parse.                       *)
Overwritten(l) ==
  IF file.len > l THEN [file EXCEPT !.val = Unparsable]
  ELSE [file EXCEPT !.val = l, !.len = l]

(* ... writes and closes; the PUT is answered with "saved". *)
WriteList(t) ==
  /\ handler[t].pc = "write"
  /\ ListChanged(Overwritten(handler[t].list))
  /\ saved' = saved \cup ({handler[t].list} \cap UserLists)
  /\ handler' = [handler EXCEPT ![t] = Resting]
  /\ UNCHANGED <<requests, loadVars, restarts>>

-----------------------------------------------------------------------------
(* The daemon: load_inverters() at the head of every cycle. *)

(* Mutant: the file is not read again unless it got older. *)
CacheHitNewer == file.mtime >= inv_mtime /\ inv_cache # NoList

CacheHit == file.mtime = inv_mtime /\ inv_cache # NoList

(* No file: the placeholders.  Unchanged since it was cached: the cache.   *)
LoadStat ==
  /\ dpc = "idle"
  /\ \/ /\ ~file.exists
        /\ current' = Placeholder /\ dpc' = "cycle"
        /\ UNCHANGED <<mt, held>>
     \/ /\ file.exists /\ CacheHit
        /\ current' = inv_cache /\ dpc' = "cycle"
        /\ UNCHANGED <<mt, held>>
     \/ /\ file.exists /\ ~CacheHit
        /\ mt' = file.mtime
        /\ dpc' = "read"
        /\ held' = {file.val}
        /\ UNCHANGED current
  /\ UNCHANGED <<file, serverVars, data, inv_mtime, inv_cache, restarts>>

(* Otherwise the file is read ... *)
LoadRead ==
  /\ dpc = "read"
  /\ data' = file.val
  /\ dpc' = "parsed"
  /\ UNCHANGED <<file, serverVars, mt, inv_mtime, inv_cache, current,
                 held, restarts>>

(* Mutant: the list is stamped with the time of the store. *)
StampedLate == inv_cache' = data /\ inv_mtime' = file.mtime

(* ... and a list that parses is cached under the mtime seen before. *)
Stamped == inv_cache' = data /\ inv_mtime' = mt

(* Mutant: the exception is not handled. *)
ReturnedUnhandled == data

Returned == IF data = Unparsable THEN Placeholder ELSE data

LoadReturn ==
  /\ dpc = "parsed"
  /\ IF data = Unparsable THEN UNCHANGED <<inv_mtime, inv_cache>> ELSE Stamped
  /\ current' = Returned
  /\ dpc' = "cycle" /\ data' = NoList /\ mt' = 0 /\ held' = {}
  /\ UNCHANGED <<file, serverVars, restarts>>

(* The rest of the cycle. *)
EndCycle ==
  /\ dpc = "cycle" /\ dpc' = "idle"
  /\ UNCHANGED <<file, serverVars, data, mt, inv_mtime, inv_cache, current,
                 held, restarts>>

(* A new daemon process. *)
RestartDaemon ==
  /\ restarts < MaxRestarts
  /\ restarts' = restarts + 1
  /\ dpc' = "idle" /\ data' = NoList /\ mt' = 0 /\ inv_mtime' = 0 /\ inv_cache' = NoList
  /\ current' = NoList /\ held' = {}
  /\ UNCHANGED <<file, serverVars>>

-----------------------------------------------------------------------------
ServerStep(t) == OpenList(t) \/ WriteList(t)
DaemonStep    == LoadStat \/ LoadRead \/ LoadReturn \/ EndCycle

ConfigNext ==
  \/ \E t \in Handlers :
       ServerStep(t) \/ Get(t) \/ \E l \in UserLists : Put(t, l)
  \/ DaemonStep \/ RestartDaemon

ConfigSpec == ConfigInit /\ [][ConfigNext]_configVars

(* A thread that began a request completes it, and the daemon's cycles go  *)
(* on (Daemon shows under which conditions).                               *)
FairSpec ==
  /\ ConfigSpec
  /\ \A t \in Handlers : WF_configVars(ServerStep(t))
  /\ WF_configVars(DaemonStep)

-----------------------------------------------------------------------------
(* Properties. *)

AtRest == \A t \in Handlers : handler[t] = Resting

(* load_inverters() seen as a reader of the file: an answer of placeholder *)
(* inverters stands for a file that is not there or does not parse.        *)
Reads == INSTANCE FileReads WITH
  Files    <- {"inverters.json"},
  Readers  <- {"daemon"},
  Contents <- {Unparsable} \cup Lists,
  content  <- [f \in {"inverters.json"} |-> file.val],
  reader   <- [r \in {"daemon"} |->
                [open |-> IF InLoad THEN {"inverters.json"} ELSE {},
                 held |-> held,
                 got  |-> IF dpc # "cycle" THEN {}
                          ELSE IF current = Placeholder THEN {Unparsable}
                          ELSE {current}]]

(* Every load_inverters() returns a list that the file held at some moment *)
(* between its stat and its return, whether it comes from the cache or     *)
(* from the file, and the placeholder inverters only if at such a moment   *)
(* there was no file, or one that does not parse: the cache cannot be told *)
(* from reading the file every time.                                       *)
LoadsAreReads == Reads!Spec

(* What makes it so: a list cached under the mtime the file has now is the *)
(* list in the file.                                                       *)
CacheIsCoherent ==
  (inv_cache # NoList /\ inv_mtime = file.mtime) => inv_cache = file.val

(* Hot reload: a list the file keeps is the one the daemon works from,     *)
(* sooner or later.                                                        *)
DaemonFollows ==
  \A l \in Lists :
    (file.val = l) ~> (current = l \/ file.val # l)

(* The seed is "used only as the seed for the first run of /api/inverters" *)
(* (docstring of _seeded_inverters): once a user's list was saved, the     *)
(* requests that follow never leave the file with the seed.                *)
SeedOnFirstRunOnly == (AtRest /\ saved # {}) => file.val # Seed
=============================================================================
