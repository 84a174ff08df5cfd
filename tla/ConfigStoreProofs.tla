-------------------------- MODULE ConfigStoreProofs --------------------------
(***************************************************************************)
(* Proofs about ConfigStore, for any number of request threads, lists and  *)
(* restarts: its types, the coherence of the cache, and that               *)
(* load_inverters() implements FileReads.                                  *)
(***************************************************************************)
EXTENDS ConfigStore, TLAPS

USE ConfigStoreAssumption DEF Unparsable, Seed, UserLists, Lists, Placeholder, NoList, InLoad

(* A request that began has a list to write; the file it has opened is     *)
(* there, and one that is not there has no content.                        *)
Requests ==
  /\ \A t \in Handlers : handler[t].pc # "idle" => handler[t].list \in Lists
  /\ \A t \in Handlers : handler[t].pc = "write" => file.exists
  /\ ~file.exists => file.val = Unparsable

(* No remembered mtime is ahead of the file's, and what was remembered     *)
(* under the file's present one is what the file holds.                    *)
Stamps ==
  /\ inv_mtime <= file.mtime /\ mt <= file.mtime
  /\ CacheIsCoherent
  /\ (dpc = "parsed" /\ mt = file.mtime) => data = file.val

(* The history of a load in progress.                                      *)
Loading ==
  /\ ~InLoad => held = {}
  /\ InLoad => file.val \in held
  /\ dpc = "parsed" => data \in held /\ data \in {Unparsable} \cup Lists

Inv == ConfigTypeOK /\ Requests /\ Stamps /\ Loading

Contents   == {Unparsable} \cup Lists
FileStates == [exists : BOOLEAN, val : Contents, len : 0..Longest, mtime : Nat]

LEMMA FileTyped == Inv => file \in FileStates /\ file.mtime \in Nat
  BY DEF Inv, ConfigTypeOK, FileStates, Contents

LEMMA InitInv == ConfigInit => Inv
<1> SUFFICES ASSUME ConfigInit PROVE Inv
  OBVIOUS
<1>1. \/ /\ file = [exists |-> TRUE, val |-> Longest, len |-> Longest, mtime |-> 1]
         /\ saved = {Longest}
      \/ /\ file = [exists |-> FALSE, val |-> Unparsable, len |-> 0, mtime |-> 0]
         /\ saved = {}
  BY DEF ConfigInit
<1>2. /\ file \in FileStates
      /\ saved \subseteq UserLists
      /\ file.mtime \in Nat
      /\ ~file.exists => file.val = Unparsable
  <2>1. 0 \in 0..Longest /\ Longest \in 0..Longest /\ Longest \in UserLists
    OBVIOUS
  <2>2. Unparsable \in Contents /\ Longest \in Contents
    BY <2>1 DEF Contents
  <2> HIDE DEF Contents, Unparsable, UserLists
  <2>3. CASE file = [exists |-> TRUE, val |-> Longest, len |-> Longest, mtime |-> 1]
             /\ saved = {Longest}
    BY <2>1, <2>2, <2>3 DEF FileStates
  <2>4. CASE file = [exists |-> FALSE, val |-> Unparsable, len |-> 0, mtime |-> 0]
             /\ saved = {}
    BY <2>1, <2>2, <2>4 DEF FileStates
  <2>. QED  BY <1>1, <2>3, <2>4
<1>3. handler = [t \in Handlers |-> Resting]
  BY DEF ConfigInit
<1>4. handler \in [Handlers -> [pc : {"idle", "open", "write"}, list : Lists \cup {NoList}]]
  BY <1>3 DEF Resting
<1>5. ConfigTypeOK
  BY <1>2, <1>4 DEF ConfigInit, ConfigTypeOK, FileStates, Contents
<1>6. Requests
  BY <1>2, <1>3 DEF Requests, Resting
<1>7. Stamps /\ Loading
  BY <1>2 DEF ConfigInit, Stamps, Loading, CacheIsCoherent
<1>. QED  BY <1>5, <1>6, <1>7 DEF Inv

(* The file changes: it keeps its types, its mtime rises, and a load in    *)
(* progress may meet the new content.                                      *)
LEMMA FileChanges ==
  ASSUME Inv, NEW STATE f, ListChanged(f), UNCHANGED <<loadVars, restarts>>,
         f \in FileStates, f.exists = TRUE,
         handler' \in [Handlers -> [pc : {"idle", "open", "write"}, list : Lists \cup {NoList}]],
         \A t \in Handlers : handler'[t].pc # "idle" => handler'[t].list \in Lists,
         requests' = requests, saved' \subseteq UserLists
  PROVE  Inv'
<1>1. file' = [f EXCEPT !.mtime = file.mtime + 1] /\ file.mtime \in Nat
  BY FileTyped DEF ListChanged
<1>2. file.mtime + 1 \in Nat
  BY <1>1
<1>3. f.val \in Contents /\ f.len \in 0..Longest
  BY DEF FileStates
<1>4. /\ file' \in FileStates
      /\ file'.mtime = file.mtime + 1 /\ file'.val = f.val /\ file'.exists = TRUE
  BY <1>1, <1>2, <1>3 DEF FileStates
<1>5. held' = IF InLoad THEN held \cup {f.val} ELSE held
  BY DEF ListChanged
<1>6. held' \subseteq Contents
  <2>1. held \subseteq Contents
    BY DEF Inv, ConfigTypeOK, Contents
  <2>. QED  BY <1>3, <1>5, <2>1
<1>7. ConfigTypeOK'
  BY <1>4, <1>6 DEF Inv, ConfigTypeOK, loadVars, FileStates, Contents
<1>8. Requests'
  BY <1>4 DEF Requests
<1>9. Stamps'
  BY <1>1, <1>4 DEF Inv, ConfigTypeOK, Stamps, CacheIsCoherent, loadVars
<1>10. Loading'
  BY <1>4, <1>5 DEF Inv, Loading, loadVars
<1>. QED  BY <1>7, <1>8, <1>9, <1>10 DEF Inv

LEMMA NextInv == Inv /\ [ConfigNext]_configVars => Inv'
<1> SUFFICES ASSUME Inv, [ConfigNext]_configVars PROVE Inv'
  OBVIOUS
<1>1. ASSUME NEW t \in Handlers, NEW l \in UserLists, Put(t, l) PROVE Inv'
  BY <1>1 DEF Put, Inv, ConfigTypeOK, Requests, Stamps, Loading, CacheIsCoherent, Resting, loadVars
<1>2. ASSUME NEW t \in Handlers, Get(t) PROVE Inv'
  BY <1>2 DEF Get, Inv, ConfigTypeOK, Requests, Stamps, Loading, CacheIsCoherent, Resting, loadVars
<1>3. ASSUME NEW t \in Handlers, OpenList(t) PROVE Inv'
  <2> DEFINE f == [file EXCEPT !.exists = TRUE, !.val = Unparsable, !.len = 0]
  <2>0. Unparsable \in Contents /\ 0 \in 0..Longest
    BY DEF Contents
  <2>1. f \in FileStates /\ f.exists = TRUE
    BY <2>0, FileTyped DEF FileStates
  <2>2. handler' \in [Handlers -> [pc : {"idle", "open", "write"}, list : Lists \cup {NoList}]]
    BY <1>3 DEF OpenList, Inv, ConfigTypeOK
  <2>3. \A u \in Handlers : handler'[u].pc # "idle" => handler'[u].list \in Lists
    BY <1>3 DEF OpenList, Inv, ConfigTypeOK, Requests
  <2>4. requests' = requests /\ saved' \subseteq UserLists
    BY <1>3 DEF OpenList, Inv, ConfigTypeOK
  <2>5. ListChanged(f) /\ UNCHANGED <<loadVars, restarts>>
    BY <1>3 DEF OpenList
  <2>. QED  BY <2>1, <2>2, <2>3, <2>4, <2>5, FileChanges
<1>4. ASSUME NEW t \in Handlers, WriteList(t) PROVE Inv'
  <2> DEFINE l == handler[t].list
             f == Overwritten(l)
  <2>1. l \in Contents /\ l \in 0..Longest /\ file.exists = TRUE /\ Unparsable \in Contents
    BY <1>4 DEF WriteList, Inv, ConfigTypeOK, Requests, Contents
  <2>2. f \in FileStates /\ f.exists = TRUE
    <3>1. CASE file.len > l
      BY <2>1, <3>1, FileTyped DEF Overwritten, FileStates
    <3>2. CASE ~(file.len > l)
      BY <2>1, <3>2, FileTyped DEF Overwritten, FileStates
    <3>. QED  BY <3>1, <3>2
  <2>3. handler' \in [Handlers -> [pc : {"idle", "open", "write"}, list : Lists \cup {NoList}]]
    BY <1>4 DEF WriteList, Inv, ConfigTypeOK, Resting
  <2>4. \A u \in Handlers : handler'[u].pc # "idle" => handler'[u].list \in Lists
    BY <1>4 DEF WriteList, Inv, ConfigTypeOK, Requests, Resting
  <2>5. requests' = requests /\ saved' \subseteq UserLists
    BY <1>4 DEF WriteList, Inv, ConfigTypeOK
  <2>6. ListChanged(f) /\ UNCHANGED <<loadVars, restarts>>
    BY <1>4 DEF WriteList
  <2>. QED  BY <2>2, <2>3, <2>4, <2>5, <2>6, FileChanges
<1>5. ASSUME LoadStat PROVE Inv'
  <2>1. UNCHANGED <<file, serverVars, data, inv_mtime, inv_cache, restarts>>
    BY <1>5 DEF LoadStat
  <2>2. file.mtime \in Nat /\ file.val \in {Unparsable} \cup Lists
    BY DEF Inv, ConfigTypeOK
  <2>3. CASE /\ dpc = "idle" /\ dpc' = "cycle" /\ UNCHANGED <<mt, held>>
             /\ current' \in Lists \cup {Placeholder, NoList}
    BY <2>1, <2>3 DEF Inv, ConfigTypeOK, Requests, Stamps, Loading, CacheIsCoherent, serverVars
  <2>4. CASE /\ dpc = "idle" /\ mt' = file.mtime /\ dpc' = "read" /\ held' = {file.val}
             /\ UNCHANGED current
    BY <2>1, <2>2, <2>4 DEF Inv, ConfigTypeOK, Requests, Stamps, Loading, CacheIsCoherent, serverVars
  <2>. QED  BY <1>5, <2>3, <2>4 DEF LoadStat, Inv, ConfigTypeOK
<1>6. ASSUME LoadRead PROVE Inv'
  BY <1>6 DEF LoadRead, Inv, ConfigTypeOK, Requests, Stamps, Loading, CacheIsCoherent, serverVars
<1>7. ASSUME LoadReturn PROVE Inv'
  BY <1>7 DEF LoadReturn, Returned, Stamped, Inv, ConfigTypeOK, Requests, Stamps, Loading,
              CacheIsCoherent, serverVars
<1>8. ASSUME RestartDaemon PROVE Inv'
  BY <1>8 DEF RestartDaemon, Inv, ConfigTypeOK, Requests, Stamps, Loading,
              CacheIsCoherent, serverVars
<1>9. ASSUME EndCycle PROVE Inv'
  BY <1>9 DEF EndCycle, Inv, ConfigTypeOK, Requests, Stamps, Loading, CacheIsCoherent,
               serverVars
<1>10. ASSUME UNCHANGED configVars PROVE Inv'
  BY <1>10 DEF configVars, serverVars, loadVars, Inv, ConfigTypeOK, Requests, Stamps, Loading,
               CacheIsCoherent
<1>. QED
  BY <1>1, <1>2, <1>3, <1>4, <1>5, <1>6, <1>7, <1>8, <1>9, <1>10
  DEF ConfigNext, ServerStep, DaemonStep

(* Every variable keeps its type: in particular a load is answered with a  *)
(* list or the placeholder inverters, never with what does not parse.      *)
THEOREM TypeInvariant == ConfigSpec => []ConfigTypeOK
<1>1. Inv => ConfigTypeOK
  BY DEF Inv
<1>. QED  BY InitInv, NextInv, <1>1, PTL DEF ConfigSpec

(* A list cached under the mtime that inverters.json has now is the list   *)
(* in the file: load_inverters() may answer from the cache.                *)
THEOREM CacheTheorem == ConfigSpec => []CacheIsCoherent
<1>1. Inv => CacheIsCoherent
  BY DEF Inv, Stamps
<1>. QED  BY InitInv, NextInv, <1>1, PTL DEF ConfigSpec

-----------------------------------------------------------------------------
(* The refinement.  What the mapping shows of a state of the daemon.       *)
File  == "inverters.json"
Shown == [open |-> IF InLoad THEN {File} ELSE {},
          held |-> held,
          got  |-> IF dpc # "cycle" THEN {}
                   ELSE IF current = Placeholder THEN {Unparsable}
                   ELSE {current}]

(* The variables of FileReads.                                             *)
Mapped ==
  <<[f \in {"inverters.json"} |-> file.val],
    [r \in {"daemon"} |-> [open |-> IF InLoad THEN {"inverters.json"} ELSE {},
                           held |-> held,
                           got  |-> IF dpc # "cycle" THEN {}
                                    ELSE IF current = Placeholder THEN {Unparsable}
                                    ELSE {current}]]>>

(* A change of the file is one of FileReads.                               *)
LEMMA ChangeMaps ==
  ASSUME Inv, Inv', NEW STATE f, ListChanged(f), UNCHANGED loadVars,
         file'.val = f.val
  PROVE  Reads!Change(File, f.val)
<1>1. held' = IF InLoad THEN held \cup {f.val} ELSE held
  BY DEF ListChanged
<1>2. Shown' = IF File \in Shown.open THEN [Shown EXCEPT !.held = @ \cup {f.val}] ELSE Shown
  BY <1>1 DEF Shown, loadVars
<1>. QED  BY <1>2 DEF Reads!Change, Shown, File

(* Every step of the server and of the daemon is a step of FileReads, or   *)
(* shows in none of its variables.                                         *)
LEMMA StepMaps == Inv /\ Inv' /\ [ConfigNext]_configVars => Reads!Next \/ UNCHANGED <<file.val, Shown>>
<1> SUFFICES ASSUME Inv, Inv', [ConfigNext]_configVars
             PROVE  Reads!Next \/ UNCHANGED <<file.val, Shown>>
  OBVIOUS
<1> USE DEF File
<1>1. ASSUME NEW c \in Contents, Reads!Change(File, c) PROVE Reads!Next
  BY <1>1 DEF Reads!Next, Contents
<1>2. ASSUME Reads!Turn("daemon", File) \/ Reads!ReadAtOnce("daemon", File) PROVE Reads!Next
  BY <1>2 DEF Reads!Next
<1>3. ASSUME NEW t \in Handlers, OpenList(t) PROVE Reads!Next
  <2> DEFINE f == [file EXCEPT !.exists = TRUE, !.val = Unparsable, !.len = 0]
  <2>1. ListChanged(f) /\ UNCHANGED loadVars
    BY <1>3 DEF OpenList
  <2>0. Unparsable \in Contents /\ 0 \in 0..Longest
    BY DEF Contents
  <2>2. f \in FileStates /\ f.val = Unparsable
    BY <2>0, FileTyped DEF FileStates
  <2>3. file'.val = f.val
    BY <2>1, <2>2 DEF ListChanged, FileStates
  <2>4. f.val \in Contents
    BY <2>2 DEF Contents
  <2> HIDE DEF f
  <2>. QED  BY <2>1, <2>3, <2>4, <1>1, ChangeMaps
<1>4. ASSUME NEW t \in Handlers, WriteList(t) PROVE Reads!Next
  <2> DEFINE l == handler[t].list
             f == Overwritten(l)
  <2>1. ListChanged(f) /\ UNCHANGED loadVars
    BY <1>4 DEF WriteList
  <2>2. l \in Contents /\ l \in 0..Longest
    BY <1>4 DEF WriteList, Inv, ConfigTypeOK, Requests, Contents
  <2>3. f \in FileStates
    <3>1. CASE file.len > l
      BY <2>2, <3>1, FileTyped DEF Overwritten, FileStates, Contents
    <3>2. CASE ~(file.len > l)
      BY <2>2, <3>2, FileTyped DEF Overwritten, FileStates
    <3>. QED  BY <3>1, <3>2
  <2>4. file'.val = f.val /\ f.val \in Contents
    BY <2>1, <2>3 DEF ListChanged, FileStates
  <2> HIDE DEF f
  <2>. QED  BY <2>1, <2>4, <1>1, ChangeMaps
<1>5. ASSUME LoadStat PROVE Reads!Next
  <2>1. file' = file /\ dpc = "idle" /\ held = {} /\ file.val \in Contents
    BY <1>5 DEF LoadStat, Inv, ConfigTypeOK, Loading, Contents
  <2>4. Shown = [open |-> {}, held |-> {}, got |-> {}]
    BY <2>1 DEF Shown
  <2>2. CASE dpc' = "cycle" /\ held' = held /\ current' = IF file.val = Unparsable THEN Placeholder ELSE file.val
    <3>1. /\ current' # NoList
          /\ file.val = Unparsable => current' = Placeholder
          /\ file.val # Unparsable => current' # Placeholder /\ current' = file.val
      BY <2>1, <2>2 DEF Contents
    <3>2. Shown' = [open |-> {}, held |-> {}, got |-> {file.val}]
      <4> HIDE DEF Unparsable, Placeholder, NoList
      <4>. QED  BY <2>1, <2>2, <3>1 DEF Shown
    <3>3. Shown' = [Shown EXCEPT !.got = {file.val}] /\ Shown.open = {}
      BY <2>4, <3>2
    <3>4. Reads!ReadAtOnce("daemon", File)
      BY <2>1, <3>3 DEF Reads!ReadAtOnce, Shown
    <3>. QED  BY <3>4, <1>2
  <2>3. CASE dpc' = "read" /\ held' = {file.val} /\ current' = current
    <3>1. /\ Shown.open = {}
          /\ Shown' = [open |-> {File}, held |-> {file.val}, got |-> Shown.got]
      <4> HIDE DEF Unparsable, Placeholder, NoList
      <4>. QED  BY <2>1, <2>3 DEF Shown
    <3>2. Reads!Turn("daemon", File)
      BY <2>1, <3>1 DEF Reads!Turn, Shown
    <3>. QED  BY <3>2, <1>2
  <2>. QED
    BY <1>5, <2>2, <2>3 DEF LoadStat, CacheHit, Inv, ConfigTypeOK, Requests, Stamps, CacheIsCoherent
<1>6. ASSUME LoadReturn PROVE Reads!Next
  <2>1. data \in Contents /\ file' = file /\ dpc' = "cycle" /\ held' = {}
        /\ current' = IF data = Unparsable THEN Placeholder ELSE data
    BY <1>6 DEF LoadReturn, Returned, Inv, Loading, Contents
  <2>2. Shown' = [open |-> {}, held |-> {}, got |-> {data}]
    <3>1. /\ current' # NoList
          /\ data = Unparsable => current' = Placeholder
          /\ data # Unparsable => current' # Placeholder /\ current' = data
      BY <2>1 DEF Contents
    <3> HIDE DEF Unparsable, Placeholder, NoList
    <3>. QED  BY <2>1, <3>1 DEF Shown
  <2>3. Shown.open # {} /\ data \in Shown.held
    BY <1>6 DEF LoadReturn, Shown, Inv, Loading
  <2>4. Reads!Return("daemon", data)
    BY <2>1, <2>2, <2>3 DEF Reads!Return, Shown
  <2>. QED  BY <2>1, <2>4 DEF Reads!Next, Contents
<1>7. ASSUME RestartDaemon \/ EndCycle PROVE Reads!Next
  <2>1. Shown' = [open |-> {}, held |-> {}, got |-> {}] /\ file' = file
    BY <1>7 DEF RestartDaemon, EndCycle, Shown, Inv, Loading
  <2>2. Reads!Forget("daemon")
    BY <2>1 DEF Reads!Forget, Reads!Fresh, Shown
  <2>. QED  BY <2>2 DEF Reads!Next
<1>8. ASSUME UNCHANGED <<file, loadVars, held>> PROVE UNCHANGED <<file.val, Shown>>
  BY <1>8 DEF Shown, loadVars
<1>9. ASSUME LoadRead PROVE UNCHANGED <<file.val, Shown>>
  BY <1>9 DEF LoadRead, Shown
<1>10. ASSUME \/ \E t \in Handlers : Get(t) \/ \E l \in UserLists : Put(t, l)
              \/ UNCHANGED configVars
       PROVE  UNCHANGED <<file, loadVars, held>>
  BY <1>10 DEF Get, Put, configVars
<1>. QED
  BY <1>3, <1>4, <1>5, <1>6, <1>7, <1>8, <1>9, <1>10 DEF ConfigNext, ServerStep, DaemonStep

(* load_inverters() implements FileReads: for any number of threads and    *)
(* lists its cache cannot be told from reading the file every time.        *)
THEOREM RefinementTheorem == ConfigSpec => LoadsAreReads
<1>1. ConfigInit => Reads!Init
  <2> SUFFICES ASSUME ConfigInit PROVE Reads!Init
    OBVIOUS
  <2>1. Inv
    BY InitInv
  <2>2. file.val \in Contents
    BY <2>1 DEF Inv, ConfigTypeOK, Contents
  <2>3. Shown = [open |-> {}, held |-> {}, got |-> {}]
    BY DEF ConfigInit, Shown
  <2>. QED  BY <2>2, <2>3 DEF Reads!Init, Reads!Fresh, Shown, File, Contents
<1>2. Inv /\ Inv' /\ [ConfigNext]_configVars => [Reads!Next]_Mapped
  <2> SUFFICES ASSUME UNCHANGED <<file.val, Shown>> PROVE UNCHANGED Mapped
    BY StepMaps
  <2>. QED  BY DEF Mapped, Shown, File
<1>. QED  BY InitInv, NextInv, <1>1, <1>2, PTL DEF ConfigSpec, LoadsAreReads, Reads!Spec, Mapped
=============================================================================
