-------------------------- MODULE ActionQueueProofs --------------------------
(***************************************************************************)
(* Proofs about ActionQueue, for any number of handler threads, commands,  *)
(* kills and failures of the file system: its types and its three safety   *)
(* invariants.                                                             *)
(***************************************************************************)
EXTENDS ActionQueue, FiniteSetTheorems, TLAPS

USE ActionQueueAssumption DEF Torn

(* How often a command may go on the air again. *)
Again == kills + failures

Written(c) == \E t \in Threads : thread[t] # Idle /\ thread[t].id = c

(* Which commands there are, who is writing them, and under which name.    *)
Posts ==
  /\ \A c \in 1..posted : nameOf[c] \in Names /\ nameOf[c][1] <= sec
  /\ \A c, d \in 1..posted : d <= c => nameOf[d][1] <= nameOf[c][1]
  /\ \A c \in Ids : after[c] \subseteq acked /\ \A d \in after[c] : d < c
  /\ \A t \in Threads : thread[t] # Idle => thread[t].id \in (1..posted) \ acked
  /\ \A t, u \in Threads :
       (thread[t] # Idle /\ thread[u] # Idle /\ thread[t].id = thread[u].id) => t = u

(* A command is found in the file of its name alone, once it is written.   *)
HeldBy(c) == \E n \in DOMAIN files : files[n].content = c

Directory ==
  /\ IsFiniteSet(DOMAIN files)
  /\ \A n \in DOMAIN files : \E c \in 1..posted : nameOf[c] = n
  /\ \A n \in DOMAIN files, c \in Ids :
       files[n].content = c => c \in 1..posted /\ nameOf[c] = n /\ ~Written(c)

(* A pass works through files that are there, in their order: only the     *)
(* daemon removes any.                                                     *)
Pass ==
  /\ dpc \in {"idle", "list"} => todo = <<>>
  /\ dpc \in {"transmit", "record"} => todo # <<>>
  /\ dpc \in {"idle", "list", "pass"} => taken = Torn
  /\ dpc = "transmit" => taken # Torn
  /\ \A i \in 1..Len(todo) : todo[i] \in DOMAIN files
  /\ \A i, j \in 1..Len(todo) : i < j => Before(todo[i], todo[j])
  /\ \A c \in Ids :
       taken = c => c \in 1..posted /\ nameOf[c] = Head(todo) /\ ~Written(c)

(* A command that may still be transmitted; the one that was, and whose    *)
(* file is about to be unlinked, may not unless the daemon is killed or    *)
(* the unlink is not reached or fails.                                     *)
Alive(c) ==
  \/ c > posted
  \/ Written(c)
  \/ HeldBy(c) /\ ~(dpc = "record" /\ taken = c)
  \/ dpc = "transmit" /\ taken = c

OnTheAir ==
  \A c \in Ids : /\ Count(executed, c) <= Again + 1
                 /\ Alive(c) => Count(executed, c) <= Again

Traces ==
  /\ NothingVanishes
  /\ \A t \in Threads : (thread[t] # Idle /\ thread[t].ino # None) =>
       nameOf[thread[t].id] \in DOMAIN files \cup results \cup unrecorded

(* An older command, acknowledged before the newer one b was posted, is no *)
(* longer to be found once b has been transmitted; if it is to be found,   *)
(* no listing has b without it.                                            *)
Older(a, b) ==
  a \in after[b] /\ nameOf[a][2] = nameOf[b][2] /\ OwnName(b) /\ nameOf[a] \notin kept

Overtaken(a, b) ==
  /\ (\E k \in 1..Len(executed) : executed[k] = b) =>
       ~HeldBy(a) /\ ~(dpc = "transmit" /\ taken = a)
  /\ ((\E k \in 1..Len(todo) : todo[k] = nameOf[b]) /\ HeldBy(a)) =>
       \E k \in 1..Len(todo) : todo[k] = nameOf[a]

InOrder == \A b \in 1..posted, a \in Ids : Older(a, b) => Overtaken(a, b)

Inv ==
  /\ TypeOK /\ Posts /\ Directory /\ Pass
  /\ OnTheAir /\ Traces /\ InOrder /\ LatestCommandWins

-----------------------------------------------------------------------------
(* Names, counts and listings. *)

LEMMA NameFacts ==
  /\ \A n \in Names : n[1] \in Nat /\ n[2] \in Nat
  /\ \A m, n \in Names : (m[1] = n[1] /\ m[2] = n[2]) => m = n
  /\ \A m, n \in Names : Before(m, n) => m # n /\ ~Before(n, m)
  /\ \A m, n \in Names : (m # n /\ m[2] = n[2] /\ m[1] <= n[1]) => Before(m, n)
  /\ None \notin Ids
<1>1. ASSUME NEW n \in Names
      PROVE  n[1] \in Nat /\ n[2] \in Nat /\ n = <<n[1], n[2]>>
  <2>1. n = <<n[1], n[2]>> /\ n[1] \in 0..MaxSec /\ n[2] \in Targets
    BY DEF Names
  <2>. QED  BY <2>1 DEF ActionQueueAssumption
<1>2. None \notin Ids
  BY DEF Ids, ActionQueueAssumption
<1>3. \A m, n \in Names : (m[1] = n[1] /\ m[2] = n[2]) => m = n
  BY <1>1
<1> HIDE DEF Names
<1>4. \A m, n \in Names : Before(m, n) => m # n /\ ~Before(n, m)
  BY <1>1 DEF Before
<1>5. \A m, n \in Names : (m # n /\ m[2] = n[2] /\ m[1] <= n[1]) => Before(m, n)
  BY <1>1, <1>3 DEF Before
<1>. QED  BY <1>1, <1>2, <1>3, <1>4, <1>5

LEMMA SeqGrows ==
  ASSUME NEW S, NEW T, S \subseteq T, NEW s \in Seq(S)
  PROVE  s \in Seq(T) /\ \A k \in 1..Len(s) : s[k] \in S
  OBVIOUS

LEMMA CountFacts ==
  ASSUME NEW S, NEW s \in Seq(S), NEW c
  PROVE  /\ Count(s, c) \in Nat
         /\ \A x \in S : Count(Append(s, x), c) = Count(s, c) + (IF x = c THEN 1 ELSE 0)
         /\ (\A k \in 1..Len(s) : s[k] # c) => Count(s, c) = 0
<1> DEFINE K == {k \in 1..Len(s) : s[k] = c}
<1>1. IsFiniteSet(K) /\ Cardinality(K) \in Nat
  <2>1. IsFiniteSet(1..Len(s)) /\ K \in SUBSET (1..Len(s))
    BY FS_Interval
  <2> HIDE DEF K
  <2>2. IsFiniteSet(K)
    BY <2>1, FS_Subset
  <2>. QED  BY <2>2, FS_CardinalityType
<1>2. ASSUME NEW x \in S
      PROVE  Count(Append(s, x), c) = Count(s, c) + (IF x = c THEN 1 ELSE 0)
  <2> DEFINE L == {k \in 1..Len(Append(s, x)) : Append(s, x)[k] = c}
  <2>1. L = IF x = c THEN K \cup {Len(s) + 1} ELSE K
    OBVIOUS
  <2>2. Len(s) + 1 \notin K
    OBVIOUS
  <2>3. Count(Append(s, x), c) = Cardinality(L) /\ Count(s, c) = Cardinality(K)
    BY DEF Count
  <2> HIDE DEF K, L
  <2>4. Cardinality(K \cup {Len(s) + 1}) = Cardinality(K) + 1
    BY <1>1, <2>2, FS_AddElement
  <2>. QED  BY <1>1, <2>1, <2>3, <2>4
<1>3. (\A k \in 1..Len(s) : s[k] # c) => K = {}
  OBVIOUS
<1>4. Count(s, c) = Cardinality(K)
  BY DEF Count
<1> HIDE DEF K
<1>. QED  BY <1>1, <1>2, <1>3, <1>4, FS_EmptySet

(* The listing of a directory has every file, once.                        *)
LEMMA ListingFacts ==
  ASSUME IsFiniteSet(DOMAIN files), DOMAIN files \subseteq Names, NEW s \in Listings
  PROVE  /\ s \in Seq(Names)
         /\ \A i \in 1..Len(s) : s[i] \in DOMAIN files
         /\ \A i, j \in 1..Len(s) : i < j => Before(s[i], s[j])
         /\ \A n \in DOMAIN files : \E k \in 1..Len(s) : s[k] = n
<1> DEFINE D == DOMAIN files
           N == Cardinality(D)
<1>1. N \in Nat
  BY FS_CardinalityType
<1>2. /\ s \in [1..N -> D]
      /\ \A i, j \in 1..N : i < j => Before(s[i], s[j])
  BY DEF Listings
<1>3. s \in Seq(Names) /\ Len(s) = N
  BY <1>1, <1>2
<1>4. s \in Injection(1..N, D)
  <2>1. ASSUME NEW i \in 1..N, NEW j \in 1..N, s[i] = s[j] PROVE i = j
    <3>1. s[i] \in Names /\ s[j] \in Names
      BY <1>2
    <3>2. ~(i < j) /\ ~(j < i)
      BY <1>2, <2>1, <3>1, NameFacts
    <3>. QED  BY <1>1, <3>2
  <2>. QED  BY <1>2, <2>1 DEF Injection, IsInjective
<1>5. s \in Surjection(1..N, D)
  <2>1. Cardinality(1..N) = N
    BY <1>1, FS_Interval
  <2> HIDE DEF N, D
  <2>. QED  BY <1>4, <2>1, FS_Injection DEF N, D
<1>6. \A n \in D : \E k \in 1..N : s[k] = n
  BY <1>5 DEF Surjection
<1>. QED  BY <1>2, <1>3, <1>6

-----------------------------------------------------------------------------
(* The inductive invariant. *)

LEMMA InitInv == Init => Inv
<1> SUFFICES ASSUME Init PROVE Inv
  OBVIOUS
<1>1. /\ DOMAIN files = {} /\ IsFiniteSet({}) /\ executed = <<>> /\ todo = <<>> /\ posted = 0
      /\ acked = {} /\ taken = Torn /\ dpc = "idle"
      /\ \A t \in Threads : thread[t] = Idle
      /\ \A c \in Ids : after[c] = {}
  BY FS_EmptySet DEF Init
<1>2. \A c \in Ids : Count(executed, c) = 0
  <2>1. executed \in Seq(Ids) /\ Len(executed) = 0
    BY <1>1
  <2>2. \A c : \A k \in 1..Len(executed) : executed[k] # c
    BY <2>1
  <2>. QED  BY <2>1, <2>2, CountFacts
<1>3. TypeOK
  <2>1. files \in [DOMAIN files -> File] /\ executed \in Seq(1..posted) /\ todo \in Seq(Names)
    BY <1>1 DEF Init
  <2>2. thread \in [Threads -> {Idle} \cup [id : Ids, ino : Ids \cup {None}]]
    BY DEF Init
  <2>3. /\ sec \in 0..MaxSec /\ toggles \in 0..MaxToggles /\ kills \in 0..MaxKills
        /\ posted \in 0..MaxPosts /\ failures \in 0..MaxFailures
        /\ kept \subseteq Names /\ unrecorded \subseteq Names
    BY DEF Init, ActionQueueAssumption
  <2>4. nameOf \in [Ids -> Names \cup {None}] /\ after \in [Ids -> SUBSET Ids]
    BY DEF Init
  <2>. QED  BY <1>1, <2>1, <2>2, <2>3, <2>4 DEF TypeOK, Init
<1>4. Posts /\ Directory /\ Pass /\ Traces /\ LatestCommandWins
  <2>1. Torn \notin Ids
    BY DEF Ids
  <2>2. Posts /\ Traces
    BY <1>1 DEF Posts, Traces, NothingVanishes
  <2>3. Directory /\ Pass /\ LatestCommandWins
    BY <1>1, <2>1 DEF Directory, Pass, LatestCommandWins
  <2>. QED  BY <2>2, <2>3
<1>5. OnTheAir
  BY <1>2 DEF OnTheAir, Again, Init
<1>6. InOrder
  BY <1>1 DEF InOrder
<1>. QED  BY <1>3, <1>4, <1>5, <1>6 DEF Inv

(* What there is to know of a request, by its type.                        *)
LEMMA Typed ==
  ASSUME TypeOK
  PROVE  /\ posted \in Nat /\ posted <= MaxPosts /\ MaxPosts \in Nat /\ sec \in Nat /\ Again \in Nat
         /\ 1..posted \subseteq Ids /\ acked \subseteq 1..posted
         /\ \A t \in Threads : thread[t] # Idle => thread[t] \in [id : Ids, ino : Ids \cup {None}]
         /\ executed \in Seq(Ids) /\ \A k \in 1..Len(executed) : executed[k] \in 1..posted
         /\ todo \in Seq(Names) /\ taken \in Ids \cup {Torn} /\ Torn \notin Ids
         /\ DOMAIN files \subseteq Names
         /\ \A n \in DOMAIN files : files[n].content \in Ids \cup {Torn} /\ files[n].ino \in Ids
<1>1. posted \in Nat /\ posted <= MaxPosts /\ MaxPosts \in Nat /\ sec \in Nat /\ Again \in Nat
  BY DEF TypeOK, ActionQueueAssumption, Again
<1>2. 1..posted \subseteq Ids
  BY <1>1 DEF Ids
<1>3. \A n \in DOMAIN files : files[n] \in File
  BY DEF TypeOK
<1>4. \A n \in DOMAIN files : files[n].content \in Ids \cup {Torn} /\ files[n].ino \in Ids
  BY <1>3 DEF File
<1>5. executed \in Seq(Ids) /\ \A k \in 1..Len(executed) : executed[k] \in 1..posted
  <2>1. executed \in Seq(1..posted)
    BY DEF TypeOK
  <2>. QED  BY <1>2, <2>1, SeqGrows
<1>6. \A t \in Threads : thread[t] # Idle => thread[t] \in [id : Ids, ino : Ids \cup {None}]
  BY DEF TypeOK
<1>7. Torn \notin Ids
  BY DEF Ids
<1>. QED  BY <1>1, <1>2, <1>4, <1>5, <1>6, <1>7 DEF TypeOK

LEMMA PostStep ==
  ASSUME Inv, NEW t \in Threads, NEW tgt \in Targets, Post(t, tgt)
  PROVE  Inv'
<1> SUFFICES ASSUME NEW p \in Ids, p = posted + 1 PROVE Inv'
  BY Typed DEF Inv, Post, Ids
<1> USE DEF Inv
<1> HIDE DEF Names
<1>1. /\ posted \in Nat /\ p \in Ids /\ posted' = p /\ 1..posted \subseteq Ids
      /\ 1..p = (1..posted) \cup {p} /\ p \notin 1..posted /\ acked \subseteq 1..posted
  BY Typed DEF Post, Ids
<1>2. /\ nameOf' = [nameOf EXCEPT ![p] = <<sec, tgt>>] /\ <<sec, tgt>> \in Names
      /\ nameOf'[p] = <<sec, tgt>> /\ \A c \in 1..posted : nameOf'[c] = nameOf[c]
  <2>1. sec \in 0..MaxSec /\ <<sec, tgt>> \in Names
    BY DEF TypeOK, Names
  <2>. QED  BY <1>1, <2>1 DEF Post, RequestName, TypeOK
<1>3. /\ after' = [after EXCEPT ![p] = acked]
      /\ after'[p] = acked /\ \A c \in 1..posted : after'[c] = after[c]
  BY <1>1 DEF Post, TypeOK
<1>4. /\ thread[t] = Idle /\ thread' = [thread EXCEPT ![t] = [id |-> p, ino |-> None]]
      /\ thread'[t] = [id |-> p, ino |-> None] /\ thread'[t] # Idle
      /\ \A u \in Threads : u # t => thread'[u] = thread[u]
  BY <1>1, NameFacts DEF Post, TypeOK, Idle
<1>5. /\ UNCHANGED <<files, results, acked, dpc, todo, taken, executed, sec, kept, unrecorded>>
      /\ Again' = Again
  BY DEF Post, fsVars, daemonVars, envVars, failVars, Again
<1>6. \A c \in Ids : /\ Written(c)' <=> Written(c) \/ c = p
                     /\ HeldBy(c)' <=> HeldBy(c)
  <2>1. ASSUME NEW c \in Ids PROVE Written(c)' <=> Written(c) \/ c = p
    BY <1>4 DEF Written
  <2>. QED  BY <1>5, <2>1 DEF HeldBy
<1>7. TypeOK'
  <2>1. thread' \in [Threads -> {Idle} \cup [id : Ids, ino : Ids \cup {None}]]
    BY <1>1, <1>4 DEF TypeOK
  <2>2. executed' \in Seq(1..p)
    <3>1. executed \in Seq(1..posted) /\ 1..posted \subseteq 1..p
      BY <1>1 DEF TypeOK
    <3>2. executed \in Seq(1..p)
      BY <3>1, SeqGrows
    <3>. QED  BY <1>5, <3>2
  <2>3. posted' \in 0..MaxPosts /\ acked' \subseteq 1..p
    BY <1>1, <1>5 DEF Ids
  <2>4. nameOf' \in [Ids -> Names \cup {None}] /\ after' \in [Ids -> SUBSET Ids]
    BY <1>1, <1>2, <1>3 DEF TypeOK
  <2>. QED  BY <1>1, <2>1, <2>2, <2>3, <2>4 DEF Post, TypeOK, fsVars, daemonVars, envVars, failVars
<1>8. Posts'
  <2>1. \A c \in 1..p : nameOf'[c] \in Names /\ nameOf'[c][1] <= sec
    <3>1. nameOf'[p] \in Names /\ nameOf'[p][1] <= sec
      <4>1. <<sec, tgt>>[1] = sec /\ sec <= sec
        BY Typed
      <4>. QED  BY <1>2, <4>1
    <3>2. \A c \in 1..posted : nameOf'[c] \in Names /\ nameOf'[c][1] <= sec
      BY <1>2 DEF Posts
    <3>. QED  BY <1>1, <3>1, <3>2
  <2>2. \A c \in Ids : after'[c] \subseteq acked /\ \A d \in after'[c] : d < c
    <3>1. \A c \in Ids : c # p => after'[c] = after[c]
      BY <1>3 DEF TypeOK
    <3>2. \A d \in acked : d < p
      BY <1>1
    <3>. QED  BY <1>3, <3>1, <3>2 DEF Posts
  <2>3. \A u \in Threads : thread'[u] # Idle => thread'[u].id \in (1..p) \ acked
    BY <1>1, <1>4 DEF Posts
  <2>4. \A u, w \in Threads :
          (thread'[u] # Idle /\ thread'[w] # Idle /\ thread'[u].id = thread'[w].id) => u = w
    BY <1>1, <1>4 DEF Posts
  <2>5. \A c, d \in 1..p : d <= c => nameOf'[d][1] <= nameOf'[c][1]
    <3>1. nameOf'[p][1] = sec /\ sec \in Nat
      BY <1>2, Typed
    <3>. QED  BY <1>1, <1>2, <3>1 DEF Posts
  <2>. QED  BY <1>1, <1>5, <2>1, <2>2, <2>3, <2>4, <2>5 DEF Posts
<1>9. Directory'
  <2>1. \A n \in DOMAIN files : \E c \in 1..p : nameOf'[c] = n
    BY <1>1, <1>2 DEF Directory
  <2>2. \A n \in DOMAIN files, c \in Ids :
          files[n].content = c => c \in 1..p /\ nameOf'[c] = n /\ ~Written(c)'
    BY <1>1, <1>2, <1>6 DEF Directory
  <2>. QED  BY <1>1, <1>5, <2>1, <2>2 DEF Directory
<1>10. Pass'
  <2>1. \A c \in Ids : taken = c => c \in 1..posted' /\ nameOf'[c] = Head(todo) /\ ~Written(c)'
    BY <1>1, <1>2, <1>6 DEF Pass
  <2>. QED  BY <1>5, <2>1 DEF Pass, Before
<1>11. OnTheAir'
  <2>1. \A c \in Ids : Alive(c)' => Alive(c)
    BY <1>1, <1>5, <1>6 DEF Alive, Ids
  <2>2. \A c \in Ids : Count(executed, c)' = Count(executed, c)
    BY <1>5 DEF Count
  <2>3. \A c \in Ids : Count(executed, c) \in Nat
    BY Typed, CountFacts
  <2>. QED  BY <1>5, <2>1, <2>2, <2>3, Typed DEF OnTheAir
<1>12. Traces'
  <2>1. \A m : m \in DOMAIN files \cup results \cup unrecorded
                <=> m \in DOMAIN files' \cup results' \cup unrecorded'
    BY <1>5
  <2>2. \A c \in acked : nameOf'[c] = nameOf[c]
    BY <1>1, <1>2
  <2>3. \A u \in Threads : (thread'[u] # Idle /\ thread'[u].ino # None) =>
          thread'[u] = thread[u] /\ nameOf'[thread[u].id] = nameOf[thread[u].id]
    <3>1. ASSUME NEW u \in Threads, thread'[u] # Idle, thread'[u].ino # None
          PROVE  thread'[u] = thread[u] /\ thread[u].id \in 1..posted
      <4>1. u # t
        BY <1>4, <3>1
      <4>. QED  BY <1>4, <3>1, <4>1 DEF Posts
    <3>2. \A c \in 1..posted : nameOf'[c] = nameOf[c]
      BY <1>1, <1>2
    <3>. QED  BY <3>1, <3>2
  <2>4. acked' = acked
    BY <1>5
  <2>. QED  BY <2>1, <2>2, <2>3, <2>4 DEF Traces, NothingVanishes
<1>13. \A b \in 1..posted, a \in Ids : Older(a, b)' => Older(a, b)
  <2>1. \A b \in 1..posted, a \in Ids : a \in after'[b] => a \in after[b] /\ a \in 1..posted
    BY <1>1, <1>3 DEF Posts
  <2>2. \A b \in 1..posted : OwnName(b)' => OwnName(b)
    BY <1>1, <1>2 DEF OwnName
  <2> HIDE DEF OwnName
  <2>. QED  BY <1>2, <1>5, <2>1, <2>2 DEF Older
<1>14. InOrder'
  <2>1. ASSUME NEW b \in 1..posted, NEW a \in Ids, Older(a, b)' PROVE Overtaken(a, b)'
    <3>1. Overtaken(a, b)
      BY <1>13, <2>1 DEF InOrder
    <3>2. a \in 1..posted
      BY <1>1, <1>13, <2>1 DEF Older, Posts
    <3>. QED  BY <1>2, <1>5, <1>6, <3>1, <3>2 DEF Overtaken
  <2>2. ASSUME NEW a \in Ids, Older(a, p)' PROVE Overtaken(a, p)'
    <3>1. \A d \in 1..posted : nameOf[d] # nameOf'[p]
      BY <1>1, <1>2, <2>2 DEF Older, OwnName
    <3>2. \A k \in 1..Len(todo) : todo[k] # nameOf'[p]
      BY <3>1 DEF Pass, Directory
    <3>3. \A k \in 1..Len(executed) : executed[k] # p
      BY <1>1, Typed
    <3>. QED  BY <1>5, <3>2, <3>3 DEF Overtaken
  <2>. QED  BY <1>1, <2>1, <2>2 DEF InOrder
<1>15. LatestCommandWins'
  <2>1. \A k \in 1..Len(executed) : executed[k] \in 1..posted
    BY Typed
  <2>2. \A c \in 1..posted : OwnName(c)' => OwnName(c)
    BY <1>1, <1>2 DEF OwnName
  <2>3. \A k \in 1..Len(executed) : /\ nameOf'[executed[k]] = nameOf[executed[k]]
                                    /\ after'[executed[k]] = after[executed[k]]
                                    /\ OwnName(executed[k])' => OwnName(executed[k])
    BY <1>2, <1>3, <1>5, <2>1, <2>2
  <2>4. \A j \in 1..Len(executed) : \A i \in 1..(j - 1) : i \in 1..Len(executed)
    OBVIOUS
  <2> HIDE DEF OwnName
  <2>. QED  BY <1>5, <2>3, <2>4 DEF LatestCommandWins
<1>. QED  BY <1>7, <1>8, <1>9, <1>10, <1>11, <1>12, <1>14, <1>15

(* A thread opens or fills a file: the daemon finds no command that it     *)
(* would not have found, but those whose writing ends.                     *)
LEMMA ServerWrites ==
  ASSUME Inv, UNCHANGED <<posted, nameOf, after, daemonVars, executed, kept>>, Again' = Again,
         DOMAIN files \subseteq DOMAIN files',
         \A c \in Ids : Written(c)' => Written(c),
         \A c \in Ids : HeldBy(c)' => HeldBy(c) \/ Written(c)
  PROVE  Pass' /\ OnTheAir' /\ InOrder' /\ LatestCommandWins'
<1> USE DEF Inv
<1> HIDE DEF Names, Ids
<1>1. Pass'
  <2>1. \A i \in 1..Len(todo) : todo[i] \in DOMAIN files'
    BY DEF Pass
  <2>2. \A c \in Ids :
          taken = c => c \in 1..posted /\ nameOf[c] = Head(todo) /\ ~Written(c)'
    BY DEF Pass
  <2>. QED  BY <2>1, <2>2 DEF Pass, daemonVars, Before
<1>2. OnTheAir'
  <2>1. \A c \in Ids : Alive(c)' => Alive(c)
    BY DEF Alive, daemonVars
  <2>2. \A c \in Ids : Count(executed, c)' = Count(executed, c)
    BY DEF Count
  <2>. QED  BY <2>1, <2>2 DEF OnTheAir
<1>3. \A b \in 1..posted, a \in Ids :
        /\ Older(a, b)' <=> Older(a, b)
        /\ Older(a, b) => (HeldBy(a)' => HeldBy(a))
  <2>1. \A b \in 1..posted, a \in Ids : Older(a, b)' <=> Older(a, b)
    BY DEF Older, OwnName
  <2>2. ASSUME NEW b \in 1..posted, NEW a \in Ids, Older(a, b) PROVE ~Written(a)
    <3>1. a \in acked
      BY <2>2, Typed DEF Older, Posts
    <3>. QED  BY <3>1 DEF Posts, Written
  <2>. QED  BY <2>1, <2>2
<1>4. InOrder'
  <2>1. ASSUME NEW b \in 1..posted, NEW a \in Ids, Older(a, b)' PROVE Overtaken(a, b)'
    BY <1>3, <2>1 DEF InOrder, Overtaken, daemonVars
  <2>. QED  BY <2>1 DEF InOrder
<1>5. LatestCommandWins'
  BY DEF LatestCommandWins, OwnName
<1>. QED  BY <1>1, <1>2, <1>4, <1>5

LEMMA OpenRequestStep ==
  ASSUME Inv, NEW t \in Threads, OpenRequest(t)
  PROVE  Inv'
<1> USE DEF Inv
<1> HIDE DEF Names, Ids
<1>0. /\ thread[t] # Idle /\ thread[t] \in [id : Ids, ino : Ids \cup {None}]
      /\ thread[t].id \in (1..posted) \ acked /\ nameOf[thread[t].id] \in Names
      /\ thread[t].id \in Ids
  BY Typed DEF OpenRequest, Posts
<1> SUFFICES ASSUME NEW c \in Ids, c = thread[t].id,
                    NEW n \in Names, n = nameOf[c],
                    NEW ino \in Ids, ino = IF n \in DOMAIN files THEN files[n].ino ELSE c
             PROVE  Inv'
  BY <1>0, Typed
<1>1. /\ files' = [m \in DOMAIN files \cup {n} |->
                     IF m = n THEN [ino |-> ino, content |-> Torn] ELSE files[m]]
      /\ DOMAIN files' = DOMAIN files \cup {n}
      /\ files'[n] = [ino |-> ino, content |-> Torn]
      /\ \A m \in DOMAIN files : m # n => files'[m] = files[m]
  BY DEF OpenRequest
<1>2. /\ thread' = [thread EXCEPT ![t].ino = ino]
      /\ thread'[t] = [id |-> c, ino |-> ino] /\ thread'[t] # Idle
      /\ \A u \in Threads : u # t => thread'[u] = thread[u]
  <2>1. thread' = [thread EXCEPT ![t].ino = ino]
    BY DEF OpenRequest
  <2>2. thread'[t] = [thread[t] EXCEPT !.ino = ino] /\ \A u \in Threads : u # t => thread'[u] = thread[u]
    BY <2>1 DEF TypeOK
  <2>3. thread'[t] = [id |-> c, ino |-> ino]
    BY <1>0, <2>2
  <2>. QED  BY <2>1, <2>2, <2>3, NameFacts DEF Idle
<1>3. UNCHANGED <<results, posted, nameOf, after, acked, daemonVars, envVars, failVars, executed>>
  BY DEF OpenRequest
<1>4. \A d : Written(d)' <=> Written(d)
  BY <1>0, <1>2 DEF Written
<1>5. \A d \in Ids : HeldBy(d)' => HeldBy(d)
  BY <1>1 DEF HeldBy, Ids
<1>6. TypeOK'
  <2>1. files' \in [DOMAIN files' -> File] /\ DOMAIN files' \subseteq Names
    BY <1>1 DEF TypeOK, File
  <2>2. thread' \in [Threads -> {Idle} \cup [id : Ids, ino : Ids \cup {None}]]
    BY <1>2 DEF TypeOK
  <2>. QED  BY <1>3, <2>1, <2>2 DEF TypeOK, daemonVars, envVars, failVars
<1>7. Posts'
  BY <1>0, <1>2, <1>3 DEF Posts, envVars
<1>8. Directory'
  <2>1. IsFiniteSet(DOMAIN files')
    BY <1>1, FS_AddElement DEF Directory
  <2>2. \A m \in DOMAIN files' : \E d \in 1..posted : nameOf[d] = m
    BY <1>0, <1>1 DEF Directory
  <2>3. \A m \in DOMAIN files', d \in Ids :
          files'[m].content = d => d \in 1..posted /\ nameOf[d] = m /\ ~Written(d)'
    <3>1. \A d \in Ids : d # Torn
      BY DEF Ids
    <3>. QED  BY <1>1, <1>4, <3>1 DEF Directory
  <2>. QED  BY <1>3, <2>1, <2>2, <2>3 DEF Directory
<1>9. Traces'
  <2>1. \A m : m \in DOMAIN files \cup results \cup unrecorded
                => m \in DOMAIN files' \cup results' \cup unrecorded'
    BY <1>1, <1>3 DEF failVars
  <2>2. n \in DOMAIN files'
    BY <1>1
  <2>. QED  BY <1>0, <1>2, <1>3, <2>1, <2>2 DEF Traces, NothingVanishes
<1>. QED  BY <1>1, <1>3, <1>4, <1>5, <1>6, <1>7, <1>8, <1>9, ServerWrites DEF envVars, failVars, Again

LEMMA WriteRequestStep ==
  ASSUME Inv, NEW t \in Threads, WriteRequest(t)
  PROVE  Inv'
<1> USE DEF Inv
<1> HIDE DEF Names, Ids
<1>0. /\ thread[t] # Idle /\ thread[t].id \in (1..posted) \ acked /\ thread[t].id \in Ids
      /\ nameOf[thread[t].id] \in Names /\ thread[t].ino # None
  BY Typed DEF WriteRequest, Posts
<1> SUFFICES ASSUME NEW c \in Ids, c = thread[t].id, NEW n \in Names, n = nameOf[c]
             PROVE  Inv'
  BY <1>0
<1>1. /\ DOMAIN files' = DOMAIN files
      /\ \A m \in DOMAIN files :
           \/ files'[m] = files[m]
           \/ m = n /\ files'[m] = [ino |-> files[m].ino, content |-> c]
      /\ files' \in [DOMAIN files -> File]
  <2>1. CASE n \in DOMAIN files /\ files' = [files EXCEPT ![n].content = c]
    <3>1. files[n] \in [ino : Ids, content : Ids \cup {Torn}]
      BY <2>1 DEF TypeOK, File
    <3>2. files'[n] = [files[n] EXCEPT !.content = c] /\ DOMAIN files' = DOMAIN files
          /\ \A m \in DOMAIN files : m # n => files'[m] = files[m]
      BY <2>1 DEF TypeOK
    <3>3. files'[n] = [ino |-> files[n].ino, content |-> c]
      BY <3>1, <3>2
    <3>4. files'[n] \in File
      BY <3>1, <3>3 DEF File
    <3>5. files' \in [DOMAIN files -> File]
      BY <2>1, <3>2, <3>4 DEF TypeOK
    <3>. QED  BY <3>2, <3>3, <3>5
  <2>2. CASE files' = files
    BY <2>2 DEF TypeOK
  <2>. QED  BY <2>1, <2>2 DEF WriteRequest
<1>2. /\ thread' = [thread EXCEPT ![t] = Idle] /\ thread'[t] = Idle
      /\ \A u \in Threads : u # t => thread'[u] = thread[u]
  BY DEF WriteRequest, TypeOK
<1>3. /\ UNCHANGED <<results, posted, nameOf, after, daemonVars, envVars, failVars, executed>>
      /\ acked' = acked \cup {c}
  BY DEF WriteRequest
<1>4. \A d : Written(d)' => Written(d) /\ d # c
  BY <1>0, <1>2 DEF Written, Posts
<1>5. \A d \in Ids : HeldBy(d)' => HeldBy(d) \/ Written(d)
  <2>1. Written(c)
    BY <1>0 DEF Written
  <2>. QED  BY <1>1, <2>1 DEF HeldBy
<1>6. TypeOK'
  <2>1. thread' \in [Threads -> {Idle} \cup [id : Ids, ino : Ids \cup {None}]]
    BY <1>2 DEF TypeOK
  <2>2. acked' \subseteq 1..posted
    BY <1>0, <1>3 DEF TypeOK
  <2>. QED  BY <1>1, <1>3, <2>1, <2>2 DEF TypeOK, daemonVars, envVars, failVars
<1>7. Posts'
  BY <1>0, <1>2, <1>3 DEF Posts, envVars
<1>8. Directory'
  BY <1>0, <1>1, <1>3, <1>4 DEF Directory
<1>9. Traces'
  BY <1>0, <1>1, <1>2, <1>3 DEF Traces, NothingVanishes, failVars
<1>. QED  BY <1>1, <1>3, <1>4, <1>5, <1>6, <1>7, <1>8, <1>9, ServerWrites DEF envVars, failVars, Again

(* A step that touches no file.                                            *)
LEMMA FilesRest ==
  ASSUME Inv, UNCHANGED <<files, serverVars>>, sec' \in Nat, sec <= sec',
         results \subseteq results', unrecorded \subseteq unrecorded', kept \subseteq kept'
  PROVE  /\ Posts' /\ Directory' /\ Traces'
         /\ \A c : /\ Written(c)' <=> Written(c)
                   /\ HeldBy(c)' <=> HeldBy(c)
                   /\ OwnName(c)' <=> OwnName(c)
         /\ \A a, b : Older(a, b)' => Older(a, b)
<1> USE DEF Inv
<1> HIDE DEF Names, Ids
<1>1. Posts'
  <2>1. \A c \in 1..posted : nameOf[c][1] \in Nat
    BY NameFacts DEF Posts
  <2>. QED  BY <2>1, Typed DEF Posts, serverVars
<1>2. Directory' /\ Traces'
  BY DEF Directory, Traces, NothingVanishes, serverVars, Written
<1>3. \A c : /\ Written(c)' <=> Written(c)
             /\ HeldBy(c)' <=> HeldBy(c)
             /\ OwnName(c)' <=> OwnName(c)
  BY DEF Written, HeldBy, OwnName, serverVars
<1>4. \A a, b : Older(a, b)' => Older(a, b)
  BY <1>3 DEF Older, serverVars
<1>. QED  BY <1>1, <1>2, <1>3, <1>4

LEMMA OutsideStep ==
  ASSUME Inv,
         \/ ToggleOpen \/ ToggleWrite \/ Tick \/ EndPass \/ Kill
         \/ BeginPass \/ ReportFails \/ UNCHANGED vars
  PROVE  Inv'
<1> USE DEF Inv
<1> HIDE DEF Names, Ids
<1>0. /\ sec \in Nat /\ sec <= MaxSec /\ sec \in 0..MaxSec /\ MaxSec \in Nat
      /\ kills \in 0..MaxKills /\ failures \in 0..MaxFailures
      /\ kills < MaxKills => kills + 1 \in 0..MaxKills
      /\ failures < MaxFailures => failures + 1 \in 0..MaxFailures
      /\ toggles \in 0..MaxToggles /\ features \in {"on", "off", "torn"}
      /\ toggles < MaxToggles => toggles + 1 \in 0..MaxToggles
  <2>1. /\ sec \in 0..MaxSec /\ toggles \in 0..MaxToggles /\ features \in {"on", "off", "torn"}
        /\ kills \in 0..MaxKills /\ failures \in 0..MaxFailures
    BY DEF TypeOK
  <2>2. \A b \in Nat : \A n \in 0..b : n \in Nat /\ n <= b /\ (n < b => n + 1 \in 0..b)
    OBVIOUS
  <2>. QED  BY <2>1, <2>2 DEF ActionQueueAssumption
<1>10. /\ UNCHANGED <<fsVars, serverVars, executed, kept, unrecorded>>
      /\ sec' \in {sec, sec + 1} /\ (sec' = sec + 1 => sec < MaxSec)
      /\ kills' \in 0..MaxKills /\ failures' \in 0..MaxFailures
      /\ toggles' \in 0..MaxToggles /\ features' \in {"on", "off", "torn"}
  <2>1. CASE ToggleOpen \/ ToggleWrite
    BY <1>0, <2>1 DEF ToggleOpen, ToggleWrite, failVars
  <2>2. CASE Tick
    BY <1>0, <2>2 DEF Tick, failVars
  <2>3. CASE EndPass \/ BeginPass
    BY <1>0, <2>3 DEF EndPass, BeginPass, envVars, failVars
  <2>4. CASE Kill
    BY <1>0, <2>4 DEF Kill, failVars
  <2>5. CASE ReportFails
    BY <1>0, <2>5 DEF ReportFails, envVars
  <2>6. CASE UNCHANGED vars
    BY <1>0, <2>6 DEF vars, envVars, failVars
  <2>. QED  BY <2>1, <2>2, <2>3, <2>4, <2>5, <2>6
<1>1. /\ UNCHANGED <<fsVars, serverVars, executed, kept, unrecorded>>
      /\ sec' \in 0..MaxSec /\ sec <= sec'
      /\ kills' \in 0..MaxKills /\ failures' \in 0..MaxFailures
  BY <1>0, <1>10
<1>2. \/ UNCHANGED daemonVars /\ Again' = Again
      \/ /\ dpc' = "idle" /\ todo' = <<>> /\ taken' = Torn /\ armed' = FALSE /\ listed' = FALSE
         /\ dpc # "idle"
         /\ (Again' = Again + 1 \/ (dpc = "pass" /\ Again' = Again))
      \/ /\ dpc = "idle" /\ dpc' = "list" /\ UNCHANGED <<todo, taken>> /\ Again' = Again
         /\ armed' \in BOOLEAN /\ listed' \in BOOLEAN
  <2>1. /\ failures \in Nat /\ kills \in Nat
        /\ kills + 1 + failures = Again + 1 /\ kills + (failures + 1) = Again + 1
    BY DEF TypeOK, Again
  <2>2. CASE ToggleOpen \/ ToggleWrite \/ Tick \/ UNCHANGED vars
    BY <2>2 DEF ToggleOpen, ToggleWrite, Tick, vars, envVars, failVars, Again
  <2>3. CASE EndPass
    BY <2>3 DEF EndPass, envVars, failVars, Pass, Again
  <2>4. CASE Kill
    BY <2>1, <2>4 DEF Kill, failVars, Again
  <2>5. CASE ReportFails
    BY <2>1, <2>5 DEF ReportFails, envVars, Again
  <2>6. CASE BeginPass
    BY <2>6 DEF BeginPass, envVars, failVars, Again
  <2>. QED  BY <2>2, <2>3, <2>4, <2>5, <2>6
<1>3. sec' \in Nat /\ toggles' \in 0..MaxToggles /\ features' \in {"on", "off", "torn"}
  BY <1>0, <1>10
<1>4. TypeOK'
  <2>1. /\ todo' \in Seq(Names) /\ taken' \in Ids \cup {Torn}
        /\ armed' \in BOOLEAN /\ listed' \in BOOLEAN
        /\ dpc' \in {"idle", "list", "pass", "transmit", "record"}
    <3>1. CASE UNCHANGED daemonVars
      BY <3>1 DEF TypeOK, daemonVars
    <3>2. CASE dpc' = "idle" /\ todo' = <<>> /\ taken' = Torn /\ armed' = FALSE /\ listed' = FALSE
      <4>1. <<>> \in Seq(Names)
        OBVIOUS
      <4>2. todo' \in Seq(Names)
        BY <3>2, <4>1
      <4>3. armed' \in BOOLEAN /\ listed' \in BOOLEAN
        BY <3>2
      <4>. QED  BY <3>2, <4>2, <4>3
    <3>3. CASE dpc' = "list" /\ UNCHANGED <<todo, taken>> /\ armed' \in BOOLEAN /\ listed' \in BOOLEAN
      BY <3>3 DEF TypeOK
    <3>. QED  BY <1>2, <3>1, <3>2, <3>3
  <2>. QED  BY <1>1, <1>3, <2>1 DEF TypeOK, fsVars, serverVars
<1>5. Posts' /\ Directory' /\ Traces'
  BY <1>1, <1>3, FilesRest DEF fsVars
<1>6. Pass'
  <2>1. \A c : Written(c)' <=> Written(c)
    BY <1>1, <1>3, FilesRest DEF fsVars
  <2>2. CASE UNCHANGED daemonVars
    BY <1>1, <2>1, <2>2 DEF Pass, daemonVars, fsVars, serverVars, Before
  <2>3. CASE dpc' = "idle" /\ todo' = <<>> /\ taken' = Torn
    BY <2>3, Typed DEF Pass
  <2>4. CASE dpc = "idle" /\ dpc' = "list" /\ UNCHANGED <<todo, taken>>
    BY <1>1, <2>1, <2>4 DEF Pass, fsVars, serverVars, Before
  <2>. QED  BY <1>2, <2>2, <2>3, <2>4
<1>7. OnTheAir'
  <2>1. \A c \in Ids : Count(executed, c) \in Nat /\ Count(executed, c)' = Count(executed, c)
    <3>1. \A c \in Ids : Count(executed, c) \in Nat
      BY Typed, CountFacts
    <3>2. \A c \in Ids : Count(executed, c)' = Count(executed, c)
      BY <1>1 DEF Count
    <3>. QED  BY <3>1, <3>2
  <2>2. CASE Again' = Again + 1
    BY <2>1, <2>2, Typed DEF OnTheAir
  <2>3. CASE Again' # Again + 1
    <3>1. Again' = Again
      BY <1>2, <2>3
    <3>2. \A c \in Ids : Alive(c)' => Alive(c)
      BY <1>1, <1>2, <1>3, <2>3, FilesRest DEF Alive, serverVars, daemonVars, fsVars
    <3>. QED  BY <2>1, <3>1, <3>2 DEF OnTheAir
  <2>. QED  BY <2>2, <2>3
<1>8. InOrder'
  <2>1. ASSUME NEW b \in 1..posted, NEW a \in Ids, Older(a, b)' PROVE Overtaken(a, b)'
    <3>1. Overtaken(a, b) /\ (HeldBy(a)' <=> HeldBy(a))
      BY <1>1, <1>3, <2>1, FilesRest DEF InOrder, fsVars
    <3>. QED  BY <1>1, <1>2, <3>1 DEF Overtaken, daemonVars, serverVars
  <2>. QED  BY <1>1, <2>1 DEF InOrder, serverVars
<1>9. LatestCommandWins'
  BY <1>1 DEF LatestCommandWins, OwnName, serverVars
<1>. QED  BY <1>4, <1>5, <1>6, <1>7, <1>8, <1>9

LEMMA ListRequestsStep ==
  ASSUME Inv, ListRequests
  PROVE  Inv'
<1> USE DEF Inv
<1> HIDE DEF Names, Ids, Listings
<1>1. /\ UNCHANGED <<fsVars, serverVars, armed, listed, taken, envVars, failVars, executed>>
      /\ dpc = "list" /\ dpc' = "pass" /\ todo' \in Listings
  BY DEF ListRequests
<1>2. /\ todo' \in Seq(Names)
      /\ \A i \in 1..Len(todo') : todo'[i] \in DOMAIN files
      /\ \A i, j \in 1..Len(todo') : i < j => Before(todo'[i], todo'[j])
      /\ \A n \in DOMAIN files : \E k \in 1..Len(todo') : todo'[k] = n
  BY <1>1, ListingFacts, Typed DEF Directory
<1>3. sec' = sec /\ sec \in Nat /\ Again' = Again
  BY <1>1, Typed DEF envVars, failVars, Again
<1>4. Posts' /\ Directory' /\ Traces'
  BY <1>1, <1>3, FilesRest DEF fsVars, failVars
<1>5. TypeOK'
  <2>1. dpc' \in {"idle", "list", "pass", "transmit", "record"}
    BY <1>1
  <2>. QED  BY <1>1, <1>2, <2>1 DEF TypeOK, fsVars, serverVars, envVars, failVars
<1>6. Pass'
  <2>1. taken = Torn
    BY <1>1 DEF Pass
  <2>. QED  BY <1>1, <1>2, <2>1 DEF Pass, fsVars, Before
<1>7. OnTheAir'
  <2>1. \A c \in Ids : Count(executed, c)' = Count(executed, c)
    BY <1>1 DEF Count
  <2>2. \A c \in Ids : Alive(c)' => Alive(c)
    BY <1>1, <1>3, FilesRest DEF fsVars, failVars, Alive, serverVars
  <2>. QED  BY <1>3, <2>1, <2>2 DEF OnTheAir
<1>8. InOrder'
  <2>1. ASSUME NEW b \in 1..posted, NEW a \in Ids, Older(a, b)' PROVE Overtaken(a, b)'
    <3>1. Overtaken(a, b) /\ (HeldBy(a)' <=> HeldBy(a))
      BY <1>1, <1>3, <2>1, FilesRest DEF fsVars, failVars, InOrder
    <3>2. HeldBy(a) => nameOf[a] \in DOMAIN files
      BY <2>1 DEF HeldBy, Directory, Ids
    <3>. QED  BY <1>1, <1>2, <3>1, <3>2 DEF Overtaken, serverVars
  <2>. QED  BY <1>1, <2>1 DEF InOrder, serverVars
<1>9. LatestCommandWins'
  BY <1>1 DEF LatestCommandWins, OwnName, serverVars, failVars
<1>. QED  BY <1>4, <1>5, <1>6, <1>7, <1>8, <1>9

LEMMA TakeStep ==
  ASSUME Inv, Take
  PROVE  Inv'
<1> USE DEF Inv
<1> HIDE DEF Names, Ids
<1>1. /\ UNCHANGED <<fsVars, serverVars, todo, armed, listed, envVars, failVars, executed>>
      /\ dpc = "pass" /\ todo # <<>> /\ dpc' \in {"transmit", "record"}
      /\ dpc' = "transmit" => taken' # Torn
      /\ taken' \in {files[Head(todo)].content, Torn}
  BY DEF Take
<1>2. todo \in Seq(Names) /\ Head(todo) = todo[1] /\ Head(todo) \in DOMAIN files
  BY <1>1, Typed DEF Pass
<1>3. /\ taken' \in Ids \cup {Torn}
      /\ taken' # Torn => /\ HeldBy(taken') /\ taken' \in 1..posted
                          /\ nameOf[taken'] = Head(todo) /\ ~Written(taken')
  BY <1>1, <1>2, Typed DEF Directory, HeldBy
<1>4. sec' = sec /\ sec \in Nat /\ Again' = Again
  BY <1>1, Typed DEF envVars, failVars, Again
<1>5. Posts' /\ Directory' /\ Traces'
  BY <1>1, <1>4, FilesRest DEF fsVars, failVars
<1>6. TypeOK'
  <2>1. dpc' \in {"idle", "list", "pass", "transmit", "record"}
    BY <1>1
  <2>. QED  BY <1>1, <1>3, <2>1 DEF TypeOK, fsVars, serverVars, envVars, failVars
<1>7. Pass'
  BY <1>1, <1>2, <1>3 DEF Pass, fsVars, serverVars, Before, Written
<1>8. OnTheAir'
  <2>1. \A c \in Ids : Count(executed, c)' = Count(executed, c)
    BY <1>1 DEF Count
  <2>2. \A c \in Ids : Alive(c)' => Alive(c)
    <3>1. \A c \in Ids : c # Torn
      BY DEF Ids
    <3>. QED  BY <1>1, <1>3, <1>4, <3>1, FilesRest DEF fsVars, failVars, Alive, serverVars
  <2>. QED  BY <1>4, <2>1, <2>2 DEF OnTheAir
<1>9. InOrder'
  <2>1. ASSUME NEW b \in 1..posted, NEW a \in Ids, Older(a, b)' PROVE Overtaken(a, b)'
    <3>1. Overtaken(a, b) /\ (HeldBy(a)' <=> HeldBy(a))
      BY <1>1, <1>4, <2>1, FilesRest DEF fsVars, failVars, InOrder
    <3>2. taken' = a => HeldBy(a)
      BY <1>3 DEF Ids
    <3>. QED  BY <1>1, <3>1, <3>2 DEF Overtaken, serverVars
  <2>. QED  BY <1>1, <2>1 DEF InOrder, serverVars
<1>10. LatestCommandWins'
  BY <1>1 DEF LatestCommandWins, OwnName, serverVars, failVars
<1>. QED  BY <1>5, <1>6, <1>7, <1>8, <1>9, <1>10

LEMMA TransmitStep ==
  ASSUME Inv, Transmit
  PROVE  Inv'
<1> USE DEF Inv
<1> HIDE DEF Names, Ids
<1>1. /\ UNCHANGED <<fsVars, serverVars, todo, armed, listed, taken, envVars, failVars>>
      /\ dpc = "transmit" /\ dpc' = "record" /\ executed' = Append(executed, taken)
  BY DEF Transmit
<1>2. /\ todo \in Seq(Names) /\ todo # <<>> /\ Len(todo) \in Nat \ {0} /\ Head(todo) = todo[1]
      /\ taken \in 1..posted /\ taken \in Ids /\ nameOf[taken] = Head(todo) /\ ~Written(taken)
  <2>1. todo \in Seq(Names) /\ todo # <<>> /\ taken \in Ids
    BY <1>1, Typed DEF Pass
  <2>. QED  BY <2>1 DEF Pass
<1>3. sec' = sec /\ sec \in Nat /\ Again' = Again /\ Again \in Nat
  BY <1>1, Typed DEF envVars, failVars, Again
<1>4. /\ executed \in Seq(Ids) /\ executed' \in Seq(1..posted)
      /\ Len(executed) \in Nat /\ Len(executed') = Len(executed) + 1
      /\ \A k \in 1..Len(executed) : executed'[k] = executed[k]
      /\ executed'[Len(executed) + 1] = taken
  <2>1. executed \in Seq(1..posted)
    BY DEF TypeOK
  <2>. QED  BY <1>1, <1>2, <2>1, Typed
<1>5. Posts' /\ Directory' /\ Traces'
  BY <1>1, <1>3, FilesRest DEF fsVars, failVars
<1>6. TypeOK'
  <2>1. dpc' \in {"idle", "list", "pass", "transmit", "record"}
    BY <1>1
  <2>. QED  BY <1>1, <1>4, <2>1 DEF TypeOK, fsVars, serverVars, envVars, failVars
<1>7. Pass'
  BY <1>1 DEF Pass, fsVars, serverVars, Before, Written
<1>8. OnTheAir'
  <2>1. \A c \in Ids : /\ Count(executed, c) \in Nat
                       /\ Count(executed, c)' = Count(executed, c) + (IF taken = c THEN 1 ELSE 0)
    <3>1. \A c \in Ids : /\ Count(executed, c) \in Nat
                         /\ Count(Append(executed, taken), c)
                              = Count(executed, c) + (IF taken = c THEN 1 ELSE 0)
      BY <1>2, <1>4, CountFacts
    <3>2. \A c \in Ids : Count(executed, c)' = Count(Append(executed, taken), c)
      BY <1>1 DEF Count
    <3>. QED  BY <3>1, <3>2
  <2>2. \A c \in Ids : Alive(c)' => Alive(c) /\ c # taken
    <3>1. ~(taken > posted)
      BY <1>2, Typed
    <3>. QED  BY <1>1, <1>2, <1>3, <3>1, FilesRest DEF fsVars, failVars, Alive, serverVars
  <2>3. Alive(taken)
    BY <1>1 DEF Alive
  <2> HIDE DEF Alive
  <2>. QED  BY <1>2, <1>3, <2>1, <2>2, <2>3 DEF OnTheAir
<1>9. InOrder'
  <2>1. ASSUME NEW b \in 1..posted, NEW a \in Ids, Older(a, b)' PROVE Overtaken(a, b)'
    <3>1. Overtaken(a, b) /\ (HeldBy(a)' <=> HeldBy(a)) /\ Older(a, b)
      BY <1>1, <1>3, <2>1, FilesRest DEF fsVars, failVars, InOrder
    <3>2. CASE \E k \in 1..Len(executed) : executed[k] = b
      BY <1>1, <3>1, <3>2 DEF Overtaken, serverVars
    <3>3. CASE b = taken
      <4>1. SUFFICES ASSUME HeldBy(a) PROVE FALSE
        BY <1>1, <3>1 DEF Overtaken, serverVars
      <4>2. PICK k \in 1..Len(todo) : todo[k] = nameOf[a]
        BY <1>2, <3>1, <3>3, <4>1 DEF Overtaken
      <4>3. /\ a \in 1..posted /\ a < b
            /\ nameOf[a] \in Names /\ nameOf[b] \in Names
            /\ nameOf[a][1] <= nameOf[b][1] /\ nameOf[a][2] = nameOf[b][2]
        <5>1. a \in 1..posted /\ a < b /\ b \in 1..posted /\ b \in Ids
          BY <3>1, Typed DEF Older, Posts
        <5>. QED  BY <3>1, <5>1 DEF Older, Posts
      <4>4. nameOf[a] # nameOf[b]
        BY <3>1, <4>3 DEF Older, OwnName
      <4>5. Before(nameOf[a], nameOf[b]) /\ ~Before(nameOf[b], nameOf[a])
        BY <4>3, <4>4, NameFacts
      <4>6. k # 1 /\ 1 < k
        BY <1>2, <3>3, <4>2, <4>4
      <4>. QED  BY <1>2, <3>3, <4>2, <4>5, <4>6 DEF Pass
    <3>4. CASE /\ ~\E k \in 1..Len(executed) : executed[k] = b
               /\ b # taken
      <4>1. ~\E k \in 1..Len(executed') : executed'[k] = b
        BY <1>4, <3>4
      <4>. QED  BY <1>1, <3>1, <4>1 DEF Overtaken, serverVars
    <3>. QED  BY <3>2, <3>3, <3>4
  <2>. QED  BY <1>1, <2>1 DEF InOrder, serverVars
<1>10. LatestCommandWins'
  <2>1. ASSUME NEW i \in 1..Len(executed),
               nameOf[executed[i]][2] = nameOf[taken][2], OwnName(executed[i]),
               nameOf[taken] \notin kept
        PROVE  taken \notin after[executed[i]]
    <3>1. executed[i] \in 1..posted
      BY <2>1, Typed
    <3>2. ~Older(taken, executed[i])
      BY <1>1, <1>2, <2>1, <3>1 DEF InOrder, Overtaken
    <3>. QED  BY <2>1, <3>2 DEF Older
  <2>2. ASSUME NEW j \in 1..Len(executed'), NEW i \in 1..(j - 1),
               nameOf[executed'[i]][2] = nameOf[executed'[j]][2], OwnName(executed'[i]),
               nameOf[executed'[j]] \notin kept
        PROVE  executed'[j] \notin after[executed'[i]]
    <3>1. CASE j = Len(executed) + 1
      <4>1. i \in 1..Len(executed)
        BY <1>4, <3>1
      <4>. QED  BY <1>4, <2>1, <2>2, <3>1, <4>1
    <3>2. CASE j # Len(executed) + 1
      <4>1. j \in 1..Len(executed) /\ i \in 1..Len(executed)
        BY <1>4, <3>2
      <4>. QED  BY <1>4, <2>2, <4>1 DEF LatestCommandWins
    <3>. QED  BY <3>1, <3>2
  <2>3. nameOf' = nameOf /\ after' = after /\ posted' = posted /\ kept' = kept
    BY <1>1 DEF serverVars, failVars
  <2>. QED  BY <2>2, <2>3 DEF LatestCommandWins, OwnName
<1>. QED  BY <1>5, <1>6, <1>7, <1>8, <1>9, <1>10

(* What either ending of _write_action_result() does but for the file.     *)
LEMMA RecordFacts ==
  ASSUME Inv, Record
  PROVE  /\ UNCHANGED <<serverVars, armed, listed, envVars, executed>>
         /\ dpc = "record" /\ dpc' = "pass" /\ taken' = Torn /\ todo' = Tail(todo)
         /\ results' \cup unrecorded' = results \cup unrecorded \cup {Head(todo)}
         /\ results \subseteq results' /\ unrecorded \subseteq unrecorded'
         /\ results' \subseteq Names /\ unrecorded' \subseteq Names
         /\ \/ files' = Remaining /\ UNCHANGED <<failures, kept>>
            \/ /\ files' = files /\ kept' = kept \cup {Head(todo)}
               /\ failures < MaxFailures /\ failures' = failures + 1
         /\ todo \in Seq(Names) /\ todo # <<>> /\ Head(todo) \in Names
<1> USE DEF Inv
<1> HIDE DEF Names, Ids
<1>1. todo \in Seq(Names) /\ todo # <<>>
  BY Typed DEF Record, Pass
<1>2. Head(todo) \in Names
  BY <1>1
<1>3. \/ results' = results \cup {Head(todo)} /\ unrecorded' = unrecorded
      \/ results' = results /\ unrecorded' = unrecorded \cup {Head(todo)}
  BY DEF Record, Recorded
<1>4. /\ results' \cup unrecorded' = results \cup unrecorded \cup {Head(todo)}
      /\ results \subseteq results' /\ unrecorded \subseteq unrecorded'
      /\ results' \subseteq Names /\ unrecorded' \subseteq Names
  BY <1>2, <1>3 DEF TypeOK
<1>. QED  BY <1>1, <1>2, <1>4 DEF Record

(* The unlink succeeds. *)
LEMMA RemovedStep ==
  ASSUME Inv, Record, files' = Remaining, UNCHANGED <<failures, kept>>
  PROVE  Inv'
<1> USE DEF Inv
<1> HIDE DEF Names, Ids
<1>1. /\ UNCHANGED <<serverVars, armed, listed, envVars, executed, failures, kept>>
      /\ dpc = "record" /\ dpc' = "pass" /\ taken' = Torn /\ todo' = Tail(todo)
      /\ results' \cup unrecorded' = results \cup unrecorded \cup {Head(todo)}
      /\ results' \subseteq Names /\ unrecorded' \subseteq Names
      /\ files' = [n \in DOMAIN files \ {Head(todo)} |-> files[n]]
  BY RecordFacts DEF Remaining
<1>2. /\ todo \in Seq(Names) /\ todo # <<>> /\ Len(todo) \in Nat \ {0} /\ Head(todo) = todo[1]
      /\ todo[1] \in DOMAIN files /\ todo[1] \in Names
      /\ taken # Torn => nameOf[taken] = todo[1]
  <2>1. todo \in Seq(Names) /\ todo # <<>>
    BY <1>1, Typed DEF Pass
  <2>2. Len(todo) \in Nat \ {0} /\ Head(todo) = todo[1] /\ todo[1] \in Names
    BY <2>1
  <2>3. taken # Torn => nameOf[taken] = todo[1]
    BY <2>2, Typed DEF Pass
  <2>. QED  BY <2>1, <2>2, <2>3 DEF Pass
<1>3. /\ todo' \in Seq(Names) /\ Len(todo') = Len(todo) - 1
      /\ \A k \in 1..Len(todo') : todo'[k] = todo[k + 1]
  BY <1>1, <1>2
<1>4. /\ DOMAIN files' = DOMAIN files \ {todo[1]}
      /\ \A n \in DOMAIN files' : files'[n] = files[n]
  BY <1>1, <1>2
<1>5. sec' = sec /\ sec \in Nat /\ Again' = Again
  BY <1>1, Typed DEF envVars, Again
<1>6. \A c \in Ids : /\ Written(c)' <=> Written(c)
                     /\ HeldBy(c)' => HeldBy(c) /\ c # taken
  <2>1. \A c : Written(c)' <=> Written(c)
    BY <1>1 DEF Written, serverVars
  <2>2. ASSUME NEW c \in Ids, NEW n \in DOMAIN files', files'[n].content = c
        PROVE  HeldBy(c) /\ c # taken
    <3>1. n \in DOMAIN files /\ files[n].content = c /\ c # Torn /\ n # todo[1]
      BY <1>4, <2>2 DEF Ids
    <3>2. nameOf[c] = n
      BY <3>1 DEF Directory
    <3>. QED  BY <1>2, <3>1, <3>2 DEF HeldBy
  <2>. QED  BY <2>1, <2>2 DEF HeldBy
<1>7. TypeOK'
  <2>1. files' \in [DOMAIN files' -> File] /\ DOMAIN files' \subseteq Names
    BY <1>1, <1>4 DEF TypeOK
  <2>2. dpc' \in {"idle", "list", "pass", "transmit", "record"}
    BY <1>1
  <2>. QED  BY <1>1, <1>3, <2>1, <2>2 DEF TypeOK, serverVars, envVars
<1>8. Posts'
  BY <1>1, <1>5 DEF Posts, serverVars
<1>9. Directory'
  <2>1. IsFiniteSet(DOMAIN files')
    BY <1>4, FS_Subset DEF Directory
  <2>2. \A c : Written(c)' <=> Written(c)
    BY <1>1 DEF Written, serverVars
  <2>3. \A m \in DOMAIN files' : \E d \in 1..posted : nameOf[d] = m
    BY <1>4 DEF Directory
  <2>4. \A m \in DOMAIN files', d \in Ids :
          files'[m].content = d => d \in 1..posted /\ nameOf[d] = m /\ ~Written(d)'
    BY <1>4, <2>2 DEF Directory
  <2>. QED  BY <1>1, <2>1, <2>3, <2>4 DEF Directory, serverVars
<1>10. Pass'
  <2>1. \A i \in 1..Len(todo') : todo'[i] \in DOMAIN files'
    <3>1. ASSUME NEW i \in 1..Len(todo') PROVE todo'[i] \in DOMAIN files'
      <4>1. i + 1 \in 1..Len(todo) /\ 1 \in 1..Len(todo) /\ 1 < i + 1 /\ todo'[i] = todo[i + 1]
        BY <1>2, <1>3
      <4>2. Before(todo[1], todo[i + 1]) /\ todo[i + 1] \in DOMAIN files /\ todo[i + 1] \in Names
        BY <1>2, <4>1 DEF Pass
      <4>. QED  BY <1>2, <1>4, <4>1, <4>2, NameFacts
    <3>. QED  BY <3>1
  <2>2. \A i, j \in 1..Len(todo') : i < j => Before(todo'[i], todo'[j])
    <3>1. ASSUME NEW i \in 1..Len(todo'), NEW j \in 1..Len(todo'), i < j
          PROVE  Before(todo'[i], todo'[j])
      <4>1. /\ i + 1 \in 1..Len(todo) /\ j + 1 \in 1..Len(todo) /\ i + 1 < j + 1
            /\ todo'[i] = todo[i + 1] /\ todo'[j] = todo[j + 1]
        BY <1>2, <1>3, <3>1
      <4>. QED  BY <4>1 DEF Pass
    <3>. QED  BY <3>1
  <2>. QED  BY <1>1, <2>1, <2>2, Typed DEF Pass, Before
<1>11. OnTheAir'
  <2>1. \A c \in Ids : Count(executed, c)' = Count(executed, c)
    BY <1>1 DEF Count
  <2>2. \A c \in Ids : Alive(c)' => Alive(c)
    BY <1>1, <1>6 DEF Alive, serverVars
  <2>. QED  BY <1>5, <2>1, <2>2 DEF OnTheAir
<1>12. Traces'
  <2>1. \A n : n \in DOMAIN files \cup results \cup unrecorded
                => n \in DOMAIN files' \cup results' \cup unrecorded'
    <3>1. results \cup unrecorded \cup {todo[1]} = results' \cup unrecorded'
      BY <1>1, <1>2
    <3>. QED  BY <1>4, <3>1
  <2>. QED  BY <1>1, <2>1 DEF Traces, NothingVanishes, serverVars
<1>13. InOrder'
  <2>1. ASSUME NEW b \in 1..posted, NEW a \in Ids, Older(a, b)' PROVE Overtaken(a, b)'
    <3>1. Overtaken(a, b)
      <4>1. Older(a, b)
        BY <1>1, <2>1 DEF Older, OwnName, serverVars
      <4>. QED  BY <4>1 DEF InOrder
    <3>2. ASSUME NEW k \in 1..Len(todo'), todo'[k] = nameOf[b], HeldBy(a)'
          PROVE  \E l \in 1..Len(todo') : todo'[l] = nameOf[a]
      <4>1. k + 1 \in 1..Len(todo) /\ todo[k + 1] = nameOf[b]
        BY <1>2, <1>3, <3>2
      <4>2. PICK l \in 1..Len(todo) : todo[l] = nameOf[a]
        BY <1>6, <3>1, <3>2, <4>1 DEF Overtaken
      <4>3. nameOf[a] # todo[1]
        <5>1. PICK n \in DOMAIN files' : files'[n].content = a
          BY <3>2 DEF HeldBy
        <5>2. n \in DOMAIN files /\ files[n].content = a /\ a # Torn /\ n # todo[1]
          BY <1>4, <5>1 DEF Ids
        <5>. QED  BY <5>2 DEF Directory
      <4>4. l - 1 \in 1..Len(todo') /\ todo'[l - 1] = todo[l]
        BY <1>2, <1>3, <4>2, <4>3
      <4>. QED  BY <4>2, <4>4
    <3>3. HeldBy(a)' => HeldBy(a)
      BY <1>6
    <3>. QED  BY <1>1, <3>1, <3>2, <3>3 DEF Overtaken, serverVars
  <2>. QED  BY <1>1, <2>1 DEF InOrder, serverVars
<1>14. LatestCommandWins'
  BY <1>1 DEF LatestCommandWins, OwnName, serverVars
<1>. QED  BY <1>7, <1>8, <1>9, <1>10, <1>11, <1>12, <1>13, <1>14

(* The unlink fails: the file stays, under a name that counts as kept.     *)
LEMMA KeptStep ==
  ASSUME Inv, Record, files' = files, kept' = kept \cup {Head(todo)},
         failures < MaxFailures, failures' = failures + 1
  PROVE  Inv'
<1> USE DEF Inv
<1> HIDE DEF Names, Ids
<1>1. /\ UNCHANGED <<files, serverVars, armed, listed, envVars, executed>>
      /\ dpc = "record" /\ dpc' = "pass" /\ taken' = Torn /\ todo' = Tail(todo)
      /\ results \subseteq results' /\ unrecorded \subseteq unrecorded'
      /\ results' \subseteq Names /\ unrecorded' \subseteq Names
      /\ kept \subseteq kept' /\ kept' \subseteq Names
  BY RecordFacts DEF TypeOK
<1>2. /\ todo \in Seq(Names) /\ todo # <<>> /\ Len(todo) \in Nat \ {0} /\ Head(todo) = todo[1]
  BY RecordFacts
<1>3. /\ todo' \in Seq(Names) /\ Len(todo') = Len(todo) - 1
      /\ \A k \in 1..Len(todo') : k + 1 \in 1..Len(todo) /\ todo'[k] = todo[k + 1]
  BY <1>1, <1>2
<1>4. sec' = sec /\ sec \in Nat /\ Again' = Again + 1 /\ failures' \in 0..MaxFailures
  <2>1. sec' = sec /\ sec \in Nat /\ kills' = kills
    BY <1>1, Typed DEF envVars
  <2>2. kills \in Nat /\ failures \in Nat /\ failures' \in 0..MaxFailures
    BY DEF TypeOK, ActionQueueAssumption
  <2>. QED  BY <2>1, <2>2 DEF Again
<1>5. Posts' /\ Directory' /\ Traces'
  BY <1>1, <1>4, FilesRest
<1>6. TypeOK'
  <2>1. dpc' \in {"idle", "list", "pass", "transmit", "record"}
    BY <1>1
  <2>. QED  BY <1>1, <1>3, <1>4, <2>1 DEF TypeOK, serverVars, envVars
<1>7. Pass'
  <2>1. \A i \in 1..Len(todo') : todo'[i] \in DOMAIN files
    BY <1>3 DEF Pass
  <2>2. \A i, j \in 1..Len(todo') : i < j => Before(todo'[i], todo'[j])
    <3>1. ASSUME NEW i \in 1..Len(todo'), NEW j \in 1..Len(todo'), i < j
          PROVE  Before(todo'[i], todo'[j])
      <4>1. /\ i + 1 \in 1..Len(todo) /\ j + 1 \in 1..Len(todo) /\ i + 1 < j + 1
            /\ todo'[i] = todo[i + 1] /\ todo'[j] = todo[j + 1]
        BY <1>2, <1>3, <3>1
      <4>. QED  BY <4>1 DEF Pass
    <3>. QED  BY <3>1
  <2>. QED  BY <1>1, <2>1, <2>2, Typed DEF Pass, Before
<1>8. OnTheAir'
  <2>1. \A c \in Ids : Count(executed, c) \in Nat
    BY Typed, CountFacts
  <2>2. \A c \in Ids : Count(executed, c)' = Count(executed, c)
    BY <1>1 DEF Count
  <2>. QED  BY <1>4, <2>1, <2>2, Typed DEF OnTheAir
<1>9. InOrder'
  <2>1. ASSUME NEW b \in 1..posted, NEW a \in Ids, Older(a, b)' PROVE Overtaken(a, b)'
    <3>1. Overtaken(a, b) /\ (HeldBy(a)' <=> HeldBy(a))
      BY <1>1, <1>4, <2>1, FilesRest DEF InOrder
    <3>2. nameOf[a] # todo[1]
      BY <1>1, <1>2, <2>1 DEF Older, serverVars
    <3>3. ASSUME NEW k \in 1..Len(todo'), todo'[k] = nameOf[b], HeldBy(a)
          PROVE  \E l \in 1..Len(todo') : todo'[l] = nameOf[a]
      <4>1. PICK l \in 1..Len(todo) : todo[l] = nameOf[a]
        BY <1>3, <3>1, <3>3 DEF Overtaken
      <4>2. l - 1 \in 1..Len(todo') /\ todo'[l - 1] = todo[l]
        BY <1>2, <1>3, <3>2, <4>1
      <4>. QED  BY <4>1, <4>2
    <3>. QED  BY <1>1, <3>1, <3>3 DEF Overtaken, serverVars
  <2>. QED  BY <1>1, <2>1 DEF InOrder, serverVars
<1>10. LatestCommandWins'
  BY <1>1 DEF LatestCommandWins, OwnName, serverVars
<1>. QED  BY <1>5, <1>6, <1>7, <1>8, <1>9, <1>10

LEMMA NextInv == Inv /\ [Next]_vars => Inv'
<1> SUFFICES ASSUME Inv, [Next]_vars PROVE Inv'
  OBVIOUS
<1>1. ASSUME NEW t \in Threads, ServerStep(t) \/ \E tgt \in Targets : Post(t, tgt)
      PROVE  Inv'
  BY <1>1, PostStep, OpenRequestStep, WriteRequestStep DEF ServerStep
<1>2. CASE ListRequests \/ Take \/ Transmit
  BY <1>2, ListRequestsStep, TakeStep, TransmitStep
<1>3. CASE Record
  BY <1>3, RecordFacts, RemovedStep, KeptStep
<1>4. CASE \/ ToggleOpen \/ ToggleWrite \/ Tick \/ EndPass \/ Kill
           \/ BeginPass \/ ReportFails \/ UNCHANGED vars
  BY <1>4, OutsideStep
<1>. QED  BY <1>1, <1>2, <1>3, <1>4 DEF Next, DaemonStep

(* The inductive invariant: files hold commands under their own name, a    *)
(* pass walks files that exist, and no command that was transmitted is     *)
(* still to be found - nor one that a transmitted command has superseded.  *)
THEOREM InductiveInvariant == Spec => []Inv
BY InitInv, NextInv, PTL DEF Spec

(* Every variable keeps its type. *)
THEOREM TypeInvariant == Spec => []TypeOK
<1>1. Inv => TypeOK
  BY DEF Inv
<1>. QED  BY <1>1, InductiveInvariant, PTL

(* process_pending_actions() replays no command without a reason: it goes  *)
(* on the air once, and once more for each kill, each unlink() that fails  *)
(* and each report that raises before the unlink.                          *)
THEOREM ReplayTheorem == Spec => []ReplaysAreExplained
<1>1. Inv => ReplaysAreExplained
  <2> HIDE DEF Ids
  <2>1. Inv => Again \in Nat /\ 1 + kills + failures = Again + 1
    BY DEF Inv, TypeOK, Again
  <2>2. Inv => \A c \in Ids : Count(executed, c) <= Again + 1
    BY DEF Inv, OnTheAir
  <2>. QED  BY <2>1, <2>2 DEF ReplaysAreExplained
<1>. QED  BY <1>1, InductiveInvariant, PTL

(* The newest command for an inverter is the last one on the air: none     *)
(* acknowledged before it was posted follows it, whatever the interleaving *)
(* of handler threads, passes, kills and failed records, if its file name  *)
(* is its own and no unlink() failed on the older one's.                   *)
THEOREM LatestCommandTheorem == Spec => []LatestCommandWins
<1>1. Inv => LatestCommandWins
  BY DEF Inv
<1>. QED  BY <1>1, InductiveInvariant, PTL

(* A request that was answered with "queued" leaves a file or a result     *)
(* record, whatever the daemon read of it and whenever it was killed or    *)
(* failed to report, or its record is one that could not be written.       *)
THEOREM NothingVanishesTheorem == Spec => []NothingVanishes
<1>1. Inv => NothingVanishes
  BY DEF Inv, Traces
<1>. QED  BY <1>1, InductiveInvariant, PTL
=============================================================================
