---------------------------- MODULE BridgeProofs ----------------------------
(***************************************************************************)
(* Proofs about Bridge, for any list of inverters, any overheard traffic   *)
(* and any number of cycles.                                               *)
(***************************************************************************)
EXTENDS Bridge, FiniteSetTheorems, SequenceTheorems, WellFoundedInduction, TLAPS

-----------------------------------------------------------------------------
(* Packets and the order of polling. *)

LEMMA OrderFacts ==
  /\ Len(Order) \in Nat
  /\ \A k \in 1..Len(Order) : Order[k] \in Polled
  /\ MaxCycles \in Nat \ {0}
<1>1. Order \in Seq(Polled) /\ MaxCycles \in Nat \ {0}
  BY BridgeAssumption
<1>. QED  BY <1>1

LEMMA PacketFacts ==
  /\ \A i \in Polled, n \in 1..MaxCycles :
       /\ Reply(i, n) \in Frames /\ Reply(i, n) \in Packets
       /\ Reply(i, n).type = "rx" /\ Reply(i, n).src = i /\ Reply(i, n).cycle = n
  /\ \A n \in 1..MaxCycles : /\ Info(n) \in Packets
                             /\ Info(n).type = "info" /\ Info(n).cycle = n
  /\ \A f \in Foreign : /\ Other(f) \in Frames /\ Other(f) \in Packets
                        /\ Other(f).type = "other" /\ Other(f).src = f
  /\ \A p \in Frames : p \in Packets /\ p.type # "info"
  /\ \A p \in Packets :
       /\ p.cycle \in Nat
       /\ p.type = "rx" => /\ p.src \in Polled /\ p.cycle \in 1..MaxCycles
                           /\ p = Reply(p.src, p.cycle)
       /\ p.type = "info" => p.cycle \in 1..MaxCycles /\ p = Info(p.cycle)
       /\ p.type \notin {"rx", "info"} => p.src \in Foreign /\ p = Other(p.src)
<1>1. \A n \in 1..MaxCycles : n \in Nat
  BY OrderFacts
<1>2. /\ \A i \in Polled, n \in 1..MaxCycles :
           /\ Reply(i, n) \in Frames /\ Reply(i, n) \in Packets
           /\ Reply(i, n).type = "rx" /\ Reply(i, n).src = i /\ Reply(i, n).cycle = n
      /\ \A n \in 1..MaxCycles : /\ Info(n) \in Packets
                                 /\ Info(n).type = "info" /\ Info(n).cycle = n
      /\ \A f \in Foreign : /\ Other(f) \in Frames /\ Other(f) \in Packets
                            /\ Other(f).type = "other" /\ Other(f).src = f
  <2>1. /\ \A i \in Polled, n \in 1..MaxCycles : Reply(i, n) \in Frames
        /\ \A f \in Foreign : Other(f) \in Frames
    BY DEF Frames
  <2>2. \A n \in 1..MaxCycles : Info(n) \in Packets
    BY DEF Packets
  <2>3. Frames \subseteq Packets
    BY DEF Packets
  <2>4. \A i, n : Reply(i, n).type = "rx" /\ Reply(i, n).src = i /\ Reply(i, n).cycle = n
    BY DEF Reply
  <2>5. \A n : Info(n).type = "info" /\ Info(n).cycle = n
    BY DEF Info
  <2>6. \A f : Other(f).type = "other" /\ Other(f).src = f
    BY DEF Other
  <2>. QED  BY <2>1, <2>2, <2>3, <2>4, <2>5, <2>6
<1>3. \A p \in Frames : p \in Packets /\ p.type # "info"
  BY DEF Packets, Frames, Reply, Info, Other
<1>4. ASSUME NEW p \in Packets
      PROVE  /\ p.cycle \in Nat
             /\ p.type = "rx" => /\ p.src \in Polled /\ p.cycle \in 1..MaxCycles
                                 /\ p = Reply(p.src, p.cycle)
             /\ p.type = "info" => p.cycle \in 1..MaxCycles /\ p = Info(p.cycle)
             /\ p.type \notin {"rx", "info"} => p.src \in Foreign /\ p = Other(p.src)
  <2>1. ASSUME NEW i \in Polled, NEW n \in 1..MaxCycles, p = Reply(i, n)
        PROVE  p.type = "rx" /\ p.src = i /\ p.cycle = n
    BY <2>1 DEF Reply
  <2>2. ASSUME NEW n \in 1..MaxCycles, p = Info(n)
        PROVE  p.type = "info" /\ p.cycle = n
    BY <2>2 DEF Info
  <2>3. ASSUME NEW f \in Foreign, p = Other(f)
        PROVE  p.type = "other" /\ p.src = f /\ p.cycle = 0
    BY <2>3 DEF Other
  <2>4. \/ \E i \in Polled, n \in 1..MaxCycles : p = Reply(i, n)
        \/ \E n \in 1..MaxCycles : p = Info(n)
        \/ \E f \in Foreign : p = Other(f)
    BY DEF Packets, Frames
  <2> HIDE DEF Reply, Info, Other, Packets
  <2>. QED  BY <1>1, <2>1, <2>2, <2>3, <2>4
<1>. QED  BY <1>2, <1>3, <1>4

-----------------------------------------------------------------------------
(* Sequences of packets. *)

In(s, p) == \E k \in 1..Len(s) : s[k] = p

LEMMA InFacts ==
  ASSUME NEW S, NEW s \in Seq(S), NEW t \in Seq(S)
  PROVE  /\ \A p : In(s \o t, p) <=> In(s, p) \/ In(t, p)
         /\ \A p : \A x \in S : In(Append(s, x), p) <=> In(s, p) \/ p = x
         /\ \A p : In(s, p) => p \in S
         /\ \A p : ~In(<<>>, p)
<1>1. ASSUME NEW p PROVE In(s \o t, p) <=> In(s, p) \/ In(t, p)
  <2>1. /\ Len(s \o t) = Len(s) + Len(t) /\ Len(s) \in Nat /\ Len(t) \in Nat
        /\ \A k \in 1..Len(s) : (s \o t)[k] = s[k]
        /\ \A k \in (Len(s) + 1)..(Len(s) + Len(t)) : (s \o t)[k] = t[k - Len(s)]
    OBVIOUS
  <2>2. ASSUME NEW k \in 1..Len(t), t[k] = p PROVE In(s \o t, p)
    <3>1. Len(s) + k \in (Len(s) + 1)..(Len(s) + Len(t)) /\ (Len(s) + k) - Len(s) = k
      BY <2>1
    <3>2. (s \o t)[Len(s) + k] = p
      BY <2>1, <2>2, <3>1
    <3>3. Len(s) + k \in 1..Len(s \o t)
      BY <2>1
    <3>. QED  BY <3>2, <3>3 DEF In
  <2>3. ASSUME NEW k \in 1..Len(s), s[k] = p PROVE In(s \o t, p)
    BY <2>1, <2>3 DEF In
  <2>4. ASSUME NEW k \in 1..Len(s \o t), (s \o t)[k] = p PROVE In(s, p) \/ In(t, p)
    <3>1. CASE k <= Len(s)
      BY <2>1, <2>4, <3>1 DEF In
    <3>2. CASE ~(k <= Len(s))
      <4>1. k - Len(s) \in 1..Len(t) /\ k \in (Len(s) + 1)..(Len(s) + Len(t))
        BY <2>1, <3>2
      <4>. QED  BY <2>1, <2>4, <4>1 DEF In
    <3>. QED  BY <3>1, <3>2
  <2>. QED  BY <2>2, <2>3, <2>4 DEF In
<1>2. ASSUME NEW p, NEW x \in S PROVE In(Append(s, x), p) <=> In(s, p) \/ p = x
  BY DEF In
<1>3. \A p : In(s, p) => p \in S
  BY DEF In
<1>4. \A p : ~In(<<>>, p)
  BY DEF In
<1>. QED  BY <1>1, <1>2, <1>3, <1>4

LEMMA NothingIn == \A p : ~In(<<>>, p) /\ Count(<<>>, p) = 0
<1>1. \A p : ~In(<<>>, p)
  BY DEF In
<1>2. \A p : Count(<<>>, p) = 0
  <2> TAKE p
  <2>1. {k \in 1..Len(<<>>) : <<>>[k] = p} = {}
    OBVIOUS
  <2>. QED  BY <2>1, FS_EmptySet, Zenon DEF Count
<1>. QED  BY <1>1, <1>2

LEMMA CountFacts ==
  ASSUME NEW S, NEW s \in Seq(S), NEW p
  PROVE  /\ Count(s, p) \in Nat
         /\ In(s, p) <=> Count(s, p) >= 1
         /\ \A n \in Nat : Count(SubSeq(s, 1, n), p) <= Count(s, p) \/ n > Len(s)
<1> DEFINE K == {k \in 1..Len(s) : s[k] = p}
<1>1. IsFiniteSet(K) /\ Cardinality(K) \in Nat /\ Count(s, p) = Cardinality(K)
  <2>1. IsFiniteSet(1..Len(s)) /\ K \in SUBSET (1..Len(s))
    BY FS_Interval
  <2>2. Count(s, p) = Cardinality(K)
    BY DEF Count
  <2> HIDE DEF K
  <2>3. IsFiniteSet(K)
    BY <2>1, FS_Subset
  <2>. QED  BY <2>2, <2>3, FS_CardinalityType
<1>2. In(s, p) <=> K # {}
  BY DEF In
<1>3. ASSUME NEW n \in Nat, n <= Len(s)
      PROVE  Count(SubSeq(s, 1, n), p) <= Count(s, p)
  <2> DEFINE L == {k \in 1..Len(SubSeq(s, 1, n)) : SubSeq(s, 1, n)[k] = p}
  <2>1. L \in SUBSET K
    BY <1>3
  <2>2. Count(SubSeq(s, 1, n), p) = Cardinality(L)
    BY DEF Count
  <2> HIDE DEF K, L
  <2>. QED  BY <1>1, <2>1, <2>2, FS_Subset
<1> HIDE DEF K
<1>4. K = {} <=> Cardinality(K) = 0
  BY <1>1, FS_EmptySet
<1>5. In(s, p) <=> Count(s, p) >= 1
  BY <1>1, <1>2, <1>4
<1>6. \A n \in Nat : Count(SubSeq(s, 1, n), p) <= Count(s, p) \/ n > Len(s)
  BY <1>3
<1>. QED  BY <1>1, <1>5, <1>6

LEMMA CountConcat ==
  ASSUME NEW S, NEW s \in Seq(S), NEW t \in Seq(S), NEW p
  PROVE  Count(s \o t, p) = Count(s, p) + Count(t, p)
<1> DEFINE K == {k \in 1..Len(s) : s[k] = p}
           L == {k \in 1..Len(t) : t[k] = p}
           M == {k \in (Len(s) + 1)..(Len(s) + Len(t)) : t[k - Len(s)] = p}
           U == {k \in 1..Len(s \o t) : (s \o t)[k] = p}
<1>1. /\ Len(s \o t) = Len(s) + Len(t) /\ Len(s) \in Nat /\ Len(t) \in Nat
      /\ \A k \in 1..Len(s) : (s \o t)[k] = s[k]
      /\ \A k \in (Len(s) + 1)..(Len(s) + Len(t)) : (s \o t)[k] = t[k - Len(s)]
  OBVIOUS
<1>2. U = K \cup M /\ K \cap M = {}
  BY <1>1
<1>3. IsFiniteSet(K) /\ IsFiniteSet(L)
  <2>1. IsFiniteSet(1..Len(s)) /\ IsFiniteSet(1..Len(t))
    BY <1>1, FS_Interval
  <2>2. K \in SUBSET (1..Len(s)) /\ L \in SUBSET (1..Len(t))
    OBVIOUS
  <2> HIDE DEF K, L
  <2>. QED  BY <2>1, <2>2, FS_Subset
<1>4. IsFiniteSet(M) /\ Cardinality(M) = Cardinality(L)
  <2> DEFINE f == [k \in L |-> Len(s) + k]
  <2>1. f \in Bijection(L, M)
    <3>1. f \in [L -> M]
      BY <1>1
    <3>2. \A a, b \in L : f[a] = f[b] => a = b
      BY <1>1
    <3>3. ASSUME NEW m \in M PROVE \E a \in L : f[a] = m
      <4>1. m \in (Len(s) + 1)..(Len(s) + Len(t)) /\ t[m - Len(s)] = p
        OBVIOUS
      <4>2. m - Len(s) \in 1..Len(t) /\ Len(s) + (m - Len(s)) = m
        BY <1>1, <4>1
      <4>3. m - Len(s) \in L
        BY <4>1, <4>2
      <4>. QED  BY <4>2, <4>3
    <3> HIDE DEF f, L, M
    <3>. QED  BY <3>1, <3>2, <3>3 DEF Bijection, Injection, Surjection, IsInjective
  <2> HIDE DEF f, L, M
  <2>. QED  BY <1>3, <2>1, FS_Bijection DEF ExistsBijection
<1>5. Count(s \o t, p) = Cardinality(U) /\ Count(s, p) = Cardinality(K) /\ Count(t, p) = Cardinality(L)
  BY DEF Count
<1> HIDE DEF K, L, M, U
<1>6. Cardinality(K \cup M) = Cardinality(K) + Cardinality(M) - Cardinality({})
  BY <1>2, <1>3, <1>4, FS_Union
<1>7. Cardinality(K) \in Nat /\ Cardinality(M) \in Nat /\ Cardinality({}) = 0
  BY <1>3, <1>4, FS_CardinalityType, FS_EmptySet
<1>. QED  BY <1>2, <1>4, <1>5, <1>6, <1>7
LEMMA CountAppend ==
  ASSUME NEW S, NEW s \in Seq(S), NEW x \in S, NEW p
  PROVE  /\ p # x => Count(Append(s, x), p) = Count(s, p)
         /\ ~In(s, p) => Count(Append(s, x), p) <= 1
<1>1. /\ Len(Append(s, x)) = Len(s) + 1 /\ Len(s) \in Nat
      /\ \A k \in 1..Len(s) : Append(s, x)[k] = s[k]
      /\ Append(s, x)[Len(s) + 1] = x
  OBVIOUS
<1> DEFINE U == {k \in 1..Len(Append(s, x)) : Append(s, x)[k] = p}
<1>2. Count(Append(s, x), p) = Cardinality(U)
  BY DEF Count
<1>3. ASSUME p # x PROVE Count(Append(s, x), p) = Count(s, p)
  <2>1. U = {k \in 1..Len(s) : s[k] = p}
    BY <1>1, <1>3
  <2>. QED  BY <2>1 DEF Count
<1>4. ASSUME ~In(s, p) PROVE Count(Append(s, x), p) <= 1
  <2>1. U \in SUBSET {Len(s) + 1}
    BY <1>1, <1>4 DEF In
  <2>2. IsFiniteSet({Len(s) + 1}) /\ Cardinality({Len(s) + 1}) = 1
    BY FS_Singleton
  <2> HIDE DEF U
  <2>3. Cardinality(U) <= 1
    BY <2>1, <2>2, FS_Subset
  <2>. QED  BY <1>2, <2>3
<1>. QED  BY <1>3, <1>4

-----------------------------------------------------------------------------
(* A nonempty set of numbers has a least one. *)
Smaller == {p \in Nat \X Nat : p[1] < p[2]}

LEMMA HasMinimum ==
  ASSUME NEW S \in SUBSET Nat, S # {}
  PROVE  \E x \in S : \A y \in S : x <= y
<1>1. IsWellFoundedOn(Smaller, Nat)
  BY NatLessThanWellFounded DEF OpToRel, Smaller
<1>2. \E x \in S : \A y \in S : <<y, x>> \notin Smaller
  BY <1>1, WFMin, Zenon
<1>3. PICK x \in S : \A y \in S : <<y, x>> \notin Smaller
  BY <1>2
<1>4. \A y \in S : ~(y < x)
  BY <1>3 DEF Smaller
<1>. QED  BY <1>4

(* What a batch changes of the best payload. *)
LEMMA BestFacts ==
  ASSUME NEW b \in Seq(Packets), NEW c \in BestOf(b)
  PROVE  c = best \/ (c \in Packets /\ In(b, c) /\ c.type = "rx")
<1>1. CASE c # best
  <2>1. PICK k \in 1..Len(b) : c = b[k] /\ b[k].type = "rx"
    BY <1>1 DEF BestOf
  <2>2. b[k] \in Packets
    OBVIOUS
  <2>. QED  BY <2>1, <2>2 DEF In
<1>. QED  BY <1>1

-----------------------------------------------------------------------------
(* Type correctness. *)

(* What a reader of the stream takes: the batch, its parts and what a ping *)
(* puts back are sequences of packets.                                     *)
LEMMA BatchType ==
  ASSUME BridgeTypeOK
  PROVE  /\ Batch \in Seq(Packets)
         /\ \A k \in 1..Len(Batch) : /\ Batch[k] \in Packets
                                     /\ SubSeq(Batch, 1, k - 1) \in Seq(Packets)
         /\ \A l \in Seq(Packets) : /\ leftover \o l \in Seq(Packets)
                                    /\ pending \o l \in Seq(Packets)
                                    /\ delivered \o l \in Seq(Packets)
                                    /\ PutBack(l) \in Seq(Packets)
<1>1. /\ pending \in Seq(Packets) /\ wire \in Seq(Packets)
      /\ leftover \in Seq(Packets) /\ delivered \in Seq(Packets)
  BY DEF BridgeTypeOK
<1>2. \A s, t \in Seq(Packets) : s \o t \in Seq(Packets)
  OBVIOUS
<1>3. Batch \in Seq(Packets)
  BY <1>1 DEF Batch
<1>4. \A k \in 1..Len(Batch) : Batch[k] \in Packets /\ SubSeq(Batch, 1, k - 1) \in Seq(Packets)
  BY <1>3
<1>. QED  BY <1>1, <1>2, <1>3, <1>4 DEF PutBack

(* Only an inverter of the list is listened for. *)
Listening == stage = "listen" => who <= Len(Order)

LEMMA TypeInit == BridgeInit => BridgeTypeOK /\ Listening
<1> SUFFICES ASSUME BridgeInit PROVE BridgeTypeOK /\ Listening
  OBVIOUS
<1>1. <<>> \in Seq(Packets)
  OBVIOUS
<1>2. used \in [Polled -> {None} \cup [packet : Packets, cycle : 1..MaxCycles]]
  BY DEF BridgeInit
<1>3. 1 \in 1..MaxCycles /\ 0 \in 0..MaxCycles /\ 1 \in 1..(Len(Order) + 1)
  BY OrderFacts
<1>. QED  BY <1>1, <1>2, <1>3 DEF BridgeInit, BridgeTypeOK, Listening

LEMMA TypeNext == BridgeTypeOK /\ Listening /\ [BridgeNext]_bridgeVars => BridgeTypeOK'
<1> SUFFICES ASSUME BridgeTypeOK, Listening, [BridgeNext]_bridgeVars PROVE BridgeTypeOK'
  OBVIOUS
<1> USE OrderFacts
<1>1. CASE TxPoll
  <2>1. Order[who] \in Polled /\ cycle \in 1..MaxCycles
    BY <1>1 DEF TxPoll, BridgeTypeOK
  <2>2. Reply(Order[who], cycle) \in Packets
    BY <2>1, PacketFacts
  <2>. QED  BY <1>1, <2>2 DEF TxPoll, BridgeTypeOK, objVars
<1>2. CASE Listen
  <2>1. best' \in Packets \cup {None}
    BY <1>2, BatchType, BestFacts DEF Listen, BridgeTypeOK
  <2>2. delivered' \in Seq(Packets)
    BY <1>2, BatchType DEF Listen
  <2>3. wire' \in Seq(Packets) /\ pending' = <<>> /\ pending' \in Seq(Packets)
    BY <1>2 DEF Listen, Emptied
  <2>. QED  BY <1>2, <2>1, <2>2, <2>3 DEF Listen, Emptied, BridgeTypeOK
<1>3. CASE ListenEnd
  <2>1. used' \in [Polled -> {None} \cup [packet : Packets, cycle : 1..MaxCycles]]
    <3>1. CASE best = None
      BY <1>3, <3>1 DEF ListenEnd, BridgeTypeOK
    <3>2. CASE best # None
      <4>1. [packet |-> best, cycle |-> cycle] \in [packet : Packets, cycle : 1..MaxCycles]
        BY <3>2 DEF BridgeTypeOK
      <4>2. used' = [used EXCEPT ![Order[who]] = [packet |-> best, cycle |-> cycle]]
        BY <1>3, <3>2 DEF ListenEnd
      <4>. QED  BY <4>1, <4>2 DEF BridgeTypeOK
    <3>. QED  BY <3>1, <3>2
  <2>2. who' \in 1..(Len(Order) + 1)
    BY <1>3 DEF ListenEnd, BridgeTypeOK, Listening
  <2>. QED  BY <1>3, <2>1, <2>2 DEF ListenEnd, BridgeTypeOK, objVars, linkVars
<1>4. CASE SendPing
  <2>1. Info(cycle) \in Packets
    BY PacketFacts DEF BridgeTypeOK
  <2>. QED  BY <1>4, <2>1 DEF SendPing, BridgeTypeOK
<1>5. CASE PingReads
  <2>1. leftover' \in Seq(Packets)
    BY <1>5, BatchType DEF PingReads
  <2>2. wire' \in Seq(Packets) /\ pending' = <<>> /\ pending' \in Seq(Packets)
    BY <1>5 DEF PingReads, Emptied
  <2>. QED  BY <1>5, <2>1, <2>2 DEF PingReads, Emptied, BridgeTypeOK, pollVars
<1>6. CASE PingAnswered
  <2>1. PICK k \in 1..Len(Batch) :
          /\ IsInfo(Batch[k])
          /\ LET l == leftover \o SubSeq(Batch, 1, k - 1)
             IN  /\ pending' = PutBack(l)
                 /\ hasPending' = (hasPending \/ l # <<>>)
                 /\ due' = due \ ({Batch[j] : j \in (k + 1)..Len(Batch)}
                                    \ {l[j] : j \in 1..Len(l)})
          /\ pong' = Batch[k].cycle
    BY <1>6 DEF PingAnswered
  <2> DEFINE l == leftover \o SubSeq(Batch, 1, k - 1)
  <2>2. l \in Seq(Packets) /\ PutBack(l) \in Seq(Packets) /\ Batch[k] \in Packets
    BY BatchType
  <2>3. pong' \in 0..MaxCycles
    <3>1. Batch[k].cycle \in 1..MaxCycles
      BY <2>1, <2>2, PacketFacts DEF IsInfo
    <3>. QED  BY <2>1, <3>1
  <2>4. ~hasPending' => pending' = <<>>
    <3> SUFFICES ASSUME ~hasPending' PROVE pending' = <<>>
      OBVIOUS
    <3>1. ~hasPending /\ l = <<>>
      BY <2>1
    <3>. QED  BY <2>1, <3>1 DEF PutBack
  <2>5. due' \subseteq Frames /\ hasPending' \in BOOLEAN
    <3>1. due \subseteq Frames
      BY DEF BridgeTypeOK
    <3>. QED  BY <2>1, <3>1
  <2>6. pending' \in Seq(Packets)
    BY <2>1, <2>2
  <2>7. wire' = <<>> /\ leftover' = <<>> /\ <<>> \in Seq(Packets) /\ stage' = "sleep"
    BY <1>6 DEF PingAnswered
  <2>8. UNCHANGED <<who, cycle, polled, best, used, air, unheard, delivered>>
    BY <1>6 DEF PingAnswered
  <2>. QED  BY <2>3, <2>4, <2>5, <2>6, <2>7, <2>8 DEF BridgeTypeOK
<1>7. CASE PingTimeout
  <2>1. pending' \in Seq(Packets)
    BY <1>7, BatchType DEF PingTimeout, BridgeTypeOK
  <2>2. hasPending' \in BOOLEAN /\ (~hasPending' => pending' = <<>>)
    <3>1. hasPending' = (hasPending \/ leftover # <<>>) /\ pending' = pending \o leftover
      BY <1>7 DEF PingTimeout
    <3>2. hasPending \in BOOLEAN /\ (~hasPending => pending = <<>>)
      BY DEF BridgeTypeOK
    <3>3. <<>> \o <<>> = <<>>
      OBVIOUS
    <3>4. hasPending' \in BOOLEAN
      BY <3>1, Zenon
    <3>5. ASSUME ~hasPending' PROVE pending' = <<>>
      <4>1. ~hasPending /\ leftover = <<>>
        BY <3>1, <3>5, Zenon
      <4>. QED  BY <3>1, <3>2, <3>3, <4>1
    <3>. QED  BY <3>4, <3>5
  <2>. QED  BY <1>7, <2>1, <2>2 DEF PingTimeout, BridgeTypeOK, linkVars
<1>8. CASE NextCycle
  <2>1. cycle' \in 1..MaxCycles /\ who' \in 1..(Len(Order) + 1)
    BY <1>8 DEF NextCycle, BridgeTypeOK
  <2>. QED  BY <1>8, <2>1 DEF NextCycle, BridgeTypeOK, objVars
<1>9. CASE UNCHANGED bridgeVars
  BY <1>9 DEF BridgeTypeOK, bridgeVars, pollVars, objVars, linkVars
<1>10. ASSUME NEW p \in Packets, Arrive(p) PROVE BridgeTypeOK'
  <2>1. wire' \in Seq(Packets)
    BY <1>10 DEF Arrive, BridgeTypeOK
  <2>. QED  BY <1>10, <2>1 DEF Arrive, BridgeTypeOK, pollVars, objVars
<1>11. ASSUME NEW f \in Foreign, Overhear(f) PROVE BridgeTypeOK'
  <2>1. Other(f) \in Packets /\ Other(f) \in Frames
    BY PacketFacts
  <2>2. wire' \in Seq(Packets)
    BY <1>11, <2>1 DEF Overhear, BridgeTypeOK
  <2>. QED  BY <1>11, <2>1, <2>2 DEF Overhear, BridgeTypeOK, pollVars, objVars
<1>. QED  BY <1>1, <1>2, <1>3, <1>4, <1>5, <1>6, <1>7, <1>8, <1>9, <1>10, <1>11 DEF BridgeNext, Done

LEMMA ListeningNext == BridgeTypeOK /\ Listening /\ [BridgeNext]_bridgeVars => Listening'
<1> SUFFICES ASSUME BridgeTypeOK, Listening, [BridgeNext]_bridgeVars PROVE Listening'
  OBVIOUS
<1>1. CASE TxPoll \/ Listen \/ ListenEnd
  BY <1>1 DEF TxPoll, Listen, ListenEnd, Listening
<1>2. CASE SendPing \/ PingAnswered \/ PingTimeout \/ NextCycle
  BY <1>2 DEF SendPing, PingAnswered, PingTimeout, NextCycle, Listening
<1>3. CASE UNCHANGED pollVars
  BY <1>3 DEF pollVars, Listening
<1>. QED  BY <1>1, <1>2, <1>3 DEF BridgeNext, Done, PingReads, Arrive, Overhear, bridgeVars

(* Every variable keeps its kind: in particular, the bridge queues only    *)
(* packets, and until it has the attribute _pending it put nothing back.   *)
THEOREM TypeInvariant == BridgeSpec => []BridgeTypeOK
<1>1. BridgeTypeOK /\ Listening /\ [BridgeNext]_bridgeVars => (BridgeTypeOK /\ Listening)'
  BY TypeNext, ListeningNext
<1>. QED  BY TypeInit, <1>1, PTL DEF BridgeSpec

-----------------------------------------------------------------------------
(* The invariants of a cycle that polls.  Once the stream has been read in *)
(* this cycle, which the first listen window does, nothing older than this *)
(* cycle is left anywhere but in what poll() already handed out.           *)
Drained == who > 1 \/ (stage = "listen" /\ polled)
Held(p) == In(pending, p) \/ In(leftover, p) \/ In(wire, p)

Phases ==
  /\ stage = "listen" => who <= Len(Order)
  /\ stage \in {"wait", "sleep"} => who = Len(Order) + 1
  /\ stage # "wait" => leftover = <<>>
  /\ Drained /\ stage # "sleep" => pending = <<>>

(* How old what is under way, queued, taken or used can be. *)
Ages ==
  /\ \A p \in air : p.type # "other" /\ p.cycle = cycle
  /\ \A p \in Packets : Held(p) /\ p.type # "other" =>
       /\ cycle <= p.cycle + 1 /\ p.cycle <= cycle
       /\ Drained => p.cycle = cycle
  /\ stage = "listen" /\ best # None => best.type = "rx" /\ cycle <= best.cycle + 1
  /\ \A i \in Polled : used[i] # None => used[i].cycle <= used[i].packet.cycle + 1
  /\ pong \in {0, cycle}

(* Where the replies to two polls can be relative to each other. *)
Sequenced ==
  /\ \A p \in Packets : In(delivered, p) /\ p.type = "rx" =>
       p.cycle < cycle \/ (p.cycle = cycle /\ Drained)
  /\ ~Drained => \A p \in Packets : In(pending, p) /\ p.type = "rx" => p.cycle < cycle
  /\ \A k, j \in 1..Len(wire) :
       k < j /\ wire[k].type = "rx" /\ wire[j].type = "rx" /\ wire[k].cycle = cycle
         => wire[j].cycle = cycle
  /\ \A k \in 1..Len(delivered) : \A q \in Packets :
       (/\ delivered[k].type = "rx" /\ q.type = "rx"
        /\ q.cycle < delivered[k].cycle /\ In(delivered, q))
         => \E j \in 1..(k - 1) : delivered[j] = q

(* Packets that may still be sent. *)
Unsent(p) ==
  \/ p.type = "rx" /\ p.cycle > cycle
  \/ /\ p.type = "rx" /\ p.cycle = cycle
     /\ \E k \in who..Len(Order) : p.src = Order[k] /\ (k = who => stage # "listen")
  \/ p.type = "info" /\ p.cycle > cycle
  \/ p.type = "info" /\ p.cycle = cycle /\ stage \in {"tx", "listen"}
  \/ p.type = "other" /\ p.src \in unheard

(* How many copies of a packet there can be, and where. *)
Copied ==
  /\ \A p \in air : ~Unsent(p)
  /\ \A p \in Packets : Unsent(p) \/ p \in air => ~Held(p) /\ ~In(delivered, p)
  /\ \A p \in Packets : Count(wire, p) + Count(leftover, p) <= 1
  /\ \A p \in Packets : In(wire, p) \/ In(leftover, p)
                          => ~In(pending, p) /\ ~In(delivered, p)
  /\ \A p \in Packets : Count(pending, p) + Count(delivered, p) <= 2
  /\ \A p \in due : Held(p) \/ In(delivered, p)

-----------------------------------------------------------------------------
(* The phases of a cycle. *)

LEMMA SomeInverter == Order # <<>> => Len(Order) \in Nat \ {0}
<1>1. Order \in Seq(Polled)
  BY BridgeAssumption
<1>. QED  BY <1>1, EmptySeq

LEMMA PhasesInit == Order # <<>> /\ BridgeInit => Phases
BY SomeInverter DEF BridgeInit, Phases

LEMMA PhasesNext ==
  ASSUME Order # <<>>, BridgeTypeOK, Phases, [BridgeNext]_bridgeVars
  PROVE  Phases'
<1> DEFINE n == Len(Order)
<1>0. n \in Nat \ {0} /\ who \in 1..(n + 1)
  BY SomeInverter DEF BridgeTypeOK
<1> HIDE DEF n
<1>1. CASE TxPoll
  BY <1>0, <1>1 DEF TxPoll, Phases, Drained, objVars, n
<1>2. CASE Listen
  BY <1>0, <1>2 DEF Listen, Emptied, Phases, Drained, n
<1>3. CASE ListenEnd
  BY <1>0, <1>3 DEF ListenEnd, Phases, Drained, objVars, n
<1>4. CASE SendPing
  BY <1>0, <1>4 DEF SendPing, Phases, Drained, n
<1>5. CASE PingReads
  BY <1>0, <1>5 DEF PingReads, Emptied, Phases, Drained, pollVars, n
<1>6. CASE PingAnswered
  <2>1. stage = "wait" /\ stage' = "sleep" /\ who' = who /\ leftover' = <<>>
    BY <1>6 DEF PingAnswered
  <2>. QED  BY <1>0, <2>1 DEF Phases, n
<1>7. CASE PingTimeout
  BY <1>0, <1>7 DEF PingTimeout, Phases, Drained, n
<1>8. CASE NextCycle
  BY <1>0, <1>8 DEF NextCycle, Phases, Drained, objVars, n
<1>9. CASE UNCHANGED <<pollVars, objVars>>
  BY <1>9 DEF Phases, Drained, pollVars, objVars, n
<1>. QED  BY <1>1, <1>2, <1>3, <1>4, <1>5, <1>6, <1>7, <1>8, <1>9
          DEF BridgeNext, Done, Arrive, Overhear, bridgeVars

-----------------------------------------------------------------------------
(* What the readers of the stream do to where a packet is. *)

LEMMA SeqTypes ==
  ASSUME BridgeTypeOK
  PROVE  /\ pending \in Seq(Packets) /\ leftover \in Seq(Packets)
         /\ wire \in Seq(Packets) /\ delivered \in Seq(Packets)
BY DEF BridgeTypeOK

LEMMA Concat ==
  ASSUME NEW s \in Seq(Packets), NEW t \in Seq(Packets), NEW p
  PROVE  /\ In(s \o t, p) <=> In(s, p) \/ In(t, p)
         /\ Count(s \o t, p) = Count(s, p) + Count(t, p)
<1>1. In(s \o t, p) <=> In(s, p) \/ In(t, p)
  BY InFacts
<1>2. Count(s \o t, p) = Count(s, p) + Count(t, p)
  BY CountConcat
<1>. QED  BY <1>1, <1>2

(* poll() empties the stream into what it hands out. *)
LEMMA ListenEffect ==
  ASSUME BridgeTypeOK, Phases, Listen
  PROVE  /\ \A p : ~(Held(p)')
         /\ \A p : Count(wire, p)' = 0 /\ Count(leftover, p)' = 0 /\ Count(pending, p)' = 0
         /\ delivered' = delivered \o Batch
         /\ \A p : In(Batch, p) <=> Held(p)
         /\ \A p : In(delivered, p)' <=> In(delivered, p) \/ Held(p)
         /\ \A p : Count(delivered, p)' = Count(delivered, p) + Count(pending, p) + Count(wire, p)
<1>1. /\ wire' = <<>> /\ pending' = <<>> /\ leftover = <<>> /\ leftover' = <<>>
      /\ delivered' = delivered \o Batch
  BY DEF Listen, Emptied, Phases
<1>2. Batch \in Seq(Packets) /\ Batch = pending \o wire
  BY BatchType DEF Batch
<1>3. \A p : ~In(<<>>, p)
  BY NothingIn
<1>4. \A p : Count(<<>>, p) = 0
  BY NothingIn
<1>5. \A p : In(Batch, p) <=> Held(p)
  <2>1. \A p : In(Batch, p) <=> In(pending, p) \/ In(wire, p)
    BY <1>2, SeqTypes, Concat
  <2>. QED  BY <1>1, <1>3, <2>1 DEF Held
<1>6. \A p : In(delivered, p)' <=> In(delivered, p) \/ In(Batch, p)
  <2>1. \A p : In(delivered, p)' <=> In(delivered \o Batch, p)
    BY <1>1 DEF In
  <2>2. \A p : In(delivered \o Batch, p) <=> In(delivered, p) \/ In(Batch, p)
    BY <1>2, SeqTypes, Concat
  <2>. QED  BY <2>1, <2>2
<1>7. ASSUME NEW p
      PROVE Count(delivered, p)' = Count(delivered, p) + Count(pending, p) + Count(wire, p)
  <2>1. Count(delivered, p)' = Count(delivered \o Batch, p)
    BY <1>1 DEF Count
  <2>2. Count(delivered \o Batch, p) = Count(delivered, p) + Count(Batch, p)
    BY <1>2, SeqTypes, Concat
  <2>3. Count(Batch, p) = Count(pending, p) + Count(wire, p)
    BY <1>2, SeqTypes, Concat
  <2>4. Count(delivered, p) \in Nat /\ Count(pending, p) \in Nat /\ Count(wire, p) \in Nat
    BY SeqTypes, CountFacts
  <2>. QED  BY <2>1, <2>2, <2>3, <2>4
<1>8. \A p : Held(p)' <=> In(pending', p) \/ In(leftover', p) \/ In(wire', p)
  BY DEF Held, In
<1>9. \A p : /\ Count(wire, p)' = Count(wire', p) /\ Count(leftover, p)' = Count(leftover', p)
             /\ Count(pending, p)' = Count(pending', p)
  BY DEF Count
<1>. QED  BY <1>1, <1>3, <1>4, <1>5, <1>6, <1>7, <1>8, <1>9

(* While the ping is waited for, nothing is put back: the batch is what    *)
(* arrived.                                                                *)
LEMMA WaitEffect ==
  ASSUME Order # <<>>, BridgeTypeOK, Phases, stage = "wait"
  PROVE  /\ Drained /\ pending = <<>> /\ Batch = wire
         /\ \A p : Held(p) <=> In(leftover, p) \/ In(wire, p)
<1>1. Drained /\ pending = <<>>
  BY SomeInverter DEF Phases, Drained
<1>2. Batch = wire
  BY <1>1, SeqTypes, ConcatEmptySeq DEF Batch
<1>3. \A p : Held(p) <=> In(leftover, p) \/ In(wire, p)
  BY <1>1 DEF Held, In
<1>. QED  BY <1>1, <1>2, <1>3

LEMMA PingReadsEffect ==
  ASSUME Order # <<>>, BridgeTypeOK, Phases, PingReads
  PROVE  /\ wire' = <<>> /\ pending' = <<>>
         /\ \A p : In(leftover, p)' <=> Held(p)
         /\ \A p : ~(In(wire, p)') /\ ~(In(pending, p)')
         /\ \A p : /\ Count(leftover, p)' = Count(leftover, p) + Count(wire, p)
                   /\ Count(wire, p)' = 0 /\ Count(pending, p)' = 0
<1>1. /\ wire' = <<>> /\ pending' = <<>> /\ leftover' = leftover \o wire /\ stage = "wait"
  BY WaitEffect DEF PingReads, Emptied
<1>2. \A p : ~In(<<>>, p)
  BY NothingIn
<1>3. \A p : Count(<<>>, p) = 0
  BY NothingIn
<1>4. \A p : /\ In(leftover, p)' <=> In(leftover \o wire, p)
             /\ Count(leftover, p)' = Count(leftover \o wire, p)
             /\ In(wire, p)' <=> In(<<>>, p)
             /\ In(pending, p)' <=> In(<<>>, p)
             /\ Count(wire, p)' = Count(<<>>, p)
             /\ Count(pending, p)' = Count(<<>>, p)
  BY <1>1 DEF In, Count
<1>5. \A p : In(leftover \o wire, p) <=> Held(p)
  BY <1>1, WaitEffect, SeqTypes, InFacts
<1>6. \A p : Count(leftover \o wire, p) = Count(leftover, p) + Count(wire, p)
  BY SeqTypes, CountConcat
<1>. QED  BY <1>1, <1>2, <1>3, <1>4, <1>5, <1>6

LEMMA PingTimeoutEffect ==
  ASSUME Order # <<>>, BridgeTypeOK, Phases, PingTimeout
  PROVE  /\ pending' = leftover /\ leftover' = <<>> /\ wire' = wire
         /\ \A p : In(pending, p)' <=> In(leftover, p)
         /\ \A p : ~(In(leftover, p)')
         /\ \A p : Count(pending, p)' = Count(leftover, p) /\ Count(leftover, p)' = 0
<1>1. /\ pending' = pending \o leftover /\ leftover' = <<>> /\ wire' = wire /\ stage = "wait"
  BY DEF PingTimeout, linkVars
<1>2. pending' = leftover
  BY <1>1, WaitEffect, SeqTypes, ConcatEmptySeq
<1>3. \A p : ~In(<<>>, p)
  BY NothingIn
<1>4. \A p : Count(<<>>, p) = 0
  BY NothingIn
<1>. QED  BY <1>1, <1>2, <1>3, <1>4 DEF In, Count

LEMMA PingAnsweredEffect ==
  ASSUME Order # <<>>, BridgeTypeOK, Phases, PingAnswered
  PROVE  /\ wire' = <<>> /\ leftover' = <<>>
         /\ \A p : In(pending, p)' => Held(p)
         /\ \A p : Count(pending, p)' <= 2 * (Count(leftover, p) + Count(wire, p))
         /\ \A p \in due' : p \in due /\ (Held(p) => In(pending, p)')
         /\ \E q \in Packets : In(wire, q) /\ q.type = "info" /\ pong' = q.cycle
<1>1. /\ stage = "wait" /\ wire' = <<>> /\ leftover' = <<>> /\ Batch = wire
      /\ \A p : Held(p) <=> In(leftover, p) \/ In(wire, p)
  BY WaitEffect DEF PingAnswered
<1>2. PICK k \in 1..Len(Batch) :
        /\ IsInfo(Batch[k])
        /\ LET l == leftover \o SubSeq(Batch, 1, k - 1)
           IN  /\ pending' = PutBack(l)
               /\ hasPending' = (hasPending \/ l # <<>>)
               /\ due' = due \ ({Batch[j] : j \in (k + 1)..Len(Batch)}
                                  \ {l[j] : j \in 1..Len(l)})
        /\ pong' = Batch[k].cycle
  BY DEF PingAnswered
<1> DEFINE b == SubSeq(wire, 1, k - 1)
           l == leftover \o b
<1>3. /\ k \in 1..Len(wire) /\ wire[k] \in Packets /\ wire[k].type = "info"
      /\ pending' = PutBack(l) /\ pong' = wire[k].cycle
      /\ due' = due \ ({wire[j] : j \in (k + 1)..Len(wire)} \ {l[j] : j \in 1..Len(l)})
  <2>1. Batch[k] \in Packets
    BY BatchType
  <2>. QED  BY <1>1, <1>2, <2>1 DEF IsInfo
<1>4. b \in Seq(Packets) /\ l \in Seq(Packets) /\ k - 1 \in Nat /\ k - 1 <= Len(wire)
  BY <1>3, SeqTypes
<1>5. Len(b) = k - 1 /\ \A j \in 1..(k - 1) : b[j] = wire[j]
  BY <1>3, SeqTypes
<1>6. \A p : In(b, p) => In(wire, p)
  BY <1>3, <1>5 DEF In
<1>7. \A p : Count(b, p) <= Count(wire, p)
  BY <1>4, SeqTypes, CountFacts
<1> HIDE DEF b
<1>8. \A p : In(l, p) <=> In(leftover, p) \/ In(b, p)
  BY <1>4, SeqTypes, InFacts
<1>9. \A p : Count(l, p) = Count(leftover, p) + Count(b, p)
  BY <1>4, SeqTypes, CountConcat
<1>10. \A p : /\ Count(leftover, p) \in Nat /\ Count(wire, p) \in Nat
              /\ Count(b, p) \in Nat /\ Count(l, p) \in Nat
  BY <1>4, SeqTypes, CountFacts
<1>12. \A p : p \in {l[j] : j \in 1..Len(l)} <=> In(l, p)
  BY DEF In
<1> HIDE DEF l
<1>13. \A p : In(l \o l, p) <=> In(l, p)
  BY <1>4, InFacts
<1>14. \A p : Count(l \o l, p) = Count(l, p) + Count(l, p)
  BY <1>4, CountConcat
<1>15. \A p : In(pending, p)' <=> In(l, p)
  <2>1. \A p : In(pending, p)' <=> In(PutBack(l), p)
    BY <1>3 DEF In
  <2>. QED  BY <1>13, <2>1 DEF PutBack
<1>16. \A p : Count(pending, p)' <= 2 * (Count(leftover, p) + Count(wire, p))
  <2> TAKE p
  <2>1. Count(pending, p)' = Count(PutBack(l), p)
    BY <1>3 DEF Count
  <2>2. Count(PutBack(l), p) = Count(l, p) \/ Count(PutBack(l), p) = Count(l, p) + Count(l, p)
    BY <1>14 DEF PutBack
  <2>3. \A x, y, z \in Nat : x <= y => /\ z + x <= 2 * (z + y)
                                       /\ (z + x) + (z + x) <= 2 * (z + y)
    OBVIOUS
  <2>4. Count(leftover, p) + Count(b, p) <= 2 * (Count(leftover, p) + Count(wire, p))
    BY <1>7, <1>10, <2>3
  <2>5. (Count(leftover, p) + Count(b, p)) + (Count(leftover, p) + Count(b, p))
           <= 2 * (Count(leftover, p) + Count(wire, p))
    BY <1>7, <1>10, <2>3
  <2>. QED  BY <1>9, <2>1, <2>2, <2>4, <2>5
<1>17. ASSUME NEW p \in due' PROVE p \in due /\ (Held(p) => In(pending, p)')
  <2>1. p \in due /\ ~(p \in {wire[j] : j \in (k + 1)..Len(wire)} /\ ~In(l, p))
    BY <1>3, <1>12, <1>17
  <2>2. p.type # "info"
    BY <2>1, PacketFacts DEF BridgeTypeOK
  <2>3. In(wire, p) => In(l, p)
    <3> SUFFICES ASSUME In(wire, p) PROVE In(l, p)
      OBVIOUS
    <3>1. PICK j \in 1..Len(wire) : wire[j] = p
      BY DEF In
    <3>2. j # k
      BY <1>3, <2>2, <3>1
    <3>3. CASE j < k
      <4>1. j \in 1..(k - 1)
        BY <1>3, <3>3
      <4>2. b[j] = p /\ j \in 1..Len(b)
        BY <1>5, <3>1, <4>1
      <4>. QED  BY <1>8, <4>2 DEF In
    <3>4. CASE j > k
      <4>1. j \in (k + 1)..Len(wire)
        BY <1>3, <3>4
      <4>. QED  BY <2>1, <3>1, <4>1
    <3>. QED  BY <1>3, <3>2, <3>3, <3>4
  <2>. QED  BY <1>1, <1>8, <1>15, <2>1, <2>3
<1>18. In(wire, wire[k])
  BY <1>3 DEF In
<1>. QED  BY <1>1, <1>3, <1>6, <1>8, <1>15, <1>16, <1>17, <1>18

(* A step that is no reader's leaves the queues alone, but for a packet    *)
(* that arrives.                                                           *)
LEMMA ArriveEffect ==
  ASSUME BridgeTypeOK, NEW q \in Packets, wire' = Append(wire, q), UNCHANGED <<pending, leftover>>
  PROVE  /\ \A p : In(wire, p)' <=> In(wire, p) \/ p = q
         /\ \A p : Held(p)' <=> Held(p) \/ p = q
         /\ \A p : In(pending, p)' <=> In(pending, p)
         /\ \A p : In(leftover, p)' <=> In(leftover, p)
         /\ \A p : p # q => Count(wire, p)' = Count(wire, p)
         /\ \A p : ~In(wire, p) => Count(wire, p)' <= 1
         /\ \A p : Count(leftover, p)' = Count(leftover, p)
         /\ \A p : Count(pending, p)' = Count(pending, p)
<1>1. \A p : In(Append(wire, q), p) <=> In(wire, p) \/ p = q
  BY SeqTypes, InFacts
<1>2. \A p : /\ p # q => Count(Append(wire, q), p) = Count(wire, p)
             /\ ~In(wire, p) => Count(Append(wire, q), p) <= 1
  BY SeqTypes, CountAppend
<1>3. \A p : /\ In(wire, p)' <=> In(Append(wire, q), p)
             /\ In(pending, p)' <=> In(pending, p)
             /\ In(leftover, p)' <=> In(leftover, p)
             /\ Count(wire, p)' = Count(Append(wire, q), p)
             /\ Count(pending, p)' = Count(pending, p)
             /\ Count(leftover, p)' = Count(leftover, p)
  BY DEF In, Count
<1>4. \A p : Held(p)' <=> In(pending, p)' \/ In(leftover, p)' \/ In(wire, p)'
  BY DEF Held
<1>. QED  BY <1>1, <1>2, <1>3, <1>4 DEF Held

LEMMA Untouched ==
  ASSUME UNCHANGED <<objVars, wire>>
  PROVE  /\ \A p : Held(p)' <=> Held(p)
         /\ \A p : /\ In(wire, p)' <=> In(wire, p)
                   /\ In(pending, p)' <=> In(pending, p)
                   /\ In(leftover, p)' <=> In(leftover, p)
         /\ \A p : /\ Count(wire, p)' = Count(wire, p)
                   /\ Count(pending, p)' = Count(pending, p)
                   /\ Count(leftover, p)' = Count(leftover, p)
BY DEF objVars, Held, In, Count

-----------------------------------------------------------------------------
(* How old things are. *)

(* The packets of the three queues. *)
HeldAges == \A p \in Packets : Held(p) /\ p.type # "other" =>
              /\ cycle <= p.cycle + 1 /\ p.cycle <= cycle
              /\ Drained => p.cycle = cycle

(* What one window has taken. *)
BestAge == stage = "listen" /\ best # None => best.type = "rx" /\ cycle <= best.cycle + 1

UsedAges == \A i \in Polled : used[i] # None => used[i].cycle <= used[i].packet.cycle + 1

AirNow == \A p \in air : p.type # "other" /\ p.cycle = cycle

LEMMA AgesParts == Ages <=> AirNow /\ HeldAges /\ BestAge /\ UsedAges /\ pong \in {0, cycle}
BY DEF Ages, AirNow, HeldAges, BestAge, UsedAges

LEMMA AgesInit == BridgeInit => Ages
<1> SUFFICES ASSUME BridgeInit PROVE Ages
  OBVIOUS
<1>1. \A p : ~Held(p)
  BY NothingIn DEF BridgeInit, Held
<1>2. UsedAges
  BY DEF BridgeInit, UsedAges
<1>3. AirNow /\ HeldAges /\ BestAge /\ pong \in {0, cycle}
  BY <1>1 DEF BridgeInit, AirNow, HeldAges, BestAge
<1>. QED  BY <1>2, <1>3, AgesParts

LEMMA AirNext ==
  ASSUME BridgeTypeOK, Phases, AirNow, [BridgeNext]_bridgeVars
  PROVE  AirNow'
<1>1. CASE TxPoll
  <2>1. Order[who] \in Polled /\ cycle \in 1..MaxCycles
    BY <1>1, OrderFacts DEF TxPoll, BridgeTypeOK
  <2>2. Reply(Order[who], cycle).type # "other" /\ Reply(Order[who], cycle).cycle = cycle
    BY <2>1, PacketFacts
  <2>. QED  BY <1>1, <2>2 DEF TxPoll, AirNow
<1>2. CASE SendPing
  <2>1. Info(cycle).type # "other" /\ Info(cycle).cycle = cycle
    BY PacketFacts DEF BridgeTypeOK
  <2>. QED  BY <1>2, <2>1 DEF SendPing, AirNow
<1>3. CASE NextCycle
  BY <1>3 DEF NextCycle, AirNow
<1>4. CASE UNCHANGED <<air, cycle>>
  BY <1>4 DEF AirNow
<1>5. ASSUME NEW p \in Packets, Arrive(p) PROVE AirNow'
  BY <1>5 DEF Arrive, AirNow, pollVars
<1>. QED
  BY <1>1, <1>2, <1>3, <1>4, <1>5
  DEF BridgeNext, Listen, ListenEnd, PingReads, PingAnswered, PingTimeout, Done, Overhear,
      bridgeVars, pollVars, linkVars

LEMMA HeldNext ==
  ASSUME Order # <<>>, BridgeTypeOK, Phases, AirNow, HeldAges, [BridgeNext]_bridgeVars
  PROVE  HeldAges'
<1>0. cycle \in Nat /\ who \in 1..(Len(Order) + 1) /\ Len(Order) \in Nat \ {0}
  BY OrderFacts, SomeInverter DEF BridgeTypeOK
<1>1. ASSUME \A p \in Packets : Held(p)' => Held(p), cycle' = cycle,
             Drained' => Drained
      PROVE  HeldAges'
  BY <1>1 DEF HeldAges
<1>2. CASE TxPoll
  BY <1>0, <1>1, <1>2, Untouched DEF TxPoll, Drained
<1>3. CASE Listen
  BY <1>3, ListenEffect DEF HeldAges
<1>4. CASE ListenEnd
  BY <1>1, <1>4, Untouched DEF ListenEnd, Drained, linkVars
<1>5. CASE SendPing
  <2>1. Drained
    BY <1>0, <1>5 DEF SendPing, Drained
  <2>2. leftover = <<>>
    BY <1>5 DEF SendPing, Phases
  <2>3. \A p : Held(p)' <=> Held(p)
    BY <1>5, <2>2 DEF SendPing, Held, In
  <2>. QED  BY <1>1, <1>5, <2>1, <2>3 DEF SendPing
<1>6. CASE PingReads
  <2>1. \A p : Held(p)' => Held(p)
    BY <1>6, PingReadsEffect DEF Held
  <2>2. cycle' = cycle /\ (Drained' => Drained)
    BY <1>6 DEF PingReads, pollVars, Drained
  <2>. QED  BY <1>1, <2>1, <2>2
<1>7. CASE PingAnswered
  <2>1. wire' = <<>> /\ leftover' = <<>> /\ \A p : In(pending, p)' => Held(p)
    BY <1>7, PingAnsweredEffect
  <2>2. \A p : Held(p)' => Held(p)
    BY <2>1, NothingIn DEF Held
  <2>3. cycle' = cycle /\ (Drained' => Drained)
    BY <1>7 DEF PingAnswered, Drained
  <2>. QED  BY <1>1, <2>2, <2>3
<1>8. CASE PingTimeout
  <2>1. \A p : /\ In(pending, p)' <=> In(leftover, p)
               /\ ~(In(leftover, p)')
               /\ In(wire, p)' <=> In(wire, p)
    BY <1>8, PingTimeoutEffect DEF In
  <2>2. \A p : Held(p)' => Held(p)
    BY <2>1 DEF Held
  <2>3. cycle' = cycle /\ (Drained' => Drained)
    BY <1>8 DEF PingTimeout, Drained
  <2>. QED  BY <1>1, <2>2, <2>3
<1>9. CASE NextCycle
  <2>1. Drained /\ ~Drained' /\ cycle' = cycle + 1
    BY <1>0, <1>9 DEF NextCycle, Phases, Drained
  <2>2. \A p : Held(p)' <=> Held(p)
    BY <1>9, Untouched DEF NextCycle
  <2>3. ASSUME NEW p \in Packets, Held(p)', p.type # "other"
        PROVE  cycle' <= p.cycle + 1 /\ p.cycle <= cycle'
    <3>1. p.cycle = cycle
      BY <2>1, <2>2, <2>3 DEF HeldAges
    <3>. QED  BY <1>0, <2>1, <3>1
  <2>. QED  BY <2>1, <2>3 DEF HeldAges
<1>10. ASSUME NEW q \in Packets, wire' = Append(wire, q), UNCHANGED <<pollVars, objVars>>,
              q.type # "other" => q.cycle = cycle
       PROVE  HeldAges'
  <2>1. \A p : Held(p)' <=> Held(p) \/ p = q
    BY <1>10, ArriveEffect DEF objVars
  <2>2. cycle' = cycle /\ (Drained' <=> Drained)
    BY <1>10 DEF pollVars, Drained
  <2>3. ASSUME NEW p \in Packets, Held(p)', p.type # "other"
        PROVE  /\ cycle' <= p.cycle + 1 /\ p.cycle <= cycle'
               /\ Drained' => p.cycle = cycle'
    <3>1. CASE Held(p)
      BY <2>2, <2>3, <3>1 DEF HeldAges
    <3>2. CASE p = q
      BY <1>0, <1>10, <2>2, <2>3, <3>2
    <3>. QED  BY <2>1, <2>3, <3>1, <3>2
  <2>. QED  BY <2>3 DEF HeldAges
<1>11. ASSUME NEW p \in Packets, Arrive(p) PROVE HeldAges'
  BY <1>10, <1>11 DEF Arrive, AirNow
<1>12. ASSUME NEW f \in Foreign, Overhear(f) PROVE HeldAges'
  BY <1>10, <1>12, PacketFacts DEF Overhear
<1>13. CASE UNCHANGED bridgeVars
  <2>1. \A p : Held(p)' <=> Held(p)
    BY <1>13, Untouched DEF bridgeVars, linkVars
  <2>. QED  BY <1>1, <1>13, <2>1 DEF bridgeVars, pollVars, Drained
<1>. QED  BY <1>2, <1>3, <1>4, <1>5, <1>6, <1>7, <1>8, <1>9, <1>11, <1>12, <1>13
          DEF BridgeNext, Done

LEMMA BestNext ==
  ASSUME Order # <<>>, BridgeTypeOK, Phases, HeldAges, BestAge, [BridgeNext]_bridgeVars
  PROVE  BestAge'
<1>1. CASE Listen
  <2>1. best' \in BestOf(Batch) /\ stage = "listen" /\ stage' = stage /\ cycle' = cycle
    BY <1>1 DEF Listen
  <2>2. CASE best' = best
    BY <2>1, <2>2 DEF BestAge
  <2>3. CASE best' # best
    <3>1. best' \in Packets /\ In(Batch, best') /\ best'.type = "rx"
      BY <2>1, <2>3, BatchType, BestFacts
    <3>2. Held(best')
      BY <1>1, <3>1, ListenEffect
    <3>. QED  BY <2>1, <3>1, <3>2 DEF BestAge, HeldAges
  <2>. QED  BY <2>2, <2>3
<1>2. CASE TxPoll
  BY <1>2 DEF TxPoll, BestAge
<1>3. CASE ListenEnd \/ SendPing \/ PingAnswered \/ PingTimeout \/ NextCycle
  BY <1>3 DEF ListenEnd, SendPing, PingAnswered, PingTimeout, NextCycle, BestAge
<1>4. CASE UNCHANGED pollVars
  BY <1>4 DEF pollVars, BestAge
<1>. QED  BY <1>1, <1>2, <1>3, <1>4 DEF BridgeNext, PingReads, Done, Arrive, Overhear, bridgeVars

LEMMA UsedNext ==
  ASSUME Order # <<>>, BridgeTypeOK, Phases, BestAge, UsedAges, [BridgeNext]_bridgeVars
  PROVE  UsedAges'
<1>1. CASE ListenEnd
  <2>1. CASE best = None
    BY <1>1, <2>1 DEF ListenEnd, UsedAges
  <2>2. CASE best # None
    <3>1. used' = [used EXCEPT ![Order[who]] = [packet |-> best, cycle |-> cycle]]
      BY <1>1, <2>2 DEF ListenEnd
    <3>2. cycle <= best.cycle + 1
      BY <1>1, <2>2 DEF ListenEnd, BestAge
    <3>3. used \in [Polled -> {None} \cup [packet : Packets, cycle : 1..MaxCycles]]
      BY DEF BridgeTypeOK
    <3>4. ASSUME NEW i \in Polled, used'[i] # None
          PROVE  used'[i].cycle <= used'[i].packet.cycle + 1
      <4>1. CASE i = Order[who]
        <5>1. used'[i] = [packet |-> best, cycle |-> cycle]
          BY <3>1, <3>3, <4>1
        <5>. QED  BY <3>2, <5>1
      <4>2. CASE i # Order[who]
        <5>1. used'[i] = used[i]
          BY <3>1, <3>3, <4>2
        <5>. QED  BY <3>4, <5>1 DEF UsedAges
      <4>. QED  BY <4>1, <4>2
    <3>. QED  BY <3>4 DEF UsedAges
  <2>. QED  BY <2>1, <2>2
<1>2. CASE UNCHANGED used
  BY <1>2 DEF UsedAges
<1>. QED
  BY <1>1, <1>2
  DEF BridgeNext, TxPoll, Listen, SendPing, PingReads, PingAnswered, PingTimeout, NextCycle,
      Done, Arrive, Overhear, bridgeVars, pollVars

LEMMA PongNext ==
  ASSUME Order # <<>>, BridgeTypeOK, Phases, HeldAges, pong \in {0, cycle}, [BridgeNext]_bridgeVars
  PROVE  pong' \in {0, cycle'}
<1>1. CASE PingAnswered
  <2>1. PICK q \in Packets : In(wire, q) /\ q.type = "info" /\ pong' = q.cycle
    BY <1>1, PingAnsweredEffect
  <2>2. Drained /\ cycle' = cycle
    BY <1>1, WaitEffect DEF PingAnswered
  <2>3. q.cycle = cycle
    BY <2>1, <2>2 DEF HeldAges, Held
  <2>. QED  BY <2>1, <2>2, <2>3
<1>2. CASE NextCycle
  BY <1>2 DEF NextCycle
<1>3. CASE UNCHANGED <<pong, cycle>>
  BY <1>3
<1>. QED
  BY <1>1, <1>2, <1>3
  DEF BridgeNext, TxPoll, Listen, ListenEnd, SendPing, PingReads, PingTimeout, Done,
      Arrive, Overhear, bridgeVars, pollVars

LEMMA AgesInvariant == Order # <<>> => (BridgeSpec => [](BridgeTypeOK /\ Phases /\ Ages))
<1> SUFFICES ASSUME Order # <<>> PROVE BridgeSpec => [](BridgeTypeOK /\ Phases /\ Ages)
  OBVIOUS
<1>1. BridgeInit => BridgeTypeOK /\ Phases /\ Ages
  BY TypeInit, PhasesInit, AgesInit
<1>2. BridgeTypeOK /\ Phases /\ Ages /\ [BridgeNext]_bridgeVars => (BridgeTypeOK /\ Phases /\ Ages)'
  <2> SUFFICES ASSUME BridgeTypeOK, Phases, Ages, [BridgeNext]_bridgeVars PROVE (BridgeTypeOK /\ Phases /\ Ages)'
    OBVIOUS
  <2>1. Listening
    BY DEF Phases, Listening
  <2>2. BridgeTypeOK' /\ Phases'
    BY <2>1, TypeNext, PhasesNext
  <2>3. AirNow /\ HeldAges /\ BestAge /\ UsedAges /\ pong \in {0, cycle}
    BY AgesParts
  <2>4. AirNow' /\ HeldAges' /\ BestAge' /\ UsedAges' /\ pong' \in {0, cycle'}
    BY <2>3, AirNext, HeldNext, BestNext, UsedNext, PongNext
  <2>5. Ages'
    BY <2>4 DEF Ages, AirNow, HeldAges, BestAge, UsedAges
  <2>. QED  BY <2>2, <2>5
<1>. QED  BY <1>1, <1>2, PTL DEF BridgeSpec

(* Telemetry logged under the present time is at most one cycle old,       *)
(* however replies are delayed, kept by a ping or put back by it.          *)
THEOREM TelemetryTheorem == BridgeSpec => []TelemetryAtMostOneCycleOld
<1>1. CASE Order # <<>>
  <2>1. BridgeTypeOK /\ Ages => TelemetryAtMostOneCycleOld
    <3> SUFFICES ASSUME BridgeTypeOK, Ages, NEW i \in Polled, used[i] # None
                 PROVE  used[i].packet.cycle + 1 >= used[i].cycle
      BY DEF TelemetryAtMostOneCycleOld
    <3>1. used[i] \in [packet : Packets, cycle : 1..MaxCycles]
      BY DEF BridgeTypeOK
    <3>2. used[i].packet.cycle \in Nat /\ used[i].cycle \in Nat
      BY <3>1, PacketFacts, OrderFacts
    <3>3. used[i].cycle <= used[i].packet.cycle + 1
      BY DEF Ages
    <3>. QED  BY <3>2, <3>3
  <2>. QED  BY <1>1, <2>1, AgesInvariant, PTL
<1>2. CASE Order = <<>>
  <2>1. TelemetryAtMostOneCycleOld
    BY <1>2 DEF TelemetryAtMostOneCycleOld, Polled
  <2>. QED  BY <2>1, PTL
<1>. QED  BY <1>1, <1>2

(* With an inverter to poll, no PKT_INFO is credited to a later ping: the  *)
(* listen windows of the cycle have drained every late one.                *)
THEOREM PongTheorem == Order # <<>> => (BridgeSpec => []PongIsFresh)
<1> SUFFICES ASSUME Order # <<>> PROVE BridgeSpec => []PongIsFresh
  OBVIOUS
<1>1. Ages => PongIsFresh
  BY DEF Ages, PongIsFresh
<1>. QED  BY <1>1, AgesInvariant, PTL

-----------------------------------------------------------------------------
(* In which order the poll loop meets the replies. *)

SeenAges == \A p \in Packets : In(delivered, p) /\ p.type = "rx" =>
              p.cycle < cycle \/ (p.cycle = cycle /\ Drained)
PutBackAges ==
  ~Drained => \A p \in Packets : In(pending, p) /\ p.type = "rx" => p.cycle < cycle
WireOrder ==
  \A k, j \in 1..Len(wire) :
    k < j /\ wire[k].type = "rx" /\ wire[j].type = "rx" /\ wire[k].cycle = cycle
      => wire[j].cycle = cycle
Later(p, q) == p.type = "rx" /\ q.type = "rx" /\ q.cycle < p.cycle
SeenOrder == \A k \in 1..Len(delivered) : \A q \in Packets :
               Later(delivered[k], q) /\ In(delivered, q)
                 => \E j \in 1..(k - 1) : delivered[j] = q

LEMMA SequencedParts == Sequenced <=> SeenAges /\ PutBackAges /\ WireOrder /\ SeenOrder
BY DEF Sequenced, SeenAges, PutBackAges, WireOrder, SeenOrder, Later

LEMMA SequencedInit == BridgeInit => Sequenced
<1> SUFFICES ASSUME BridgeInit PROVE Sequenced
  OBVIOUS
<1>1. wire = <<>> /\ delivered = <<>> /\ pending = <<>>
  BY DEF BridgeInit
<1>2. SeenAges /\ PutBackAges
  BY <1>1, NothingIn DEF SeenAges, PutBackAges
<1>3. WireOrder /\ SeenOrder
  BY <1>1 DEF WireOrder, SeenOrder
<1>. QED  BY <1>2, <1>3, SequencedParts

LEMMA SeenAgesNext ==
  ASSUME Order # <<>>, BridgeTypeOK, Phases, HeldAges, SeenAges, [BridgeNext]_bridgeVars
  PROVE  SeenAges'
<1>0. cycle \in Nat /\ who \in 1..(Len(Order) + 1) /\ Len(Order) \in Nat \ {0}
  BY OrderFacts, SomeInverter DEF BridgeTypeOK
<1>1. CASE Listen
  <2>1. \A p : In(delivered, p)' <=> In(delivered, p) \/ Held(p)
    BY <1>1, ListenEffect
  <2>2. Drained' /\ cycle' = cycle
    BY <1>1 DEF Listen, Drained
  <2>3. ASSUME NEW p \in Packets, In(delivered, p)', p.type = "rx"
        PROVE  p.cycle < cycle \/ p.cycle = cycle
    <3>1. p.cycle \in Nat
      BY PacketFacts
    <3>2. CASE Held(p)
      BY <1>0, <2>3, <3>1, <3>2 DEF HeldAges
    <3>. QED  BY <2>1, <2>3, <3>2 DEF SeenAges
  <2>. QED  BY <2>2, <2>3 DEF SeenAges
<1>2. CASE NextCycle
  <2>1. delivered' = delivered /\ cycle' = cycle + 1
    BY <1>2 DEF NextCycle
  <2>2. ASSUME NEW p \in Packets, In(delivered, p), p.type = "rx" PROVE p.cycle < cycle'
    BY <1>0, <2>1, <2>2, PacketFacts DEF SeenAges
  <2>. QED  BY <2>1, <2>2 DEF SeenAges, In
<1>3. ASSUME UNCHANGED <<delivered, cycle>>, Drained => Drained' PROVE SeenAges'
  BY <1>3 DEF SeenAges, In
<1>4. CASE TxPoll
  <2>1. ASSUME who = 1 PROVE SeenAges'
    <3>1. ~Drained
      BY <1>4, <2>1 DEF Drained, TxPoll
    <3>. QED  BY <1>3, <1>4, <3>1 DEF TxPoll
  <2>2. ASSUME who # 1 PROVE SeenAges'
    <3>1. Drained'
      BY <1>0, <1>4, <2>2 DEF Drained, TxPoll
    <3>. QED  BY <1>3, <1>4, <3>1 DEF TxPoll
  <2>. QED  BY <2>1, <2>2
<1>5. CASE ListenEnd
  <2>1. Drained'
    BY <1>0, <1>5 DEF ListenEnd, Drained
  <2>. QED  BY <1>3, <1>5, <2>1 DEF ListenEnd
<1>6. CASE SendPing \/ PingAnswered \/ PingTimeout
  BY <1>3, <1>6 DEF SendPing, PingAnswered, PingTimeout, Drained
<1>7. CASE UNCHANGED <<pollVars, delivered>>
  BY <1>3, <1>7 DEF pollVars, Drained
<1>. QED  BY <1>1, <1>2, <1>4, <1>5, <1>6, <1>7
          DEF BridgeNext, PingReads, Done, Arrive, Overhear, bridgeVars

LEMMA PutBackAgesNext ==
  ASSUME Order # <<>>, BridgeTypeOK, Phases, HeldAges, PutBackAges, [BridgeNext]_bridgeVars
  PROVE  PutBackAges'
<1>0. cycle \in Nat /\ who \in 1..(Len(Order) + 1) /\ Len(Order) \in Nat \ {0}
  BY OrderFacts, SomeInverter DEF BridgeTypeOK
<1>1. ASSUME pending' = pending, cycle' = cycle, ~Drained' => ~Drained PROVE PutBackAges'
  BY <1>1 DEF PutBackAges, In
<1>2. ASSUME Drained' PROVE PutBackAges'
  BY <1>2 DEF PutBackAges
<1>3. CASE TxPoll
  <2>1. CASE who = 1
    BY <1>1, <1>3, <2>1 DEF TxPoll, objVars, Drained
  <2>2. CASE who # 1
    BY <1>0, <1>2, <1>3, <2>2 DEF TxPoll, Drained
  <2>. QED  BY <2>1, <2>2
<1>4. CASE Listen
  BY <1>2, <1>4 DEF Listen, Drained
<1>5. CASE ListenEnd
  BY <1>0, <1>2, <1>5 DEF ListenEnd, Drained
<1>6. CASE SendPing
  BY <1>0, <1>2, <1>6 DEF SendPing, Drained
<1>7. CASE PingReads \/ PingAnswered \/ PingTimeout
  <2>1. stage = "wait" /\ who' = who
    BY <1>7 DEF PingReads, PingAnswered, PingTimeout, pollVars
  <2>2. who > 1
    BY <1>0, <2>1 DEF Phases
  <2>. QED  BY <1>2, <2>1, <2>2 DEF Drained
<1>8. CASE NextCycle
  <2>1. Drained /\ pending' = pending /\ cycle' = cycle + 1
    BY <1>0, <1>8 DEF NextCycle, Phases, Drained, objVars
  <2>2. ASSUME NEW p \in Packets, In(pending, p), p.type = "rx" PROVE p.cycle < cycle'
    BY <1>0, <2>1, <2>2 DEF HeldAges, Held
  <2>. QED  BY <2>1, <2>2 DEF PutBackAges, In
<1>9. CASE UNCHANGED <<pollVars, objVars>>
  BY <1>1, <1>9 DEF pollVars, objVars, Drained
<1>. QED  BY <1>3, <1>4, <1>5, <1>6, <1>7, <1>8, <1>9
          DEF BridgeNext, Done, Arrive, Overhear, bridgeVars

LEMMA WireOrderNext ==
  ASSUME Order # <<>>, BridgeTypeOK, Phases, AirNow, HeldAges, WireOrder, [BridgeNext]_bridgeVars
  PROVE  WireOrder'
<1>0. cycle \in Nat
  BY OrderFacts DEF BridgeTypeOK
<1>1. CASE wire' = <<>>
  BY <1>1 DEF WireOrder
<1>2. CASE UNCHANGED <<wire, cycle>>
  BY <1>2 DEF WireOrder
<1>3. CASE NextCycle
  <2>1. wire' = wire /\ cycle' = cycle + 1
    BY <1>3 DEF NextCycle
  <2>2. ASSUME NEW k \in 1..Len(wire), wire[k].type = "rx" PROVE wire[k].cycle # cycle'
    <3>1. wire[k] \in Packets /\ Held(wire[k])
      BY SeqTypes DEF Held, In
    <3>2. wire[k].cycle <= cycle /\ wire[k].cycle \in Nat
      BY <2>2, <3>1, PacketFacts DEF HeldAges
    <3>. QED  BY <1>0, <2>1, <3>2
  <2>. QED  BY <2>1, <2>2 DEF WireOrder
<1>4. ASSUME NEW q \in Packets, wire' = Append(wire, q), cycle' = cycle,
             q.type = "rx" => q.cycle = cycle
      PROVE  WireOrder'
  <2>1. /\ Len(wire') = Len(wire) + 1 /\ Len(wire) \in Nat
        /\ \A k \in 1..Len(wire) : wire'[k] = wire[k]
        /\ wire'[Len(wire) + 1] = q
    BY <1>4, SeqTypes
  <2>2. ASSUME NEW k \in 1..Len(wire'), NEW j \in 1..Len(wire'), k < j,
               wire'[k].type = "rx", wire'[j].type = "rx", wire'[k].cycle = cycle
        PROVE  wire'[j].cycle = cycle
    <3>1. CASE j = Len(wire) + 1
      BY <1>4, <2>1, <2>2, <3>1
    <3>2. CASE j # Len(wire) + 1
      <4>1. k \in 1..Len(wire) /\ j \in 1..Len(wire)
        BY <2>1, <2>2, <3>2
      <4>. QED  BY <2>1, <2>2, <4>1 DEF WireOrder
    <3>. QED  BY <3>1, <3>2
  <2>. QED  BY <1>4, <2>2 DEF WireOrder
<1>5. ASSUME NEW p \in Packets, Arrive(p) PROVE WireOrder'
  BY <1>4, <1>5 DEF Arrive, AirNow, pollVars
<1>6. ASSUME NEW f \in Foreign, Overhear(f) PROVE WireOrder'
  BY <1>4, <1>6, PacketFacts DEF Overhear, pollVars
<1>. QED
  BY <1>1, <1>2, <1>3, <1>5, <1>6
  DEF BridgeNext, TxPoll, Listen, Emptied, ListenEnd, SendPing, PingReads, PingAnswered,
      PingTimeout, Done, bridgeVars, pollVars, linkVars

(* Of two replies in one batch, the older comes first: only then is the    *)
(* batch read with a reply of the cycle before, put back or still unread.  *)
LEMMA BatchOrder ==
  ASSUME BridgeTypeOK, Phases, HeldAges, PutBackAges, WireOrder, stage = "listen",
         NEW k \in 1..Len(Batch), NEW q \in Packets, Later(Batch[k], q), In(Batch, q),
         \A p : In(Batch, p) => Held(p)
  PROVE  \E j \in 1..(k - 1) : Batch[j] = q
<1>1. PICK j \in 1..Len(Batch) : Batch[j] = q
  BY DEF In
<1>2. Batch \in Seq(Packets) /\ Batch = pending \o wire
  BY BatchType DEF Batch
<1>3. /\ Len(Batch) = Len(pending) + Len(wire) /\ Len(pending) \in Nat /\ Len(wire) \in Nat
      /\ \A i \in 1..Len(pending) : Batch[i] = pending[i]
      /\ \A i \in (Len(pending) + 1)..(Len(pending) + Len(wire)) :
           Batch[i] = wire[i - Len(pending)]
  BY <1>2, SeqTypes
<1>4. Batch[k] \in Packets /\ Held(Batch[k]) /\ Held(q)
  BY <1>2 DEF In
<1>5. cycle \in Nat /\ q.cycle \in Nat /\ Batch[k].cycle \in Nat
  BY <1>4, PacketFacts, OrderFacts DEF BridgeTypeOK
<1>6. /\ Batch[k].type = "rx" /\ q.type = "rx" /\ q.cycle < Batch[k].cycle
  BY DEF Later
<1>7. Batch[k].cycle = cycle /\ q.cycle < cycle /\ ~Drained
  <2>1. cycle <= q.cycle + 1 /\ Batch[k].cycle <= cycle /\ (Drained => q.cycle = cycle)
    BY <1>4, <1>6 DEF HeldAges
  <2>. QED  BY <1>5, <1>6, <2>1
<1>8. k > Len(pending)
  <2> SUFFICES ASSUME k <= Len(pending) PROVE FALSE
    BY <1>3
  <2>1. In(pending, Batch[k])
    BY <1>3 DEF In
  <2>2. Batch[k].cycle < cycle
    BY <1>4, <1>6, <1>7, <2>1 DEF PutBackAges
  <2>. QED  BY <1>5, <1>7, <2>2
<1>9. k # j
  BY <1>1, <1>5, <1>6
<1>10. ~(j > k)
  <2> SUFFICES ASSUME j > k PROVE FALSE
    OBVIOUS
  <2>1. /\ k - Len(pending) \in 1..Len(wire) /\ j - Len(pending) \in 1..Len(wire)
        /\ k - Len(pending) < j - Len(pending)
    BY <1>3, <1>8
  <2>2. wire[k - Len(pending)] = Batch[k] /\ wire[j - Len(pending)] = q
    <3>1. /\ k \in (Len(pending) + 1)..(Len(pending) + Len(wire))
          /\ j \in (Len(pending) + 1)..(Len(pending) + Len(wire))
      BY <1>3, <1>8
    <3>. QED  BY <1>1, <1>3, <3>1
  <2>3. q.cycle = cycle
    BY <1>6, <1>7, <2>1, <2>2 DEF WireOrder
  <2>. QED  BY <1>5, <1>7, <2>3
<1>. QED  BY <1>1, <1>3, <1>9, <1>10

LEMMA SeenOrderNext ==
  ASSUME Order # <<>>, BridgeTypeOK, Phases, HeldAges, SeenAges, PutBackAges, WireOrder, SeenOrder,
         [BridgeNext]_bridgeVars
  PROVE  SeenOrder'
<1>1. CASE Listen
  <2>1. /\ delivered' = delivered \o Batch
        /\ \A p : In(Batch, p) <=> Held(p)
        /\ \A p : In(delivered, p)' <=> In(delivered, p) \/ Held(p)
    BY <1>1, ListenEffect
  <2>2. /\ Len(delivered') = Len(delivered) + Len(Batch)
        /\ Len(delivered) \in Nat /\ Len(Batch) \in Nat
        /\ \A i \in 1..Len(delivered) : delivered'[i] = delivered[i]
        /\ \A i \in (Len(delivered) + 1)..(Len(delivered) + Len(Batch)) :
             delivered'[i] = Batch[i - Len(delivered)]
    BY <2>1, SeqTypes, BatchType
  <2>3. \A i \in 1..Len(delivered) : delivered[i] \in Packets
    BY SeqTypes
  <2>4. ASSUME NEW k \in 1..Len(delivered'), NEW q \in Packets,
               Later(delivered'[k], q), In(delivered, q)'
        PROVE  \E j \in 1..(k - 1) : delivered'[j] = q
    <3>1. CASE k <= Len(delivered) /\ In(delivered, q)
      <4>1. delivered'[k] = delivered[k] /\ k \in 1..Len(delivered)
        BY <2>2, <3>1
      <4>2. PICK j \in 1..(k - 1) : delivered[j] = q
        BY <2>4, <3>1, <4>1 DEF SeenOrder
      <4>. QED  BY <2>2, <3>1, <4>2
    <3>2. CASE k > Len(delivered) /\ In(delivered, q)
      <4>1. PICK j \in 1..Len(delivered) : delivered[j] = q
        BY <3>2 DEF In
      <4>. QED  BY <2>2, <3>2, <4>1
    <3>3. CASE k > Len(delivered) /\ ~In(delivered, q)
      <4>1. In(Batch, q)
        BY <2>1, <2>4, <3>3
      <4>2. /\ k - Len(delivered) \in 1..Len(Batch)
            /\ delivered'[k] = Batch[k - Len(delivered)]
        BY <2>2, <3>3
      <4>3. PICK j \in 1..((k - Len(delivered)) - 1) : Batch[j] = q
        BY <1>1, <2>1, <2>4, <4>1, <4>2, BatchOrder DEF Listen
      <4>4. /\ Len(delivered) + j \in (Len(delivered) + 1)..(Len(delivered) + Len(Batch))
            /\ Len(delivered) + j \in 1..(k - 1) /\ (Len(delivered) + j) - Len(delivered) = j
        BY <2>2, <4>2, <4>3
      <4>5. delivered'[Len(delivered) + j] = q
        BY <2>2, <4>3, <4>4
      <4>. QED  BY <4>4, <4>5
    <3>4. CASE k <= Len(delivered) /\ ~In(delivered, q)
      <4>1. Held(q)
        BY <2>1, <2>4, <3>4
      <4>2. delivered'[k] = delivered[k] /\ delivered[k] \in Packets /\ In(delivered, delivered[k])
        BY <2>2, <2>3, <3>4 DEF In
      <4>3. delivered[k].type = "rx" /\ q.type = "rx" /\ q.cycle < delivered[k].cycle
        BY <2>4, <4>2 DEF Later
      <4>4. cycle \in Nat /\ q.cycle \in Nat /\ delivered[k].cycle \in Nat
        BY <4>2, PacketFacts, OrderFacts DEF BridgeTypeOK
      <4>5. cycle <= q.cycle + 1 /\ (Drained => q.cycle = cycle)
        BY <4>1, <4>3 DEF HeldAges
      <4>6. delivered[k].cycle < cycle \/ (delivered[k].cycle = cycle /\ Drained)
        BY <4>2, <4>3 DEF SeenAges
      <4>. QED  BY <4>3, <4>4, <4>5, <4>6
    <3>. QED  BY <2>2, <3>1, <3>2, <3>3, <3>4
  <2>. QED  BY <2>4 DEF SeenOrder
<1>2. CASE delivered' = delivered
  BY <1>2 DEF SeenOrder, In
<1>. QED
  BY <1>1, <1>2
  DEF BridgeNext, TxPoll, ListenEnd, SendPing, PingReads, PingAnswered, PingTimeout, NextCycle,
      Done, Arrive, Overhear, bridgeVars

(* Where a packet is first in the history. *)
LEMMA FirstFacts ==
  ASSUME BridgeTypeOK, NEW p, In(delivered, p)
  PROVE  /\ FirstSeen(p) \in 1..Len(delivered) /\ delivered[FirstSeen(p)] = p
         /\ \A j \in 1..(FirstSeen(p) - 1) : delivered[j] # p
<1> DEFINE S == {k \in 1..Len(delivered) : delivered[k] = p}
<1>1. S \in SUBSET Nat /\ S # {}
  BY DEF In
<1>2. \E k \in S : \A j \in S : k <= j
  <2> HIDE DEF S
  <2>. QED  BY <1>1, HasMinimum
<1>3. PICK k \in S : \A j \in S : k <= j
  BY <1>2
<1>4. k \in 1..Len(delivered) /\ delivered[k] = p /\ \A j \in 1..(k - 1) : delivered[j] # p
  <2>1. \A j \in 1..(k - 1) : j \in 1..Len(delivered) /\ ~(k <= j)
    BY <1>3, SeqTypes
  <2>. QED  BY <1>3, <2>1
<1>. QED  BY <1>4, Zenon DEF FirstSeen

LEMMA SequencedInvariant ==
  Order # <<>> => (BridgeSpec => [](BridgeTypeOK /\ Phases /\ Ages /\ Sequenced))
<1> SUFFICES ASSUME Order # <<>> PROVE BridgeSpec => [](BridgeTypeOK /\ Phases /\ Ages /\ Sequenced)
  OBVIOUS
<1>1. BridgeInit => Sequenced
  BY SequencedInit
<1>2. BridgeTypeOK /\ Phases /\ Ages /\ Sequenced /\ [BridgeNext]_bridgeVars => Sequenced'
  <2> SUFFICES ASSUME BridgeTypeOK, Phases, Ages, Sequenced, [BridgeNext]_bridgeVars PROVE Sequenced'
    OBVIOUS
  <2>1. AirNow /\ HeldAges
    BY AgesParts
  <2>2. SeenAges /\ PutBackAges /\ WireOrder /\ SeenOrder
    BY SequencedParts
  <2>3. SeenAges' /\ PutBackAges' /\ WireOrder' /\ SeenOrder'
    BY <2>1, <2>2, SeenAgesNext, PutBackAgesNext, WireOrderNext, SeenOrderNext
  <2>. QED  BY <2>3 DEF Sequenced, SeenAges, PutBackAges, WireOrder, SeenOrder, Later
<1>. QED  BY <1>1, <1>2, AgesInvariant, PTL DEF BridgeSpec

(* Putting back never lets a reply overtake an older one: the poll loop    *)
(* first meets the replies in the order of the polls they answer.          *)
THEOREM OrderTheorem == BridgeSpec => []RepliesInOrder
<1>1. CASE Order # <<>>
  <2>1. BridgeTypeOK /\ Sequenced => RepliesInOrder
    <3> SUFFICES ASSUME BridgeTypeOK, Sequenced, NEW i \in Polled,
                        NEW m \in 1..MaxCycles, NEW n \in 1..MaxCycles, m < n,
                        Count(delivered, Reply(i, m)) > 0, Count(delivered, Reply(i, n)) > 0
                 PROVE  FirstSeen(Reply(i, m)) < FirstSeen(Reply(i, n))
      BY DEF RepliesInOrder
    <3> DEFINE p == Reply(i, n)
               q == Reply(i, m)
    <3>1. In(delivered, p) /\ In(delivered, q)
      <4>1. \A x : Count(delivered, x) > 0 => In(delivered, x)
        BY SeqTypes, CountFacts
      <4>. QED  BY <4>1
    <3>2. q \in Packets /\ Later(p, q)
      BY PacketFacts DEF Later
    <3> HIDE DEF p, q
    <3>3. /\ FirstSeen(p) \in 1..Len(delivered) /\ delivered[FirstSeen(p)] = p
          /\ FirstSeen(q) \in 1..Len(delivered)
          /\ \A j \in 1..(FirstSeen(q) - 1) : delivered[j] # q
      BY <3>1, FirstFacts
    <3>4. PICK j \in 1..(FirstSeen(p) - 1) : delivered[j] = q
      BY <3>1, <3>2, <3>3, SequencedParts DEF SeenOrder
    <3>5. FirstSeen(q) <= j
      BY <3>3, <3>4
    <3>6. FirstSeen(q) < FirstSeen(p)
      BY <3>3, <3>4, <3>5
    <3>. QED  BY <3>6 DEF p, q
  <2>. QED  BY <1>1, <2>1, SequencedInvariant, PTL
<1>2. CASE Order = <<>>
  <2>1. RepliesInOrder
    BY <1>2 DEF RepliesInOrder, Polled
  <2>. QED  BY <2>1, PTL
<1>. QED  BY <1>1, <1>2

-----------------------------------------------------------------------------
(* How many copies of a packet there are, and where. *)

Coming(p) == Unsent(p) \/ p \in air
AirSent   == \A p \in air : ~Unsent(p)
NotYet    == \A p \in Packets : Coming(p) => ~Held(p) /\ ~In(delivered, p)
OneUnread == \A p \in Packets : Count(wire, p) + Count(leftover, p) <= 1
NewUnread == \A p \in Packets : In(wire, p) \/ In(leftover, p)
                                  => ~In(pending, p) /\ ~In(delivered, p)
TwoCopies == \A p \in Packets : Count(pending, p) + Count(delivered, p) <= 2
DueIsThere == \A p \in due : Held(p) \/ In(delivered, p)

LEMMA CopiedParts ==
  Copied <=> AirSent /\ NotYet /\ OneUnread /\ NewUnread /\ TwoCopies /\ DueIsThere
BY DEF Copied, AirSent, NotYet, Coming, OneUnread, NewUnread, TwoCopies, DueIsThere

LEMMA CopiedInit == BridgeInit => Copied
<1> SUFFICES ASSUME BridgeInit PROVE Copied
  OBVIOUS
<1>1. /\ wire = <<>> /\ leftover = <<>> /\ pending = <<>> /\ delivered = <<>>
      /\ air = {} /\ due = {}
  BY DEF BridgeInit
<1>2. \A p : ~Held(p) /\ ~In(delivered, p) /\ ~In(wire, p) /\ ~In(leftover, p)
  BY <1>1, NothingIn DEF Held
<1>3. \A p : /\ Count(wire, p) = 0 /\ Count(leftover, p) = 0
             /\ Count(pending, p) = 0 /\ Count(delivered, p) = 0
  BY <1>1, NothingIn
<1>4. AirSent /\ NotYet /\ DueIsThere /\ NewUnread
  BY <1>1, <1>2 DEF AirSent, NotYet, DueIsThere, NewUnread
<1>5. OneUnread /\ TwoCopies
  BY <1>3 DEF OneUnread, TwoCopies
<1>. QED  BY <1>4, <1>5, CopiedParts

(* What was sent is never sent again. *)
LEMMA UnsentNext ==
  ASSUME BridgeTypeOK, [BridgeNext]_bridgeVars, NEW p \in Packets, Unsent(p)'
  PROVE  Unsent(p)
<1>0. /\ cycle \in Nat /\ who \in 1..(Len(Order) + 1) /\ Len(Order) \in Nat
      /\ p.cycle \in Nat
  BY OrderFacts, PacketFacts DEF BridgeTypeOK
<1>1. CASE TxPoll
  BY <1>0, <1>1 DEF TxPoll, Unsent
<1>2. CASE ListenEnd
  BY <1>0, <1>2 DEF ListenEnd, Unsent, linkVars
<1>3. CASE SendPing
  BY <1>0, <1>3 DEF SendPing, Unsent
<1>4. CASE PingAnswered
  BY <1>0, <1>4 DEF PingAnswered, Unsent
<1>5. CASE PingTimeout
  BY <1>0, <1>5 DEF PingTimeout, Unsent, linkVars
<1>6. CASE NextCycle
  BY <1>0, <1>6 DEF NextCycle, Unsent
<1>7. CASE UNCHANGED <<stage, who, cycle, unheard>>
  BY <1>7 DEF Unsent
<1>8. ASSUME NEW f \in Foreign, Overhear(f) PROVE Unsent(p)
  BY <1>8 DEF Overhear, Unsent, pollVars
<1>. QED
  BY <1>1, <1>2, <1>3, <1>4, <1>5, <1>6, <1>7, <1>8
  DEF BridgeNext, Listen, PingReads, Done, Arrive, bridgeVars, pollVars, linkVars

LEMMA AirSentNext ==
  ASSUME BridgeTypeOK, Phases, AirSent, [BridgeNext]_bridgeVars
  PROVE  AirSent'
<1>0. air \subseteq Packets /\ \A p \in air : ~(Unsent(p)')
  BY UnsentNext DEF BridgeTypeOK, AirSent
<1>1. CASE TxPoll
  <2>0. PICK q : q = Reply(Order[who], cycle)
    OBVIOUS
  <2>1. /\ who \in 1..Len(Order) /\ Order[who] \in Polled /\ cycle \in 1..MaxCycles
        /\ Len(Order) \in Nat
    BY <1>1, OrderFacts DEF TxPoll, BridgeTypeOK
  <2>2. q \in Packets /\ q.type = "rx" /\ q.src = Order[who] /\ q.cycle = cycle
    BY <2>0, <2>1, PacketFacts
  <2>3. \A k \in who..Len(Order) : Order[k] = Order[who] => k = who
    BY <2>1, BridgeAssumption
  <2>4. ~(Unsent(q)')
    BY <1>1, <2>1, <2>2, <2>3 DEF TxPoll, Unsent
  <2>5. \A p \in air' : p = q \/ p \in air
    BY <1>1, <2>0 DEF TxPoll
  <2>. QED  BY <1>0, <2>4, <2>5 DEF AirSent
<1>2. CASE SendPing
  <2>0. PICK q : q = Info(cycle)
    OBVIOUS
  <2>1. cycle \in 1..MaxCycles /\ cycle \in Nat
    BY OrderFacts DEF BridgeTypeOK
  <2>2. q \in Packets /\ q.type = "info" /\ q.cycle = cycle
    BY <2>0, <2>1, PacketFacts
  <2>3. ~(Unsent(q)')
    BY <1>2, <2>1, <2>2 DEF SendPing, Unsent
  <2>4. \A p \in air' : p = q \/ p \in air
    BY <1>2, <2>0 DEF SendPing
  <2>. QED  BY <1>0, <2>3, <2>4 DEF AirSent
<1>3. CASE air' \subseteq air
  BY <1>0, <1>3 DEF AirSent
<1>. QED
  BY <1>1, <1>2, <1>3
  DEF BridgeNext, Listen, ListenEnd, PingReads, PingAnswered, PingTimeout, NextCycle, Done,
      Arrive, Overhear, bridgeVars, linkVars

(* What arrives was not there before: it was still coming. *)
LEMMA ComingNext ==
  ASSUME Order # <<>>, BridgeTypeOK, Phases, AirNow, AirSent, [BridgeNext]_bridgeVars, NEW p \in Packets, Coming(p)'
  PROVE  Coming(p)
<1>1. CASE Unsent(p)'
  BY <1>1, UnsentNext DEF Coming
<1>2. CASE p \in air'
  <2>1. CASE p \in air
    BY <2>1 DEF Coming
  <2>2. CASE p \notin air
    <3>0. /\ cycle \in 1..MaxCycles /\ who \in 1..(Len(Order) + 1) /\ Len(Order) \in Nat
          /\ cycle \in Nat
      BY OrderFacts DEF BridgeTypeOK
    <3>1. CASE TxPoll
      <4>1. p = Reply(Order[who], cycle) /\ stage = "tx" /\ who \in who..Len(Order)
        BY <1>2, <2>2, <3>0, <3>1 DEF TxPoll
      <4>2. p.type = "rx" /\ p.src = Order[who] /\ p.cycle = cycle
        BY <4>1, <3>0, OrderFacts, PacketFacts
      <4>3. Unsent(p)
        BY <4>1, <4>2 DEF Unsent
      <4>. QED  BY <4>3 DEF Coming
    <3>2. CASE SendPing
      <4>1. p = Info(cycle) /\ stage = "tx"
        BY <1>2, <2>2, <3>2 DEF SendPing
      <4>2. p.type = "info" /\ p.cycle = cycle
        BY <4>1, <3>0, PacketFacts
      <4>3. Unsent(p)
        BY <4>1, <4>2 DEF Unsent
      <4>. QED  BY <4>3 DEF Coming
    <3>3. CASE air' \subseteq air
      BY <1>2, <2>2, <3>3
    <3>. QED
      BY <3>1, <3>2, <3>3
      DEF BridgeNext, Listen, ListenEnd, PingReads, PingAnswered, PingTimeout, NextCycle, Done,
          Arrive, Overhear, bridgeVars, linkVars
  <2>. QED  BY <2>1, <2>2
<1>. QED  BY <1>1, <1>2 DEF Coming

(* The steps of the invariants about copies, one lemma for each way in     *)
(* which a step moves packets.                                             *)
Places == NotYet /\ OneUnread /\ NewUnread /\ TwoCopies /\ DueIsThere

(* Reading the step of one packet suffices. *)
LEMMA PlacesStep ==
  ASSUME NEW D, D = due',
         \A p \in Packets :
           /\ Coming(p)' => ~(Held(p)') /\ ~(In(delivered, p)')
           /\ Count(wire, p)' + Count(leftover, p)' <= 1
           /\ In(wire, p)' \/ In(leftover, p)' => ~(In(pending, p)') /\ ~(In(delivered, p)')
           /\ Count(pending, p)' + Count(delivered, p)' <= 2,
         \A p \in D : Held(p)' \/ In(delivered, p)'
  PROVE  Places'
BY DEF Places, NotYet, OneUnread, NewUnread, TwoCopies, DueIsThere

LEMMA Counts ==
  ASSUME BridgeTypeOK
  PROVE  \A p : /\ Count(wire, p) \in Nat /\ (In(wire, p) <=> Count(wire, p) >= 1)
                /\ Count(leftover, p) \in Nat /\ (In(leftover, p) <=> Count(leftover, p) >= 1)
                /\ Count(pending, p) \in Nat /\ (In(pending, p) <=> Count(pending, p) >= 1)
                /\ Count(delivered, p) \in Nat /\ (In(delivered, p) <=> Count(delivered, p) >= 1)
BY SeqTypes, CountFacts

LEMMA CountsNext ==
  ASSUME BridgeTypeOK'
  PROVE  \A p : /\ Count(wire, p)' \in Nat /\ (In(wire, p)' <=> Count(wire, p)' >= 1)
                /\ Count(leftover, p)' \in Nat /\ (In(leftover, p)' <=> Count(leftover, p)' >= 1)
                /\ Count(pending, p)' \in Nat /\ (In(pending, p)' <=> Count(pending, p)' >= 1)
                /\ Count(delivered, p)' \in Nat /\ (In(delivered, p)' <=> Count(delivered, p)' >= 1)
<1>1. /\ pending' \in Seq(Packets) /\ leftover' \in Seq(Packets)
      /\ wire' \in Seq(Packets) /\ delivered' \in Seq(Packets)
  BY DEF BridgeTypeOK
<1>2. \A s \in Seq(Packets) : \A p : Count(s, p) \in Nat /\ (In(s, p) <=> Count(s, p) >= 1)
  BY CountFacts
<1>3. \A p : /\ Count(wire, p)' = Count(wire', p) /\ (In(wire, p)' <=> In(wire', p))
             /\ Count(leftover, p)' = Count(leftover', p) /\ (In(leftover, p)' <=> In(leftover', p))
             /\ Count(pending, p)' = Count(pending', p) /\ (In(pending, p)' <=> In(pending', p))
             /\ Count(delivered, p)' = Count(delivered', p)
             /\ (In(delivered, p)' <=> In(delivered', p))
  BY DEF In, Count
<1>. QED  BY <1>1, <1>2, <1>3

LEMMA PlacesListen ==
  ASSUME Order # <<>>, BridgeTypeOK, BridgeTypeOK', Phases, AirNow, AirSent, Places, Listen
  PROVE  Places'
<1> USE DEF Places
<1>1. [BridgeNext]_bridgeVars /\ leftover = <<>>
  BY DEF BridgeNext, Listen, Phases
<1>2. /\ \A p : ~(Held(p)')
      /\ \A p : Count(wire, p)' = 0 /\ Count(leftover, p)' = 0 /\ Count(pending, p)' = 0
      /\ \A p : In(delivered, p)' <=> In(delivered, p) \/ Held(p)
      /\ \A p : Count(delivered, p)' = Count(delivered, p) + Count(pending, p) + Count(wire, p)
  BY ListenEffect
<1>3. ASSUME NEW p \in Packets
      PROVE  /\ Coming(p)' => ~(Held(p)') /\ ~(In(delivered, p)')
             /\ Count(wire, p)' + Count(leftover, p)' <= 1
             /\ In(wire, p)' \/ In(leftover, p)' => ~(In(pending, p)') /\ ~(In(delivered, p)')
             /\ Count(pending, p)' + Count(delivered, p)' <= 2
  <2>1. Coming(p)' => ~(Held(p)') /\ ~(In(delivered, p)')
    BY <1>1, <1>2, ComingNext DEF NotYet
  <2>2. ~(In(wire, p)') /\ ~(In(leftover, p)')
    BY <1>2 DEF Held
  <2>3. Count(delivered, p) + Count(pending, p) + Count(wire, p) <= 2
    <3>1. /\ Count(wire, p) \in Nat /\ (In(wire, p) <=> Count(wire, p) >= 1)
          /\ Count(leftover, p) \in Nat
          /\ Count(pending, p) \in Nat /\ (In(pending, p) <=> Count(pending, p) >= 1)
          /\ Count(delivered, p) \in Nat /\ (In(delivered, p) <=> Count(delivered, p) >= 1)
      BY Counts
    <3>2. /\ Count(wire, p) + Count(leftover, p) <= 1
          /\ Count(pending, p) + Count(delivered, p) <= 2
          /\ In(wire, p) => ~In(pending, p) /\ ~In(delivered, p)
      BY DEF OneUnread, NewUnread, TwoCopies
    <3>. QED  BY <3>1, <3>2
  <2>4. Count(wire, p)' + Count(leftover, p)' <= 1
    BY <1>2
  <2>5. Count(pending, p)' + Count(delivered, p)' <= 2
    <3>1. Count(delivered, p)' \in Nat
      BY CountsNext
    <3>. QED  BY <1>2, <2>3, <3>1
  <2>. QED  BY <2>1, <2>2, <2>4, <2>5
<1>4. \A p \in due : Held(p)' \/ In(delivered, p)'
  BY <1>2 DEF DueIsThere
<1>5. due' = due
  BY DEF Listen
<1>. QED  BY <1>3, <1>4, <1>5, PlacesStep

LEMMA PlacesPingReads ==
  ASSUME Order # <<>>, BridgeTypeOK, BridgeTypeOK', Phases, AirNow, AirSent, Places, PingReads
  PROVE  Places'
<1> USE DEF Places
<1>1. [BridgeNext]_bridgeVars /\ stage = "wait" /\ due' = due /\ delivered' = delivered
  BY DEF BridgeNext, PingReads
<1>2. /\ \A p : In(leftover, p)' <=> Held(p)
      /\ \A p : ~(In(wire, p)') /\ ~(In(pending, p)')
      /\ \A p : /\ Count(leftover, p)' = Count(leftover, p) + Count(wire, p)
                /\ Count(wire, p)' = 0 /\ Count(pending, p)' = 0
  BY PingReadsEffect
<1>3. \A p : Held(p)' <=> Held(p)
  BY <1>2 DEF Held
<1>4. \A p : Held(p) <=> In(leftover, p) \/ In(wire, p)
  BY <1>1, WaitEffect
<1>5. \A p : (In(delivered, p)' <=> In(delivered, p)) /\ Count(delivered, p)' = Count(delivered, p)
  BY <1>1 DEF In, Count
<1>6. ASSUME NEW p \in Packets
      PROVE  /\ Coming(p)' => ~(Held(p)') /\ ~(In(delivered, p)')
             /\ Count(wire, p)' + Count(leftover, p)' <= 1
             /\ In(wire, p)' \/ In(leftover, p)' => ~(In(pending, p)') /\ ~(In(delivered, p)')
             /\ Count(pending, p)' + Count(delivered, p)' <= 2
  <2>1. Coming(p)' => ~(Held(p)') /\ ~(In(delivered, p)')
    BY <1>1, <1>3, <1>5, ComingNext DEF NotYet
  <2>2. In(wire, p)' \/ In(leftover, p)' => ~(In(pending, p)') /\ ~(In(delivered, p)')
    BY <1>2, <1>4, <1>5 DEF NewUnread
  <2>3. /\ Count(wire, p) \in Nat /\ Count(leftover, p) \in Nat
        /\ Count(pending, p) \in Nat /\ Count(delivered, p) \in Nat
    BY Counts
  <2>4. /\ Count(wire, p) + Count(leftover, p) <= 1
        /\ Count(pending, p) + Count(delivered, p) <= 2
    BY DEF OneUnread, TwoCopies
  <2>5. Count(wire, p)' + Count(leftover, p)' <= 1
    BY <1>2, <2>3, <2>4
  <2>6. Count(pending, p)' + Count(delivered, p)' <= 2
    BY <1>2, <1>5, <2>3, <2>4
  <2>. QED  BY <2>1, <2>2, <2>5, <2>6
<1>7. \A p \in due : Held(p)' \/ In(delivered, p)'
  BY <1>3, <1>5 DEF DueIsThere
<1>. QED  BY <1>1, <1>6, <1>7, PlacesStep

LEMMA PlacesAnswered ==
  ASSUME Order # <<>>, BridgeTypeOK, BridgeTypeOK', Phases, AirNow, AirSent, Places, PingAnswered
  PROVE  Places'
<1> USE DEF Places
<1>1. [BridgeNext]_bridgeVars /\ stage = "wait" /\ delivered' = delivered
  BY DEF BridgeNext, PingAnswered
<1>2. /\ wire' = <<>> /\ leftover' = <<>>
      /\ \A p : In(pending, p)' => Held(p)
      /\ \A p : Count(pending, p)' <= 2 * (Count(leftover, p) + Count(wire, p))
      /\ \A p \in due' : p \in due /\ (Held(p) => In(pending, p)')
  BY PingAnsweredEffect
<1>3. \A p : ~(In(wire, p)') /\ ~(In(leftover, p)') /\ Count(wire, p)' = 0 /\ Count(leftover, p)' = 0
  <2>1. \A p : /\ In(wire, p)' <=> In(<<>>, p)
               /\ In(leftover, p)' <=> In(<<>>, p)
               /\ Count(wire, p)' = Count(<<>>, p)
               /\ Count(leftover, p)' = Count(<<>>, p)
    BY <1>2 DEF In, Count
  <2>. QED  BY <2>1, NothingIn
<1>4. \A p : Held(p)' <=> In(pending, p)'
  BY <1>3 DEF Held
<1>5. \A p : (In(delivered, p)' <=> In(delivered, p)) /\ Count(delivered, p)' = Count(delivered, p)
  BY <1>1 DEF In, Count
<1>6. \A p : Held(p) <=> In(leftover, p) \/ In(wire, p)
  BY <1>1, WaitEffect
<1>7. ASSUME NEW p \in Packets
      PROVE  /\ Coming(p)' => ~(Held(p)') /\ ~(In(delivered, p)')
             /\ Count(wire, p)' + Count(leftover, p)' <= 1
             /\ In(wire, p)' \/ In(leftover, p)' => ~(In(pending, p)') /\ ~(In(delivered, p)')
             /\ Count(pending, p)' + Count(delivered, p)' <= 2
  <2>1. Coming(p)' => ~(Held(p)') /\ ~(In(delivered, p)')
    BY <1>1, <1>2, <1>4, <1>5, ComingNext DEF NotYet
  <2>2. /\ Count(wire, p) \in Nat /\ (In(wire, p) <=> Count(wire, p) >= 1)
        /\ Count(leftover, p) \in Nat /\ (In(leftover, p) <=> Count(leftover, p) >= 1)
        /\ Count(pending, p) \in Nat
        /\ Count(delivered, p) \in Nat /\ (In(delivered, p) <=> Count(delivered, p) >= 1)
    BY Counts
  <2>3. Count(pending, p)' \in Nat
    BY CountsNext
  <2>4. /\ Count(wire, p) + Count(leftover, p) <= 1
        /\ Count(pending, p) + Count(delivered, p) <= 2
        /\ In(wire, p) \/ In(leftover, p) => ~In(delivered, p)
    BY DEF OneUnread, NewUnread, TwoCopies
  <2>5. Count(pending, p)' <= 2 * (Count(leftover, p) + Count(wire, p))
    BY <1>2
  <2>6. Count(pending, p)' + Count(delivered, p) <= 2
    BY <2>2, <2>3, <2>4, <2>5
  <2>. QED  BY <1>3, <1>5, <2>1, <2>6
<1>8. ASSUME NEW D, D = due' PROVE \A p \in D : Held(p)' \/ In(delivered, p)'
  BY <1>2, <1>4, <1>5, <1>8 DEF DueIsThere
<1>. QED  BY <1>7, <1>8, PlacesStep

LEMMA PlacesTimeout ==
  ASSUME Order # <<>>, BridgeTypeOK, BridgeTypeOK', Phases, AirNow, AirSent, Places, PingTimeout
  PROVE  Places'
<1> USE DEF Places
<1>1. [BridgeNext]_bridgeVars /\ stage = "wait" /\ delivered' = delivered /\ due' = due
  BY DEF BridgeNext, PingTimeout
<1>2. /\ wire' = wire
      /\ \A p : In(pending, p)' <=> In(leftover, p)
      /\ \A p : ~(In(leftover, p)')
      /\ \A p : Count(pending, p)' = Count(leftover, p) /\ Count(leftover, p)' = 0
  BY PingTimeoutEffect
<1>3. \A p : /\ In(wire, p)' <=> In(wire, p)
             /\ Count(wire, p)' = Count(wire, p)
             /\ In(delivered, p)' <=> In(delivered, p)
             /\ Count(delivered, p)' = Count(delivered, p)
  BY <1>1, <1>2 DEF In, Count
<1>4. \A p : Held(p)' <=> In(leftover, p) \/ In(wire, p)
  BY <1>2, <1>3 DEF Held
<1>5. \A p : Held(p) <=> In(leftover, p) \/ In(wire, p)
  BY <1>1, WaitEffect
<1>6. ASSUME NEW p \in Packets
      PROVE  /\ Coming(p)' => ~(Held(p)') /\ ~(In(delivered, p)')
             /\ Count(wire, p)' + Count(leftover, p)' <= 1
             /\ In(wire, p)' \/ In(leftover, p)' => ~(In(pending, p)') /\ ~(In(delivered, p)')
             /\ Count(pending, p)' + Count(delivered, p)' <= 2
  <2>1. Coming(p)' => ~(Held(p)') /\ ~(In(delivered, p)')
    BY <1>1, <1>3, <1>4, <1>5, ComingNext DEF NotYet
  <2>2. /\ Count(wire, p) \in Nat /\ (In(wire, p) <=> Count(wire, p) >= 1)
        /\ Count(leftover, p) \in Nat /\ (In(leftover, p) <=> Count(leftover, p) >= 1)
        /\ Count(pending, p) \in Nat
        /\ Count(delivered, p) \in Nat /\ (In(delivered, p) <=> Count(delivered, p) >= 1)
    BY Counts
  <2>3. /\ Count(wire, p) + Count(leftover, p) <= 1
        /\ Count(pending, p) + Count(delivered, p) <= 2
        /\ In(wire, p) \/ In(leftover, p) => ~In(delivered, p)
    BY DEF OneUnread, NewUnread, TwoCopies
  <2>4. In(wire, p) => ~In(leftover, p)
    BY <2>2, <2>3
  <2>5. Count(leftover, p) + Count(delivered, p) <= 2 /\ Count(wire, p) + 0 <= 1
    BY <2>2, <2>3
  <2>. QED  BY <1>2, <1>3, <2>1, <2>3, <2>4, <2>5
<1>7. \A p \in due : Held(p)' \/ In(delivered, p)'
  BY <1>3, <1>4, <1>5 DEF DueIsThere
<1>. QED  BY <1>1, <1>6, <1>7, PlacesStep

LEMMA PlacesArrive ==
  ASSUME BridgeTypeOK, Places, NEW q \in Packets, Coming(q),
         \A p \in Packets : Coming(p)' => Coming(p) /\ p # q,
         wire' = Append(wire, q), UNCHANGED <<objVars, delivered>>,
         due' \subseteq due \cup {q}
  PROVE  Places'
<1> USE DEF Places
<1>1. /\ \A p : In(wire, p)' <=> In(wire, p) \/ p = q
      /\ \A p : Held(p)' <=> Held(p) \/ p = q
      /\ \A p : In(pending, p)' <=> In(pending, p)
      /\ \A p : In(leftover, p)' <=> In(leftover, p)
      /\ \A p : p # q => Count(wire, p)' = Count(wire, p)
      /\ \A p : ~In(wire, p) => Count(wire, p)' <= 1
      /\ \A p : Count(leftover, p)' = Count(leftover, p)
      /\ \A p : Count(pending, p)' = Count(pending, p)
  BY ArriveEffect DEF objVars
<1>2. \A p : (In(delivered, p)' <=> In(delivered, p)) /\ Count(delivered, p)' = Count(delivered, p)
  BY DEF In, Count
<1>3. ~Held(q) /\ ~In(delivered, q) /\ ~In(wire, q) /\ ~In(leftover, q) /\ ~In(pending, q)
  BY DEF NotYet, Held
<1>4. ASSUME NEW p \in Packets
      PROVE  /\ Coming(p)' => ~(Held(p)') /\ ~(In(delivered, p)')
             /\ Count(wire, p)' + Count(leftover, p)' <= 1
             /\ In(wire, p)' \/ In(leftover, p)' => ~(In(pending, p)') /\ ~(In(delivered, p)')
             /\ Count(pending, p)' + Count(delivered, p)' <= 2
  <2>1. Coming(p)' => ~(Held(p)') /\ ~(In(delivered, p)')
    BY <1>1, <1>2 DEF NotYet
  <2>2. In(wire, p)' \/ In(leftover, p)' => ~(In(pending, p)') /\ ~(In(delivered, p)')
    BY <1>1, <1>2, <1>3 DEF NewUnread
  <2>3. Count(wire, p)' + Count(leftover, p)' <= 1
    <3>1. CASE p # q
      BY <1>1, <3>1 DEF OneUnread
    <3>2. CASE p = q
      <4>1. Count(leftover, p)' = 0
        BY <1>1, <1>3, <3>2, Counts
      <4>2. Count(wire, p)' <= 1
        BY <1>1, <1>3, <3>2
      <4>3. Count(wire, p)' \in Nat
        <5>1. wire' \in Seq(Packets)
          BY SeqTypes
        <5>2. \A s \in Seq(Packets) : Count(s, p) \in Nat
          BY CountFacts
        <5>3. Count(wire, p)' = Count(wire', p)
          BY DEF Count
        <5>. QED  BY <5>1, <5>2, <5>3
      <4>. QED  BY <4>1, <4>2, <4>3
    <3>. QED  BY <3>1, <3>2
  <2>4. Count(pending, p)' + Count(delivered, p)' <= 2
    BY <1>1, <1>2 DEF TwoCopies
  <2>. QED  BY <2>1, <2>2, <2>3, <2>4
<1>5. ASSUME NEW D, D = due' PROVE \A p \in D : Held(p)' \/ In(delivered, p)'
  BY <1>1, <1>2, <1>5 DEF DueIsThere
<1>. QED  BY <1>4, <1>5, PlacesStep

LEMMA PlacesStay ==
  ASSUME Places, UNCHANGED <<objVars, wire, delivered, due>>,
         \A p \in Packets : Coming(p)' => Coming(p)
  PROVE  Places'
<1> USE DEF Places
<1>1. /\ \A p : Held(p)' <=> Held(p)
      /\ \A p : /\ In(wire, p)' <=> In(wire, p)
                /\ In(pending, p)' <=> In(pending, p)
                /\ In(leftover, p)' <=> In(leftover, p)
      /\ \A p : /\ Count(wire, p)' = Count(wire, p)
                /\ Count(pending, p)' = Count(pending, p)
                /\ Count(leftover, p)' = Count(leftover, p)
  BY Untouched
<1>2. \A p : (In(delivered, p)' <=> In(delivered, p)) /\ Count(delivered, p)' = Count(delivered, p)
  BY DEF In, Count
<1>. QED  BY <1>1, <1>2 DEF NotYet, OneUnread, NewUnread, TwoCopies, DueIsThere

LEMMA PlacesNext ==
  ASSUME Order # <<>>, BridgeTypeOK, BridgeTypeOK', Phases, AirNow, AirSent, AirSent', Places, [BridgeNext]_bridgeVars
  PROVE  Places'
<1>0. \A p \in Packets : Coming(p)' => Coming(p)
  BY ComingNext
<1>1. CASE Listen
  BY <1>1, PlacesListen
<1>2. CASE PingReads
  BY <1>2, PlacesPingReads
<1>3. CASE PingAnswered
  BY <1>3, PlacesAnswered
<1>4. CASE PingTimeout
  BY <1>4, PlacesTimeout
<1>5. ASSUME NEW q \in Packets, Arrive(q) PROVE Places'
  <2>1. Coming(q) /\ ~Unsent(q)
    BY <1>5 DEF Arrive, Coming, AirSent
  <2>2. ~(Unsent(q)') /\ q \notin air'
    BY <1>5, <2>1, UnsentNext DEF Arrive
  <2>3. \A p \in Packets : Coming(p)' => p # q
    BY <2>2 DEF Coming
  <2>. QED  BY <1>0, <1>5, <2>1, <2>3, PlacesArrive DEF Arrive
<1>6. ASSUME NEW f \in Foreign, Overhear(f) PROVE Places'
  <2>0. PICK q : q = Other(f)
    OBVIOUS
  <2>1. q \in Packets /\ q.type = "other" /\ q.src = f
    BY <2>0, PacketFacts
  <2>2. Coming(q)
    BY <1>6, <2>1 DEF Overhear, Unsent, Coming
  <2>3. ~(Unsent(q)') /\ q \notin air'
    BY <1>6, <2>1 DEF Overhear, Unsent, AirNow
  <2>4. \A p \in Packets : Coming(p)' => p # q
    BY <2>3 DEF Coming
  <2>. QED  BY <1>0, <1>6, <2>0, <2>1, <2>2, <2>4, PlacesArrive DEF Overhear
<1>7. CASE SendPing
  <2>1. leftover = <<>>
    BY <1>7 DEF SendPing, Phases
  <2>. QED  BY <1>0, <1>7, <2>1, PlacesStay DEF SendPing, objVars
<1>8. CASE TxPoll \/ ListenEnd \/ NextCycle \/ UNCHANGED bridgeVars
  BY <1>0, <1>8, PlacesStay DEF TxPoll, ListenEnd, NextCycle, bridgeVars, linkVars
<1>. QED  BY <1>1, <1>2, <1>3, <1>4, <1>5, <1>6, <1>7, <1>8 DEF BridgeNext, Done

LEMMA CopiedInvariant ==
  Order # <<>> => (BridgeSpec => [](BridgeTypeOK /\ Phases /\ Ages /\ Copied))
<1> SUFFICES ASSUME Order # <<>> PROVE BridgeSpec => [](BridgeTypeOK /\ Phases /\ Ages /\ Copied)
  OBVIOUS
<1>1. BridgeInit => Copied
  BY CopiedInit
<1>2. BridgeTypeOK /\ BridgeTypeOK' /\ Phases /\ Ages /\ Copied /\ [BridgeNext]_bridgeVars => Copied'
  <2> SUFFICES ASSUME BridgeTypeOK, BridgeTypeOK', Phases, Ages, Copied, [BridgeNext]_bridgeVars PROVE Copied'
    OBVIOUS
  <2>1. AirNow
    BY AgesParts
  <2>2. AirSent /\ Places
    BY CopiedParts DEF Places
  <2>3. AirSent' /\ Places'
    BY <2>1, <2>2, AirSentNext, PlacesNext
  <2>. QED
    BY <2>3
    DEF Copied, Places, AirSent, NotYet, Coming, OneUnread, NewUnread, TwoCopies, DueIsThere
<1>. QED  BY <1>1, <1>2, AgesInvariant, PTL DEF BridgeSpec

(* With an inverter to poll, a frame that arrived is still there until it  *)
(* is delivered, and never in more than two copies: what two pings put     *)
(* back does not add up.                                                   *)
THEOREM OnceOrTwiceTheorem == Order # <<>> => (BridgeSpec => []OnceOrTwice)
<1> SUFFICES ASSUME Order # <<>> PROVE BridgeSpec => []OnceOrTwice
  OBVIOUS
<1>1. BridgeTypeOK /\ Copied => OnceOrTwice
  <2> SUFFICES ASSUME BridgeTypeOK, Copied PROVE OnceOrTwice
    OBVIOUS
  <2>1. ASSUME NEW p \in Packets PROVE Copies(p) <= 2
    <3>1. /\ Count(wire, p) \in Nat
          /\ Count(leftover, p) \in Nat /\ (In(leftover, p) <=> Count(leftover, p) >= 1)
          /\ Count(pending, p) \in Nat /\ (In(pending, p) <=> Count(pending, p) >= 1)
          /\ Count(delivered, p) \in Nat /\ (In(delivered, p) <=> Count(delivered, p) >= 1)
      BY Counts
    <3>2. /\ Count(wire, p) + Count(leftover, p) <= 1
          /\ Count(pending, p) + Count(delivered, p) <= 2
          /\ In(leftover, p) => ~In(pending, p) /\ ~In(delivered, p)
      BY DEF Copied
    <3>. QED  BY <3>1, <3>2 DEF Copies
  <2>2. ASSUME NEW p \in due PROVE Count(wire, p) + Copies(p) >= 1
    <3>1. Held(p) \/ In(delivered, p)
      BY <2>2 DEF Copied
    <3>2. /\ Count(wire, p) \in Nat /\ (In(wire, p) <=> Count(wire, p) >= 1)
          /\ Count(leftover, p) \in Nat /\ (In(leftover, p) <=> Count(leftover, p) >= 1)
          /\ Count(pending, p) \in Nat /\ (In(pending, p) <=> Count(pending, p) >= 1)
          /\ Count(delivered, p) \in Nat /\ (In(delivered, p) <=> Count(delivered, p) >= 1)
      BY Counts
    <3>. QED  BY <3>1, <3>2 DEF Copies, Held
  <2>. QED  BY <2>1, <2>2 DEF OnceOrTwice
<1>. QED  BY <1>1, CopiedInvariant, PTL
=============================================================================
