---------------------------- MODULE FlasherProofs ----------------------------
(***************************************************************************)
(* Proofs about Flasher, for an image of any number of chunks, any number  *)
(* of retries and of sessions.                                             *)
(***************************************************************************)
EXTENDS Flasher, SequenceTheorems, TLAPS

-----------------------------------------------------------------------------
(* Sequences. *)

LEMMA ConcatFacts ==
  ASSUME NEW S, NEW s \in Seq(S), NEW t \in Seq(S)
  PROVE  /\ s \o t \in Seq(S)
         /\ Len(s) \in Nat /\ Len(t) \in Nat /\ Len(s \o t) = Len(s) + Len(t)
         /\ \A k \in 1..Len(s) : (s \o t)[k] = s[k]
         /\ \A k \in (Len(s) + 1)..(Len(s) + Len(t)) : (s \o t)[k] = t[k - Len(s)]
OBVIOUS

LEMMA ConcatEmpty ==
  ASSUME NEW S, NEW s \in Seq(S), NEW t \in Seq(S)
  PROVE  s \o t = <<>> <=> s = <<>> /\ t = <<>>
<1>1. /\ Len(s) \in Nat /\ Len(t) \in Nat /\ Len(s \o t) = Len(s) + Len(t) /\ s \o t \in Seq(S)
  BY ConcatFacts
<1>2. \A u \in Seq(S) : u = <<>> <=> Len(u) = 0
  BY EmptySeq
<1>. QED  BY <1>1, <1>2

LEMMA HeadTail ==
  ASSUME NEW S, NEW s \in Seq(S), s # <<>>
  PROVE  /\ Head(s) \in S /\ Head(s) = s[1] /\ Len(s) \in Nat \ {0}
         /\ Tail(s) \in Seq(S) /\ Len(Tail(s)) = Len(s) - 1
         /\ \A k \in 1..(Len(s) - 1) : Tail(s)[k] = s[k + 1]
OBVIOUS

LEMMA SameSeq ==
  ASSUME NEW S, NEW s \in Seq(S), NEW t \in Seq(S),
         Len(s) = Len(t), \A k \in 1..Len(s) : s[k] = t[k]
  PROVE  s = t
BY SeqEqual

-----------------------------------------------------------------------------
(* The script. *)

LEMMA Constants == /\ Chunks \in Nat \ {0} /\ Retries \in Nat \ {0} /\ MaxSessions \in Nat \ {0}
BY FlasherAssumption

LEMMA ScriptFacts ==
  /\ Len(Script) = 2 * Chunks + 8 /\ Len(Script) \in Nat
  /\ Script[1] = "ping" /\ Script[2] = "chipId"
  /\ \A k \in 3..Len(Script) : Script[k] \notin {"ping", "chipId"}
  /\ \A k \in 1..Len(Script) : Script[k] = "reset" => k = Len(Script)
  /\ Script[Len(Script) - 1] = "crc" /\ Script[Len(Script)] = "reset"
<1> DEFINE S == {"ping", "chipId", "erase", "status", "download", "data", "crc", "reset"}
           a == <<"ping", "chipId", "erase", "status", "download", "status">>
           b == [k \in 1..(2 * Chunks) |-> IF k % 2 = 1 THEN "data" ELSE "status"]
           c == <<"crc", "reset">>
<1>0. 2 * Chunks \in Nat /\ Chunks \in Nat /\ Chunks >= 1
  BY Constants
<1>1. /\ a \in Seq(S) /\ Len(a) = 6
      /\ a[1] = "ping" /\ a[2] = "chipId"
      /\ \A k \in 3..6 : a[k] \notin {"ping", "chipId", "reset"}
  OBVIOUS
<1>2. /\ b \in Seq(S) /\ Len(b) = 2 * Chunks
      /\ \A k \in 1..(2 * Chunks) : b[k] \in {"data", "status"}
  <2>1. \A k \in 1..(2 * Chunks) : b[k] \in {"data", "status"}
    OBVIOUS
  <2>2. b \in [1..(2 * Chunks) -> S]
    BY <2>1
  <2> HIDE DEF b
  <2>. QED  BY <1>0, <2>1, <2>2
<1>3. c \in Seq(S) /\ Len(c) = 2 /\ c[1] = "crc" /\ c[2] = "reset"
  OBVIOUS
<1>4. Script = (a \o b) \o c
  BY DEF Script
<1> HIDE DEF a, b, c, S
<1> DEFINE d == a \o b
<1>5. /\ d \in Seq(S) /\ Len(d) = 6 + 2 * Chunks
      /\ \A k \in 1..6 : d[k] = a[k]
      /\ \A k \in 7..(6 + 2 * Chunks) : d[k] = b[k - 6]
  <2>0. a \in Seq(S) /\ b \in Seq(S)
    BY <1>1, <1>2
  <2>1. /\ d \in Seq(S) /\ Len(d) = Len(a) + Len(b)
        /\ \A k \in 1..Len(a) : d[k] = a[k]
        /\ \A k \in (Len(a) + 1)..(Len(a) + Len(b)) : d[k] = b[k - Len(a)]
    BY <2>0, ConcatFacts
  <2>2. Len(a) = 6 /\ Len(b) = 2 * Chunks /\ Len(a) + 1 = 7
    BY <1>1, <1>2
  <2> HIDE DEF d
  <2>. QED  BY <2>1, <2>2
<1> HIDE DEF d
<1>6. /\ Len(d \o c) = 8 + 2 * Chunks
      /\ \A k \in 1..(6 + 2 * Chunks) : (d \o c)[k] = d[k]
      /\ \A k \in (7 + 2 * Chunks)..(8 + 2 * Chunks) : (d \o c)[k] = c[k - (6 + 2 * Chunks)]
  <2>0. d \in Seq(S) /\ c \in Seq(S)
    BY <1>3, <1>5
  <2>1. /\ Len(d \o c) = Len(d) + Len(c)
        /\ \A k \in 1..Len(d) : (d \o c)[k] = d[k]
        /\ \A k \in (Len(d) + 1)..(Len(d) + Len(c)) : (d \o c)[k] = c[k - Len(d)]
    BY <2>0, ConcatFacts
  <2>2. Len(d) = 6 + 2 * Chunks /\ Len(c) = 2
    BY <1>3, <1>5
  <2>3. Len(d) + 1 = 7 + 2 * Chunks /\ Len(d) + Len(c) = 8 + 2 * Chunks
    BY <1>0, <2>2
  <2>. QED  BY <2>1, <2>2, <2>3
<1>7. Script = d \o c
  BY <1>4 DEF d
<1>8. Len(Script) = 2 * Chunks + 8 /\ Len(Script) \in Nat
  BY <1>0, <1>6, <1>7
<1>9. Script[1] = "ping" /\ Script[2] = "chipId"
  BY <1>0, <1>1, <1>5, <1>6, <1>7
<1>10. \A k \in 3..(6 + 2 * Chunks) : Script[k] \notin {"ping", "chipId", "reset"}
  <2> TAKE k \in 3..(6 + 2 * Chunks)
  <2>1. Script[k] = d[k]
    BY <1>0, <1>6, <1>7
  <2>2. CASE k <= 6
    BY <1>1, <1>5, <2>1, <2>2
  <2>3. CASE k > 6
    <3>1. k \in 7..(6 + 2 * Chunks) /\ k - 6 \in 1..(2 * Chunks)
      BY <1>0, <2>3
    <3>. QED  BY <1>2, <1>5, <2>1, <3>1
  <2>. QED  BY <1>0, <2>2, <2>3
<1>11. Script[7 + 2 * Chunks] = "crc" /\ Script[8 + 2 * Chunks] = "reset"
  BY <1>0, <1>3, <1>6, <1>7
<1>12. \A k \in 3..Len(Script) : k \in 3..(6 + 2 * Chunks) \/ k = 7 + 2 * Chunks \/ k = 8 + 2 * Chunks
  BY <1>0, <1>8
<1>13. \A k \in 3..Len(Script) : Script[k] \notin {"ping", "chipId"}
  BY <1>10, <1>11, <1>12
<1>14. \A k \in 1..Len(Script) : Script[k] = "reset" => k = Len(Script)
  <2>1. \A k \in 1..Len(Script) : k = 1 \/ k = 2 \/ k \in 3..Len(Script)
    BY <1>8
  <2>2. Len(Script) = 8 + 2 * Chunks
    BY <1>0, <1>8
  <2>. QED  BY <1>9, <1>10, <1>11, <1>12, <2>1, <2>2
<1>15. Script[Len(Script) - 1] = "crc" /\ Script[Len(Script)] = "reset"
  <2>1. Len(Script) - 1 = 7 + 2 * Chunks /\ Len(Script) = 8 + 2 * Chunks
    BY <1>0, <1>8
  <2>. QED  BY <1>11, <2>1
<1>. QED  BY <1>8, <1>9, <1>13, <1>14, <1>15

-----------------------------------------------------------------------------
(* Type correctness. *)

LEMMA ByteFacts ==
  ASSUME NEW k \in SYNC..Len(Script)
  PROVE  /\ Nack(k) \in Seq(Bytes) /\ Len(Nack(k)) = 2
         /\ Nack(k)[1] = Byte(k, "00") /\ Nack(k)[2] = Byte(k, "33")
         /\ Ack(k) \in Seq(Bytes) /\ Len(Ack(k)) = 2
         /\ Ack(k)[1] = Byte(k, "00") /\ Ack(k)[2] = Byte(k, "CC")
         /\ \A v \in {"id", "success", "fail", "match", "differ"} :
              LET s == Ack(k) \o Response(k, v)
              IN  /\ s \in Seq(Bytes) /\ Len(s) = 5
                  /\ s[1] = Byte(k, "00") /\ s[2] = Byte(k, "CC")
                  /\ s[3] = Byte(k, "size") /\ s[4] = Byte(k, "check") /\ s[5] = Byte(k, v)
<1>1. \A b \in {"00", "CC", "33", "size", "check", "id", "success", "fail", "match", "differ"} :
        Byte(k, b) \in Bytes
  BY DEF Byte, Bytes
<1> HIDE DEF Byte, Bytes
<1>2. /\ Nack(k) \in Seq(Bytes) /\ Len(Nack(k)) = 2
      /\ Nack(k)[1] = Byte(k, "00") /\ Nack(k)[2] = Byte(k, "33")
  BY <1>1 DEF Nack
<1>3. /\ Ack(k) \in Seq(Bytes) /\ Len(Ack(k)) = 2
      /\ Ack(k)[1] = Byte(k, "00") /\ Ack(k)[2] = Byte(k, "CC")
  BY <1>1 DEF Ack
<1>4. ASSUME NEW v \in {"id", "success", "fail", "match", "differ"}
      PROVE  LET s == Ack(k) \o Response(k, v)
             IN  /\ s \in Seq(Bytes) /\ Len(s) = 5
                 /\ s[1] = Byte(k, "00") /\ s[2] = Byte(k, "CC")
                 /\ s[3] = Byte(k, "size") /\ s[4] = Byte(k, "check") /\ s[5] = Byte(k, v)
  <2> DEFINE r == Response(k, v)
             s == Ack(k) \o r
  <2>1. /\ r \in Seq(Bytes) /\ Len(r) = 3
        /\ r[1] = Byte(k, "size") /\ r[2] = Byte(k, "check") /\ r[3] = Byte(k, v)
    BY <1>1, <1>4 DEF Response
  <2> HIDE DEF r
  <2>2. /\ s \in Seq(Bytes) /\ Len(s) = 5
        /\ s[1] = Ack(k)[1] /\ s[2] = Ack(k)[2] /\ s[3] = r[1] /\ s[4] = r[2] /\ s[5] = r[3]
    <3>1. /\ s \in Seq(Bytes) /\ Len(s) = Len(Ack(k)) + Len(r)
          /\ \A j \in 1..Len(Ack(k)) : s[j] = Ack(k)[j]
          /\ \A j \in (Len(Ack(k)) + 1)..(Len(Ack(k)) + Len(r)) : s[j] = r[j - Len(Ack(k))]
      <4>1. Ack(k) \in Seq(Bytes) /\ r \in Seq(Bytes)
        BY <1>3, <2>1
      <4>. QED  BY <4>1, ConcatFacts
    <3>2. Len(Ack(k)) = 2 /\ Len(r) = 3
      BY <1>3, <2>1
    <3> HIDE DEF s
    <3>3. /\ \A j \in 1..2 : s[j] = Ack(k)[j]
          /\ \A j \in 3..5 : s[j] = r[j - 2]
      BY <3>1, <3>2
    <3>4. Len(s) = 5
      BY <3>1, <3>2
    <3>5. s[1] = Ack(k)[1] /\ s[2] = Ack(k)[2]
      BY <3>3
    <3>6. s[3] = r[3 - 2] /\ s[4] = r[4 - 2] /\ s[5] = r[5 - 2]
      BY <3>3
    <3>7. 3 - 2 = 1 /\ 4 - 2 = 2 /\ 5 - 2 = 3
      OBVIOUS
    <3>8. s[3] = r[1] /\ s[4] = r[2] /\ s[5] = r[3]
      BY <3>6, <3>7, Zenon
    <3>. QED  BY <3>1, <3>4, <3>5, <3>8
  <2>. QED  BY <1>3, <2>1, <2>2 DEF r
<1>. QED  BY <1>2, <1>3, <1>4

(* The answer to a command: an ACK, and behind it a response or nothing. *)
LEMMA AnswerFacts ==
  ASSUME FlasherTypeOK, NEW k \in 1..Len(Script)
  PROVE  /\ Answer(k) \in Seq(Bytes)
         /\ ~Responds(k) => Answer(k) = Ack(k)
         /\ Responds(k) => \E v \in {"id", "success", "fail", "match", "differ"} :
              /\ Answer(k) = Ack(k) \o Response(k, v)
              /\ Script[k] = "crc" /\ Good(v) => \A i \in 1..Chunks : flash[i] = "good"
<1>0. k \in SYNC..Len(Script)
  BY ScriptFacts DEF SYNC
<1>1. CASE Script[k] = "chipId"
  <2>1. Answer(k) = Ack(k) \o Response(k, "id")
    BY <1>1 DEF Answer
  <2>. QED  BY <1>0, <1>1, <2>1, ByteFacts DEF Responds
<1>2. CASE Script[k] = "status"
  <2>1. Answer(k) = Ack(k) \o Response(k, status)
    BY <1>2 DEF Answer
  <2>2. status \in {"id", "success", "fail", "match", "differ"}
    BY DEF FlasherTypeOK
  <2>. QED  BY <1>0, <1>2, <2>1, <2>2, ByteFacts DEF Responds
<1>3. CASE Script[k] = "crc"
  <2>1. CASE \A i \in 1..Chunks : flash[i] = "good"
    <3>1. Answer(k) = Ack(k) \o Response(k, "match")
      BY <1>3, <2>1 DEF Answer
    <3>. QED  BY <1>0, <1>3, <2>1, <3>1, ByteFacts DEF Responds
  <2>2. CASE ~(\A i \in 1..Chunks : flash[i] = "good")
    <3>1. Answer(k) = Ack(k) \o Response(k, "differ")
      BY <1>3, <2>2 DEF Answer
    <3>. QED  BY <1>0, <1>3, <3>1, ByteFacts DEF Responds, Good, StatusOK, CrcOK
  <2>. QED  BY <2>1, <2>2
<1>4. CASE Script[k] \notin {"chipId", "status", "crc"}
  <2>1. Answer(k) = Ack(k)
    BY <1>4 DEF Answer
  <2>. QED  BY <1>0, <1>4, <2>1, ByteFacts DEF Responds
<1>. QED  BY <1>1, <1>2, <1>3, <1>4

-----------------------------------------------------------------------------
(* The inductive invariant. *)

(* What the host has yet to read. *)
Stream  == buf \o stream
AllGood == \A i \in 1..Chunks : flash[i] = "good"

(* Before GET_CHIP_ID is answered, and from the erasure on. *)
Early == pc \in {"sync", "syncAck"} \/ (pc \in {"send", "ack", "resp"} /\ step <= 2)
Late  == pc \in {"send", "ack", "resp"} /\ step >= 3

(* A read is orphaned only while the host has nothing to read. *)
Session ==
  /\ pc # "error" => orphans <= attempt
  /\ pc \in {"enter", "sync", "syncAck"} => step = 1
  /\ pc = "resp" => Responds(step)
  /\ (Early \/ Late) /\ buf # <<>> => orphans = 0

(* Whatever the retries of sync() left behind, GET_CHIP_ID is the last     *)
(* command sent and its answer the last on its way, and the only one with  *)
(* a response's header.                                                    *)
ChipIdLast ==
  Early =>
    /\ \A i \in 1..Len(inbox) :
         /\ inbox[i] <= 2
         /\ inbox[i] = 2 => i = Len(inbox) /\ step = 2 /\ pc \in {"ack", "resp"}
    /\ \A i \in 1..Len(Stream) : Stream[i].is = "size" =>
         Len(Stream) = i + 2 /\ inbox = <<>> /\ step = 2 /\ pc \in {"ack", "resp"}

(* What follows an ACK of the step, and what it tells. *)
AckMeans(s) ==
  \A i \in 1..Len(s) :
    /\ s[i].of = step
    /\ s[i].is = "CC" =>
         IF Responds(step)
           THEN /\ Len(s) = i + 3 /\ s[i + 1].is = "size"
                /\ Script[step] = "crc" /\ Good(s[i + 3].is) => AllGood
           ELSE /\ Len(s) = i
                /\ Script[step] = "reset" => booted /\ ~alive

(* From the erasure on the command of the step is all there is: not sent,  *)
(* or to be executed, or answered.                                         *)
OneAtATime ==
  Late =>
    /\ orphans = 0
    /\ pc = "send" => inbox = <<>> /\ Stream = <<>>
    /\ pc = "ack" => \/ inbox = <<step>> /\ Stream = <<>>
                     \/ inbox = <<>> /\ AckMeans(Stream)
    /\ pc = "resp" => /\ inbox = <<>>
                      /\ Len(Stream) = 3 /\ Stream[1].is = "size"
                      /\ \A i \in 1..3 : Stream[i].of = step
                      /\ Script[step] = "crc" /\ Good(Stream[3].is) => AllGood
    /\ Script[step] = "reset" => AllGood

Booted == pc = "done" => booted /\ ~alive /\ AllGood

LEMMA TypeInit == FlasherInit => FlasherTypeOK /\ Session
<1> SUFFICES ASSUME FlasherInit PROVE FlasherTypeOK /\ Session
  OBVIOUS
<1>1. 1 \in 1..Len(Script) /\ 1 \in 1..Retries /\ 0 \in 0..MaxSessions /\ 0 \in 0..(Retries + 1)
  BY ScriptFacts, Constants
<1>2. flash \in [1..Chunks -> {"old", "blank", "good", "bad"}]
  BY DEF FlasherInit
<1>3. <<>> \in Seq(Bytes) /\ <<>> \in Seq(SYNC..Len(Script))
  OBVIOUS
<1>4. FlasherTypeOK
  BY <1>1, <1>2, <1>3 DEF FlasherInit, FlasherTypeOK
<1>5. Session
  BY DEF FlasherInit, Session, Early, Late
<1>. QED  BY <1>4, <1>5

LEMMA EffectType ==
  ASSUME FlasherTypeOK, NEW k \in 1..Len(Script), Effect(k)
  PROVE  /\ flash' \in [1..Chunks -> {"old", "blank", "good", "bad"}]
         /\ status' \in {"success", "fail"} /\ alive' \in BOOLEAN /\ booted' \in BOOLEAN
<1>1. CASE Script[k] = "erase"
  BY <1>1 DEF Effect, FlasherTypeOK
<1>2. CASE Script[k] = "download"
  BY <1>2 DEF Effect, FlasherTypeOK
<1>3. CASE Script[k] = "data"
  <2>1. /\ \/ flash' = [flash EXCEPT ![ChunkOf(k)] = "good"] /\ status' = "success"
           \/ flash' = [flash EXCEPT ![ChunkOf(k)] = "bad"] /\ status' \in {"success", "fail"}
        /\ UNCHANGED <<alive, booted>>
    BY <1>3 DEF Effect
  <2>. QED  BY <2>1 DEF FlasherTypeOK
<1>4. CASE Script[k] = "reset"
  BY <1>4 DEF Effect, FlasherTypeOK
<1>5. CASE Script[k] \notin {"erase", "download", "data", "reset"}
  BY <1>5 DEF Effect, FlasherTypeOK
<1>. QED  BY <1>1, <1>2, <1>3, <1>4, <1>5

LEMMA TypeNext == FlasherTypeOK /\ Session /\ [FlasherNext]_flasherVars => FlasherTypeOK'
<1> SUFFICES ASSUME FlasherTypeOK, Session, [FlasherNext]_flasherVars PROVE FlasherTypeOK'
  OBVIOUS
<1>0. /\ Len(Script) \in Nat \ {0} /\ Retries \in Nat \ {0} /\ MaxSessions \in Nat \ {0}
      /\ <<>> \in Seq(Bytes) /\ <<>> \in Seq(SYNC..Len(Script))
      /\ SYNC \in SYNC..Len(Script) /\ \A k \in 1..Len(Script) : k \in SYNC..Len(Script)
  BY ScriptFacts, Constants DEF SYNC
<1>1. CASE Click
  BY <1>0, <1>1 DEF Click, FlasherTypeOK, targetVars
<1>2. CASE InvokeBootloader
  <2>1. \A r \in Nat \ {0} : 0 \in 0..(r + 1) /\ 1 \in 0..(r + 1)
    OBVIOUS
  <2>2. orphans' \in 0..(Retries + 1)
    BY <1>0, <1>2, <2>1 DEF InvokeBootloader
  <2>. QED  BY <1>0, <1>2, <2>2 DEF InvokeBootloader, FlasherTypeOK
<1>14. CASE SignalsThrow
  <2>1. inbox' \in Seq(SYNC..Len(Script))
    BY <1>0, <1>14 DEF SignalsThrow, FlasherTypeOK
  <2>2. synced' \in BOOLEAN /\ alive' \in BOOLEAN /\ booted' \in BOOLEAN
    BY <1>14 DEF SignalsThrow, FlasherTypeOK, targetVars
  <2>3. flash' = flash /\ status' \in {"success", "fail"}
    BY <1>14 DEF SignalsThrow, FlasherTypeOK, targetVars
  <2>. QED  BY <1>14, <2>1, <2>2, <2>3 DEF SignalsThrow, FlasherTypeOK, readerVars
<1>3. CASE SendSync
  BY <1>0, <1>3 DEF SendSync, FlasherTypeOK, readerVars, targetVars
<1>4. CASE SendCommand
  <2>1. inbox' \in Seq(SYNC..Len(Script))
    <3>1. inbox \in Seq(SYNC..Len(Script)) /\ step \in SYNC..Len(Script)
      BY <1>0 DEF FlasherTypeOK
    <3>. QED  BY <1>4, <3>1 DEF SendCommand
  <2>. QED  BY <1>4, <2>1 DEF SendCommand, FlasherTypeOK, readerVars, targetVars
<1>5. CASE ReadAck
  <2>1. buf' \in Seq(Bytes)
    BY <1>5 DEF ReadAck, FlasherTypeOK
  <2>2. /\ pc' \in {"sync", "syncAck", "send", "ack", "resp", "done", "error"}
        /\ attempt' \in 1..Retries
    BY <1>0, <1>5 DEF ReadAck, NextAttempt, LastAttempt, Advance, FlasherTypeOK
  <2>3. step' \in 1..Len(Script)
    BY <1>0, <1>5 DEF ReadAck, NextAttempt, LastAttempt, Advance, FlasherTypeOK
  <2>. QED  BY <1>5, <2>1, <2>2, <2>3 DEF ReadAck, FlasherTypeOK, targetVars
<1>6. CASE ReadResponse
  <2>1. buf' \in Seq(Bytes)
    <3>1. buf \in Seq(Bytes) /\ buf # <<>>
      BY <1>6 DEF ReadResponse, FlasherTypeOK
    <3>2. CASE Head(buf).is = "00" /\ buf' = Tail(buf)
      BY <3>1, <3>2
    <3>3. CASE Head(buf).is = "size" /\ buf' = SubSeq(buf, 4, Len(buf))
      <4>1. Len(buf) \in Nat /\ ~(Len(buf) < 3)
        BY <1>6, <3>1, <3>3 DEF ReadResponse, Starved
      <4>. QED  BY <3>1, <3>3, <4>1
    <3>. QED  BY <1>6, <3>2, <3>3 DEF ReadResponse
  <2>2. pc' \in {"resp", "send", "done", "error"} /\ step' \in 1..Len(Script)
    BY <1>0, <1>6 DEF ReadResponse, Advance, FlasherTypeOK
  <2>. QED  BY <1>6, <2>1, <2>2 DEF ReadResponse, FlasherTypeOK, targetVars
<1>7. CASE Timeout
  <2>1. pc' \in {"sync", "error"} /\ attempt' \in 1..Retries
    BY <1>0, <1>7 DEF Timeout, NextAttempt, LastAttempt, FlasherTypeOK
  <2>2. orphans <= attempt
    BY <1>7 DEF Timeout, HasDeadline, Session
  <2>3. orphans' \in 0..(Retries + 1)
    BY <1>0, <1>7, <2>2 DEF Timeout, FlasherTypeOK
  <2>. QED  BY <1>7, <2>1, <2>3 DEF Timeout, FlasherTypeOK, targetVars
<1>8. CASE Deliver
  <2>1. PICK n \in 1..Len(stream) :
          /\ stream' = SubSeq(stream, n + 1, Len(stream))
          /\ \/ orphans > 0 /\ orphans' = orphans - 1 /\ UNCHANGED buf
             \/ orphans = 0 /\ buf' = buf \o SubSeq(stream, 1, n) /\ UNCHANGED orphans
    BY <1>8, Zenon DEF Deliver
  <2>2. stream' \in Seq(Bytes) /\ SubSeq(stream, 1, n) \in Seq(Bytes)
    <3>1. stream \in Seq(Bytes) /\ Len(stream) \in Nat /\ stream' = SubSeq(stream, n + 1, Len(stream))
      BY <2>1 DEF FlasherTypeOK
    <3>. QED  BY <3>1
  <2>3. buf' \in Seq(Bytes)
    <3>1. buf \in Seq(Bytes)
      BY DEF FlasherTypeOK
    <3>. QED  BY <2>1, <2>2, <3>1, ConcatFacts
  <2>4. orphans' \in 0..(Retries + 1)
    BY <1>0, <2>1 DEF FlasherTypeOK
  <2>. QED  BY <1>8, <2>2, <2>3, <2>4 DEF Deliver, FlasherTypeOK, sessionVars, targetVars
<1>9. CASE Refuse
  <2>1. Head(inbox) \in SYNC..Len(Script) /\ inbox' \in Seq(SYNC..Len(Script)) /\ stream \in Seq(Bytes)
    <3>1. inbox \in Seq(SYNC..Len(Script)) /\ inbox # <<>>
      BY <1>9 DEF Refuse, FlasherTypeOK
    <3>2. Head(inbox) \in SYNC..Len(Script) /\ Tail(inbox) \in Seq(SYNC..Len(Script))
      BY <3>1, HeadTail
    <3>. QED  BY <1>9, <3>2 DEF Refuse, FlasherTypeOK
  <2>2. stream' \in Seq(Bytes)
    BY <1>9, <2>1, ByteFacts, ConcatFacts DEF Refuse
  <2>. QED  BY <1>9, <2>1, <2>2 DEF Refuse, FlasherTypeOK, sessionVars, readerVars, targetVars
<1>10. CASE AnswerSync
  <2>1. inbox' \in Seq(SYNC..Len(Script)) /\ stream \in Seq(Bytes)
    BY <1>10 DEF AnswerSync, FlasherTypeOK
  <2>2. stream \o Ack(SYNC) \in Seq(Bytes)
    BY <1>0, <2>1, ByteFacts, ConcatFacts
  <2>3. stream' \in Seq(Bytes)
    BY <1>10, <2>1, <2>2 DEF AnswerSync
  <2>. QED  BY <1>10, <2>1, <2>3 DEF AnswerSync, FlasherTypeOK, sessionVars, readerVars
<1>11. CASE Execute
  <2>1. /\ Head(inbox) \in 1..Len(Script) /\ inbox' \in Seq(SYNC..Len(Script))
        /\ stream \in Seq(Bytes)
    <3>1. inbox \in Seq(SYNC..Len(Script)) /\ inbox # <<>> /\ Head(inbox) # SYNC
      BY <1>11 DEF Execute, FlasherTypeOK
    <3>2. Head(inbox) \in SYNC..Len(Script) /\ Tail(inbox) \in Seq(SYNC..Len(Script))
      BY <3>1, HeadTail
    <3>3. Head(inbox) \in 1..Len(Script)
      BY <3>1, <3>2, <1>0 DEF SYNC
    <3>. QED  BY <1>11, <3>2, <3>3 DEF Execute, FlasherTypeOK
  <2>2. Answer(Head(inbox)) \in Seq(Bytes)
    BY <2>1, AnswerFacts
  <2>3. stream' \in Seq(Bytes)
    BY <1>11, <2>1, <2>2, ConcatFacts DEF Execute
  <2>4. /\ flash' \in [1..Chunks -> {"old", "blank", "good", "bad"}]
        /\ status' \in {"success", "fail"} /\ alive' \in BOOLEAN /\ booted' \in BOOLEAN
    BY <1>11, <2>1, EffectType DEF Execute
  <2>. QED  BY <1>11, <2>1, <2>3, <2>4 DEF Execute, FlasherTypeOK, sessionVars, readerVars
<1>12. CASE Dies
  BY <1>12 DEF Dies, FlasherTypeOK, sessionVars, readerVars
<1>13. CASE UNCHANGED flasherVars
  BY <1>13 DEF flasherVars, FlasherTypeOK, sessionVars, readerVars, targetVars
<1>. QED
  BY <1>1, <1>2, <1>3, <1>4, <1>5, <1>6, <1>7, <1>8, <1>9, <1>10, <1>11, <1>12, <1>13, <1>14
  DEF FlasherNext, HostStep, TargetStep

-----------------------------------------------------------------------------
(* What a step does to what the host has yet to read. *)

LEMMA StreamFacts ==
  ASSUME FlasherTypeOK
  PROVE  /\ buf \in Seq(Bytes) /\ stream \in Seq(Bytes) /\ Stream \in Seq(Bytes)
         /\ Len(buf) \in Nat /\ Len(stream) \in Nat /\ Len(Stream) = Len(buf) + Len(stream)
         /\ \A i \in 1..Len(buf) : Stream[i] = buf[i]
         /\ \A i \in (Len(buf) + 1)..(Len(buf) + Len(stream)) : Stream[i] = stream[i - Len(buf)]
<1>1. buf \in Seq(Bytes) /\ stream \in Seq(Bytes)
  BY DEF FlasherTypeOK
<1>. QED  BY <1>1, ConcatFacts DEF Stream

LEMMA StreamFactsNext ==
  ASSUME FlasherTypeOK'
  PROVE  /\ buf' \in Seq(Bytes) /\ stream' \in Seq(Bytes) /\ Stream' \in Seq(Bytes)
         /\ Len(buf') \in Nat /\ Len(stream') \in Nat /\ Len(Stream') = Len(buf') + Len(stream')
         /\ \A i \in 1..Len(buf') : Stream'[i] = buf'[i]
         /\ \A i \in (Len(buf') + 1)..(Len(buf') + Len(stream')) : Stream'[i] = stream'[i - Len(buf')]
<1>1. buf' \in Seq(Bytes) /\ stream' \in Seq(Bytes)
  BY DEF FlasherTypeOK
<1>. QED  BY <1>1, ConcatFacts DEF Stream

LEMMA EmptyStream == ASSUME FlasherTypeOK PROVE Stream = <<>> <=> Len(Stream) = 0
BY StreamFacts, EmptySeq

LEMMA EmptyStreamNext == ASSUME FlasherTypeOK' PROVE Stream' = <<>> <=> Len(Stream') = 0
BY StreamFactsNext, EmptySeq

(* A byte is read. *)
LEMMA ReadOne ==
  ASSUME FlasherTypeOK, FlasherTypeOK', buf # <<>>, buf' = Tail(buf), stream' = stream
  PROVE  /\ Len(Stream) \in Nat \ {0} /\ Stream[1] = Head(buf)
         /\ Len(Stream') = Len(Stream) - 1
         /\ \A i \in 1..(Len(Stream) - 1) : Stream'[i] = Stream[i + 1]
<1>1. /\ Head(buf) = buf[1] /\ Len(buf) \in Nat \ {0} /\ Len(buf') = Len(buf) - 1
      /\ \A k \in 1..(Len(buf) - 1) : buf'[k] = buf[k + 1]
  BY StreamFacts, HeadTail
<1>2. /\ Len(buf) \in Nat /\ Len(stream) \in Nat /\ Len(Stream) = Len(buf) + Len(stream)
      /\ \A i \in 1..Len(buf) : Stream[i] = buf[i]
      /\ \A i \in (Len(buf) + 1)..(Len(buf) + Len(stream)) : Stream[i] = stream[i - Len(buf)]
  BY StreamFacts
<1>3. /\ Len(Stream') = Len(buf') + Len(stream)
      /\ \A i \in 1..Len(buf') : Stream'[i] = buf'[i]
      /\ \A i \in (Len(buf') + 1)..(Len(buf') + Len(stream)) : Stream'[i] = stream[i - Len(buf')]
  BY StreamFactsNext
<1>4. ASSUME NEW i \in 1..(Len(Stream) - 1) PROVE Stream'[i] = Stream[i + 1]
  <2>1. CASE i <= Len(buf) - 1
    <3>1. i \in 1..(Len(buf) - 1) /\ i + 1 \in 1..Len(buf)
      BY <1>1, <1>2, <2>1
    <3>. QED  BY <1>1, <1>2, <1>3, <3>1
  <2>2. CASE ~(i <= Len(buf) - 1)
    <3>1. /\ i \in (Len(buf') + 1)..(Len(buf') + Len(stream))
          /\ i + 1 \in (Len(buf) + 1)..(Len(buf) + Len(stream))
          /\ i - Len(buf') = (i + 1) - Len(buf)
      BY <1>1, <1>2, <2>2
    <3>2. Stream'[i] = stream[i - Len(buf')] /\ Stream[i + 1] = stream[(i + 1) - Len(buf)]
      BY <1>2, <1>3, <3>1
    <3>. QED  BY <3>1, <3>2
  <2>. QED  BY <2>1, <2>2
<1>5. Len(Stream) \in Nat \ {0} /\ Stream[1] = Head(buf) /\ Len(Stream') = Len(Stream) - 1
  BY <1>1, <1>2, <1>3
<1>. QED  BY <1>4, <1>5

(* A response is read that is all there is. *)
LEMMA ReadHeader ==
  ASSUME FlasherTypeOK, FlasherTypeOK', Len(buf) >= 3, Len(Stream) = 3,
         buf' = SubSeq(buf, 4, Len(buf)), stream' = stream
  PROVE  Stream' = <<>> /\ Stream[1] = Head(buf) /\ Stream[3] = buf[3]
<1>1. /\ Len(buf) \in Nat /\ Len(stream) \in Nat /\ Len(Stream) = Len(buf) + Len(stream)
      /\ \A i \in 1..Len(buf) : Stream[i] = buf[i]
      /\ buf \in Seq(Bytes)
  BY StreamFacts
<1>2. Len(buf) = 3 /\ Len(stream) = 0
  <2>1. \A x, y \in Nat : x >= 3 /\ 3 = x + y => x = 3 /\ y = 0
    OBVIOUS
  <2>2. Len(buf) \in Nat /\ Len(stream) \in Nat /\ 3 = Len(buf) + Len(stream) /\ Len(buf) >= 3
    BY <1>1, Zenon
  <2>. QED  BY <2>1, <2>2, Zenon
<1>3. Len(buf') = 0
  BY <1>1, <1>2
<1>4. Len(Stream') = 0
  BY <1>2, <1>3, StreamFactsNext
<1>5. buf # <<>>
  BY <1>2
<1>6. Head(buf) = buf[1]
  BY <1>1, <1>5, HeadTail
<1>. QED  BY <1>1, <1>2, <1>4, <1>6, EmptyStreamNext

(* The target answers. *)
LEMMA Sent ==
  ASSUME FlasherTypeOK, FlasherTypeOK', NEW x \in Seq(Bytes), stream' = stream \o x, buf' = buf
  PROVE  /\ Len(Stream) \in Nat /\ Len(x) \in Nat /\ Len(Stream') = Len(Stream) + Len(x)
         /\ \A i \in 1..Len(Stream) : Stream'[i] = Stream[i]
         /\ \A i \in (Len(Stream) + 1)..(Len(Stream) + Len(x)) : Stream'[i] = x[i - Len(Stream)]
<1>1. /\ Len(buf) \in Nat /\ Len(stream) \in Nat /\ Len(Stream) = Len(buf) + Len(stream)
      /\ \A i \in 1..Len(buf) : Stream[i] = buf[i]
      /\ \A i \in (Len(buf) + 1)..(Len(buf) + Len(stream)) : Stream[i] = stream[i - Len(buf)]
  BY StreamFacts
<1>2. /\ Len(Stream') = Len(buf) + Len(stream')
      /\ \A i \in 1..Len(buf) : Stream'[i] = buf[i]
      /\ \A i \in (Len(buf) + 1)..(Len(buf) + Len(stream')) : Stream'[i] = stream'[i - Len(buf)]
  BY StreamFactsNext
<1>3. /\ Len(x) \in Nat /\ Len(stream') = Len(stream) + Len(x)
      /\ \A k \in 1..Len(stream) : stream'[k] = stream[k]
      /\ \A k \in (Len(stream) + 1)..(Len(stream) + Len(x)) : stream'[k] = x[k - Len(stream)]
  BY StreamFacts, ConcatFacts
<1>4. ASSUME NEW i \in 1..Len(Stream) PROVE Stream'[i] = Stream[i]
  <2>1. CASE i <= Len(buf)
    <3>1. i \in 1..Len(buf)
      BY <1>1, <2>1
    <3>. QED  BY <1>1, <1>2, <3>1
  <2>2. CASE ~(i <= Len(buf))
    <3>1. /\ i \in (Len(buf) + 1)..(Len(buf) + Len(stream))
          /\ i \in (Len(buf) + 1)..(Len(buf) + Len(stream'))
          /\ i - Len(buf) \in 1..Len(stream)
      BY <1>1, <1>3, <2>2
    <3>. QED  BY <1>1, <1>2, <1>3, <3>1
  <2>. QED  BY <2>1, <2>2
<1>5. ASSUME NEW i \in (Len(Stream) + 1)..(Len(Stream) + Len(x))
      PROVE  Stream'[i] = x[i - Len(Stream)]
  <2>1. /\ i \in (Len(buf) + 1)..(Len(buf) + Len(stream'))
        /\ i - Len(buf) \in (Len(stream) + 1)..(Len(stream) + Len(x))
        /\ (i - Len(buf)) - Len(stream) = i - Len(Stream)
    BY <1>1, <1>3
  <2>2. Stream'[i] = stream'[i - Len(buf)]
    BY <1>2, <2>1
  <2>3. stream'[i - Len(buf)] = x[(i - Len(buf)) - Len(stream)]
    BY <1>3, <2>1
  <2>. QED  BY <2>1, <2>2, <2>3
<1>. QED  BY <1>1, <1>2, <1>3, <1>4, <1>5

(* A chunk is delivered, or goes to a read that nobody waits for. *)
LEMMA Delivered ==
  ASSUME FlasherTypeOK, FlasherTypeOK', NEW n \in 1..Len(stream),
         buf' = buf \o SubSeq(stream, 1, n), stream' = SubSeq(stream, n + 1, Len(stream))
  PROVE  Stream' = Stream
<1>1. /\ Len(buf) \in Nat /\ Len(stream) \in Nat /\ Len(Stream) = Len(buf) + Len(stream)
      /\ \A i \in 1..Len(buf) : Stream[i] = buf[i]
      /\ \A i \in (Len(buf) + 1)..(Len(buf) + Len(stream)) : Stream[i] = stream[i - Len(buf)]
      /\ Stream \in Seq(Bytes) /\ buf \in Seq(Bytes) /\ stream \in Seq(Bytes)
  BY StreamFacts
<1>2. /\ Len(Stream') = Len(buf') + Len(stream')
      /\ \A i \in 1..Len(buf') : Stream'[i] = buf'[i]
      /\ \A i \in (Len(buf') + 1)..(Len(buf') + Len(stream')) : Stream'[i] = stream'[i - Len(buf')]
      /\ Stream' \in Seq(Bytes)
  BY StreamFactsNext
<1> DEFINE a == SubSeq(stream, 1, n)
<1>3. /\ a \in Seq(Bytes) /\ Len(a) = n /\ \A k \in 1..n : a[k] = stream[k]
      /\ Len(stream') = Len(stream) - n /\ \A k \in 1..(Len(stream) - n) : stream'[k] = stream[k + n]
  BY <1>1
<1> HIDE DEF a
<1>4. buf' = buf \o a
  BY DEF a
<1>5. /\ Len(buf') = Len(buf) + n
      /\ \A k \in 1..Len(buf) : buf'[k] = buf[k]
      /\ \A k \in (Len(buf) + 1)..(Len(buf) + n) : buf'[k] = a[k - Len(buf)]
  <2>1. buf \in Seq(Bytes) /\ a \in Seq(Bytes) /\ Len(a) = n
    BY <1>1, <1>3
  <2>. QED  BY <1>4, <2>1, ConcatFacts
<1>9. /\ Len(buf) \in Nat /\ Len(stream) \in Nat /\ n \in Nat /\ n <= Len(stream)
      /\ Len(buf') = Len(buf) + n /\ Len(stream') = Len(stream) - n
      /\ Len(Stream) = Len(buf) + Len(stream) /\ Len(Stream') = Len(buf') + Len(stream')
  <2>1. n \in Nat /\ n <= Len(stream)
    BY <1>1
  <2>. QED  BY <1>1, <1>2, <1>3, <1>5, <2>1, Zenon
<1>6. Len(Stream') = Len(Stream)
  BY <1>9
<1>7. ASSUME NEW i \in 1..Len(Stream) PROVE Stream'[i] = Stream[i]
  <2>1. CASE i <= Len(buf)
    <3>1. i \in 1..Len(buf) /\ i \in 1..Len(buf')
      BY <1>1, <1>5, <2>1
    <3>. QED  BY <1>1, <1>2, <1>5, <3>1
  <2>2. CASE i > Len(buf) /\ i <= Len(buf) + n
    <3>1. /\ i \in (Len(buf) + 1)..(Len(buf) + n) /\ i \in 1..Len(buf')
          /\ i - Len(buf) \in 1..n /\ i \in (Len(buf) + 1)..(Len(buf) + Len(stream))
      BY <1>1, <1>5, <2>2
    <3>2. Stream'[i] = a[i - Len(buf)]
      BY <1>2, <1>5, <3>1
    <3>3. a[i - Len(buf)] = stream[i - Len(buf)]
      BY <1>3, <3>1
    <3>. QED  BY <1>1, <3>1, <3>2, <3>3
  <2>3. CASE i > Len(buf) + n
    <3>1. /\ i \in (Len(buf') + 1)..(Len(buf') + Len(stream'))
          /\ i - Len(buf') \in 1..(Len(stream) - n)
          /\ (i - Len(buf')) + n = i - Len(buf)
          /\ i \in (Len(buf) + 1)..(Len(buf) + Len(stream))
      <4>1. i \in Nat /\ i >= 1 /\ i <= Len(buf) + Len(stream) /\ i > Len(buf) + n
        BY <1>9, <2>3
      <4>2. Len(buf') + Len(stream') = Len(buf) + Len(stream)
        BY <1>6, <1>9, Zenon
      <4>3. i \in (Len(buf') + 1)..(Len(buf') + Len(stream'))
        <5>1. i \in (Len(buf') + 1)..(Len(buf) + Len(stream))
          BY <1>9, <4>1
        <5>. QED  BY <4>2, <5>1, Zenon
      <4>4. i - Len(buf') \in 1..(Len(stream) - n)
        BY <1>9, <4>1
      <4>5. (i - Len(buf')) + n = i - Len(buf)
        BY <1>9, <4>1
      <4>6. i \in (Len(buf) + 1)..(Len(buf) + Len(stream))
        BY <1>9, <4>1
      <4>. QED  BY <4>3, <4>4, <4>5, <4>6
    <3>2. Stream'[i] = stream'[i - Len(buf')]
      BY <1>2, <3>1
    <3>3. stream'[i - Len(buf')] = stream[(i - Len(buf')) + n]
      BY <1>3, <3>1
    <3>. QED  BY <1>1, <3>1, <3>2, <3>3
  <2>. QED  BY <1>1, <1>5, <2>1, <2>2, <2>3
<1>. QED  BY <1>1, <1>2, <1>6, <1>7, SameSeq

LEMMA Lost ==
  ASSUME FlasherTypeOK, FlasherTypeOK', NEW n \in 1..Len(stream), buf = <<>>,
         buf' = buf, stream' = SubSeq(stream, n + 1, Len(stream))
  PROVE  /\ Len(Stream) \in Nat /\ n \in 1..Len(Stream) /\ Len(Stream') = Len(Stream) - n
         /\ \A i \in 1..(Len(Stream) - n) : Stream'[i] = Stream[i + n]
<1>1. /\ Len(buf) = 0 /\ Len(stream) \in Nat /\ Len(Stream) = Len(stream)
      /\ \A i \in 1..Len(stream) : Stream[i] = stream[i]
  <2>1. Len(buf) = 0
    OBVIOUS
  <2>2. \A i \in 1..Len(stream) : i \in (0 + 1)..(0 + Len(stream)) /\ i - 0 = i
    BY StreamFacts
  <2>. QED  BY <2>1, <2>2, StreamFacts
<1>2. /\ Len(Stream') = Len(stream')
      /\ \A i \in 1..Len(stream') : Stream'[i] = stream'[i]
  <2>1. Len(buf') = 0
    OBVIOUS
  <2>2. \A i \in 1..Len(stream') : i \in (0 + 1)..(0 + Len(stream')) /\ i - 0 = i
    BY StreamFactsNext
  <2>. QED  BY <2>1, <2>2, StreamFactsNext
<1>3. Len(stream') = Len(stream) - n /\ \A k \in 1..(Len(stream) - n) : stream'[k] = stream[k + n]
  BY StreamFacts
<1>. QED  BY <1>1, <1>2, <1>3

-----------------------------------------------------------------------------
(* The session's own bookkeeping. *)

LEMMA SessionNext == FlasherTypeOK /\ Session /\ [FlasherNext]_flasherVars => Session'
<1> SUFFICES ASSUME FlasherTypeOK, Session, [FlasherNext]_flasherVars PROVE Session'
  OBVIOUS
<1>0. /\ step \in Nat /\ attempt \in Nat \ {0} /\ orphans \in Nat
  BY ScriptFacts, Constants DEF FlasherTypeOK
<1>1. CASE Click
  BY <1>1 DEF Click, Session, Early, Late
<1>2. CASE InvokeBootloader
  BY <1>0, <1>2 DEF InvokeBootloader, Session, Early, Late
<1>14. CASE SignalsThrow
  BY <1>14 DEF SignalsThrow, Session, Early, Late
<1>3. CASE SendSync
  BY <1>0, <1>3 DEF SendSync, Session, Early, Late, readerVars
<1>4. CASE SendCommand
  BY <1>0, <1>4 DEF SendCommand, Session, Early, Late, readerVars
<1>5. CASE ReadAck
  <2>1. buf # <<>> /\ orphans' = orphans /\ orphans = 0 /\ pc \in {"syncAck", "ack"}
    BY <1>0, <1>5 DEF ReadAck, Session, Early, Late
  <2>2. attempt' \in Nat
    BY <1>0, <1>5 DEF ReadAck, NextAttempt
  <2>3. pc' \in {"enter", "sync", "syncAck"} => step' = 1
    BY <1>0, <1>5 DEF ReadAck, NextAttempt, Advance, Session
  <2>4. pc' = "resp" => Responds(step')
    BY <1>0, <1>5 DEF ReadAck, NextAttempt, Advance, Session
  <2>5. orphans' <= attempt'
    BY <2>1, <2>2
  <2>. QED  BY <2>1, <2>3, <2>4, <2>5 DEF Session, Responds
<1>6. CASE ReadResponse
  <2>1. buf # <<>> /\ orphans' = orphans /\ orphans = 0 /\ pc = "resp" /\ attempt' = attempt
    BY <1>0, <1>6 DEF ReadResponse, Session, Early, Late
  <2>2. pc' = "resp" => step' = step
    BY <1>6 DEF ReadResponse, Advance
  <2>3. pc' \notin {"enter", "sync", "syncAck"}
    BY <1>6 DEF ReadResponse, Advance
  <2>4. orphans' <= attempt'
    BY <1>0, <2>1
  <2>. QED  BY <2>1, <2>2, <2>3, <2>4 DEF Session, Responds
<1>7. CASE Timeout
  <2>1. CASE pc = "syncAck"
    <3>1. buf' = buf /\ (orphans' = orphans \/ buf = <<>>)
      BY <1>7, <2>1 DEF Timeout, Starved
    <3>2. \/ pc' = "error"
          \/ pc' = "sync" /\ attempt' = attempt + 1
      BY <1>7, <2>1 DEF Timeout, NextAttempt
    <3>3. /\ orphans <= attempt /\ step = 1 /\ step' = 1
          /\ orphans' = orphans \/ orphans' = orphans + 1
      BY <1>7, <2>1 DEF Timeout, Session
    <3>4. buf # <<>> => orphans = 0
      BY <2>1 DEF Session, Early
    <3>. QED  BY <1>0, <3>1, <3>2, <3>3, <3>4 DEF Session, Early, Late
  <2>2. CASE pc # "syncAck"
    BY <1>7, <2>2 DEF Timeout, Session, Early, Late
  <2>. QED  BY <2>1, <2>2
<1>8. CASE Deliver
  <2>1. /\ UNCHANGED sessionVars
        /\ \/ orphans > 0 /\ orphans' = orphans - 1 /\ UNCHANGED buf
           \/ orphans = 0 /\ UNCHANGED orphans
    BY <1>8 DEF Deliver
  <2>. QED  BY <1>0, <2>1 DEF Session, Early, Late, Responds, sessionVars
<1>9. CASE Refuse
  BY <1>9 DEF Refuse, Session, Early, Late, Responds, sessionVars, readerVars
<1>10. CASE AnswerSync
  BY <1>10 DEF AnswerSync, Session, Early, Late, Responds, sessionVars, readerVars
<1>11. CASE Execute
  BY <1>11 DEF Execute, Session, Early, Late, Responds, sessionVars, readerVars
<1>12. CASE Dies
  BY <1>12 DEF Dies, Session, Early, Late, Responds, sessionVars, readerVars
<1>13. CASE UNCHANGED flasherVars
  BY <1>13 DEF flasherVars, Session, Early, Late, Responds, sessionVars, readerVars
<1>. QED
  BY <1>1, <1>2, <1>3, <1>4, <1>5, <1>6, <1>7, <1>8, <1>9, <1>10, <1>11, <1>12, <1>13, <1>14
  DEF FlasherNext, HostStep, TargetStep

-----------------------------------------------------------------------------
(* GET_CHIP_ID is the last of what goes before the erasure. *)

(* Before it is sent nothing in either direction is of it. *)
LEMMA BeforeChipId ==
  ASSUME ChipIdLast, Early, ~(step = 2 /\ pc \in {"ack", "resp"})
  PROVE  /\ \A i \in 1..Len(inbox) : inbox[i] <= 2 /\ inbox[i] # 2
         /\ \A i \in 1..Len(Stream) : Stream[i].is # "size"
BY DEF ChipIdLast

LEMMA StepsBehindSync ==
  /\ ~Responds(1) /\ Responds(2)
  /\ Responds(Len(Script) - 1) /\ ~Responds(Len(Script))
BY ScriptFacts DEF Responds

(* Only a response has a header. *)
LEMMA HeaderFacts ==
  ASSUME NEW k \in SYNC..Len(Script)
  PROVE  /\ Nack(k) \in Seq(Bytes) /\ \A i \in 1..Len(Nack(k)) : Nack(k)[i].is \notin {"size", "CC"}
         /\ Ack(k) \in Seq(Bytes) /\ \A i \in 1..Len(Ack(k)) : Ack(k)[i].is # "size"
         /\ \A v \in {"id", "success", "fail", "match", "differ"} :
              LET x == Ack(k) \o Response(k, v)
              IN  /\ x \in Seq(Bytes) /\ Len(x) = 5
                  /\ \A i \in 1..5 : x[i].is = "size" => i = 3
<1>1. \A b \in {"00", "CC", "33", "size", "check", "id", "success", "fail", "match", "differ"} :
        Byte(k, b).is = b
  BY DEF Byte
<1>2. /\ Nack(k) \in Seq(Bytes) /\ Len(Nack(k)) = 2
      /\ Nack(k)[1].is = "00" /\ Nack(k)[2].is = "33"
  BY <1>1, ByteFacts
<1>3. /\ Ack(k) \in Seq(Bytes) /\ Len(Ack(k)) = 2
      /\ Ack(k)[1].is = "00" /\ Ack(k)[2].is = "CC"
  BY <1>1, ByteFacts
<1>4. ASSUME NEW v \in {"id", "success", "fail", "match", "differ"},
             NEW x, x = Ack(k) \o Response(k, v)
      PROVE  /\ x \in Seq(Bytes) /\ Len(x) = 5
             /\ \A i \in 1..5 : x[i].is = "size" => i = 3
  <2>1. /\ x \in Seq(Bytes) /\ Len(x) = 5
        /\ x[1] = Byte(k, "00") /\ x[2] = Byte(k, "CC")
        /\ x[3] = Byte(k, "size") /\ x[4] = Byte(k, "check") /\ x[5] = Byte(k, v)
    BY <1>4, ByteFacts
  <2>2. x[1].is = "00" /\ x[2].is = "CC" /\ x[4].is = "check" /\ x[5].is = v
    BY <1>1, <2>1
  <2>3. \A i \in 1..5 : i = 1 \/ i = 2 \/ i = 3 \/ i = 4 \/ i = 5
    OBVIOUS
  <2>. QED  BY <2>1, <2>2, <2>3
<1>5. \A i \in 1..2 : i = 1 \/ i = 2
  OBVIOUS
<1>. QED  BY <1>2, <1>3, <1>4, <1>5

LEMMA ChipIdLastNext ==
  ASSUME FlasherTypeOK, FlasherTypeOK', Session, ChipIdLast, [FlasherNext]_flasherVars
  PROVE  ChipIdLast'
<1>0. step \in Nat \ {0} /\ step' \in Nat \ {0}
  <2>1. step \in 1..Len(Script) /\ step' \in 1..Len(Script)
    BY DEF FlasherTypeOK
  <2>. QED  BY <2>1, ScriptFacts
<1>a. ASSUME UNCHANGED <<pc, step, inbox, buf, stream>> PROVE ChipIdLast'
  BY <1>a DEF ChipIdLast, Early, Stream
<1>b. ASSUME Early', inbox' = inbox, UNCHANGED <<buf, stream>>,
             Early, ~(step = 2 /\ pc \in {"ack", "resp"})
      PROVE  ChipIdLast'
  <2>1. Stream' = Stream
    BY <1>b DEF Stream
  <2>. QED  BY <1>b, <2>1, BeforeChipId DEF ChipIdLast
<1>1. CASE Click
  BY <1>1 DEF Click, ChipIdLast, Early
<1>14. CASE SignalsThrow
  BY <1>14 DEF SignalsThrow, ChipIdLast, Early
<1>2. CASE InvokeBootloader
  <2>1. inbox' = <<>> /\ buf' = <<>> /\ stream' = <<>>
    BY <1>2 DEF InvokeBootloader
  <2>2. Len(Stream') = 0 /\ Len(inbox') = 0
    BY <2>1, StreamFactsNext
  <2>. QED  BY <2>2 DEF ChipIdLast
<1>3. CASE SendSync
  <2>1. /\ Early /\ pc = "sync" /\ inbox' = Append(inbox, SYNC) /\ Stream' = Stream
        /\ inbox \in Seq(SYNC..Len(Script))
    BY <1>3 DEF SendSync, Early, Stream, readerVars, FlasherTypeOK
  <2>2. /\ \A i \in 1..Len(inbox) : inbox[i] <= 2 /\ inbox[i] # 2
        /\ \A i \in 1..Len(Stream) : Stream[i].is # "size"
    BY <2>1, BeforeChipId
  <2>3. \A i \in 1..Len(inbox') : inbox'[i] <= 2 /\ inbox'[i] # 2
    BY <2>1, <2>2 DEF SYNC
  <2>. QED  BY <2>1, <2>2, <2>3 DEF ChipIdLast
<1>4. CASE SendCommand
  <2>1. /\ pc = "send" /\ pc' = "ack" /\ step' = step /\ inbox' = Append(inbox, step)
        /\ Stream' = Stream /\ inbox \in Seq(SYNC..Len(Script))
    BY <1>4 DEF SendCommand, Stream, readerVars, FlasherTypeOK
  <2>2. CASE ~Early'
    BY <2>2 DEF ChipIdLast
  <2>3. CASE Early'
    <3>1. Early /\ step <= 2
      BY <2>1, <2>3 DEF Early
    <3>2. /\ \A i \in 1..Len(inbox) : inbox[i] <= 2 /\ inbox[i] # 2
          /\ \A i \in 1..Len(Stream) : Stream[i].is # "size"
      BY <2>1, <3>1, BeforeChipId
    <3>3. /\ Len(inbox) \in Nat /\ Len(inbox') = Len(inbox) + 1
          /\ inbox'[Len(inbox')] = step
          /\ \A i \in 1..Len(inbox) : inbox'[i] = inbox[i]
      BY <2>1
    <3>4. \A i \in 1..Len(inbox') : i \in 1..Len(inbox) \/ i = Len(inbox')
      BY <3>3
    <3>5. \A i \in 1..Len(inbox') :
            inbox'[i] <= 2 /\ (inbox'[i] = 2 => i = Len(inbox') /\ step = 2)
      BY <3>1, <3>2, <3>3, <3>4
    <3>. QED  BY <2>1, <3>2, <3>5 DEF ChipIdLast
  <2>. QED  BY <2>2, <2>3
<1>c. ASSUME buf # <<>>, buf' = Tail(buf), UNCHANGED <<stream, inbox>>, Early', Early,
             \/ pc' = pc /\ step' = step
             \/ pc' = "resp" /\ pc = "ack" /\ step' = step
             \/ ~(step = 2 /\ pc \in {"ack", "resp"})
      PROVE  ChipIdLast'
  <2>1. /\ Len(Stream) \in Nat \ {0} /\ Len(Stream') = Len(Stream) - 1
        /\ \A i \in 1..(Len(Stream) - 1) : Stream'[i] = Stream[i + 1]
    BY <1>c, ReadOne
  <2>2. CASE ~(step = 2 /\ pc \in {"ack", "resp"})
    <3>1. /\ \A i \in 1..Len(inbox) : inbox[i] <= 2 /\ inbox[i] # 2
          /\ \A i \in 1..Len(Stream) : Stream[i].is # "size"
      BY <1>c, <2>2, BeforeChipId
    <3>2. \A i \in 1..Len(Stream') : Stream'[i].is # "size"
      BY <2>1, <3>1
    <3>. QED  BY <1>c, <3>1, <3>2 DEF ChipIdLast
  <2>3. CASE step = 2 /\ pc \in {"ack", "resp"}
    <3>1. step' = 2 /\ pc' \in {"ack", "resp"}
      BY <1>c, <2>3
    <3>2. /\ \A i \in 1..Len(inbox) : inbox[i] <= 2 /\ (inbox[i] = 2 => i = Len(inbox))
          /\ \A i \in 1..Len(Stream) : Stream[i].is = "size" => Len(Stream) = i + 2 /\ inbox = <<>>
      BY <1>c DEF ChipIdLast
    <3>3. \A i \in 1..Len(Stream') : Stream'[i].is = "size" => Len(Stream') = i + 2 /\ inbox = <<>>
      <4> TAKE i \in 1..Len(Stream')
      <4> HAVE Stream'[i].is = "size"
      <4>1. i \in Nat /\ i + 1 \in 1..Len(Stream) /\ Stream[i + 1].is = "size"
        BY <2>1
      <4>2. Len(Stream) = (i + 1) + 2 /\ inbox = <<>>
        BY <3>2, <4>1
      <4>. QED  BY <2>1, <4>1, <4>2
    <3>. QED  BY <1>c, <3>1, <3>2, <3>3 DEF ChipIdLast
  <2>. QED  BY <2>2, <2>3
<1>5. CASE ReadAck
  <2>1. /\ buf # <<>> /\ buf' = Tail(buf) /\ UNCHANGED <<stream, inbox>> /\ pc \in {"syncAck", "ack"}
    BY <1>5 DEF ReadAck
  <2>2. CASE ~Early'
    BY <2>2 DEF ChipIdLast
  <2>3. CASE Early'
    <3>1. \/ pc' = pc /\ step' = step
          \/ pc' = "resp" /\ pc = "ack" /\ step' = step
          \/ pc = "syncAck"
          \/ pc = "ack" /\ ~Responds(step) /\ step' \in {step, step + 1}
      <4>1. CASE pc = "ack" /\ Head(buf).is = "CC"
        BY <1>5, <4>1 DEF ReadAck, Advance
      <4>2. CASE pc = "ack" /\ Head(buf).is # "CC"
        <5>1. pc' = pc \/ pc' = "error"
          BY <1>5, <4>2 DEF ReadAck
        <5>2. pc' # "error"
          BY <2>3 DEF Early
        <5>3. step' = step
          BY <1>5, <4>2 DEF ReadAck
        <5>. QED  BY <5>1, <5>2, <5>3
      <4>. QED  BY <2>1, <4>1, <4>2
    <3>2. pc = "ack" => step <= 2
      <4>1. pc = "ack" => step' >= step
        BY <1>0, <3>1
      <4>2. pc = "ack" => pc' \notin {"sync", "syncAck"}
        BY <1>5 DEF ReadAck, Advance
      <4>. QED  BY <1>0, <2>3, <4>1, <4>2 DEF Early
    <3>3. Early
      BY <2>1, <3>2 DEF Early
    <3>4. ~Responds(step) => step # 2
      BY StepsBehindSync
    <3>. QED  BY <1>c, <2>1, <2>3, <3>1, <3>3, <3>4
  <2>. QED  BY <2>2, <2>3
<1>6. CASE ReadResponse
  <2>1. CASE Head(buf).is = "00" /\ Early'
    <3>1. /\ buf # <<>> /\ buf' = Tail(buf) /\ UNCHANGED <<stream, inbox, pc, step>>
      BY <1>6, <2>1 DEF ReadResponse
    <3>2. Early
      BY <2>1, <3>1 DEF Early
    <3>. QED  BY <1>c, <2>1, <3>1, <3>2
  <2>2. CASE Head(buf).is = "size"
    <3>1. \/ pc' \in {"error", "done"}
          \/ pc' = "send" /\ step' = step + 1
      BY <1>6, <2>2 DEF ReadResponse, Advance
    <3>2. step # 1
      BY <1>6, StepsBehindSync DEF ReadResponse, Session
    <3>3. ~Early'
      BY <1>0, <3>1, <3>2 DEF Early
    <3>. QED  BY <3>3 DEF ChipIdLast
  <2>3. CASE ~Early'
    BY <2>3 DEF ChipIdLast
  <2>. QED  BY <1>6, <2>1, <2>2, <2>3 DEF ReadResponse
<1>7. CASE Timeout
  <2>1. /\ UNCHANGED <<step, buf, stream, inbox>>
        /\ pc' = "error" \/ (pc = "syncAck" /\ pc' = "sync")
    BY <1>7 DEF Timeout, NextAttempt
  <2>2. CASE pc' = "error"
    BY <2>2 DEF ChipIdLast, Early
  <2>3. CASE pc = "syncAck" /\ pc' = "sync"
    <3>1. Early /\ Early'
      BY <2>3 DEF Early
    <3>. QED  BY <1>b, <2>1, <2>3, <3>1
  <2>. QED  BY <2>1, <2>2, <2>3
<1>8. CASE Deliver
  <2>1. UNCHANGED <<pc, step, inbox>>
    BY <1>8 DEF Deliver, sessionVars
  <2>2. PICK n \in 1..Len(stream) :
          /\ stream' = SubSeq(stream, n + 1, Len(stream))
          /\ \/ orphans > 0 /\ UNCHANGED buf
             \/ buf' = buf \o SubSeq(stream, 1, n)
    BY <1>8 DEF Deliver
  <2>3. CASE buf' = buf \o SubSeq(stream, 1, n)
    <3>1. Stream' = Stream
      BY <2>2, <2>3, Delivered
    <3>. QED  BY <2>1, <3>1 DEF ChipIdLast, Early
  <2>4. CASE orphans > 0 /\ UNCHANGED buf /\ Early'
    <3>1. Early /\ buf = <<>>
      BY <2>1, <2>4 DEF Early, Session
    <3>2. /\ Len(Stream) \in Nat /\ n \in 1..Len(Stream) /\ Len(Stream') = Len(Stream) - n
          /\ \A i \in 1..(Len(Stream) - n) : Stream'[i] = Stream[i + n]
      BY <2>2, <2>4, <3>1, Lost
    <3>3. \A i \in 1..Len(Stream) : Stream[i].is = "size" =>
            Len(Stream) = i + 2 /\ inbox = <<>> /\ step = 2 /\ pc \in {"ack", "resp"}
      BY <3>1 DEF ChipIdLast
    <3>4. \A i \in 1..Len(Stream') : Stream'[i].is = "size" =>
            Len(Stream') = i + 2 /\ inbox = <<>> /\ step = 2 /\ pc \in {"ack", "resp"}
      <4> TAKE i \in 1..Len(Stream')
      <4> HAVE Stream'[i].is = "size"
      <4>1. i \in Nat /\ n \in Nat /\ i + n \in 1..Len(Stream) /\ Stream[i + n].is = "size"
        BY <3>2
      <4>2. Len(Stream) = (i + n) + 2 /\ inbox = <<>> /\ step = 2 /\ pc \in {"ack", "resp"}
        BY <3>3, <4>1
      <4>3. Len(Stream') = i + 2
        BY <3>2, <4>1, <4>2
      <4>. QED  BY <4>2, <4>3
    <3>. QED  BY <2>1, <3>1, <3>4 DEF ChipIdLast
  <2>5. CASE ~Early'
    BY <2>5 DEF ChipIdLast
  <2>. QED  BY <2>2, <2>3, <2>4, <2>5
<1>d. ASSUME Early, inbox # <<>>
      PROVE  /\ \A i \in 1..Len(Stream) : Stream[i].is # "size"
             /\ inbox \in Seq(SYNC..Len(Script)) /\ Len(inbox) \in Nat \ {0}
             /\ Head(inbox) = inbox[1] /\ Head(inbox) <= 2
             /\ Head(inbox) = 2 => Len(inbox) = 1 /\ step = 2 /\ pc \in {"ack", "resp"}
             /\ Len(Tail(inbox)) = Len(inbox) - 1
             /\ \A i \in 1..Len(Tail(inbox)) :
                  /\ Tail(inbox)[i] <= 2
                  /\ Tail(inbox)[i] = 2 => i = Len(Tail(inbox)) /\ step = 2 /\ pc \in {"ack", "resp"}
  <2>1. /\ \A i \in 1..Len(inbox) :
             inbox[i] <= 2 /\ (inbox[i] = 2 => i = Len(inbox) /\ step = 2 /\ pc \in {"ack", "resp"})
        /\ \A i \in 1..Len(Stream) : Stream[i].is # "size"
    BY <1>d DEF ChipIdLast
  <2>2. inbox \in Seq(SYNC..Len(Script))
    BY DEF FlasherTypeOK
  <2>3. /\ Head(inbox) = inbox[1] /\ Len(inbox) \in Nat \ {0}
        /\ Len(Tail(inbox)) = Len(inbox) - 1
        /\ \A k \in 1..(Len(inbox) - 1) : Tail(inbox)[k] = inbox[k + 1]
    BY <1>d, <2>2, HeadTail
  <2>4. Head(inbox) <= 2 /\ (Head(inbox) = 2 => Len(inbox) = 1 /\ step = 2 /\ pc \in {"ack", "resp"})
    <3>1. 1 \in 1..Len(inbox)
      BY <2>3
    <3>2. /\ inbox[1] <= 2
          /\ inbox[1] = 2 => 1 = Len(inbox) /\ step = 2 /\ pc \in {"ack", "resp"}
      BY <2>1, <3>1
    <3>. QED  BY <2>3, <3>2
  <2>5. ASSUME NEW i \in 1..Len(Tail(inbox))
        PROVE  /\ Tail(inbox)[i] <= 2
               /\ Tail(inbox)[i] = 2 => i = Len(Tail(inbox)) /\ step = 2 /\ pc \in {"ack", "resp"}
    <3>1. i \in 1..(Len(inbox) - 1) /\ i + 1 \in 1..Len(inbox)
      BY <2>3
    <3>2. Tail(inbox)[i] = inbox[i + 1]
      BY <2>3, <3>1
    <3>3. i + 1 = Len(inbox) => i = Len(Tail(inbox))
      <4>1. Len(inbox) \in Nat /\ i \in Nat /\ Len(Tail(inbox)) = Len(inbox) - 1
        BY <2>3, <3>1
      <4>. QED  BY <4>1
    <3>. QED  BY <2>1, <3>1, <3>2, <3>3
  <2>. QED  BY <2>1, <2>2, <2>3, <2>4, <2>5
<1>e. ASSUME Early, inbox # <<>>, inbox' = Tail(inbox), UNCHANGED <<pc, step, buf>>,
             NEW x \in Seq(Bytes), stream' = stream \o x,
             \A i \in 1..Len(x) : x[i].is # "size"
      PROVE  ChipIdLast'
  <2>1. /\ Len(Stream) \in Nat /\ Len(x) \in Nat /\ Len(Stream') = Len(Stream) + Len(x)
        /\ \A i \in 1..Len(Stream) : Stream'[i] = Stream[i]
        /\ \A i \in (Len(Stream) + 1)..(Len(Stream) + Len(x)) : Stream'[i] = x[i - Len(Stream)]
    BY <1>e, Sent
  <2>2. \A i \in 1..Len(Stream) : Stream[i].is # "size"
    BY <1>d, <1>e
  <2>3. \A i \in 1..Len(Stream') : Stream'[i].is # "size"
    <3> TAKE i \in 1..Len(Stream')
    <3>1. \/ i \in 1..Len(Stream)
          \/ i \in (Len(Stream) + 1)..(Len(Stream) + Len(x)) /\ i - Len(Stream) \in 1..Len(x)
      BY <2>1
    <3>. QED  BY <1>e, <2>1, <2>2, <3>1
  <2>. QED  BY <1>d, <1>e, <2>3 DEF ChipIdLast
<1>9. CASE Refuse
  <2>1. /\ inbox # <<>> /\ inbox' = Tail(inbox) /\ UNCHANGED <<pc, step, buf>>
        /\ stream' = stream \o Nack(Head(inbox)) /\ inbox \in Seq(SYNC..Len(Script))
    BY <1>9 DEF Refuse, sessionVars, readerVars, FlasherTypeOK
  <2>2. Head(inbox) \in SYNC..Len(Script)
    BY <2>1, HeadTail
  <2>3. /\ Nack(Head(inbox)) \in Seq(Bytes)
        /\ \A i \in 1..Len(Nack(Head(inbox))) : Nack(Head(inbox))[i].is # "size"
    BY <2>2, HeaderFacts
  <2>4. CASE Early
    BY <1>e, <2>1, <2>3, <2>4
  <2>5. CASE ~Early
    BY <2>1, <2>5 DEF ChipIdLast, Early
  <2>. QED  BY <2>4, <2>5
<1>10. CASE AnswerSync
  <2>1. /\ inbox # <<>> /\ inbox' = Tail(inbox) /\ UNCHANGED <<pc, step, buf>>
        /\ stream' = stream \o Ack(SYNC) \/ stream' = stream
    BY <1>10 DEF AnswerSync, sessionVars, readerVars
  <2>2. Ack(SYNC) \in Seq(Bytes) /\ \A i \in 1..Len(Ack(SYNC)) : Ack(SYNC)[i].is # "size"
    <3>1. SYNC \in SYNC..Len(Script)
      BY ScriptFacts DEF SYNC
    <3>. QED  BY <3>1, HeaderFacts
  <2>3. CASE Early /\ stream' = stream \o Ack(SYNC)
    BY <1>e, <2>1, <2>2, <2>3
  <2>4. CASE Early /\ stream' = stream
    <3>1. Stream' = Stream
      BY <2>1, <2>4 DEF Stream
    <3>. QED  BY <1>d, <2>1, <2>4, <3>1 DEF ChipIdLast
  <2>5. CASE ~Early
    BY <2>1, <2>5 DEF ChipIdLast, Early
  <2>. QED  BY <2>1, <2>3, <2>4, <2>5
<1>11. CASE Execute
  <2>1. /\ inbox # <<>> /\ inbox' = Tail(inbox) /\ UNCHANGED <<pc, step, buf>>
        /\ stream' = stream \o Answer(Head(inbox)) /\ Head(inbox) # SYNC
        /\ inbox \in Seq(SYNC..Len(Script))
    BY <1>11 DEF Execute, sessionVars, readerVars, FlasherTypeOK
  <2>2. Head(inbox) \in 1..Len(Script) /\ Head(inbox) \in SYNC..Len(Script)
    BY <2>1, HeadTail DEF SYNC
  <2>3. CASE ~Early
    BY <2>1, <2>3 DEF ChipIdLast, Early
  <2>4. CASE Early /\ Head(inbox) # 2
    <3>1. Head(inbox) = 1
      BY <1>d, <2>1, <2>2, <2>4
    <3>2. Answer(Head(inbox)) = Ack(Head(inbox))
      BY <2>2, <3>1, AnswerFacts, StepsBehindSync
    <3>3. /\ Ack(Head(inbox)) \in Seq(Bytes)
          /\ \A i \in 1..Len(Ack(Head(inbox))) : Ack(Head(inbox))[i].is # "size"
      BY <2>2, HeaderFacts
    <3>. QED  BY <1>e, <2>1, <2>4, <3>2, <3>3
  <2>5. CASE Early /\ Head(inbox) = 2
    <3>1. /\ Len(inbox) = 1 /\ step = 2 /\ pc \in {"ack", "resp"} /\ Len(inbox') = 0
          /\ \A i \in 1..Len(Stream) : Stream[i].is # "size"
      BY <1>d, <2>1, <2>5
    <3>2. PICK v \in {"id", "success", "fail", "match", "differ"} :
            Answer(Head(inbox)) = Ack(Head(inbox)) \o Response(Head(inbox), v)
      BY <2>2, <2>5, AnswerFacts, StepsBehindSync
    <3> DEFINE x == Ack(Head(inbox)) \o Response(Head(inbox), v)
    <3>3. /\ x \in Seq(Bytes) /\ Len(x) = 5
          /\ \A i \in 1..5 : x[i].is = "size" => i = 3
      BY <2>2, HeaderFacts
    <3>4. stream' = stream \o x
      BY <2>1, <3>2
    <3> HIDE DEF x
    <3>5. /\ Len(Stream) \in Nat /\ Len(Stream') = Len(Stream) + 5
          /\ \A i \in 1..Len(Stream) : Stream'[i] = Stream[i]
          /\ \A i \in (Len(Stream) + 1)..(Len(Stream) + 5) : Stream'[i] = x[i - Len(Stream)]
      BY <2>1, <3>3, <3>4, Sent
    <3>6. \A i \in 1..Len(Stream') : Stream'[i].is = "size" => Len(Stream') = i + 2
      <4> TAKE i \in 1..Len(Stream')
      <4> HAVE Stream'[i].is = "size"
      <4>1. i \notin 1..Len(Stream)
        BY <3>1, <3>5
      <4>2. i \in (Len(Stream) + 1)..(Len(Stream) + 5) /\ i - Len(Stream) \in 1..5
        BY <3>5, <4>1
      <4>3. i - Len(Stream) = 3
        BY <3>3, <3>5, <4>2
      <4>. QED  BY <3>5, <4>2, <4>3
    <3>7. inbox' = <<>>
      BY <3>1, EmptySeq DEF FlasherTypeOK
    <3>8. step' = 2 /\ pc' \in {"ack", "resp"}
      BY <2>1, <3>1
    <3>9. \A i \in 1..Len(inbox') : FALSE
      BY <3>1
    <3>. QED  BY <3>6, <3>7, <3>8, <3>9 DEF ChipIdLast
  <2>. QED  BY <2>3, <2>4, <2>5
<1>12. CASE Dies
  BY <1>12, <1>a DEF Dies, sessionVars, readerVars
<1>13. CASE UNCHANGED flasherVars
  BY <1>13, <1>a DEF flasherVars, sessionVars, readerVars
<1>. QED
  BY <1>1, <1>2, <1>3, <1>4, <1>5, <1>6, <1>7, <1>8, <1>9, <1>10, <1>11, <1>12, <1>13, <1>14
  DEF FlasherNext, HostStep, TargetStep

-----------------------------------------------------------------------------
(* From the erasure on there is one command at a time. *)

(* Reading what comes before the ACK leaves the ACK what it means. *)
LEMMA AckMeansNext ==
  ASSUME FlasherTypeOK, FlasherTypeOK', buf # <<>>, buf' = Tail(buf), AckMeans(Stream),
         UNCHANGED <<stream, step, booted, alive, flash>>
  PROVE  AckMeans(Stream)'
<1>1. /\ Len(Stream) \in Nat \ {0} /\ Len(Stream') = Len(Stream) - 1
      /\ \A i \in 1..(Len(Stream) - 1) : Stream'[i] = Stream[i + 1]
  BY ReadOne
<1>2. ASSUME NEW i \in 1..Len(Stream')
      PROVE  /\ Stream'[i].of = step
             /\ Stream'[i].is = "CC" =>
                  IF Responds(step)
                    THEN /\ Len(Stream') = i + 3 /\ Stream'[i + 1].is = "size"
                         /\ Script[step] = "crc" /\ Good(Stream'[i + 3].is) => AllGood
                    ELSE /\ Len(Stream') = i
                         /\ Script[step] = "reset" => booted /\ ~alive
  <2>1. i \in Nat /\ i + 1 \in 1..Len(Stream) /\ Stream'[i] = Stream[i + 1]
    BY <1>1
  <2>2. /\ Stream[i + 1].of = step
        /\ Stream[i + 1].is = "CC" =>
             IF Responds(step)
               THEN /\ Len(Stream) = (i + 1) + 3 /\ Stream[(i + 1) + 1].is = "size"
                    /\ Script[step] = "crc" /\ Good(Stream[(i + 1) + 3].is) => AllGood
               ELSE /\ Len(Stream) = i + 1
                    /\ Script[step] = "reset" => booted /\ ~alive
    BY <2>1 DEF AckMeans
  <2>3. CASE Stream'[i].is = "CC" /\ Responds(step)
    <3>1. Len(Stream) = (i + 1) + 3
      BY <2>1, <2>2, <2>3
    <3>2. /\ Len(Stream') = i + 3
          /\ i + 1 \in 1..(Len(Stream) - 1) /\ i + 3 \in 1..(Len(Stream) - 1)
          /\ (i + 3) + 1 = (i + 1) + 3
      BY <1>1, <2>1, <3>1
    <3>3. Stream'[i + 1] = Stream[(i + 1) + 1] /\ Stream'[i + 3] = Stream[(i + 3) + 1]
      BY <1>1, <3>2
    <3>. QED  BY <2>1, <2>2, <2>3, <3>2, <3>3
  <2>4. CASE Stream'[i].is = "CC" /\ ~Responds(step)
    <3>1. Len(Stream) = i + 1
      BY <2>1, <2>2, <2>4
    <3>2. Len(Stream') = i
      BY <1>1, <2>1, <3>1
    <3>. QED  BY <2>1, <2>2, <2>4, <3>2
  <2>. QED  BY <2>1, <2>2, <2>3, <2>4
<1>3. step' = step /\ booted' = booted /\ alive' = alive /\ (AllGood' <=> AllGood)
  BY DEF AllGood
<1>. QED  BY <1>2, <1>3 DEF AckMeans, Responds

(* What the ACK at the head of the stream says of the step. *)
LEMMA AckRead ==
  ASSUME FlasherTypeOK, FlasherTypeOK', buf # <<>>, buf' = Tail(buf), AckMeans(Stream),
         UNCHANGED <<stream, step, flash>>, Head(buf).is = "CC"
  PROVE  /\ Responds(step) =>
              /\ Len(Stream') = 3 /\ Stream'[1].is = "size"
              /\ \A i \in 1..3 : Stream'[i].of = step
              /\ Script[step] = "crc" /\ Good(Stream'[3].is) => AllGood
         /\ ~Responds(step) =>
              /\ Stream' = <<>>
              /\ Script[step] = "reset" => booted /\ ~alive
<1>1. /\ Len(Stream) \in Nat \ {0} /\ Len(Stream') = Len(Stream) - 1 /\ Stream[1] = Head(buf)
      /\ \A i \in 1..(Len(Stream) - 1) : Stream'[i] = Stream[i + 1]
  BY ReadOne
<1>2. 1 \in 1..Len(Stream) /\ Stream[1].is = "CC"
  BY <1>1
<1>3. CASE Responds(step)
  <2>1. /\ Len(Stream) = 1 + 3 /\ Stream[1 + 1].is = "size"
        /\ Script[step] = "crc" /\ Good(Stream[1 + 3].is) => AllGood
    BY <1>2, <1>3 DEF AckMeans
  <2>2. Len(Stream) = 4 /\ Len(Stream') = 3
    BY <1>1, <2>1
  <2>3. \A i \in 1..3 : i \in 1..(Len(Stream) - 1) /\ i + 1 \in 1..Len(Stream)
    BY <2>2
  <2>4. \A i \in 1..3 : Stream'[i] = Stream[i + 1] /\ Stream[i + 1].of = step
    BY <1>1, <2>3 DEF AckMeans
  <2>5. 1 \in 1..3 /\ 3 \in 1..3 /\ 3 + 1 = 1 + 3
    OBVIOUS
  <2>6. Stream'[1] = Stream[1 + 1] /\ Stream'[3] = Stream[1 + 3]
    BY <2>4, <2>5
  <2>. QED  BY <1>3, <2>1, <2>2, <2>4, <2>6
<1>4. CASE ~Responds(step)
  <2>1. Len(Stream) = 1 /\ (Script[step] = "reset" => booted /\ ~alive)
    BY <1>2, <1>4 DEF AckMeans
  <2>2. Len(Stream') = 0
    BY <1>1, <2>1
  <2>. QED  BY <1>4, <2>1, <2>2, EmptyStreamNext
<1>. QED  BY <1>3, <1>4

(* The reset follows GET_CRC32 and is the last command. *)
LEMMA ResetLast ==
  ASSUME NEW k \in 1..Len(Script), NEW m \in 1..Len(Script), m = k + 1, Script[m] = "reset"
  PROVE  Script[k] = "crc" /\ Responds(k) /\ k >= 3
<1>1. Len(Script) = 2 * Chunks + 8 /\ Chunks \in Nat \ {0}
  BY ScriptFacts, Constants
<1>2. m = Len(Script)
  BY ScriptFacts
<1>3. k = Len(Script) - 1 /\ k >= 3
  BY <1>1, <1>2
<1>. QED  BY <1>3, ScriptFacts DEF Responds

LEMMA OneAtATimeNext ==
  ASSUME FlasherTypeOK, FlasherTypeOK', Session, ChipIdLast, OneAtATime, [FlasherNext]_flasherVars
  PROVE  OneAtATime'
<1>0. step \in 1..Len(Script) /\ step' \in 1..Len(Script) /\ step \in Nat \ {0} /\ step' \in Nat \ {0}
  <2>1. step \in 1..Len(Script) /\ step' \in 1..Len(Script)
    BY DEF FlasherTypeOK
  <2>. QED  BY <2>1, ScriptFacts
<1>a. ASSUME UNCHANGED <<pc, step, orphans, inbox, booted, flash>>, Stream' = Stream,
             alive' = alive \/ alive' = FALSE
      PROVE  OneAtATime'
  <2>1. AllGood' <=> AllGood
    BY <1>a DEF AllGood
  <2>2. AckMeans(Stream) => AckMeans(Stream)'
    BY <1>a, <2>1 DEF AckMeans, Responds
  <2>. QED  BY <1>a, <2>1, <2>2 DEF OneAtATime, Late
<1>1. CASE Click
  BY <1>1 DEF Click, OneAtATime, Late
<1>2. CASE InvokeBootloader
  BY <1>2 DEF InvokeBootloader, OneAtATime, Late
<1>14. CASE SignalsThrow
  BY <1>14 DEF SignalsThrow, OneAtATime, Late
<1>3. CASE SendSync
  BY <1>3 DEF SendSync, OneAtATime, Late
<1>4. CASE SendCommand
  <2>1. /\ pc = "send" /\ pc' = "ack" /\ inbox' = Append(inbox, step)
        /\ UNCHANGED <<step, orphans, flash>> /\ Stream' = Stream
    BY <1>4 DEF SendCommand, Stream, readerVars, targetVars
  <2>2. CASE step >= 3
    <3>1. Late
      BY <2>1, <2>2 DEF Late
    <3>2. orphans = 0 /\ inbox = <<>> /\ Stream = <<>> /\ (Script[step] = "reset" => AllGood)
      BY <2>1, <3>1 DEF OneAtATime
    <3>3. inbox' = <<step>>
      BY <2>1, <3>2
    <3>4. AllGood' <=> AllGood
      BY <2>1 DEF AllGood
    <3>. QED  BY <2>1, <3>2, <3>3, <3>4 DEF OneAtATime
  <2>3. CASE ~(step >= 3)
    BY <2>1, <2>3 DEF OneAtATime, Late
  <2>. QED  BY <2>2, <2>3
<1>5. CASE ReadAck
  <2>1. /\ buf # <<>> /\ buf' = Tail(buf) /\ pc \in {"syncAck", "ack"}
        /\ UNCHANGED <<orphans, stream, inbox, alive, flash, booted>>
    BY <1>5 DEF ReadAck, targetVars
  <2>2. CASE ~Late'
    BY <2>2 DEF OneAtATime
  <2>3. CASE Late'
    <3>1. pc = "ack"
      <4>1. pc = "syncAck" => step' = 1 \/ pc' \notin {"send", "ack", "resp"}
        BY <1>5 DEF ReadAck, NextAttempt, Session
      <4>. QED  BY <2>1, <2>3, <4>1 DEF Late
    <3>2. \/ Head(buf).is = "CC" /\ Responds(step) /\ pc' = "resp" /\ step' = step
          \/ Head(buf).is = "CC" /\ ~Responds(step) /\ pc' = "send" /\ step' = step + 1
          \/ Head(buf).is # "CC" /\ pc' = "ack" /\ step' = step
      <4>1. CASE Head(buf).is = "CC"
        BY <1>5, <2>3, <3>1, <4>1 DEF ReadAck, Advance, Late
      <4>2. CASE Head(buf).is # "CC"
        BY <1>5, <2>3, <3>1, <4>2 DEF ReadAck, Late
      <4>. QED  BY <4>1, <4>2
    <3>3. step >= 3
      BY <1>0, <2>3, <3>2, StepsBehindSync DEF Late
    <3>4. Late
      BY <3>1, <3>3 DEF Late
    <3>5. orphans = 0 /\ inbox = <<>> /\ AckMeans(Stream) /\ (Script[step] = "reset" => AllGood)
      <4>1. Stream # <<>>
        <5>1. buf \in Seq(Bytes) /\ stream \in Seq(Bytes)
          BY DEF FlasherTypeOK
        <5>. QED  BY <2>1, <5>1, ConcatEmpty DEF Stream
      <4>. QED  BY <3>1, <3>4, <4>1 DEF OneAtATime
    <3>6. AllGood' <=> AllGood
      BY <2>1 DEF AllGood
    <3>7. CASE Head(buf).is = "CC" /\ Responds(step) /\ pc' = "resp" /\ step' = step
      <4>1. /\ Len(Stream') = 3 /\ Stream'[1].is = "size"
            /\ \A i \in 1..3 : Stream'[i].of = step
            /\ Script[step] = "crc" /\ Good(Stream'[3].is) => AllGood
        BY <2>1, <3>5, <3>7, AckRead
      <4>. QED  BY <2>1, <3>5, <3>6, <3>7, <4>1 DEF OneAtATime
    <3>8. CASE Head(buf).is = "CC" /\ ~Responds(step) /\ pc' = "send" /\ step' = step + 1
      <4>1. Stream' = <<>>
        <5>1. /\ Len(Stream) \in Nat \ {0} /\ Len(Stream') = Len(Stream) - 1 /\ Stream[1] = Head(buf)
          BY <2>1, ReadOne
        <5>2. 1 \in 1..Len(Stream) /\ Stream[1].is = "CC"
          BY <3>8, <5>1
        <5>3. Len(Stream) = 1
          BY <3>5, <3>8, <5>2 DEF AckMeans
        <5>4. Len(Stream') = 0
          BY <5>1, <5>3
        <5>. QED  BY <5>4, EmptyStreamNext
      <4>2. Script[step'] # "reset"
        BY <1>0, <3>8, ResetLast
      <4>. QED  BY <2>1, <3>5, <3>8, <4>1, <4>2 DEF OneAtATime
    <3>9. CASE Head(buf).is # "CC" /\ pc' = "ack" /\ step' = step
      <4>1. AckMeans(Stream)'
        BY <2>1, <3>5, <3>9, AckMeansNext
      <4>. QED  BY <2>1, <3>5, <3>6, <3>9, <4>1 DEF OneAtATime
    <3>. QED  BY <3>2, <3>7, <3>8, <3>9
  <2>. QED  BY <2>2, <2>3
<1>6. CASE ReadResponse
  <2>1. /\ pc = "resp" /\ buf # <<>> /\ ~Starved /\ Responds(step)
        /\ UNCHANGED <<orphans, stream, inbox, alive, flash, booted>>
    BY <1>6 DEF ReadResponse, targetVars, Session
  <2>2. /\ Len(Stream) \in Nat \ {0} /\ Stream[1] = Head(buf) /\ 1 \in 1..Len(Stream)
        /\ Len(buf) \in Nat
    <3>1. /\ Head(buf) = buf[1] /\ Len(buf) \in Nat \ {0}
      BY <2>1, HeadTail, StreamFacts
    <3>2. 1 \in 1..Len(buf) /\ Len(Stream) = Len(buf) + Len(stream) /\ Len(stream) \in Nat
      BY <3>1, StreamFacts
    <3>3. Stream[1] = buf[1]
      BY <3>2, StreamFacts
    <3>4. Len(Stream) \in Nat \ {0}
      BY <3>1, <3>2
    <3>. QED  BY <3>1, <3>3, <3>4
  <2>3. step = 2 \/ step >= 3
    BY <1>0, <2>1, StepsBehindSync
  <2>4. step >= 3 => Late
    BY <2>1 DEF Late
  <2>5. step = 2 => Early
    BY <2>1 DEF Early
  <2>6. CASE Head(buf).is = "00" /\ UNCHANGED <<pc, step>>
    <3>1. ~Late
      BY <2>1, <2>2, <2>6 DEF OneAtATime
    <3>. QED  BY <2>6, <3>1 DEF OneAtATime, Late
  <2>7. CASE Head(buf).is = "size" /\ buf' = SubSeq(buf, 4, Len(buf))
    <3>1. Len(buf) >= 3
      BY <2>1, <2>2, <2>7 DEF Starved
    <3>2. Len(Stream) = 3 /\ inbox = <<>> /\ orphans = 0
      <4>1. CASE Late
        BY <2>1, <4>1 DEF OneAtATime
      <4>2. CASE Early
        <5>1. Len(Stream) = 1 + 2 /\ inbox = <<>>
          BY <2>2, <2>7, <4>2 DEF ChipIdLast
        <5>2. orphans = 0
          BY <2>1, <4>2 DEF Session
        <5>. QED  BY <5>1, <5>2
      <4>. QED  BY <2>3, <2>4, <2>5, <4>1, <4>2
    <3>3. Stream' = <<>> /\ Stream[3] = buf[3]
      BY <2>1, <2>7, <3>1, <3>2, ReadHeader
    <3>4. \/ pc' \in {"error", "done"}
          \/ Good(buf[3].is) /\ pc' = "send" /\ step' = step + 1
      BY <1>6, <2>7 DEF ReadResponse, Advance
    <3>5. CASE pc' \in {"error", "done"}
      BY <3>5 DEF OneAtATime, Late
    <3>6. CASE Good(buf[3].is) /\ pc' = "send" /\ step' = step + 1
      <4>1. Script[step'] = "reset" => AllGood
        <5> HAVE Script[step'] = "reset"
        <5>1. Script[step] = "crc" /\ step >= 3
          BY <1>0, <3>6, ResetLast
        <5>. QED  BY <2>1, <2>4, <3>3, <3>6, <5>1 DEF OneAtATime
      <4>2. AllGood' <=> AllGood
        BY <2>1 DEF AllGood
      <4>. QED  BY <2>1, <3>2, <3>3, <3>6, <4>1, <4>2 DEF OneAtATime
    <3>. QED  BY <3>4, <3>5, <3>6
  <2>. QED  BY <1>6, <2>6, <2>7 DEF ReadResponse
<1>7. CASE Timeout
  BY <1>7 DEF Timeout, NextAttempt, OneAtATime, Late
<1>8. CASE Deliver
  <2>1. UNCHANGED <<pc, step, inbox, alive, flash, booted>>
    BY <1>8 DEF Deliver, sessionVars, targetVars
  <2>2. CASE Late
    <3>1. orphans = 0
      BY <2>2 DEF OneAtATime
    <3>2. PICK n \in 1..Len(stream) :
            /\ stream' = SubSeq(stream, n + 1, Len(stream))
            /\ buf' = buf \o SubSeq(stream, 1, n) /\ UNCHANGED orphans
      <4>1. PICK n \in 1..Len(stream) :
              /\ stream' = SubSeq(stream, n + 1, Len(stream))
              /\ \/ orphans > 0
                 \/ buf' = buf \o SubSeq(stream, 1, n) /\ UNCHANGED orphans
        BY <1>8 DEF Deliver
      <4>2. ~(orphans > 0)
        BY <3>1
      <4>. QED  BY <4>1, <4>2
    <3>3. Stream' = Stream
      BY <3>2, Delivered
    <3>. QED  BY <1>a, <2>1, <3>2, <3>3
  <2>3. CASE ~Late
    BY <2>1, <2>3 DEF OneAtATime, Late
  <2>. QED  BY <2>2, <2>3
<1>b. ASSUME Late, inbox # <<>>
      PROVE  /\ pc = "ack" /\ Head(inbox) = step /\ Tail(inbox) = <<>> /\ orphans = 0
             /\ buf = <<>> /\ stream = <<>> /\ (Script[step] = "reset" => AllGood)
  <2>1. pc = "ack" /\ inbox = <<step>> /\ Stream = <<>> /\ orphans = 0 /\ (Script[step] = "reset" => AllGood)
    BY <1>b DEF OneAtATime, Late
  <2>2. buf \in Seq(Bytes) /\ stream \in Seq(Bytes)
    BY DEF FlasherTypeOK
  <2>3. buf = <<>> /\ stream = <<>>
    BY <2>1, <2>2, ConcatEmpty DEF Stream
  <2>. QED  BY <2>1, <2>3
<1>c. ASSUME Late, inbox # <<>>, inbox' = Tail(inbox), UNCHANGED <<pc, step, orphans, buf>>,
             NEW x \in Seq(Bytes), stream' = stream \o x,
             (Stream' = x) => AckMeans(Stream)', Script[step] = "reset" => (AllGood => AllGood')
      PROVE  OneAtATime'
  <2>1. /\ pc = "ack" /\ inbox' = <<>> /\ orphans = 0
        /\ buf = <<>> /\ stream = <<>> /\ (Script[step] = "reset" => AllGood)
    BY <1>b, <1>c
  <2>2. Stream' = x
    <3>1. stream' = x /\ buf' = <<>>
      BY <1>c, <2>1
    <3>. QED  BY <3>1 DEF Stream
  <2>. QED  BY <1>c, <2>1, <2>2 DEF OneAtATime
<1>9. CASE Refuse
  <2>1. /\ inbox # <<>> /\ inbox' = Tail(inbox) /\ UNCHANGED <<pc, step, orphans, buf, flash>>
        /\ stream' = stream \o Nack(Head(inbox))
    BY <1>9 DEF Refuse, sessionVars, readerVars, targetVars
  <2>2. CASE Late
    <3>1. Head(inbox) = step /\ step \in SYNC..Len(Script)
      BY <1>0, <1>b, <2>1, <2>2, ScriptFacts DEF SYNC
    <3>2. /\ Nack(step) \in Seq(Bytes) /\ Len(Nack(step)) = 2
          /\ \A i \in 1..2 : Nack(step)[i].is # "CC" /\ Nack(step)[i].of = step
      <4>1. /\ Nack(step) \in Seq(Bytes) /\ Len(Nack(step)) = 2
            /\ Nack(step)[1] = Byte(step, "00") /\ Nack(step)[2] = Byte(step, "33")
        BY <3>1, ByteFacts
      <4>2. \A i \in 1..2 : i = 1 \/ i = 2
        OBVIOUS
      <4>3. \A b : Byte(step, b).is = b /\ Byte(step, b).of = step
        BY DEF Byte
      <4>. QED  BY <4>1, <4>2, <4>3
    <3>3. stream' = stream \o Nack(step)
      BY <2>1, <3>1
    <3>4. (Stream' = Nack(step)) => AckMeans(Stream)'
      BY <2>1, <3>2 DEF AckMeans
    <3>5. AllGood => AllGood'
      BY <2>1 DEF AllGood
    <3>. QED  BY <1>c, <2>1, <2>2, <3>2, <3>3, <3>4, <3>5
  <2>3. CASE ~Late
    BY <2>1, <2>3 DEF OneAtATime, Late
  <2>. QED  BY <2>2, <2>3
<1>10. CASE AnswerSync
  <2>1. inbox # <<>> /\ Head(inbox) = SYNC /\ UNCHANGED <<pc, step>>
    BY <1>10 DEF AnswerSync, sessionVars
  <2>2. ~Late
    BY <1>0, <1>b, <2>1 DEF SYNC
  <2>. QED  BY <2>1, <2>2 DEF OneAtATime, Late
<1>11. CASE Execute
  <2>1. /\ inbox # <<>> /\ inbox' = Tail(inbox) /\ UNCHANGED <<pc, step, orphans, buf>>
        /\ stream' = stream \o Answer(Head(inbox)) /\ Effect(Head(inbox))
    BY <1>11 DEF Execute, sessionVars, readerVars
  <2>2. CASE Late
    <3>1. Head(inbox) = step /\ step \in SYNC..Len(Script)
      BY <1>0, <1>b, <2>1, <2>2, ScriptFacts DEF SYNC
    <3>2. stream' = stream \o Answer(step) /\ Effect(step) /\ Answer(step) \in Seq(Bytes)
      BY <1>0, <2>1, <3>1, AnswerFacts
    <3>3. Script[step] \in {"crc", "reset"} => flash' = flash
      BY <3>2 DEF Effect
    <3>4. Script[step] = "reset" => booted' /\ ~alive'
      BY <3>2 DEF Effect
    <3>5. Script[step] \in {"crc", "reset"} => (AllGood <=> AllGood')
      BY <3>3 DEF AllGood
    <3>6. (Stream' = Answer(step)) => AckMeans(Stream)'
      <4> HAVE Stream' = Answer(step)
      <4>0. \A b : Byte(step, b).is = b /\ Byte(step, b).of = step
        BY DEF Byte
      <4>1. CASE Responds(step)
        <5>1. PICK v \in {"id", "success", "fail", "match", "differ"} :
                /\ Answer(step) = Ack(step) \o Response(step, v)
                /\ Script[step] = "crc" /\ Good(v) => AllGood
          BY <1>0, <4>1, AnswerFacts DEF AllGood
        <5>2. /\ Len(Answer(step)) = 5
              /\ Answer(step)[1] = Byte(step, "00") /\ Answer(step)[2] = Byte(step, "CC")
              /\ Answer(step)[3] = Byte(step, "size") /\ Answer(step)[4] = Byte(step, "check")
              /\ Answer(step)[5] = Byte(step, v)
          <6>1. \A w \in {"id", "success", "fail", "match", "differ"} :
                  LET s == Ack(step) \o Response(step, w)
                  IN  /\ Len(s) = 5
                      /\ s[1] = Byte(step, "00") /\ s[2] = Byte(step, "CC")
                      /\ s[3] = Byte(step, "size") /\ s[4] = Byte(step, "check")
                      /\ s[5] = Byte(step, w)
            BY <3>1, ByteFacts
          <6>. QED  BY <5>1, <6>1, Zenon
        <5>3. \A i \in 1..5 : i = 1 \/ i = 2 \/ i = 3 \/ i = 4 \/ i = 5
          OBVIOUS
        <5>4. \A i \in 1..5 : Answer(step)[i].of = step /\ (Answer(step)[i].is = "CC" => i = 2)
          BY <4>0, <5>2, <5>3
        <5>5. Answer(step)[3].is = "size" /\ Answer(step)[5].is = v /\ 5 = 2 + 3 /\ 3 = 2 + 1
          BY <4>0, <5>2
        <5>6. Responds(step)' /\ step' = step
          BY <2>1, <4>1 DEF Responds
        <5>. QED  BY <3>5, <5>1, <5>2, <5>4, <5>5, <5>6 DEF AckMeans
      <4>2. CASE ~Responds(step)
        <5>1. /\ Len(Answer(step)) = 2
              /\ Answer(step)[1] = Byte(step, "00") /\ Answer(step)[2] = Byte(step, "CC")
          BY <1>0, <3>1, <4>2, AnswerFacts, ByteFacts
        <5>2. \A i \in 1..2 : i = 1 \/ i = 2
          OBVIOUS
        <5>3. \A i \in 1..2 : Answer(step)[i].of = step /\ (Answer(step)[i].is = "CC" => i = 2)
          BY <4>0, <5>1, <5>2
        <5>4. ~Responds(step)' /\ step' = step
          BY <2>1, <4>2 DEF Responds
        <5>. QED  BY <3>4, <5>1, <5>3, <5>4 DEF AckMeans
      <4>. QED  BY <4>1, <4>2
    <3>. QED  BY <1>c, <2>1, <2>2, <3>2, <3>5, <3>6
  <2>3. CASE ~Late
    BY <2>1, <2>3 DEF OneAtATime, Late
  <2>. QED  BY <2>2, <2>3
<1>12. CASE Dies
  BY <1>12, <1>a DEF Dies, sessionVars, readerVars, Stream
<1>13. CASE UNCHANGED flasherVars
  BY <1>13, <1>a DEF flasherVars, sessionVars, readerVars, targetVars, Stream
<1>. QED
  BY <1>1, <1>2, <1>3, <1>4, <1>5, <1>6, <1>7, <1>8, <1>9, <1>10, <1>11, <1>12, <1>13, <1>14
  DEF FlasherNext, HostStep, TargetStep

-----------------------------------------------------------------------------
(* A session that succeeds. *)

LEMMA BootedNext ==
  ASSUME FlasherTypeOK, FlasherTypeOK', Session, OneAtATime, Booted, [FlasherNext]_flasherVars
  PROVE  Booted'
<1>0. /\ step \in 1..Len(Script) /\ ~Responds(Len(Script)) /\ Len(Script) >= 3
      /\ Script[Len(Script)] = "reset"
  <2>1. Len(Script) = 2 * Chunks + 8 /\ Chunks \in Nat \ {0}
    BY ScriptFacts, Constants
  <2>. QED  BY <2>1, ScriptFacts, StepsBehindSync DEF FlasherTypeOK
<1>a. ASSUME pc' # "done" PROVE Booted'
  BY <1>a DEF Booted
<1>b. ASSUME UNCHANGED <<pc, booted, flash, alive>> PROVE Booted'
  BY <1>b DEF Booted, AllGood
<1>c. ASSUME alive, pc' = pc PROVE Booted'
  BY <1>c DEF Booted
<1>1. CASE Click
  BY <1>1, <1>a DEF Click
<1>2. CASE InvokeBootloader
  BY <1>2, <1>a DEF InvokeBootloader
<1>14. CASE SignalsThrow
  BY <1>14, <1>a DEF SignalsThrow
<1>3. CASE SendSync
  BY <1>3, <1>a DEF SendSync
<1>4. CASE SendCommand
  BY <1>4, <1>a DEF SendCommand
<1>5. CASE ReadAck
  <2>1. CASE pc' # "done"
    BY <1>a, <2>1
  <2>2. CASE pc' = "done"
    <3>1. /\ buf # <<>> /\ buf' = Tail(buf)
          /\ UNCHANGED <<stream, inbox, alive, flash, booted>>
      BY <1>5 DEF ReadAck, targetVars
    <3>2. /\ pc = "ack" /\ Head(buf).is = "CC" /\ ~Responds(step)
          /\ step = Len(Script) /\ step' = step
      <4>1. pc = "ack"
        BY <1>5, <2>2 DEF ReadAck, NextAttempt
      <4>. QED  BY <1>5, <2>2, <4>1 DEF ReadAck, Advance
    <3>3. Late
      BY <1>0, <3>2 DEF Late
    <3>4. Stream # <<>>
      <4>1. buf \in Seq(Bytes) /\ stream \in Seq(Bytes)
        BY DEF FlasherTypeOK
      <4>. QED  BY <3>1, <4>1, ConcatEmpty DEF Stream
    <3>5. AckMeans(Stream) /\ AllGood
      BY <1>0, <3>2, <3>3, <3>4 DEF OneAtATime
    <3>6. booted /\ ~alive
      BY <1>0, <3>1, <3>2, <3>5, AckRead
    <3>7. AllGood'
      BY <3>1, <3>5 DEF AllGood
    <3>. QED  BY <3>1, <3>6, <3>7 DEF Booted
  <2>. QED  BY <2>1, <2>2
<1>6. CASE ReadResponse
  <2>1. Responds(step) /\ pc = "resp"
    BY <1>6 DEF ReadResponse, Session
  <2>2. step # Len(Script)
    BY <1>0, <2>1
  <2>3. pc' # "done"
    BY <1>6, <2>1, <2>2 DEF ReadResponse, Advance
  <2>. QED  BY <1>a, <2>3
<1>7. CASE Timeout
  BY <1>7, <1>a DEF Timeout, NextAttempt
<1>8. CASE Deliver
  BY <1>8, <1>b DEF Deliver, sessionVars, targetVars
<1>9. CASE Refuse
  BY <1>9, <1>c DEF Refuse, sessionVars
<1>10. CASE AnswerSync
  BY <1>10, <1>c DEF AnswerSync, sessionVars
<1>11. CASE Execute
  BY <1>11, <1>c DEF Execute, sessionVars
<1>12. CASE Dies
  BY <1>12, <1>c DEF Dies, sessionVars
<1>13. CASE UNCHANGED flasherVars
  BY <1>13, <1>b DEF flasherVars, sessionVars, targetVars
<1>. QED
  BY <1>1, <1>2, <1>3, <1>4, <1>5, <1>6, <1>7, <1>8, <1>9, <1>10, <1>11, <1>12, <1>13, <1>14
  DEF FlasherNext, HostStep, TargetStep

-----------------------------------------------------------------------------
(* The theorems. *)

Inv == FlasherTypeOK /\ Session /\ ChipIdLast /\ OneAtATime /\ Booted

LEMMA InvInit == FlasherInit => Inv
<1> SUFFICES ASSUME FlasherInit PROVE Inv
  OBVIOUS
<1>1. pc = "idle"
  BY DEF FlasherInit
<1>2. ~Early /\ ~Late /\ pc # "done"
  BY <1>1 DEF Early, Late
<1>3. FlasherTypeOK /\ Session
  BY TypeInit
<1>. QED  BY <1>2, <1>3 DEF Inv, ChipIdLast, OneAtATime, Booted

LEMMA InvNext == Inv /\ [FlasherNext]_flasherVars => Inv'
<1> SUFFICES ASSUME Inv, [FlasherNext]_flasherVars PROVE Inv'
  OBVIOUS
<1>1. FlasherTypeOK /\ Session /\ ChipIdLast /\ OneAtATime /\ Booted
  BY DEF Inv
<1>2. FlasherTypeOK' /\ Session'
  BY <1>1, TypeNext, SessionNext
<1>3. ChipIdLast' /\ OneAtATime' /\ Booted'
  BY <1>1, <1>2, ChipIdLastNext, OneAtATimeNext, BootedNext
<1>. QED  BY <1>2, <1>3 DEF Inv

THEOREM InductiveInvariant == FlasherSpec => []Inv
BY InvInit, InvNext, PTL DEF FlasherSpec

(* Type correctness: in particular a reader never has more orphaned reads   *)
(* than sync() has retries, and one of drain().                             *)
THEOREM TypeInvariant == FlasherSpec => []FlasherTypeOK
<1>1. Inv => FlasherTypeOK
  BY DEF Inv
<1>. QED  BY <1>1, InductiveInvariant, PTL

(* From the erasure on host and target are in step, whatever the retries of *)
(* sync() and a late answer left behind (_sendCommand(), _recvResponse() of *)
(* cc26xx-bsl.js).                                                          *)
THEOREM InStepTheorem == FlasherSpec => []InStep
<1>1. Inv => InStep
  <2> SUFFICES ASSUME Inv, pc \in {"send", "ack", "resp"}, Script[step] \notin {"ping", "chipId"}
               PROVE  /\ orphans = 0
                      /\ \A i \in 1..Len(inbox) : inbox[i] = step
                      /\ \A i \in 1..Len(buf) : buf[i].of = step
                      /\ \A i \in 1..Len(stream) : stream[i].of = step
    BY DEF InStep
  <2>0. FlasherTypeOK /\ OneAtATime
    BY DEF Inv
  <2>1. Late
    <3>1. step \in 1..Len(Script) /\ step # 1 /\ step # 2
      BY <2>0, ScriptFacts DEF FlasherTypeOK
    <3>2. step >= 3
      BY <3>1, ScriptFacts
    <3>. QED  BY <3>2 DEF Late
  <2>2. orphans = 0
    BY <2>0, <2>1 DEF OneAtATime
  <2>3. inbox = <<>> \/ inbox = <<step>>
    BY <2>0, <2>1 DEF OneAtATime
  <2>4. \A i \in 1..Len(Stream) : Stream[i].of = step
    <3>1. CASE Stream = <<>>
      BY <3>1
    <3>2. CASE pc = "ack" /\ Stream # <<>>
      BY <2>0, <2>1, <3>2 DEF OneAtATime, AckMeans
    <3>3. CASE pc = "resp"
      BY <2>0, <2>1, <3>3 DEF OneAtATime
    <3>4. CASE pc = "send"
      BY <2>0, <2>1, <3>1, <3>4 DEF OneAtATime
    <3>. QED  BY <3>1, <3>2, <3>3, <3>4
  <2>5. /\ Len(buf) \in Nat /\ Len(stream) \in Nat /\ Len(Stream) = Len(buf) + Len(stream)
        /\ \A i \in 1..Len(buf) : Stream[i] = buf[i]
        /\ \A i \in (Len(buf) + 1)..(Len(buf) + Len(stream)) : Stream[i] = stream[i - Len(buf)]
    BY <2>0, StreamFacts
  <2>6. ASSUME NEW i \in 1..Len(buf) PROVE buf[i].of = step
    <3>1. i \in 1..Len(Stream)
      BY <2>5
    <3>. QED  BY <2>4, <2>5, <3>1
  <2>7. ASSUME NEW i \in 1..Len(stream) PROVE stream[i].of = step
    <3>1. /\ Len(buf) + i \in 1..Len(Stream)
          /\ Len(buf) + i \in (Len(buf) + 1)..(Len(buf) + Len(stream))
          /\ (Len(buf) + i) - Len(buf) = i
      BY <2>5
    <3>2. Stream[Len(buf) + i] = stream[(Len(buf) + i) - Len(buf)]
      BY <2>5, <3>1
    <3>. QED  BY <2>4, <3>1, <3>2
  <2>. QED  BY <2>2, <2>3, <2>6, <2>7
<1>. QED  BY <1>1, InductiveInvariant, PTL

(* "Done" is only said of a chip that holds the image and was reset into it *)
(* (onFlash() of app.js).                                                   *)
THEOREM DoneTheorem == FlasherSpec => []DoneMeansFlashed
<1>1. Inv => DoneMeansFlashed
  BY DEF Inv, Booted, AllGood, DoneMeansFlashed
<1>. QED  BY <1>1, InductiveInvariant, PTL
=============================================================================
