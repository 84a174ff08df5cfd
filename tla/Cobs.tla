-------------------------------- MODULE Cobs --------------------------------
(***************************************************************************)
(* Consistent Overhead Byte Stuffing, as the host (bridge.py) encodes and  *)
(* the firmware (uart_bridge.c) decodes it.  A sequence of bytes becomes   *)
(* groups <<code, b1, ..., b(code-1)>> without a zero byte: a group of     *)
(* fewer than Group - 1 bytes stands for its bytes and a zero, a full one  *)
(* for its bytes alone; the zero of the last group is not part of the data. *)
(***************************************************************************)
EXTENDS Naturals, Sequences

CONSTANT Group   \* the code of a full group: 0xFF

ASSUME GroupAssumption == Group \in Nat /\ Group >= 2

(* Where the group that starts at s[i] ends: before a zero, when it is     *)
(* full, or with the data.                                                 *)
GroupEnd(s, i) ==
  CHOOSE j \in i..(Len(s) + 1) :
    /\ j - i <= Group - 1
    /\ \A k \in i..(j - 1) : s[k] # 0
    /\ j = Len(s) + 1 \/ j - i = Group - 1 \/ s[j] = 0

(* cobs_encode(): e[i] encodes what is left of s from its i-th byte. *)
Encode(s) ==
  LET e[i \in 1..(Len(s) + 1)] ==
        LET j     == GroupEnd(s, i)
            group == <<j - i + 1>> \o SubSeq(s, i, j - 1)
        IN  IF j - i = Group - 1 THEN group \o e[j]
            ELSE IF j = Len(s) + 1 THEN group
            ELSE group \o e[j + 1]
  IN  e[1]

(* cobs_decode() of bytes without a zero: d[i] decodes from the group at   *)
(* s[i].  A group that the end of the input cuts short counts as complete. *)
Decode(s) ==
  LET d[i \in 1..(Len(s) + 1)] ==
        IF i = Len(s) + 1 THEN <<>>
        ELSE LET next == i + s[i]
             IN  IF next > Len(s) THEN SubSeq(s, i + 1, Len(s))
                 ELSE SubSeq(s, i + 1, next - 1)
                        \o (IF s[i] = Group THEN <<>> ELSE <<0>>) \o d[next]
  IN  d[1]

(* The decoder gets back what went into the encoder, and the encoder's     *)
(* output never contains the delimiter.                                    *)
RoundTrip(S) ==
  \A s \in S : /\ \A k \in DOMAIN Encode(s) : Encode(s)[k] # 0
               /\ Decode(Encode(s)) = s
=============================================================================
