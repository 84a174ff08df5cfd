----------------------------- MODULE MCFirmware -----------------------------
EXTENDS Firmware

(* PING, SET_CHANNEL (two that exist, one that does not) and the filter    *)
(* switched off, whose data is zeros.                                      *)
MCPackets == {<<PING>>, <<SET_CHANNEL, 11>>, <<SET_CHANNEL, 12>>,
              <<SET_CHANNEL, 9>>, <<SET_MAC_FILTER, 1>>, <<SET_MAC_FILTER, 0>>}

MCBytes == UNION {[1..n -> 0..2] : n \in 0..5}

(* COBS loses nothing: checked for all data of up to five bytes, with      *)
(* groups of three, so that full groups, runs of zeros and a full group    *)
(* before the end or before a zero occur.  In the code packets are shorter *)
(* than a group of 0xFF.                                                   *)
ASSUME CobsRoundTrip == RoundTrip(MCBytes)
=============================================================================
